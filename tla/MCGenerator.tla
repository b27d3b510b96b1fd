---------------------------- MODULE MCGenerator -----------------------------
(***************************************************************************)
(* A small instance of Generator.  The wallet starts with coins of one and *)
(* two units, and every payment is of two.  Transaction a spends both      *)
(* coins and returns the change; b spends the payment of a, and d that of  *)
(* b.  Transaction c, of another node with the same key, pays the first    *)
(* coin to p.  The coins of a come before those that a spends.             *)
(***************************************************************************)
EXTENDS Generator, TLC

CONSTANTS a, b, c, d, g, o, p

MCTransaction == {a, b, c, d}
In(h, n, v) == [coin |-> CoinId(h, n), value |-> v, owner |-> o]
Out(v, r) == [value |-> v, recipient |-> r]

MCinput == (a :> {In(g, 0, 1), In(g, 1, 2)}) @@ (b :> {In(a, 0, 2)})
           @@ (c :> {In(g, 0, 1)}) @@ (d :> {In(b, 0, 2)})
MCoutput == (a :> <<Out(2, o), Out(1, o)>>) @@ (b :> <<Out(2, o)>>)
            @@ (c :> <<Out(1, p)>>) @@ (d :> <<Out(2, o)>>)
MCauthorization == [h \in MCTransaction |-> {o}]
MCgenesis_utxo == (CoinId(g, 0) :> Out(1, o)) @@ (CoinId(g, 1) :> Out(2, o))
MCcoin_key == (CoinId(a, 0) :> 1) @@ (CoinId(a, 1) :> 2) @@ (CoinId(g, 0) :> 3)
              @@ (CoinId(g, 1) :> 4) @@ (CoinId(b, 0) :> 5) @@ (CoinId(d, 0) :> 6)
              @@ (CoinId(c, 0) :> 7)
=============================================================================
