--------------------------- MODULE MCLedgerManager ---------------------------
(***************************************************************************)
(* A small instance of LedgerManager.  The coins g1:0 and g2:0 are there   *)
(* from the start.  Transaction a spends g1:0 and e spends g2:0, and they  *)
(* are independent of each other; b spends an output of a, and g2:0 as     *)
(* well.  The addresses o1 and o2 own the coins, and o1 is the wallet's.   *)
(***************************************************************************)
EXTENDS LedgerManager

CONSTANTS a, b, e, g1, g2, o1, o2

Coin(h) == CoinId(h, 0)
In(h, v, o) == [coin |-> Coin(h), value |-> v, owner |-> o]
Out(v, o) == [value |-> v, recipient |-> o]

MCinput == (a :> {In(g1, 2, o1)}) @@ (b :> {In(a, 1, o1), In(g2, 1, o2)})
           @@ (e :> {In(g2, 1, o2)})
MCoutput == (a :> <<Out(1, o1), Out(1, o2)>>) @@ (b :> <<Out(2, o2)>>)
            @@ (e :> <<Out(1, o1)>>)
MCauthorization == (a :> {o1}) @@ (b :> {o1, o2}) @@ (e :> {o2})
MCgenesis_utxo == (Coin(g1) :> Out(2, o1)) @@ (Coin(g2) :> Out(1, o2))
=============================================================================
