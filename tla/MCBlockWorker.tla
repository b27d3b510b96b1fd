---------------------------- MODULE MCBlockWorker ----------------------------
(***************************************************************************)
(* A small instance of BlockWorker: b2 refers to b1, and b3, which is not  *)
(* valid, to both.                                                         *)
(***************************************************************************)
EXTENDS BlockWorker, TLC

CONSTANTS b1, b2, b3

MCdeps == (b1 :> {}) @@ (b2 :> {b1}) @@ (b3 :> {b1, b2})
=============================================================================
