---------------------------- MODULE MCTpmLifecycle ----------------------------
(***************************************************************************)
(* Instances of TpmLifecycle for TLC: two processes, in a directory each   *)
(* or in one.                                                              *)
(***************************************************************************)
EXTENDS TpmLifecycle, TLC

CONSTANTS w1, w2, d1, d2

PrivateDir == w1 :> d1 @@ w2 :> d2
SharedDir == w1 :> d1 @@ w2 :> d1
==============================================================================
