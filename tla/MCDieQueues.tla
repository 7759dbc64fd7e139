---------------------------- MODULE MCDieQueues ----------------------------
(***************************************************************************)
(* Model-checking instances of DieQueues.  Zones and requests are          *)
(* interchangeable in the safety runs.                                     *)
(***************************************************************************)
EXTENDS DieQueues, TLC

QueueSymmetry == Permutations(Zones) \cup Permutations(Reqs)
=============================================================================
