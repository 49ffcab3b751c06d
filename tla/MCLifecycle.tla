---------------------------- MODULE MCLifecycle ----------------------------
(* Instances of Lifecycle for TLC.  Processes and clients are each           *)
(* interchangeable.                                                         *)
EXTENDS Lifecycle, TLC

Symmetry == Permutations(Pid) \cup Permutations(Client)
=============================================================================
