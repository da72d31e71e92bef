-------------------------- MODULE MCClientSession --------------------------
(* ClientSession on three descriptors: one for a TCP client and two for     *)
(* browsers, so that a descriptor is recycled from one use to the other.    *)
(* The symmetry is used only by the run that checks an invariant without    *)
(* fairness.                                                                *)
EXTENDS ClientSession, TLC

Symmetry == Permutations(Fds)
=============================================================================
