---------------------------- MODULE MCSavedNets ----------------------------
(* Instance of SavedNets for TLC; the networks and the passwords are       *)
(* interchangeable.                                                        *)
EXTENDS SavedNets, TLC

Interchangeable == Permutations(Ssids) \cup Permutations(Pws)
=============================================================================
