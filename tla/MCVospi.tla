------------------------------- MODULE MCVospi -------------------------------
(* Vospi with the gap of the Lepton 3.5: an image in four of twelve vsyncs.   *)
EXTENDS Vospi
=============================================================================
