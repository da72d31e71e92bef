----------------------------- MODULE MCFwUpdate -----------------------------
(* FwUpdate with an image of two segments: a first one, whose version is     *)
(* checked and after which another is asked for, and a last one.             *)
EXTENDS FwUpdate

MCImages == {2}
=============================================================================
