------------------------------- MODULE MCCci -------------------------------
(* Instance of Cci for TLC.                                                *)
EXTENDS Cci
=============================================================================
