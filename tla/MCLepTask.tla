------------------------------ MODULE MCLepTask ------------------------------
(* LepTask with every limit as small as the comparisons tell apart.           *)
EXTENDS LepTask
=============================================================================
