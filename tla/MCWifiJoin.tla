----------------------------- MODULE MCWifiJoin -----------------------------
(* Instance of WifiJoin for TLC.                                           *)
EXTENDS WifiJoin
=============================================================================
