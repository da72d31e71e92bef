----------------------------- MODULE MCRxParser -----------------------------
(* A ring of 6 bytes read in chunks of up to 2: packets of 3 and 4 bytes are *)
(* cut and wrap at every position, and noise in front of one overflows.      *)
EXTENDS RxParser

MCTexts == {<<"a">>, <<"a", "b">>}
=============================================================================
