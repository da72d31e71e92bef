---------------------------- MODULE MCRspStream ----------------------------
(* RspStream with a stream of one image at the fastest rate and an unlimited *)
(* one with a delay.                                                         *)
EXTENDS RspStream

MCStreams == {[num |-> 1, delayed |-> FALSE], [num |-> 0, delayed |-> TRUE]}
=============================================================================
