---------------------------- MODULE MCServerProcess ----------------------------
(***************************************************************************)
(* Two users with one tab each, so that each is told of the other.         *)
(***************************************************************************)
EXTENDS ServerProcess

TwoUsers == [s \in Streams |-> s]
=============================================================================
