---------------------------- MODULE MCServerStart ----------------------------
(* Instances of ServerStart for TLC.                                       *)
EXTENDS ServerStart

\* Every client of this instance is on one node, one after the other.
OnePlace == [c \in Client |-> CHOOSE n \in Node : TRUE]
=============================================================================
