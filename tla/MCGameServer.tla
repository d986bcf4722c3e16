---------------------------- MODULE MCGameServer ----------------------------
(* Instances of GameServer for TLC.                                        *)
EXTENDS GameServer, TLC

\* Every node logs in under the same name / under its own.
OneName == [n \in Node |-> "ann"]
OwnNames == [n \in Node |-> n]

\* Thread identities are only compared; node and ticker identities too where the
\* nodes are alike.
ThreadSymmetry == Permutations(Thread) \cup Permutations(Ticker)
FullSymmetry == ThreadSymmetry \cup Permutations(Node)
=============================================================================
