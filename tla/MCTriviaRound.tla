--------------------------- MODULE MCTriviaRound ----------------------------
(* Instances of TriviaRound for TLC.                                       *)
EXTENDS TriviaRound, TLC

\* Players without sysop access are alike.
PlayerSymmetry == Permutations(Node \ Sysops)
=============================================================================
