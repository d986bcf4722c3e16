-------------------------------- MODULE Display --------------------------------
(***************************************************************************)
(* What the players are shown: the clue, the high scores, what a typed     *)
(* line makes everybody hear, help and wrapped texts.  These four share no *)
(* state, so a behaviour moves one of them and leaves the others where     *)
(* they begin.                                                             *)
(***************************************************************************)
EXTENDS Clue, Ranking, Commands, Screen

VARIABLE part     \* the one that moves

displayVars == <<part, clueVars, rankVars, commandVars, screenVars>>

DisplayTypeOK == ClueTypeOK /\ RankTypeOK /\ CommandsTypeOK /\ ScreenTypeOK

DisplayInit ==
    /\ part \in {"clue", "ranking", "commands", "screen"}
    /\ ClueInit /\ (part # "clue" => szAnswer = getStrings(CHOOSE line \in AnswerLines : TRUE))
    /\ RankInit /\ (part # "ranking" => ~bListSysops /\ ahead = 0)
    /\ CommandsInit /\ (part # "commands" => szAlias = [n \in Node |-> CHOOSE name \in Aliases : TRUE])
    /\ ScreenInit

MoveClue == part = "clue" /\ ClueNext /\ UNCHANGED <<part, rankVars, commandVars, screenVars>>
MoveRanking == part = "ranking" /\ RankNext /\ UNCHANGED <<part, clueVars, commandVars, screenVars>>
MoveCommands == part = "commands" /\ CommandsNext /\ UNCHANGED <<part, clueVars, rankVars, screenVars>>
MoveScreen == part = "screen" /\ ScreenNext /\ UNCHANGED <<part, clueVars, rankVars, commandVars>>

DisplayNext == MoveClue \/ MoveRanking \/ MoveCommands \/ MoveScreen

Spec == DisplayInit /\ [][DisplayNext]_displayVars
=============================================================================
