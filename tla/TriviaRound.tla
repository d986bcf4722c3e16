---------------------------- MODULE TriviaRound ----------------------------
(***************************************************************************)
(* The game that source/trivia/trivia.cpp plays on the server: question    *)
(* timer, clue numbers, skip votes, points and the settings a sysop may    *)
(* change meanwhile.  Every action is one stretch of code under the        *)
(* critical section of GameServer, so actions interleave but do not        *)
(* overlap.                                                                *)
(*                                                                         *)
(* Time is relative: elapsed stands for time(NULL) - nStartTime, the only  *)
(* form in which the code compares the two.                                *)
(***************************************************************************)
EXTENDS Integers, FiniteSets

CONSTANTS
    Node,         \* node numbers
    Sysops,       \* nodes whose user may open the sysop menu
    Frequencies,  \* values the menu accepts for nQuestionFrequency
    ClueLimits,   \* values the menu accepts for nMaxClues
    Frequency0,   \* the settings the server starts with
    ClueLimit0,
    Reloads,      \* whether a re-loaded database may have questions: a subset of BOOLEAN
    ClockSteps,   \* seconds that may pass between two actions
    MaxGap,       \* bound: seconds counted between two turns of the round ticker
    MaxElapsed,   \* bound: seconds counted since the start of a question
    MaxSkips,     \* bound: skip requests counted for one question
    MaxScore      \* bound: a user with so many points answers no more

ASSUME TriviaRoundAssumption ==
    /\ IsFiniteSet(Node)
    /\ Sysops \subseteq Node
    /\ Frequencies \subseteq Nat /\ ClueLimits \subseteq Nat
    /\ Frequency0 \in Frequencies /\ ClueLimit0 \in ClueLimits
    /\ \A f \in Frequencies, c \in ClueLimits : f \div (c + 1) > 0
    /\ \A f \in Frequencies, c \in ClueLimits : f <= MaxElapsed
    /\ Reloads \subseteq BOOLEAN
    /\ ClockSteps \subseteq Nat \ {0}
    /\ MaxGap \in Nat /\ MaxElapsed \in Nat /\ MaxSkips \in Nat /\ MaxScore \in Nat

VARIABLES
    place,               \* per node: where its player is (see Places)
    started,             \* nStartTime # 0
    elapsed,             \* time(NULL) - nStartTime
    nClueNumber,
    nSkipRequests,
    bWantedSkip,         \* the players whose flag is set
    nQuestionFrequency,
    nMaxClues,
    loaded,              \* nDatabaseSize # 0
    score,               \* points won in this session
    gap,                 \* seconds since the round ticker's last turn
    \* History, for the properties only:
    asked,               \* flips with every new question
    cluesGiven,          \* clues displayed for the current question, up to 2
    missed,              \* clue periods that went by without a turn of the ticker
                         \* since the clock of the question was last set
    steady               \* since the question was asked nobody came or went and
                         \* no database was loaded

settings == <<nQuestionFrequency, nMaxClues, loaded>>
question == <<started, elapsed, nClueNumber, nSkipRequests, bWantedSkip, asked, cluesGiven, missed>>
vars == <<place, question, settings, score, gap, steady>>

\* "login" and "menu": a thread of the node runs EnterGameThread or SysopThread;
\* "left": the exit prompt was answered with yes.  bInGame holds for "in" only.
Places == {"out", "login", "in", "menu", "left"}

TypeOK ==
    /\ place \in [Node -> Places]
    /\ started \in BOOLEAN
    /\ elapsed \in Nat
    /\ nClueNumber \in Nat
    /\ nSkipRequests \in Nat
    /\ bWantedSkip \subseteq Node
    /\ nQuestionFrequency \in Frequencies
    /\ nMaxClues \in ClueLimits
    /\ loaded \in BOOLEAN
    /\ score \in [Node -> Nat]
    /\ gap \in Nat
    /\ asked \in BOOLEAN
    /\ cluesGiven \in Nat
    /\ missed \in Nat
    /\ steady \in BOOLEAN

Init ==
    /\ place = [n \in Node |-> "out"]
    /\ started = FALSE
    /\ elapsed = 0
    /\ nClueNumber = 0
    /\ nSkipRequests = 0
    /\ bWantedSkip = {}
    /\ nQuestionFrequency = Frequency0
    /\ nMaxClues = ClueLimit0
    /\ loaded = TRUE
    /\ score = [n \in Node |-> 0]
    /\ gap = 0
    /\ asked = FALSE
    /\ cluesGiven = 0
    /\ missed = 0
    /\ steady = TRUE

-----------------------------------------------------------------------------
(* Helpers                                                                 *)

gNode == {n \in Node : place[n] # "out"}
bInGame == {n \in Node : place[n] = "in"}
nPlayersInGame == Cardinality(gNode)

nClueFrequency == nQuestionFrequency \div (nMaxClues + 1)

\* Nodes without a thread: their lines go to centralInput.
Typing == {n \in Node : place[n] \in {"in", "left"}}

move(n, where) == place' = [place EXCEPT ![n] = where]

\* With an empty database only the timer is restarted.
nextQuestion ==
    /\ started' = TRUE
    /\ elapsed' = 0
    /\ missed' = 0
    /\ IF loaded
       THEN /\ nClueNumber' = 0
            /\ nSkipRequests' = 0
            /\ bWantedSkip' = {}
            /\ asked' = ~asked
            /\ cluesGiven' = 0
            /\ steady' = TRUE
       ELSE UNCHANGED <<nClueNumber, nSkipRequests, bWantedSkip, asked, cluesGiven, steady>>

\* Mutant of pointValue: the floor of one point is missing.
pointValueUnfloored == IF nPlayersInGame < 2 THEN 1 ELSE 3 - nClueNumber

pointValue ==
    IF nPlayersInGame < 2 \/ 3 - nClueNumber < 1 THEN 1 ELSE 3 - nClueNumber

-----------------------------------------------------------------------------
(* Players come and go                                                     *)

\* IP_ENTER_GAME: addNode creates the player and launches the login thread.
Enter(n) ==
    /\ place[n] = "out"
    /\ move(n, "login")
    /\ score' = [score EXCEPT ![n] = 0]
    /\ bWantedSkip' = bWantedSkip \ {n}
    /\ steady' = FALSE
    /\ UNCHANGED <<started, elapsed, nClueNumber, nSkipRequests, asked, cluesGiven,
                   missed, settings, gap>>

\* Mutant of LoggedIn: the player is shown the question board as it is.
LoggedInUnasked(n) ==
    /\ place[n] = "login"
    /\ move(n, "in")
    /\ UNCHANGED <<question, steady, settings, score, gap>>

\* The end of EnterGameThread::run: displayQuestion asks the first question.
LoggedIn(n) ==
    /\ place[n] = "login"
    /\ move(n, "in")
    /\ IF started THEN UNCHANGED <<question, steady>> ELSE nextQuestion
    /\ UNCHANGED <<settings, score, gap>>

ConfirmExit(n) ==
    /\ place[n] \in {"in", "left"}
    /\ move(n, "left")
    /\ UNCHANGED <<question, settings, score, gap, steady>>

OpenMenu(n) ==
    /\ n \in Sysops
    /\ place[n] \in {"in", "left"}
    /\ move(n, "menu")
    /\ UNCHANGED <<question, settings, score, gap, steady>>

CloseMenu(n) ==
    /\ place[n] = "menu"
    /\ move(n, "in")
    /\ UNCHANGED <<question, settings, score, gap, steady>>

\* IP_FINISHED, from wherever the player was.  With the last player the server
\* stops: the next one finds a fresh process that reads the saved settings and
\* the same question files, or database.enc where their list was emptied.
Leave(n) ==
    /\ place[n] # "out"
    /\ move(n, "out")
    /\ IF gNode = {n}
       THEN /\ started' = FALSE
            /\ elapsed' = 0
            /\ nClueNumber' = 0
            /\ nSkipRequests' = 0
            /\ bWantedSkip' = {}
            /\ gap' = 0
            /\ asked' = asked
            /\ cluesGiven' = 0
            /\ missed' = 0
            /\ loaded' \in {loaded, TRUE}
       ELSE /\ bWantedSkip' = bWantedSkip \ {n}
            /\ UNCHANGED <<started, elapsed, nClueNumber, nSkipRequests, gap, asked,
                           cluesGiven, missed, loaded>>
    /\ steady' = FALSE
    /\ score' = [score EXCEPT ![n] = 0]
    /\ UNCHANGED <<nQuestionFrequency, nMaxClues>>

-----------------------------------------------------------------------------
(* Lines typed by players: centralInput                                    *)

\* Mutant of CorrectAnswer: the question stays after it was answered.
CorrectAnswerStays(n) ==
    /\ n \in Typing
    /\ score[n] < MaxScore
    /\ score' = [score EXCEPT ![n] = @ + pointValue]
    /\ UNCHANGED <<place, question, steady, settings, gap>>

CorrectAnswer(n) ==
    /\ n \in Typing
    /\ score[n] < MaxScore
    /\ score' = [score EXCEPT ![n] = @ + pointValue]
    /\ nextQuestion
    /\ UNCHANGED <<place, settings, gap>>

\* Mutant of SkipAlone: the clock moves, the clue number does not follow.
SkipAloneKeepsClues(n) ==
    /\ n \in Typing \ bWantedSkip
    /\ nPlayersInGame = 1
    /\ elapsed + nQuestionFrequency \div 2 <= MaxElapsed
    /\ bWantedSkip' = bWantedSkip \cup {n}
    /\ elapsed' = elapsed + nQuestionFrequency \div 2
    /\ missed' = 0
    /\ UNCHANGED <<place, started, nClueNumber, nSkipRequests, settings, score, gap, asked,
                   cluesGiven, steady>>

\* SkipCommand::doEffect and requestSkip for a player alone: half of the time
\* is taken away, and the clue number follows the clock.
SkipAlone(n) ==
    /\ n \in Typing \ bWantedSkip
    /\ nPlayersInGame = 1
    /\ elapsed + nQuestionFrequency \div 2 <= MaxElapsed
    /\ bWantedSkip' = bWantedSkip \cup {n}
    /\ elapsed' = elapsed + nQuestionFrequency \div 2
    /\ nClueNumber' = elapsed' \div nClueFrequency
    /\ missed' = 0
    /\ UNCHANGED <<place, started, nSkipRequests, settings, score, gap, asked, cluesGiven, steady>>

\* Mutant of SkipVote: a player may ask again.
SkipVoteAgain(n) ==
    /\ n \in Typing
    /\ nPlayersInGame # 1
    /\ nSkipRequests + 1 < nPlayersInGame
    /\ bWantedSkip' = bWantedSkip \cup {n}
    /\ nSkipRequests' = nSkipRequests + 1
    /\ UNCHANGED <<place, started, elapsed, nClueNumber, settings, score, gap, asked,
                   cluesGiven, missed, steady>>

\* The same among several: a vote, and the vote that completes the count.
SkipVote(n) ==
    /\ n \in Typing \ bWantedSkip
    /\ nPlayersInGame # 1
    /\ nSkipRequests + 1 < nPlayersInGame
    /\ bWantedSkip' = bWantedSkip \cup {n}
    /\ nSkipRequests' = nSkipRequests + 1
    /\ UNCHANGED <<place, started, elapsed, nClueNumber, settings, score, gap, asked,
                   cluesGiven, missed, steady>>

SkipDecided(n) ==
    /\ n \in Typing \ bWantedSkip
    /\ nPlayersInGame # 1
    /\ nSkipRequests + 1 >= nPlayersInGame
    /\ nSkipRequests < MaxSkips
    /\ IF loaded THEN nextQuestion
       ELSE /\ started' = TRUE
            /\ elapsed' = 0
            /\ missed' = 0
            /\ bWantedSkip' = bWantedSkip \cup {n}
            /\ nSkipRequests' = nSkipRequests + 1
            /\ UNCHANGED <<nClueNumber, asked, cluesGiven, steady>>
    /\ UNCHANGED <<place, settings, score, gap>>

-----------------------------------------------------------------------------
(* The sysop menu                                                          *)

SetFrequency(n, f) ==
    /\ place[n] = "menu"
    /\ nQuestionFrequency' = f
    /\ UNCHANGED <<place, question, nMaxClues, loaded, score, gap, steady>>

SetMaxClues(n, c) ==
    /\ place[n] = "menu"
    /\ nMaxClues' = c
    /\ UNCHANGED <<place, question, nQuestionFrequency, loaded, score, gap, steady>>

\* A question file is changed and initDatabase re-reads them all.
Reload(n, any) ==
    /\ place[n] = "menu"
    /\ loaded' = any
    /\ steady' = FALSE
    /\ UNCHANGED <<place, question, nQuestionFrequency, nMaxClues, score, gap>>

-----------------------------------------------------------------------------
(* Time and the round ticker                                               *)

\* The ticker sleeps a second between its turns and waits for the critical section, for
\* as long as others keep it: one that writes to a client which does not drain its queue
\* waits two seconds for every message (sendToSlot).
ClockStep(d) ==
    /\ gNode # {}
    /\ gap + d <= MaxGap
    /\ gap' = gap + d
    /\ IF started /\ elapsed + d <= MaxElapsed THEN elapsed' = elapsed + d ELSE UNCHANGED elapsed
    /\ UNCHANGED <<place, started, nClueNumber, nSkipRequests, bWantedSkip, settings, score,
                   asked, cluesGiven, missed, steady>>

\* Is a clue due e seconds into a question, after the first c clue numbers?
ClueDue(e, c) == e - nClueFrequency * c >= nClueFrequency

\* Whole clue periods since the ticker's last turn that ended without one.
Overslept == IF gap = 0 THEN 0 ELSE (gap - 1) \div nClueFrequency

\* Mutants of TimeIsUp: one second late; only while somebody is in the game.
TimeIsUpLate == elapsed > nQuestionFrequency
TimeIsUpWatched == elapsed >= nQuestionFrequency /\ bInGame # {}

TimeIsUp == elapsed >= nQuestionFrequency

\* doorRound: next question when the time is up, next clue when one is due.  The
\* clue number goes on past nMaxClues; only up to it is a clue displayed.
DoorRound ==
    /\ gNode # {}
    /\ gap' = 0
    /\ IF ~started THEN UNCHANGED <<question, steady>>
       ELSE IF TimeIsUp /\ loaded THEN nextQuestion
       ELSE LET e == IF TimeIsUp THEN 0 ELSE elapsed IN
            /\ elapsed' = e
            /\ nClueNumber' = IF ClueDue(e, nClueNumber) THEN nClueNumber + 1 ELSE nClueNumber
            /\ cluesGiven' = IF ClueDue(e, nClueNumber) /\ nClueNumber' <= nMaxClues /\ cluesGiven < 2
                             THEN cluesGiven + 1 ELSE cluesGiven
            /\ missed' = IF TimeIsUp THEN 0 ELSE missed + Overslept
            /\ UNCHANGED <<started, nSkipRequests, bWantedSkip, asked, steady>>
    /\ UNCHANGED <<place, settings, score>>

-----------------------------------------------------------------------------

PlayerStep(n) ==
    \/ Enter(n) \/ LoggedIn(n) \/ ConfirmExit(n) \/ OpenMenu(n) \/ CloseMenu(n) \/ Leave(n)
    \/ CorrectAnswer(n) \/ SkipAlone(n) \/ SkipVote(n) \/ SkipDecided(n)
    \/ \E f \in Frequencies : SetFrequency(n, f)
    \/ \E c \in ClueLimits : SetMaxClues(n, c)
    \/ \E any \in Reloads : Reload(n, any)

Next ==
    \/ \E n \in Node : PlayerStep(n)
    \/ \E d \in ClockSteps : ClockStep(d)
    \/ DoorRound

Spec == Init /\ [][Next]_vars

\* Time passes and the ticker gets its turns.
FairSpec == Spec /\ WF_vars(\E d \in ClockSteps : ClockStep(d)) /\ WF_vars(DoorRound)

-----------------------------------------------------------------------------
(* Properties                                                              *)

\* nSkipRequests and the flags in the player objects, two records of the same
\* votes kept in different places, agree while nobody comes or goes; and a full
\* count is never left standing ("it is immediately skipped").
VoteExact ==
    (steady /\ nPlayersInGame >= 2) =>
        /\ nSkipRequests = Cardinality(bWantedSkip)
        /\ nSkipRequests < nPlayersInGame

\* Whoever is in the game plays a question: the timer never stands at "no
\* question yet", in which doorRound does nothing, while a player waits.
InGameHasQuestion == bInGame # {} => started

\* The clue number never runs ahead of the clock, and a turn of the ticker leaves it
\* behind by no more than the clue periods that went by without a turn since the clock of
\* the question was set: on a server that is not held up the two agree, although a turn
\* moves the number by one only and a lone player's skip moves the start of the question.
ClueSchedule ==
    [][DoorRound /\ started =>
          LET due == elapsed' \div nClueFrequency IN nClueNumber' \in (due - missed') .. due]_vars

\* No question is left up beyond its time by a turn of the ticker, whatever the
\* sysop makes of the frequency meanwhile.
QuestionTimely == [][DoorRound /\ started => elapsed' < nQuestionFrequency]_vars

\* Points are won for a question once: whoever wins them ends it, and nobody
\* else's score moves.  Only when the sysop has left the server without questions
\* does an answered one stay, to be answered again.
WonOnce ==
    [][\A n \in Node : score'[n] > score[n] =>
          /\ asked' # asked \/ ~loaded
          /\ score'[n] - score[n] \in 1 .. 3
          /\ \A k \in Node \ {n} : score'[k] = score[k]]_vars

\* A question does not stay for ever: another one follows, or everybody leaves,
\* or a sysop has left the server without questions.
QuestionEnds ==
    \A b \in BOOLEAN : (started /\ asked = b) ~> (asked # b \/ gNode = {} \/ ~loaded)
=============================================================================
