------------------------- MODULE TriviaRoundProofs --------------------------
(***************************************************************************)
(* Proofs about TriviaRound, for any players, settings, clock and bounds.  *)
(* The invariant IInv adds to the checked properties that a question was   *)
(* asked for whoever has been in the game, also when he is in the menu or  *)
(* on his way out, and that a database that was loaded anew is only        *)
(* trusted from the next question on.                                      *)
(***************************************************************************)
EXTENDS TriviaRound, FiniteSetTheorems, TLAPS

QuestionAsked == (\E n \in Node : place[n] \in {"in", "menu", "left"}) => started

SteadyLoaded == steady => loaded

IInv ==
    /\ TypeOK
    /\ QuestionAsked
    /\ SteadyLoaded
    /\ VoteExact

-----------------------------------------------------------------------------

\* Counting nodes.
LEMMA CountNodes ==
    ASSUME NEW S \in SUBSET Node
    PROVE  /\ IsFiniteSet(S)
           /\ Cardinality(S) \in Nat
           /\ \A n \in Node \ S : Cardinality(S \cup {n}) = Cardinality(S) + 1
<1>1. IsFiniteSet(S)
  BY FS_Subset, TriviaRoundAssumption DEF TriviaRoundAssumption
<1>2. Cardinality(S) \in Nat
  BY <1>1, FS_CardinalityType
<1>3. \A n \in Node \ S : Cardinality(S \cup {n}) = Cardinality(S) + 1
  BY <1>1, FS_AddElement
<1> QED
  BY <1>1, <1>2, <1>3

\* The number of players is a natural number.
LEMMA PlayersType == nPlayersInGame \in Nat
BY CountNodes DEF nPlayersInGame, gNode

\* A question with no votes, or none that count, fits any number of players.
LEMMA NoVotes ==
    ASSUME NEW k \in Nat, nSkipRequests' = 0, bWantedSkip' = {}, nPlayersInGame' = k
    PROVE  VoteExact'
BY FS_EmptySet DEF VoteExact

\* Frequencies are positive: a clue period is.
LEMMA FrequencyPositive == \A f \in Frequencies : f \in Nat /\ f > 0
<1>1. \A f \in Frequencies : f \div (ClueLimit0 + 1) > 0
  BY TriviaRoundAssumption DEF TriviaRoundAssumption
<1>2. Frequencies \subseteq Nat /\ ClueLimit0 \in Nat
  BY TriviaRoundAssumption DEF TriviaRoundAssumption
<1> QED
  BY <1>1, <1>2, Z3

\* Whole periods.
LEMMA QuotientType == \A a, b \in Nat : b > 0 => a \div b \in Nat
BY Z3

\* The initial state satisfies the invariant.
LEMMA InitIInv == Init => IInv
<1> SUFFICES ASSUME Init PROVE IInv
  OBVIOUS
<1>1. TypeOK
  BY TriviaRoundAssumption DEF Init, TypeOK, Places, TriviaRoundAssumption
<1>2. QuestionAsked /\ SteadyLoaded
  BY DEF Init, QuestionAsked, SteadyLoaded
<1>3. nPlayersInGame = 0
  <2>1. gNode = {}
    BY DEF Init, gNode
  <2> QED
    BY <2>1, FS_EmptySet DEF nPlayersInGame
<1> QED
  BY <1>1, <1>2, <1>3 DEF IInv, VoteExact

-----------------------------------------------------------------------------

\* nextQuestion keeps types, starts the timer and leaves exact votes.
LEMMA NextQuestionType ==
    ASSUME TypeOK, SteadyLoaded, nextQuestion
    PROVE  /\ started' = TRUE /\ elapsed' = 0
           /\ nClueNumber' \in Nat /\ nSkipRequests' \in Nat
           /\ bWantedSkip' \subseteq Node
           /\ asked' \in BOOLEAN /\ cluesGiven' \in Nat /\ missed' \in Nat /\ steady' \in BOOLEAN
           /\ steady' => loaded
<1>1. started' = TRUE /\ elapsed' = 0 /\ missed' = 0
  BY DEF nextQuestion
<1>2. CASE loaded
  <2>1. /\ nClueNumber' = 0 /\ nSkipRequests' = 0 /\ cluesGiven' = 0
        /\ bWantedSkip' = {} /\ asked' = ~asked /\ steady' = TRUE
    BY <1>2 DEF nextQuestion
  <2>2. asked' \in BOOLEAN
    BY <2>1
  <2> QED
    BY <1>1, <1>2, <2>1, <2>2
<1>3. CASE ~loaded
  <2>1. UNCHANGED <<nClueNumber, nSkipRequests, bWantedSkip, asked, cluesGiven, steady>>
    BY <1>3 DEF nextQuestion
  <2> QED
    BY <1>1, <2>1 DEF TypeOK, SteadyLoaded
<1> QED
  BY <1>2, <1>3

\* After it, with the same players and database, the votes are exact.
LEMMA NextQuestionVotes ==
    ASSUME IInv, nextQuestion, gNode' = gNode
    PROVE  VoteExact'
<1>1. nPlayersInGame' = nPlayersInGame
  BY DEF nPlayersInGame
<1>2. CASE loaded
  BY <1>1, <1>2, NoVotes, PlayersType DEF nextQuestion
<1>3. CASE ~loaded
  BY <1>1, <1>3 DEF nextQuestion, IInv, VoteExact
<1> QED
  BY <1>2, <1>3

\* The moves of a player inside the game leave the set of nodes alone.
LEMMA MoveInside ==
    ASSUME TypeOK, NEW n \in Node, NEW where \in Places,
           place[n] # "out", where # "out", move(n, where)
    PROVE  /\ place' \in [Node -> Places]
           /\ gNode' = gNode
           /\ \A k \in Node : place'[k] = IF k = n THEN where ELSE place[k]
<1>1. place' \in [Node -> Places]
  BY DEF TypeOK, move
<1>2. \A k \in Node : place'[k] = IF k = n THEN where ELSE place[k]
  BY DEF TypeOK, move
<1>3. gNode' = gNode
  BY <1>2 DEF gNode
<1> QED
  BY <1>1, <1>2, <1>3

\* An action that leaves question and players in place keeps the invariant.
LEMMA VotesUntouched ==
    ASSUME VoteExact, gNode' = gNode,
           UNCHANGED <<nSkipRequests, bWantedSkip>>, steady' => steady
    PROVE  VoteExact'
BY DEF VoteExact, nPlayersInGame

-----------------------------------------------------------------------------
(* One lemma per kind of step                                              *)

\* A player who comes or goes makes the question unsteady.
LEMMA EnterIInv ==
    ASSUME IInv, NEW n \in Node, Enter(n)
    PROVE  IInv'
<1>1. place' \in [Node -> Places] /\ score' \in [Node -> Nat] /\ bWantedSkip' \subseteq Node
  BY DEF IInv, TypeOK, Enter, move, Places
<1>2. TypeOK'
  BY <1>1 DEF IInv, TypeOK, Enter, settings
<1>3. QuestionAsked'
  BY DEF IInv, QuestionAsked, TypeOK, Enter, move
<1> QED
  BY <1>2, <1>3 DEF IInv, SteadyLoaded, VoteExact, Enter

LEMMA LeaveIInv ==
    ASSUME IInv, NEW n \in Node, Leave(n)
    PROVE  IInv'
<1>1. place' = [place EXCEPT ![n] = "out"] /\ place' \in [Node -> Places]
  BY DEF IInv, TypeOK, Leave, move, Places
<1>2. score' \in [Node -> Nat]
  BY DEF IInv, TypeOK, Leave
<1>3. /\ steady' = FALSE
      /\ nQuestionFrequency' = nQuestionFrequency /\ nMaxClues' = nMaxClues
  BY DEF Leave
<1>4. CASE gNode = {n}
  <2>1. /\ started' = FALSE /\ elapsed' = 0 /\ nClueNumber' = 0 /\ nSkipRequests' = 0
        /\ bWantedSkip' = {} /\ gap' = 0 /\ asked' = asked /\ cluesGiven' = 0 /\ missed' = 0
        /\ loaded' \in {loaded, TRUE}
    BY <1>4 DEF Leave
  <2>2. loaded' \in BOOLEAN
    BY <2>1 DEF IInv, TypeOK
  <2>3. TypeOK'
    BY <1>1, <1>2, <1>3, <2>1, <2>2 DEF IInv, TypeOK
  <2>4. \A k \in Node : place'[k] = "out"
    BY <1>1, <1>4 DEF gNode, IInv, TypeOK
  <2> QED
    BY <1>3, <2>3, <2>4 DEF IInv, QuestionAsked, SteadyLoaded, VoteExact
<1>5. CASE gNode # {n}
  <2>1. /\ bWantedSkip' = bWantedSkip \ {n}
        /\ UNCHANGED <<started, elapsed, nClueNumber, nSkipRequests, gap, asked,
                       cluesGiven, missed, loaded>>
    BY <1>5 DEF Leave
  <2>2. TypeOK'
    BY <1>1, <1>2, <1>3, <2>1 DEF IInv, TypeOK
  <2>3. QuestionAsked'
    BY <1>1, <2>1 DEF IInv, TypeOK, QuestionAsked
  <2> QED
    BY <1>3, <2>2, <2>3 DEF IInv, SteadyLoaded, VoteExact
<1> QED
  BY <1>4, <1>5

\* A player who has logged in has a question: the first one is asked for him.
LEMMA LoggedInIInv ==
    ASSUME IInv, NEW n \in Node, LoggedIn(n)
    PROVE  IInv'
<1>1. place' \in [Node -> Places] /\ gNode' = gNode
  BY MoveInside DEF IInv, LoggedIn, Places
<1>2. UNCHANGED <<nQuestionFrequency, nMaxClues, loaded, score, gap>>
  BY DEF LoggedIn, settings
<1>3. CASE started
  <2>1. UNCHANGED <<started, elapsed, nClueNumber, nSkipRequests, bWantedSkip, asked,
                    cluesGiven, missed, steady>>
    BY <1>3 DEF LoggedIn, question
  <2>2. TypeOK'
    BY <1>1, <1>2, <2>1 DEF IInv, TypeOK
  <2>3. VoteExact'
    BY <1>1, <2>1, VotesUntouched DEF IInv
  <2> QED
    BY <1>2, <1>3, <2>1, <2>2, <2>3 DEF IInv, QuestionAsked, SteadyLoaded
<1>4. CASE ~started
  <2>1. nextQuestion
    BY <1>4 DEF LoggedIn
  <2>2. TypeOK' /\ started' /\ SteadyLoaded'
    <3>1. /\ started' = TRUE /\ elapsed' = 0
          /\ nClueNumber' \in Nat /\ nSkipRequests' \in Nat
          /\ bWantedSkip' \subseteq Node
          /\ asked' \in BOOLEAN /\ cluesGiven' \in Nat /\ missed' \in Nat /\ steady' \in BOOLEAN
          /\ steady' => loaded
      BY <2>1, NextQuestionType DEF IInv
    <3> QED
      BY <1>1, <1>2, <3>1 DEF IInv, TypeOK, SteadyLoaded
  <2>3. VoteExact'
    BY <1>1, <2>1, NextQuestionVotes
  <2> QED
    BY <2>2, <2>3 DEF IInv, QuestionAsked
<1> QED
  BY <1>3, <1>4

\* The exit prompt and the menu only move the player.
LEMMA MoveIInv ==
    ASSUME IInv, NEW n \in Node, ConfirmExit(n) \/ OpenMenu(n) \/ CloseMenu(n)
    PROVE  IInv'
<1>1. PICK where \in {"left", "menu", "in"} : move(n, where)
  BY DEF ConfirmExit, OpenMenu, CloseMenu
<1>2. place[n] \in {"in", "left", "menu"}
  BY DEF ConfirmExit, OpenMenu, CloseMenu
<1>3. UNCHANGED <<started, elapsed, nClueNumber, nSkipRequests, bWantedSkip, asked,
                  cluesGiven, missed, nQuestionFrequency, nMaxClues, loaded, score, gap, steady>>
  BY DEF ConfirmExit, OpenMenu, CloseMenu, question, settings
<1>4. place' \in [Node -> Places] /\ gNode' = gNode
  BY <1>1, <1>2, MoveInside DEF IInv, Places
<1>5. TypeOK'
  BY <1>3, <1>4 DEF IInv, TypeOK
<1>6. started'
  BY <1>2, <1>3 DEF IInv, QuestionAsked
<1>7. VoteExact'
  BY <1>3, <1>4, VotesUntouched DEF IInv
<1> QED
  BY <1>3, <1>5, <1>6, <1>7 DEF IInv, QuestionAsked, SteadyLoaded

\* Points are natural numbers, between 1 and 3.
LEMMA PointValueType ==
    ASSUME TypeOK
    PROVE  pointValue \in 1 .. 3
BY PlayersType DEF TypeOK, pointValue

\* Typing players are in the game or leaving it: they have a question.
LEMMA TypingAsked ==
    ASSUME IInv, NEW n \in Typing
    PROVE  started /\ n \in gNode
BY DEF IInv, QuestionAsked, Typing, gNode

\* An answer asks the next question.
LEMMA AnswerIInv ==
    ASSUME IInv, NEW n \in Node, CorrectAnswer(n)
    PROVE  IInv'
<1>1. UNCHANGED <<place, nQuestionFrequency, nMaxClues, loaded, gap>>
  BY DEF CorrectAnswer, settings
<1>2. score' \in [Node -> Nat]
  <2>1. score[n] + pointValue \in Nat
    BY PointValueType DEF IInv, TypeOK
  <2> QED
    BY <2>1 DEF CorrectAnswer, IInv, TypeOK
<1>3. nextQuestion
  BY DEF CorrectAnswer
<1>4. /\ started' = TRUE /\ elapsed' = 0
      /\ nClueNumber' \in Nat /\ nSkipRequests' \in Nat
      /\ bWantedSkip' \subseteq Node
      /\ asked' \in BOOLEAN /\ cluesGiven' \in Nat /\ missed' \in Nat /\ steady' \in BOOLEAN
      /\ steady' => loaded
  BY <1>3, NextQuestionType DEF IInv
<1>5. VoteExact'
  BY <1>1, <1>3, NextQuestionVotes DEF gNode
<1> QED
  BY <1>1, <1>2, <1>4, <1>5 DEF IInv, TypeOK, QuestionAsked, SteadyLoaded

\* The skip of a player alone moves the clock; among fewer than two players no
\* votes are counted.
LEMMA SkipAloneIInv ==
    ASSUME IInv, NEW n \in Node, SkipAlone(n)
    PROVE  IInv'
<1>1. /\ UNCHANGED <<place, started, nSkipRequests, nQuestionFrequency, nMaxClues, loaded,
                     score, gap, asked, cluesGiven, steady>>
      /\ missed' = 0
  BY DEF SkipAlone, settings
<1>2. nQuestionFrequency \in Nat /\ nMaxClues \in Nat /\ nClueFrequency \in Nat
      /\ nClueFrequency > 0
  <2>1. nQuestionFrequency \in Nat /\ nMaxClues \in Nat
    BY TriviaRoundAssumption DEF IInv, TypeOK, TriviaRoundAssumption
  <2>2. nQuestionFrequency \div (nMaxClues + 1) > 0
    BY TriviaRoundAssumption DEF IInv, TypeOK, TriviaRoundAssumption
  <2> QED
    BY <2>1, <2>2 DEF nClueFrequency
<1>3. elapsed' \in Nat
  <2>1. nQuestionFrequency \div 2 \in Nat
    BY <1>2, Z3
  <2> QED
    BY <2>1 DEF SkipAlone, IInv, TypeOK
<1>4. nClueNumber' \in Nat
  <2>1. nClueNumber' = elapsed' \div nClueFrequency
    BY DEF SkipAlone
  <2> QED
    BY <1>2, <1>3, <2>1, QuotientType
<1>5. bWantedSkip' \subseteq Node
  BY DEF SkipAlone, IInv, TypeOK
<1>6. TypeOK'
  BY <1>1, <1>3, <1>4, <1>5 DEF IInv, TypeOK
<1>7. nPlayersInGame' = 1
  BY <1>1 DEF SkipAlone, nPlayersInGame, gNode
<1> QED
  BY <1>1, <1>6, <1>7 DEF IInv, QuestionAsked, SteadyLoaded, VoteExact

\* A vote raises the count and sets one more flag.
LEMMA SkipVoteIInv ==
    ASSUME IInv, NEW n \in Node, SkipVote(n)
    PROVE  IInv'
<1>1. UNCHANGED <<place, started, elapsed, nClueNumber, nQuestionFrequency, nMaxClues,
                  loaded, score, gap, asked, cluesGiven, missed, steady>>
  BY DEF SkipVote, settings
<1>2. nSkipRequests' = nSkipRequests + 1 /\ nSkipRequests \in Nat
  BY DEF SkipVote, IInv, TypeOK
<1>3. bWantedSkip' = bWantedSkip \cup {n} /\ n \in Node \ bWantedSkip
      /\ bWantedSkip \subseteq Node
  BY DEF SkipVote, IInv, TypeOK
<1>4. Cardinality(bWantedSkip') = Cardinality(bWantedSkip) + 1
  BY <1>3, CountNodes
<1>5. nPlayersInGame' = nPlayersInGame /\ nSkipRequests' < nPlayersInGame
  BY <1>1, <1>2 DEF SkipVote, nPlayersInGame, gNode
<1>6. TypeOK'
  BY <1>1, <1>2, <1>3 DEF IInv, TypeOK
<1>7. VoteExact'
  BY <1>1, <1>2, <1>4, <1>5 DEF IInv, VoteExact
<1> QED
  BY <1>1, <1>6, <1>7 DEF IInv, QuestionAsked, SteadyLoaded

\* The vote that completes the count asks the next question; without questions
\* the votes pile up, but then the question is not steady.
LEMMA SkipDecidedIInv ==
    ASSUME IInv, NEW n \in Node, SkipDecided(n)
    PROVE  IInv'
<1>1. UNCHANGED <<place, nQuestionFrequency, nMaxClues, loaded, score, gap>>
  BY DEF SkipDecided, settings
<1>2. CASE loaded
  <2>1. nextQuestion
    BY <1>2 DEF SkipDecided
  <2>2. /\ started' = TRUE /\ elapsed' = 0
        /\ nClueNumber' \in Nat /\ nSkipRequests' \in Nat
        /\ bWantedSkip' \subseteq Node
        /\ asked' \in BOOLEAN /\ cluesGiven' \in Nat /\ missed' \in Nat /\ steady' \in BOOLEAN
        /\ steady' => loaded
    BY <2>1, NextQuestionType DEF IInv
  <2>3. VoteExact'
    BY <1>1, <2>1, NextQuestionVotes DEF gNode
  <2> QED
    BY <1>1, <2>2, <2>3 DEF IInv, TypeOK, QuestionAsked, SteadyLoaded
<1>3. CASE ~loaded
  <2>1. /\ started' = TRUE /\ elapsed' = 0 /\ missed' = 0
        /\ bWantedSkip' = bWantedSkip \cup {n}
        /\ nSkipRequests' = nSkipRequests + 1
        /\ UNCHANGED <<nClueNumber, asked, cluesGiven, steady>>
    BY <1>3 DEF SkipDecided
  <2>2. ~steady'
    BY <1>3, <2>1 DEF IInv, SteadyLoaded
  <2>3. TypeOK'
    BY <1>1, <2>1 DEF IInv, TypeOK
  <2> QED
    BY <2>1, <2>2, <2>3 DEF IInv, QuestionAsked, SteadyLoaded, VoteExact
<1> QED
  BY <1>2, <1>3

\* What a sysop sets is of the right type; votes are left alone.
LEMMA MenuIInv ==
    ASSUME IInv, NEW n \in Node,
           \/ \E f \in Frequencies : SetFrequency(n, f)
           \/ \E c \in ClueLimits : SetMaxClues(n, c)
           \/ \E any \in Reloads : Reload(n, any)
    PROVE  IInv'
<1>1. /\ nQuestionFrequency' \in Frequencies /\ nMaxClues' \in ClueLimits
      /\ loaded' \in BOOLEAN
  BY TriviaRoundAssumption
     DEF SetFrequency, SetMaxClues, Reload, IInv, TypeOK, TriviaRoundAssumption
<1>2. UNCHANGED <<place, started, elapsed, nClueNumber, nSkipRequests, bWantedSkip, asked,
                  cluesGiven, missed, score, gap>>
  BY DEF SetFrequency, SetMaxClues, Reload, question
<1>3. steady' = FALSE \/ (steady' = steady /\ loaded' = loaded)
  BY DEF SetFrequency, SetMaxClues, Reload
<1>4. TypeOK'
  BY <1>1, <1>2, <1>3 DEF IInv, TypeOK
<1>5. VoteExact'
  BY <1>2, <1>3, VotesUntouched DEF IInv, gNode
<1> QED
  BY <1>2, <1>3, <1>4, <1>5 DEF IInv, QuestionAsked, SteadyLoaded

\* The clock.
LEMMA ClockIInv ==
    ASSUME IInv, NEW d \in ClockSteps, ClockStep(d)
    PROVE  IInv'
<1>1. d \in Nat
  BY TriviaRoundAssumption DEF TriviaRoundAssumption
<1>2. UNCHANGED <<place, started, nClueNumber, nSkipRequests, bWantedSkip,
                  nQuestionFrequency, nMaxClues, loaded, score, asked, cluesGiven, missed, steady>>
  BY DEF ClockStep, settings
<1>3. elapsed' \in Nat /\ gap' \in Nat
  BY <1>1 DEF ClockStep, IInv, TypeOK
<1>4. TypeOK'
  BY <1>2, <1>3 DEF IInv, TypeOK
<1>5. VoteExact'
  BY <1>2, VotesUntouched DEF IInv, gNode
<1> QED
  BY <1>2, <1>4, <1>5 DEF IInv, QuestionAsked, SteadyLoaded

\* A clue period is positive, and the periods without a turn are a number of them.
LEMMA PeriodType ==
    ASSUME TypeOK
    PROVE  nClueFrequency \in Nat /\ nClueFrequency > 0
<1>1. nQuestionFrequency \in Frequencies /\ nMaxClues \in ClueLimits
  BY DEF TypeOK
<1>2. nClueFrequency > 0
  BY <1>1, TriviaRoundAssumption DEF TriviaRoundAssumption, nClueFrequency
<1>3. nQuestionFrequency \in Nat /\ nMaxClues + 1 \in Nat /\ nMaxClues + 1 > 0
  BY <1>1, TriviaRoundAssumption DEF TriviaRoundAssumption
<1>4. nClueFrequency \in Nat
  BY <1>3, QuotientType DEF nClueFrequency
<1> QED
  BY <1>2, <1>4

LEMMA OversleptType ==
    ASSUME TypeOK
    PROVE  Overslept \in Nat
<1>1. nClueFrequency \in Nat /\ nClueFrequency > 0 /\ gap \in Nat
  BY PeriodType DEF TypeOK
<1>2. gap # 0 => gap - 1 \in Nat
  BY <1>1
<1> QED
  BY <1>1, <1>2, QuotientType DEF Overslept

\* A turn of the round ticker.
LEMMA DoorRoundIInv ==
    ASSUME IInv, DoorRound
    PROVE  IInv'
<1>1. UNCHANGED <<place, nQuestionFrequency, nMaxClues, loaded, score>> /\ gap' = 0
  BY DEF DoorRound, settings
<1>2. CASE ~started
  <2>1. UNCHANGED <<started, elapsed, nClueNumber, nSkipRequests, bWantedSkip, asked,
                    cluesGiven, missed, steady>>
    BY <1>2 DEF DoorRound, question
  <2>2. TypeOK'
    BY <1>1, <2>1 DEF IInv, TypeOK
  <2>3. VoteExact'
    BY <1>1, <2>1, VotesUntouched DEF IInv, gNode
  <2> QED
    BY <1>1, <2>1, <2>2, <2>3 DEF IInv, QuestionAsked, SteadyLoaded
<1>3. CASE started /\ TimeIsUp /\ loaded
  <2>1. nextQuestion
    BY <1>3 DEF DoorRound
  <2>2. /\ started' = TRUE /\ elapsed' = 0
        /\ nClueNumber' \in Nat /\ nSkipRequests' \in Nat
        /\ bWantedSkip' \subseteq Node
        /\ asked' \in BOOLEAN /\ cluesGiven' \in Nat /\ missed' \in Nat /\ steady' \in BOOLEAN
        /\ steady' => loaded
    BY <2>1, NextQuestionType DEF IInv
  <2>3. VoteExact'
    BY <1>1, <2>1, NextQuestionVotes DEF gNode
  <2> QED
    BY <1>1, <2>2, <2>3 DEF IInv, TypeOK, QuestionAsked, SteadyLoaded
<1>4. CASE started /\ ~(TimeIsUp /\ loaded)
  <2>1. /\ elapsed' = IF TimeIsUp THEN 0 ELSE elapsed
        /\ nClueNumber' \in {nClueNumber, nClueNumber + 1}
        /\ cluesGiven' \in {cluesGiven, cluesGiven + 1}
        /\ missed' = IF TimeIsUp THEN 0 ELSE missed + Overslept
        /\ UNCHANGED <<started, nSkipRequests, bWantedSkip, asked, steady>>
    BY <1>4 DEF DoorRound
  <2>2. TypeOK'
    <3>1. Overslept \in Nat
      BY OversleptType DEF IInv
    <3> QED
      BY <1>1, <2>1, <3>1 DEF IInv, TypeOK
  <2>3. VoteExact'
    BY <1>1, <2>1, VotesUntouched DEF IInv, gNode
  <2> QED
    BY <1>1, <2>1, <2>2, <2>3 DEF IInv, QuestionAsked, SteadyLoaded
<1> QED
  BY <1>2, <1>3, <1>4

\* Every step keeps the invariant.
LEMMA NextIInv == IInv /\ [Next]_vars => IInv'
<1> SUFFICES ASSUME IInv, [Next]_vars PROVE IInv'
  OBVIOUS
<1>1. ASSUME NEW n \in Node, PlayerStep(n)
      PROVE  IInv'
  BY <1>1, EnterIInv, LoggedInIInv, MoveIInv, LeaveIInv, AnswerIInv, SkipAloneIInv,
     SkipVoteIInv, SkipDecidedIInv, MenuIInv DEF PlayerStep
<1>2. ASSUME NEW d \in ClockSteps, ClockStep(d)
      PROVE  IInv'
  BY <1>2, ClockIInv
<1>3. CASE DoorRound
  BY <1>3, DoorRoundIInv
<1>4. CASE UNCHANGED vars
  <2>1. TypeOK'
    BY <1>4 DEF vars, question, settings, IInv, TypeOK
  <2>2. VoteExact'
    BY <1>4, VotesUntouched DEF vars, question, IInv, gNode
  <2> QED
    BY <1>4, <2>1, <2>2 DEF vars, question, settings, IInv, QuestionAsked, SteadyLoaded
<1> QED
  BY <1>1, <1>2, <1>3, <1>4 DEF Next

\* Every turn of the ticker leaves a question that is within its time.
LEMMA DoorRoundTimely ==
    ASSUME IInv, DoorRound, started
    PROVE  elapsed' < nQuestionFrequency
<1>1. nQuestionFrequency > 0 /\ nQuestionFrequency \in Nat /\ elapsed \in Nat
  BY FrequencyPositive DEF IInv, TypeOK
<1>2. CASE TimeIsUp
  <2>1. elapsed' = 0
    BY <1>2 DEF DoorRound, nextQuestion
  <2> QED
    BY <1>1, <2>1
<1>3. CASE ~TimeIsUp
  <2>1. elapsed' = elapsed
    BY <1>3 DEF DoorRound
  <2> QED
    BY <1>1, <1>3, <2>1 DEF TimeIsUp
<1> QED
  BY <1>2, <1>3

\* Only an answer wins points, and it ends the question.
LEMMA OneWinner ==
    ASSUME IInv, Next, NEW n \in Node, score'[n] > score[n]
    PROVE  /\ asked' # asked \/ ~loaded
           /\ score'[n] - score[n] \in 1 .. 3
           /\ \A k \in Node \ {n} : score'[k] = score[k]
<1>1. score \in [Node -> Nat]
  BY DEF IInv, TypeOK
<1>2. ASSUME NEW k \in Node, Enter(k) \/ Leave(k)
      PROVE  FALSE
  <2>1. score' = [score EXCEPT ![k] = 0]
    BY <1>2 DEF Enter, Leave
  <2>2. score'[n] = 0 \/ score'[n] = score[n]
    BY <1>1, <2>1
  <2> QED
    BY <1>1, <2>2
<1>3. CASE score' = score
  BY <1>1, <1>3
<1>4. ASSUME NEW k \in Node, PlayerStep(k)
      PROVE  (Enter(k) \/ Leave(k)) \/ score' = score \/ CorrectAnswer(k)
  BY <1>4
     DEF PlayerStep, LoggedIn, ConfirmExit, OpenMenu, CloseMenu, SkipAlone, SkipVote,
         SkipDecided, SetFrequency, SetMaxClues, Reload
<1>5. PICK k \in Node : CorrectAnswer(k)
  BY <1>2, <1>3, <1>4, <1>1 DEF Next, ClockStep, DoorRound
<1>6. score' = [score EXCEPT ![k] = @ + pointValue]
  BY <1>5 DEF CorrectAnswer
<1>7. pointValue \in 1 .. 3
  BY PointValueType DEF IInv
<1>8. k = n
  BY <1>1, <1>6
<1>9. score'[n] = score[n] + pointValue /\ score[n] \in Nat
  BY <1>1, <1>6, <1>8
<1>10. \A j \in Node \ {n} : score'[j] = score[j]
  BY <1>1, <1>6, <1>8
<1>11. asked' # asked \/ ~loaded
  <2>1. loaded => asked' = ~asked
    BY <1>5 DEF CorrectAnswer, nextQuestion
  <2> QED
    BY <2>1 DEF IInv, TypeOK
<1> QED
  BY <1>7, <1>9, <1>10, <1>11

-----------------------------------------------------------------------------

\* The invariant holds for any players, settings, clock steps and bounds.
THEOREM RoundInvariant == Spec => []IInv
BY InitIInv, NextIInv, PTL DEF Spec

\* Every reachable state is well typed.
THEOREM RoundType == Spec => []TypeOK
<1>1. IInv => TypeOK
  BY DEF IInv
<1> QED
  BY <1>1, RoundInvariant, PTL

\* nSkipRequests (trivia.cpp:680) counts the bWantedSkip flags (commands.cpp:112)
\* while the players stay, and a full count is never left standing.
THEOREM VotesExact == Spec => []VoteExact
<1>1. IInv => VoteExact
  BY DEF IInv
<1> QED
  BY <1>1, RoundInvariant, PTL

\* doorRound's early return (trivia.cpp:309) never applies to a player in the game.
THEOREM PlayersHaveQuestion == Spec => []InGameHasQuestion
<1>1. IInv => InGameHasQuestion
  BY DEF IInv, QuestionAsked, InGameHasQuestion, bInGame
<1> QED
  BY <1>1, RoundInvariant, PTL

\* No turn of the ticker (trivia.cpp:316-318) leaves a question up beyond its time,
\* for any frequencies and whatever a sysop changes.
THEOREM QuestionsTimely == Spec => QuestionTimely
<1>1. IInv /\ [Next]_vars => [DoorRound /\ started => elapsed' < nQuestionFrequency]_vars
  BY DoorRoundTimely
<1> QED
  BY <1>1, RoundInvariant, PTL DEF Spec, QuestionTimely

\* A question is won once, by one player, for one to three points (trivia.cpp:251-262).
THEOREM QuestionsWonOnce == Spec => WonOnce
<1> DEFINE Won == \A n \in Node : score'[n] > score[n] =>
                     /\ asked' # asked \/ ~loaded
                     /\ score'[n] - score[n] \in 1 .. 3
                     /\ \A k \in Node \ {n} : score'[k] = score[k]
<1>1. IInv /\ [Next]_vars => [Won]_vars
  BY OneWinner
<1>2. WonOnce <=> [][Won]_vars
  BY DEF WonOnce
<1> HIDE DEF Won
<1> QED
  BY <1>1, <1>2, RoundInvariant, PTL DEF Spec

-----------------------------------------------------------------------------
(* Clues by the clock, on a server whose settings nobody changes           *)

\* Without sysops nobody opens the menu, and the database stays loaded.
NoMenu == loaded /\ \A n \in Node : place[n] # "menu"

\* The clue number is never ahead of the clock; it may lag behind by the periods that
\* went by without a turn of the ticker, by what has passed since its last turn, and by
\* less than another period.
ClueOnTime ==
    started => /\ nClueFrequency * nClueNumber <= elapsed
               /\ elapsed < nClueFrequency * (nClueNumber + missed) + nClueFrequency + gap

ClockInv == NoMenu /\ ClueOnTime

\* What a quotient is.
LEMMA QuotientBounds ==
    \A x, f \in Nat : f > 0 => f * (x \div f) <= x /\ x < f * (x \div f) + f
BY Z3

LEMMA ProductType == \A a, b \in Nat : a * b \in Nat
BY Z3

LEMMA ProductMonotone ==
    ASSUME NEW f \in Nat, f > 0, NEW a \in Nat, NEW b \in Nat, a < b
    PROVE  f * a + f <= f * b
<1>1. PICK d \in Nat : b = a + 1 + d
  <2>1. b - a - 1 \in Nat
    OBVIOUS
  <2> QED BY <2>1
<1>2. f * b = f * a + f + f * d
  BY <1>1, Z3
<1>3. f * d >= 0
  BY Z3
<1> QED BY <1>2, <1>3, Z3

\* A number that counts a period at a time and is m periods late at most.
LEMMA LagBound ==
    ASSUME NEW f \in Nat, f > 0, NEW x \in Nat, NEW n \in Nat, NEW m \in Nat,
           f * n <= x, x < f * (n + m) + f
    PROVE  n \in ((x \div f) - m) .. (x \div f)
<1> DEFINE p == x \div f
<1>1. p \in Nat
  BY Z3
<1>2. f * p <= x /\ x < f * p + f
  BY QuotientBounds
<1> HIDE DEF p
<1>3. ~(p < n)
  BY <1>1, <1>2, ProductMonotone, Z3
<1>4. ~(n + m < p)
  <2> DEFINE k == n + m
  <2>1. k \in Nat /\ x < f * k + f
    OBVIOUS
  <2> HIDE DEF k
  <2>2. ~(k < p)
    BY <1>1, <1>2, <2>1, ProductMonotone, Z3
  <2> QED BY <2>2 DEF k
<1> QED BY <1>1, <1>3, <1>4 DEF p

\* The periods counted as missed cover the ticker's absence, but for the last of them.
LEMMA OversleptCovers ==
    ASSUME TypeOK
    PROVE  gap <= nClueFrequency * Overslept + nClueFrequency
<1>1. nClueFrequency \in Nat /\ nClueFrequency > 0 /\ gap \in Nat /\ Overslept \in Nat
  BY PeriodType, OversleptType DEF TypeOK
<1>2. nClueFrequency * Overslept \in Nat
  BY <1>1, ProductType
<1>3. CASE gap = 0
  BY <1>1, <1>2, <1>3
<1>4. CASE gap # 0
  <2>1. gap - 1 \in Nat /\ Overslept = (gap - 1) \div nClueFrequency
    BY <1>1, <1>4 DEF Overslept
  <2> DEFINE x == gap - 1
  <2>2. x \in Nat /\ gap = x + 1
    BY <1>1, <2>1
  <2> HIDE DEF x
  <2>3. x < nClueFrequency * Overslept + nClueFrequency
    BY <1>1, <2>1, <2>2, QuotientBounds DEF x
  <2> QED BY <1>1, <1>2, <2>2, <2>3
<1> QED
  BY <1>3, <1>4

\* No step changes the settings.
LEMMA NoMenuStep ==
    ASSUME Sysops = {}, TypeOK, NoMenu, [Next]_vars
    PROVE  NoMenu' /\ nClueFrequency' = nClueFrequency
<1>1. UNCHANGED <<nQuestionFrequency, nMaxClues>>
  <2>1. ASSUME NEW n \in Node, PlayerStep(n)
        PROVE  UNCHANGED <<nQuestionFrequency, nMaxClues>>
    BY <2>1 DEF PlayerStep, Enter, LoggedIn, ConfirmExit, OpenMenu, CloseMenu, Leave, CorrectAnswer,
                SkipAlone, SkipVote, SkipDecided, SetFrequency, SetMaxClues, Reload, settings, NoMenu
  <2> QED
    BY <2>1 DEF Next, ClockStep, DoorRound, vars, settings
<1>2. loaded'
  <2>1. ASSUME NEW n \in Node, PlayerStep(n)
        PROVE  loaded'
    BY <2>1 DEF PlayerStep, Enter, LoggedIn, ConfirmExit, OpenMenu, CloseMenu, Leave, CorrectAnswer,
                SkipAlone, SkipVote, SkipDecided, SetFrequency, SetMaxClues, Reload, settings, NoMenu
  <2> QED
    BY <2>1 DEF Next, ClockStep, DoorRound, vars, settings, NoMenu
<1>3. \A n \in Node : place'[n] # "menu"
  <2>1. ASSUME NEW n \in Node, PlayerStep(n)
        PROVE  place' = place \/ \E where \in Places \ {"menu"} : move(n, where)
    BY <2>1 DEF PlayerStep, Enter, LoggedIn, ConfirmExit, OpenMenu, CloseMenu, Leave, CorrectAnswer,
                SkipAlone, SkipVote, SkipDecided, SetFrequency, SetMaxClues, Reload, NoMenu, Places
  <2>2. place' = place \/ \E n \in Node, where \in Places \ {"menu"} : move(n, where)
    BY <2>1 DEF Next, ClockStep, DoorRound, vars
  <2> QED
    BY <2>2 DEF NoMenu, TypeOK, move
<1> QED
  BY <1>1, <1>2, <1>3 DEF NoMenu, nClueFrequency

\* Where number and clock agree again, no delay matters.
LEMMA OnTimeAgain ==
    ASSUME NEW f \in Nat, f > 0, NEW x \in Nat, NEW n \in Nat, NEW g \in Nat,
           nClueFrequency' = f, elapsed' = x, nClueNumber' = n, missed' = 0, gap' = g,
           f * n <= x, x < f * n + f
    PROVE  ClueOnTime'
<1>1. n + 0 = n
  OBVIOUS
<1> DEFINE a == f * n
<1>2. a \in Nat /\ a <= x /\ x < a + f
  BY ProductType
<1>3. f * (n + 0) = a
  BY <1>1
<1> HIDE DEF a
<1>4. x < a + f + g
  BY <1>2
<1>5. f * n = a
  BY DEF a
<1> QED
  BY <1>2, <1>3, <1>4, <1>5 DEF ClueOnTime

\* A new question starts the clock and the clues together.
LEMMA NextQuestionOnTime ==
    ASSUME TypeOK, loaded, nextQuestion, nClueFrequency' = nClueFrequency, gap' \in Nat
    PROVE  ClueOnTime'
<1>1. elapsed' = 0 /\ nClueNumber' = 0 /\ missed' = 0
  BY DEF nextQuestion
<1>2. nClueFrequency \in Nat /\ nClueFrequency > 0
  BY PeriodType
<1>3. nClueFrequency * 0 <= 0 /\ 0 < nClueFrequency * 0 + nClueFrequency
  BY <1>2
<1> QED
  BY <1>1, <1>2, <1>3, OnTimeAgain

\* What a turn of the ticker leaves of the delay.
OnSchedule ==
    LET due == elapsed' \div nClueFrequency IN nClueNumber' \in (due - missed') .. due

\* A turn of the ticker moves the number by one at most; what it leaves was missed.
LEMMA DoorRoundOnTime ==
    ASSUME IInv, ClockInv, DoorRound, nClueFrequency' = nClueFrequency
    PROVE  /\ ClueOnTime'
           /\ started => OnSchedule
<1> DEFINE f == nClueFrequency
<1>1. /\ TypeOK /\ loaded /\ f \in Nat /\ f > 0 /\ gap' = 0 /\ gap \in Nat
      /\ elapsed \in Nat /\ nClueNumber \in Nat /\ missed \in Nat /\ Overslept \in Nat
  BY PeriodType, OversleptType DEF IInv, TypeOK, ClockInv, NoMenu, DoorRound
<1>2. CASE ~started
  BY <1>1, <1>2 DEF DoorRound, question, ClueOnTime
<1>3. CASE started /\ TimeIsUp
  <2>1. nextQuestion
    BY <1>1, <1>3 DEF DoorRound
  <2>2. elapsed' = 0 /\ nClueNumber' = 0 /\ missed' = 0
    BY <1>1, <2>1 DEF nextQuestion
  <2>3. OnSchedule
    <3> HIDE DEF f
    <3>1. f * 0 <= 0 /\ 0 < f * (0 + 0) + f
      BY <1>1
    <3>2. 0 \in ((0 \div f) - 0) .. (0 \div f)
      BY <1>1, <3>1, LagBound
    <3> QED
      BY <2>2, <3>2 DEF OnSchedule, f
  <2> QED
    BY <1>1, <2>1, <2>3, NextQuestionOnTime
<1>4. CASE started /\ ~TimeIsUp
  <2>1. /\ started' = started /\ elapsed' = elapsed
        /\ nClueNumber' = IF ClueDue(elapsed, nClueNumber) THEN nClueNumber + 1 ELSE nClueNumber
        /\ missed' = missed + Overslept
    BY <1>4 DEF DoorRound
  <2> DEFINE n == nClueNumber
             a == f * n
             b == f * missed
             c == f * Overslept
  <2>2. a <= elapsed /\ elapsed < f * (n + missed) + f + gap
    BY <1>4 DEF ClockInv, ClueOnTime
  <2>3. gap <= c + f
    BY <1>1, OversleptCovers
  <2>4. a \in Nat /\ b \in Nat /\ c \in Nat
    BY <1>1, ProductType
  <2>5. f * (n + missed) = a + b /\ f * (n + 1) = a + f
    <3> HIDE DEF f
    <3> QED BY <1>1, Z3
  <2>6. f * (n + (missed + Overslept)) = a + b + c /\ f * (n + 1 + (missed + Overslept)) = a + f + b + c
    <3> HIDE DEF f
    <3> QED BY <1>1, Z3
  <2>7. /\ f * nClueNumber' <= elapsed /\ nClueNumber' \in Nat
        /\ elapsed < f * (nClueNumber' + missed') + f
    <3>1. CASE ClueDue(elapsed, nClueNumber)
      <4>1. elapsed - a >= f /\ nClueNumber' = n + 1
        BY <2>1, <3>1 DEF ClueDue
      <4> HIDE DEF f, a, b, c
      <4>2. a + f <= elapsed /\ elapsed < a + f + b + c + f
        BY <1>1, <2>2, <2>3, <2>4, <2>5, <4>1
      <4> QED BY <1>1, <2>1, <2>5, <2>6, <4>1, <4>2
    <3>2. CASE ~ClueDue(elapsed, nClueNumber)
      <4>1. ~(elapsed - a >= f) /\ nClueNumber' = n
        BY <2>1, <3>2 DEF ClueDue
      <4>2. f * nClueNumber' = a
        BY <4>1
      <4> HIDE DEF f, a, b, c
      <4>3. a <= elapsed /\ elapsed < a + b + c + f
        BY <1>1, <2>2, <2>4, <4>1
      <4> QED BY <1>1, <2>1, <2>6, <4>1, <4>2, <4>3
    <3> QED BY <3>1, <3>2
  <2>8. missed' \in Nat
    BY <1>1, <2>1
  <2> HIDE DEF n, a, b, c
  <2>9. OnSchedule
    <3> HIDE DEF f
    <3>1. nClueNumber' \in ((elapsed \div f) - missed') .. (elapsed \div f)
      BY <1>1, <2>7, <2>8, LagBound
    <3> QED BY <2>1, <3>1 DEF OnSchedule, f
  <2>10. ClueOnTime'
    <3>1. f * (nClueNumber' + missed') \in Nat
      <4>1. \A i, j \in Nat : i + j \in Nat
        OBVIOUS
      <4>2. nClueNumber' + missed' \in Nat
        BY <2>7, <2>8, <4>1, Zenon
      <4> HIDE DEF f
      <4> QED BY <1>1, <4>2, ProductType
    <3>2. elapsed < f * (nClueNumber' + missed') + f + gap'
      BY <1>1, <2>7, <3>1
    <3> QED
      BY <2>1, <2>7, <3>2 DEF ClueOnTime
  <2> QED
    BY <2>9, <2>10
<1> QED
  BY <1>2, <1>3, <1>4

\* A lone player's skip moves the clock and sets the number by it.
LEMMA SkipAloneOnTime ==
    ASSUME IInv, NEW n \in Node, SkipAlone(n), nClueFrequency' = nClueFrequency
    PROVE  ClueOnTime'
<1> DEFINE f == nClueFrequency
<1>1. /\ f \in Nat /\ f > 0 /\ gap \in Nat /\ elapsed \in Nat /\ nQuestionFrequency \in Nat
  BY PeriodType, TriviaRoundAssumption DEF IInv, TypeOK, TriviaRoundAssumption
<1>2. /\ elapsed' \in Nat /\ nClueNumber' = elapsed' \div f /\ gap' = gap
      /\ missed' = 0
  <2>1. nQuestionFrequency \div 2 \in Nat
    BY <1>1, QuotientType
  <2> QED BY <1>1, <2>1 DEF SkipAlone
<1>3. f * nClueNumber' <= elapsed' /\ elapsed' < f * nClueNumber' + f
  <2> HIDE DEF f
  <2> QED BY <1>1, <1>2, QuotientBounds
<1>4. nClueNumber' \in Nat
  <2> HIDE DEF f
  <2> QED BY <1>1, <1>2, QuotientType
<1> QED
  BY <1>1, <1>2, <1>3, <1>4, OnTimeAgain

\* A second that passes counts for the clock and for the ticker.
LEMMA ClockStepOnTime ==
    ASSUME IInv, ClockInv, NEW d \in ClockSteps, ClockStep(d), nClueFrequency' = nClueFrequency
    PROVE  ClueOnTime'
<1> DEFINE c == nClueFrequency * nClueNumber
           m == nClueFrequency * (nClueNumber + missed)
<1>1. /\ d \in Nat /\ gap \in Nat /\ elapsed \in Nat /\ nClueFrequency \in Nat
      /\ nClueNumber \in Nat /\ missed \in Nat
  BY PeriodType, TriviaRoundAssumption DEF IInv, TypeOK, TriviaRoundAssumption
<1>2. /\ gap' = gap + d /\ started' = started
      /\ nClueNumber' = nClueNumber /\ missed' = missed
      /\ elapsed' \in {elapsed, elapsed + d}
  BY DEF ClockStep
<1>3. started => c <= elapsed /\ elapsed < m + nClueFrequency + gap
  BY DEF ClockInv, ClueOnTime
<1>4. c \in Nat /\ m \in Nat
  BY <1>1, ProductType
<1>5. nClueFrequency' * nClueNumber' = c /\ nClueFrequency' * (nClueNumber' + missed') = m
  BY <1>2
<1> HIDE DEF c, m
<1>6. started' => c <= elapsed' /\ elapsed' < m + nClueFrequency + gap'
  BY <1>1, <1>2, <1>3, <1>4
<1> QED
  BY <1>5, <1>6 DEF ClueOnTime

LEMMA ClockInvStep ==
    ASSUME Sysops = {}, IInv, ClockInv, [Next]_vars
    PROVE  ClockInv'
<1>1. NoMenu' /\ nClueFrequency' = nClueFrequency
  BY NoMenuStep DEF IInv, ClockInv
<1>2. TypeOK /\ loaded /\ gap \in Nat
  BY DEF IInv, TypeOK, ClockInv, NoMenu
<1>3. ASSUME UNCHANGED <<started, elapsed, nClueNumber, missed, gap>>
      PROVE  ClueOnTime'
  BY <1>1, <1>3 DEF ClockInv, ClueOnTime
<1>4. ASSUME nextQuestion, gap' = gap
      PROVE  ClueOnTime'
  BY <1>1, <1>2, <1>4, NextQuestionOnTime
<1>5. ASSUME NEW n \in Node, PlayerStep(n)
      PROVE  ClueOnTime'
  <2>1. CASE Enter(n) \/ ConfirmExit(n) \/ SkipVote(n)
    BY <1>3, <2>1 DEF Enter, ConfirmExit, SkipVote, question
  <2>2. CASE LoggedIn(n)
    BY <1>3, <1>4, <2>2 DEF LoggedIn, question
  <2>3. CASE Leave(n)
    <3>1. CASE gNode = {n}
      <4>1. started' = FALSE
        BY <2>3, <3>1 DEF Leave
      <4> QED BY <4>1 DEF ClueOnTime
    <3>2. CASE gNode # {n}
      BY <1>3, <2>3, <3>2 DEF Leave
    <3> QED BY <3>1, <3>2
  <2>4. CASE CorrectAnswer(n) \/ SkipDecided(n)
    BY <1>2, <1>4, <2>4 DEF CorrectAnswer, SkipDecided
  <2>5. CASE SkipAlone(n)
    BY <1>1, <2>5, SkipAloneOnTime
  <2>6. ~(OpenMenu(n) \/ CloseMenu(n))
    BY DEF OpenMenu, CloseMenu, ClockInv, NoMenu
  <2>7. ~\E x \in Frequencies : SetFrequency(n, x)
    BY DEF SetFrequency, ClockInv, NoMenu
  <2>8. ~\E x \in ClueLimits : SetMaxClues(n, x)
    BY DEF SetMaxClues, ClockInv, NoMenu
  <2>9. ~\E x \in Reloads : Reload(n, x)
    BY DEF Reload, ClockInv, NoMenu
  <2> QED
    BY <1>5, <2>1, <2>2, <2>3, <2>4, <2>5, <2>6, <2>7, <2>8, <2>9 DEF PlayerStep
<1>6. ASSUME NEW d \in ClockSteps, ClockStep(d)
      PROVE  ClueOnTime'
  BY <1>1, <1>6, ClockStepOnTime
<1>7. CASE DoorRound
  BY <1>1, <1>7, DoorRoundOnTime DEF ClockInv
<1>8. CASE UNCHANGED vars
  BY <1>1, <1>3, <1>8 DEF vars, question, ClockInv
<1> QED
  BY <1>1, <1>5, <1>6, <1>7, <1>8 DEF Next, ClockInv

\* Where no sysop changes the settings meanwhile, a turn of the ticker leaves a clue
\* number that is not ahead of the clock, and behind it by no more than the periods that
\* went by without a turn (trivia.cpp:316-335, 676), for any periods and however long the
\* ticker is kept waiting.
THEOREM CluesByTheClock == Sysops = {} => (Spec => ClueSchedule)
<1> SUFFICES ASSUME Sysops = {} PROVE Spec => ClueSchedule
  OBVIOUS
<1>1. Init => ClockInv
  BY DEF Init, ClockInv, NoMenu, ClueOnTime
<1>2. IInv /\ ClockInv /\ [Next]_vars => ClockInv'
  BY ClockInvStep
<1>3. IInv /\ ClockInv /\ [Next]_vars
        => [DoorRound /\ started =>
              LET due == elapsed' \div nClueFrequency
              IN  nClueNumber' \in (due - missed') .. due]_vars
  <2> SUFFICES ASSUME IInv, ClockInv, [Next]_vars, DoorRound, started
               PROVE  OnSchedule
    BY DEF OnSchedule
  <2>1. nClueFrequency' = nClueFrequency
    BY NoMenuStep DEF IInv, ClockInv
  <2> QED
    BY <2>1, DoorRoundOnTime
<1> QED
  BY <1>1, <1>2, <1>3, RoundInvariant, PTL DEF Spec, ClueSchedule
=============================================================================
