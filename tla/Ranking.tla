------------------------------- MODULE Ranking -------------------------------
(***************************************************************************)
(* The high scores: getRankedRecords sorts what player.dat and the players *)
(* in the game have, and keeps the list as long as the start time of the   *)
(* question, cut to a short, stays the same.                               *)
(*                                                                         *)
(* A node has bInGame from the end of EnterGameThread on, except in the    *)
(* sysop menu and after the exit prompt.  Until then its points are those  *)
(* of its record, so that EnterGame stands for the constructor and for the *)
(* thread.  Only one player saves at a time here, as in Player::~Player;   *)
(* save cuts the file (see Records).  Time counts in units of half a       *)
(* question, from the start of the question.                               *)
(***************************************************************************)
EXTENDS Integers, Sequences, FiniteSets, FiniteSetsExt

CONSTANTS
    Player,
    Sysops,       \* players saved as sysops
    Top,          \* places in the list (10)
    Wrap,         \* what a short can tell apart (2^16)
    Points,       \* what an answer is worth: pointValue
    MaxPoints,    \* bound: the score of a player
    MaxRecords    \* bound: the records of the file

ASSUME RankingAssumption ==
    /\ IsFiniteSet(Player) /\ "" \notin Player /\ Sysops \subseteq Player
    /\ {Top, Wrap} \subseteq Nat \ {0} /\ {MaxPoints, MaxRecords} \subseteq Nat
    /\ Points \subseteq 1 .. 3

VARIABLES
    playerDat,     \* the records, in their order; a hole has no name
    inGame,        \* nodes with bInGame
    inMenu,        \* nodes in the sysop menu
    exiting,       \* nodes that said yes at the exit prompt, until they are gone
    place,         \* per node: nPlayerNumber
    nScore,        \* per node
    bListSysops,
    elapsed,       \* since nStartTime
    ahead,         \* getStartTime() - lastCalled, as shorts
    rankedRecords,
    ofThisQuestion,\* the list was made for this question
    rankedLow      \* history: nodes with more points than the list of this question was made with

rankVars == <<playerDat, inGame, inMenu, exiting, place, nScore, bListSysops, elapsed, ahead,
              rankedRecords, ofThisQuestion, rankedLow>>
playerVars == <<playerDat, inGame, inMenu, exiting, place>>
listVars == <<ahead, rankedRecords, ofThisQuestion, rankedLow>>

nodes == inGame \cup inMenu \cup exiting

Hole == [szName |-> "", nScore |-> 0]
PlayerRecord == [szName: Player, nScore: 0 .. MaxPoints] \cup {Hole}

RankTypeOK ==
    /\ playerDat \in Seq(PlayerRecord)
    /\ inGame \subseteq Player /\ inMenu \subseteq Sysops /\ exiting \subseteq Player
    /\ place \in [Player -> 0 .. MaxRecords]
    /\ \A p \in nodes : place[p] > 0
    /\ nScore \in [Player -> 0 .. MaxPoints]
    /\ bListSysops \in BOOLEAN
    /\ elapsed \in 0 .. 2 /\ ahead \in 0 .. Wrap - 1
    /\ rankedRecords \in Seq(PlayerRecord) /\ Len(rankedRecords) <= Top
    /\ ofThisQuestion \in BOOLEAN /\ rankedLow \subseteq Player

\* lastCalled begins as 1, from which the first start time is any number away.
RankInit ==
    /\ playerDat = <<>>
    /\ inGame = {} /\ inMenu = {} /\ exiting = {}
    /\ place = [p \in Player |-> 0]
    /\ nScore = [p \in Player |-> 0]
    /\ bListSysops \in BOOLEAN
    /\ elapsed = 0 /\ ahead \in 0 .. Wrap - 1
    /\ rankedRecords = <<>>
    /\ ofThisQuestion = FALSE /\ rankedLow = {}

-----------------------------------------------------------------------------
(* getRankedRecords                                                        *)

\* A record with the points of the player, if those in the game are more.
getCurrentScore(r) ==
    IF r.szName \in inGame /\ nScore[r.szName] > r.nScore
    THEN [r EXCEPT !.nScore = nScore[r.szName]] ELSE r

\* Mutant of gameRecords: the points are those of the file.
gameRecordsSaved == playerDat

\* What is read from the file ...
gameRecords == [i \in DOMAIN playerDat |-> getCurrentScore(playerDat[i])]

\* ... of which sysops are ranked only if they are listed, and nobody without points.
Listed ==
    {i \in DOMAIN gameRecords :
        /\ gameRecords[i].nScore # 0
        /\ gameRecords[i].szName \in Sysops => bListSysops}

\* The selection sort: the next place goes to the first of the highest scores left.
Sorted ==
    LET nRankedCount == Min({Top, Cardinality(Listed)})
        order[k \in 1 .. nRankedCount] ==
            LET left == Listed \ {order[j] : j \in 1 .. k - 1}
                nTopPoints == Max({gameRecords[i].nScore : i \in left})
            IN  Min({i \in left : gameRecords[i].nScore = nTopPoints})
    IN  [k \in 1 .. nRankedCount |-> gameRecords[order[k]]]

\* The nodes that are ranked by their records although they have more points.
LowByRecord ==
    {p \in inMenu \cup exiting : \E i \in DOMAIN playerDat :
        playerDat[i].szName = p /\ playerDat[i].nScore < nScore[p]}

\* At login and by the scores command, which a line typed after the exit prompt can be.
\* With no file the old list is returned, and counts as this question's.
displayScores ==
    /\ inGame \cup exiting # {}
    /\ IF ahead = 0 THEN UNCHANGED listVars
       ELSE /\ ahead' = 0
            /\ ofThisQuestion' = TRUE
            /\ rankedLow' = LowByRecord
            /\ rankedRecords' = IF playerDat = <<>> THEN rankedRecords ELSE Sorted
    /\ UNCHANGED <<playerVars, nScore, bListSysops, elapsed>>

-----------------------------------------------------------------------------
(* What changes the scores and the time                                    *)

\* nextQuestion, as far as the list depends on it.
AskedAfter(units) ==
    /\ elapsed' = 0
    /\ ahead' = (ahead + units) % Wrap
    /\ ofThisQuestion' = FALSE /\ rankedLow' = {}

\* Mutant of EnterGame: a new record is counted from 0.
EnterGameFromZero(p) ==
    /\ p \notin nodes
    /\ inGame' = inGame \cup {p}
    /\ LET known == {i \in DOMAIN playerDat : playerDat[i].szName = p}
       IN  \/ /\ known # {}
              /\ place' = [place EXCEPT ![p] = Min(known)]
              /\ nScore' = [nScore EXCEPT ![p] = playerDat[Min(known)].nScore]
              /\ UNCHANGED playerDat
           \/ /\ known = {}
              /\ Len(playerDat) < MaxRecords
              /\ playerDat' = Append(playerDat, [szName |-> p, nScore |-> 0])
              /\ place' = [place EXCEPT ![p] = Len(playerDat)]
              /\ UNCHANGED nScore
    /\ UNCHANGED <<inMenu, exiting, bListSysops, elapsed, listVars>>

\* The first record with the name, or a new one at the end.
EnterGame(p) ==
    /\ p \notin nodes
    /\ inGame' = inGame \cup {p}
    /\ LET known == {i \in DOMAIN playerDat : playerDat[i].szName = p}
       IN  \/ /\ known # {}
              /\ place' = [place EXCEPT ![p] = Min(known)]
              /\ nScore' = [nScore EXCEPT ![p] = playerDat[Min(known)].nScore]
              /\ UNCHANGED playerDat
           \/ /\ known = {}
              /\ Len(playerDat) < MaxRecords
              /\ playerDat' = Append(playerDat, [szName |-> p, nScore |-> 0])
              /\ place' = [place EXCEPT ![p] = Len(playerDat) + 1]
              /\ UNCHANGED nScore
    /\ UNCHANGED <<inMenu, exiting, bListSysops, elapsed, listVars>>

\* SysopThread::run takes the sysop out of the game ...
EnterMenu(p) ==
    /\ p \in inGame \cap Sysops
    /\ inGame' = inGame \ {p} /\ inMenu' = inMenu \cup {p}
    /\ UNCHANGED <<playerDat, exiting, place, nScore, bListSysops, elapsed, listVars>>

\* ... until X.
ReturnToGame(p) ==
    /\ p \in inMenu
    /\ inGame' = inGame \cup {p} /\ inMenu' = inMenu \ {p}
    /\ UNCHANGED <<playerDat, exiting, place, nScore, bListSysops, elapsed, listVars>>

ExitPrompt(p) ==
    /\ p \in inGame
    /\ inGame' = inGame \ {p} /\ exiting' = exiting \cup {p}
    /\ UNCHANGED <<playerDat, inMenu, place, nScore, bListSysops, elapsed, listVars>>

\* At the exit prompt or by hanging up.  The last player takes the server along; the
\* next one has the list made anew.
LeaveGame(p) ==
    /\ p \in nodes
    /\ inGame' = inGame \ {p} /\ inMenu' = inMenu \ {p} /\ exiting' = exiting \ {p}
    /\ playerDat' = [i \in 1 .. place[p] |->
                        IF i = place[p] THEN [szName |-> p, nScore |-> nScore[p]] ELSE Hole]
    /\ place' = [place EXCEPT ![p] = 0]
    /\ nScore' = [nScore EXCEPT ![p] = 0]
    /\ IF nodes' # {} THEN UNCHANGED <<elapsed, listVars>>
       ELSE /\ elapsed' = 0 /\ ahead' \in 0 .. Wrap - 1
            /\ rankedRecords' = <<>> /\ ofThisQuestion' = FALSE /\ rankedLow' = {}
    /\ UNCHANGED bListSysops

\* A correct answer gives points, bInGame or not, as long as no thread reads the line ...
Scores(p) ==
    /\ p \in inGame \cup exiting
    /\ \E n \in Points :
          nScore[p] + n <= MaxPoints /\ nScore' = [nScore EXCEPT ![p] = @ + n]

\* ... and another question.
Answered(p) ==
    Scores(p) /\ AskedAfter(elapsed) /\ UNCHANGED <<playerVars, bListSysops, rankedRecords>>

\* requestSkip of a player alone: the question gets half its time older.
requestSkip ==
    /\ Cardinality(nodes) = 1 /\ inMenu = {}
    /\ elapsed < 2
    /\ elapsed' = elapsed + 1
    /\ ahead' = (ahead - 1) % Wrap
    /\ UNCHANGED <<playerVars, nScore, bListSysops, rankedRecords, ofThisQuestion, rankedLow>>

\* doorRound, half a question later: the time of the question is up or is not yet.
HalfTime ==
    /\ nodes # {}
    /\ \/ elapsed = 0 /\ elapsed' = 1 /\ UNCHANGED <<ahead, ofThisQuestion, rankedLow>>
       \/ elapsed > 0 /\ AskedAfter(elapsed + 1)
    /\ UNCHANGED <<playerVars, nScore, bListSysops, rankedRecords>>

ToggleSysops ==
    /\ inMenu # {}
    /\ bListSysops' = ~bListSysops
    /\ UNCHANGED <<playerVars, nScore, elapsed, listVars>>

RankNext ==
    \/ displayScores \/ requestSkip \/ HalfTime \/ ToggleSysops
    \/ \E p \in Player :
          \/ EnterGame(p) \/ EnterMenu(p) \/ ReturnToGame(p) \/ ExitPrompt(p)
          \/ LeaveGame(p) \/ Answered(p)

-----------------------------------------------------------------------------
(* Properties                                                              *)

\* The list that was made for the question on the board is short of no points of a listed
\* player in the game: points are made with the last answer to a question.  Excepted is
\* who was in the sysop menu when the list was made, and was ranked with less by his record.
ListIsCurrent ==
    ofThisQuestion =>
        \A k \in DOMAIN rankedRecords :
            LET r == rankedRecords[k]
            IN  r.szName \in inGame \ rankedLow => r.nScore >= nScore[r.szName]

\* What trivia.cpp:619 says of the start time: it tells a new question from the one that
\* the list was made for, so that the list is made anew if somebody's score went up.
NewTimeForNewScore ==
    [][ ofThisQuestion =>
            \A p \in nodes \cap nodes' : nScore'[p] > nScore[p] => ahead' # 0 ]_rankVars

\* When the list is made, it has the players of the file with the most points, by
\* points: nobody is left out who has more than somebody on it.  A node with bInGame is on
\* it with the points of this moment, everybody else, also a sysop in his menu, with those
\* of the file (player.cpp:170-254, trivia.cpp:648).
MadeRight ==
    LET list == {rankedRecords'[k] : k \in DOMAIN rankedRecords'}
    IN  /\ \A k \in 2 .. Len(rankedRecords') :
               rankedRecords'[k].nScore <= rankedRecords'[k - 1].nScore
        /\ Cardinality(list) = Len(rankedRecords')
        /\ \A i \in DOMAIN playerDat :
               LET p == playerDat[i].szName
                   points == IF p \in inGame THEN nScore[p] ELSE playerDat[i].nScore
               IN  points > 0 /\ (p \in Sysops => bListSysops) =>
                       \/ [szName |-> p, nScore |-> points] \in list
                       \/ /\ Len(rankedRecords') = Top
                          /\ points <= rankedRecords'[Top].nScore

\* The list is right when it is made, and current for the question it was made for.  It
\* can be kept beyond that question, when the start times collide (NewTimeForNewScore).
ListsTheBest ==
    [][ /\ rankedRecords' # rankedRecords /\ rankedRecords' # <<>> => MadeRight
        /\ ListIsCurrent' ]_rankVars
=============================================================================
