------------------------------ MODULE Records -------------------------------
(***************************************************************************)
(* What survives the server: player.dat with the scores of the month and   *)
(* settings.dat with the month they belong to (source/trivia/player.cpp    *)
(* and GameSettings in trivia.cpp), read and written by the server that    *)
(* clients start and that stops with its last player, and by the separate  *)
(* program trivconfig.  Servers crash, trivconfig runs beside them, and    *)
(* months end at any moment.                                               *)
(***************************************************************************)
EXTENDS Integers, Sequences, FiniteSets

CONSTANTS
    MAX_NODE,    \* nodes are numbered 0 .. MAX_NODE-1
    Alias,       \* the players
    Sysops,      \* the players whose record says bSavedSysop
    None,        \* no name, no player
    Months,      \* months of a year
    MaxScore,    \* bound: points a player has, and wins between two maintenances
    MaxRecords   \* bound: records of a player file in which one more is made

ASSUME RecordsAssumption ==
    /\ MAX_NODE \in Nat /\ Months \in Nat \ {0}
    /\ None \notin Alias
    /\ None \notin [nCurMonth: 1 .. Months, bListSysops: BOOLEAN]
    /\ Sysops \subseteq Alias
    /\ MaxScore \in Nat /\ MaxRecords \in Nat

Node == 0 .. MAX_NODE - 1
Month == 1 .. Months

VARIABLES
    now,         \* the current month
    info,        \* GameSettings::info of the running server, None without one
    spawned,     \* a server that is spawned and has not asked for the lock: what it
                 \* loaded, and (history) whether another server had done the month's
                 \* maintenance and was still to write that down; None without one
    running,     \* GameServer::run has not returned
    player,      \* per node: its Player object
    playerDat,   \* player.dat: its records, or None
    settingsDat, \* settings.dat, None if missing or not of the right size
    tool,        \* the copy trivconfig edits, None when it does not run
    \* History, for the properties only:
    earned,      \* per player: points won this month, since its last maintenance
    due,         \* the month has changed since the last maintenance
    looksNew,    \* what settings.dat says, or is about to, passes an old month for
                 \* the current one
    maintained,  \* was this month's maintenance done, and was it written down
    toolOld      \* the copy was read before it was written down

server == <<info, spawned, running, player>>
history == <<earned, due, looksNew, maintained, toolOld>>
vars == <<now, server, playerDat, settingsDat, tool, history>>

Settings == [nCurMonth: Month, bListSysops: BOOLEAN]
PlayerRecord == [szName: Alias \cup {None}, nScore: Nat]
Player == [szAlias: Alias, nScore: Nat, nPlayerNumber: Nat]

TypeOK ==
    /\ now \in Month
    /\ info \in Settings \cup {None}
    /\ spawned \in [info: Settings, old: BOOLEAN] \cup {None}
    /\ running \in BOOLEAN
    /\ running => info # None
    /\ ~running => \A n \in Node : player[n] = None
    /\ player \in [Node -> Player \cup {None}]
    /\ playerDat \in Seq(PlayerRecord) \cup {None}
    /\ settingsDat \in Settings \cup {None}
    /\ tool \in Settings \cup {None}
    /\ earned \in [Alias -> Nat]
    /\ due \in BOOLEAN
    /\ looksNew \in BOOLEAN
    /\ maintained \in {"no", "done", "written"}
    /\ toolOld \in BOOLEAN

\* Mutant of Fresh: the month counted from 0.
FreshFromZero(month) == [nCurMonth |-> month - 1, bListSysops |-> TRUE]

\* Settings without a file.
Fresh(month) == [nCurMonth |-> month, bListSysops |-> TRUE]

Init ==
    /\ now = 1
    /\ info = None
    /\ spawned = None
    /\ running = FALSE
    /\ player = [n \in Node |-> None]
    /\ playerDat = None
    /\ settingsDat = None
    /\ tool = None
    /\ earned = [a \in Alias |-> 0]
    /\ due = FALSE
    /\ looksNew = FALSE
    /\ maintained = "no"
    /\ toolOld = FALSE

-----------------------------------------------------------------------------
(* player.dat                                                              *)

Online == {n \in Node : player[n] # None}

\* A record the file has room for and nobody wrote: zeros.
Hole == [szName |-> None, nScore |-> 0]

RecordOf(p) == [szName |-> p.szAlias, nScore |-> p.nScore]

onFile == IF playerDat = None THEN <<>> ELSE playerDat

Places(a) == {i \in DOMAIN onFile : onFile[i].szName = a}

\* Mutant of save: the other records are kept, as seeking to the own one suggests.
saveInPlace(file, p) ==
    [i \in 1 .. IF Len(file) > p.nPlayerNumber THEN Len(file) ELSE p.nPlayerNumber + 1 |->
        IF i = p.nPlayerNumber + 1 THEN RecordOf(p)
        ELSE IF i <= Len(file) THEN file[i] ELSE Hole]

\* Player::save: opening the stream for output alone cuts the file to nothing,
\* then one record is written at its place.
save(file, p) ==
    [i \in 1 .. p.nPlayerNumber + 1 |->
        IF i = p.nPlayerNumber + 1 THEN RecordOf(p) ELSE Hole]

\* getRankedRecords: is there anybody to rank?  Sysops count if they are listed.
Ranked(s) ==
    \E i \in DOMAIN onFile :
        /\ onFile[i].nScore > 0
        /\ onFile[i].szName \in Sysops => s.bListSysops

-----------------------------------------------------------------------------
(* The server starts and stops                                             *)

up == info # None

\* The constructor of GameSettings::info.
loadSettings == IF settingsDat = None THEN Fresh(now) ELSE settingsDat

checkMaint(s) == s.nCurMonth # now

\* info is static, so the file is read before main begins.
Spawn ==
    /\ spawned = None
    /\ spawned' = [info |-> loadSettings, old |-> up /\ maintained = "done"]
    /\ looksNew' = (looksNew \/ (settingsDat = None /\ due))
    /\ UNCHANGED <<now, info, running, player, playerDat, settingsDat, tool, earned, due,
                   maintained, toolOld>>

\* The lock of the server's slot is taken.
GoAway ==
    /\ up /\ spawned # None
    /\ spawned' = None
    /\ UNCHANGED <<now, info, running, player, playerDat, settingsDat, tool, history>>

\* Start without maintenance.
Start ==
    /\ ~up /\ spawned # None
    /\ ~checkMaint(spawned.info)
    /\ info' = spawned.info
    /\ spawned' = None
    /\ running' = TRUE
    /\ UNCHANGED <<now, player, playerDat, settingsDat, tool, history>>

\* Mutant of maint: last month's file is kept.
maintKeepsFile == UNCHANGED playerDat

\* The winner's name and score go to info, player.dat is deleted.
maint == playerDat' = IF Ranked(spawned.info) THEN None ELSE playerDat

StartMaint ==
    /\ ~up /\ spawned # None
    /\ checkMaint(spawned.info)
    /\ info' = [spawned.info EXCEPT !.nCurMonth = now]
    /\ spawned' = None
    /\ running' = TRUE
    /\ maint
    /\ earned' = [a \in Alias |-> 0]
    /\ due' = FALSE
    /\ looksNew' = FALSE
    /\ maintained' = "done"
    /\ toolOld' = (tool # None)
    /\ UNCHANGED <<now, player, settingsDat, tool>>

\* Mutant of Stop: the settings are not written back.
StopUnsaved ==
    /\ up /\ ~running
    /\ info' = None
    /\ UNCHANGED <<now, spawned, running, player, playerDat, settingsDat, tool, history>>

\* run() has returned and main writes the settings.
Stop ==
    /\ up /\ ~running
    /\ info' = None
    /\ settingsDat' = info
    /\ maintained' = IF maintained = "done" THEN "written" ELSE maintained
    /\ UNCHANGED <<now, spawned, running, player, playerDat, tool, earned, due, looksNew,
                   toolOld>>

\* The process dies, perhaps right after it has opened a file for saving, which
\* leaves player.dat empty, or settings.dat in a format nobody knows.
Crash ==
    /\ up
    /\ info' = None
    /\ running' = FALSE
    /\ player' = [n \in Node |-> None]
    /\ playerDat' \in IF Online = {} THEN {playerDat} ELSE {playerDat, <<>>}
    /\ settingsDat' \in IF running THEN {settingsDat} ELSE {settingsDat, None}
    /\ maintained' = IF maintained = "done" \/ settingsDat' = None THEN "no" ELSE maintained
    /\ UNCHANGED <<now, spawned, tool, earned, due, looksNew, toolOld>>

\* Every copy of the settings there is.
Copies == ({info, settingsDat, tool} \cup {s.info : s \in {spawned} \ {None}}) \ {None}

\* Months have no year: one that a copy has kept since may come round again.
NextMonth ==
    /\ now' = (now % Months) + 1
    /\ earned' = [a \in Alias |-> 0]
    /\ due' = TRUE
    /\ looksNew' = (looksNew \/ \E s \in Copies : s.nCurMonth = now')
    /\ maintained' = "no"
    /\ UNCHANGED <<server, playerDat, settingsDat, tool, toolOld>>

-----------------------------------------------------------------------------
(* Players                                                                 *)

\* Player::Player for a player who has a record.
EnterKnown(n, a) ==
    /\ running
    /\ player[n] = None
    /\ \E i \in Places(a) :
          /\ \A j \in Places(a) : i <= j
          /\ player' = [player EXCEPT ![n] = [szAlias |-> a, nScore |-> onFile[i].nScore,
                                              nPlayerNumber |-> i - 1]]
    /\ UNCHANGED <<now, info, spawned, running, playerDat, settingsDat, tool, history>>

\* For a new one: his record is appended, unless there is no file to append to
\* (opening for input and output does not make one).
EnterNew(n, a) ==
    /\ running
    /\ player[n] = None
    /\ Places(a) = {}
    /\ Len(onFile) < MaxRecords
    /\ player' = [player EXCEPT ![n] = [szAlias |-> a, nScore |-> 0,
                                        nPlayerNumber |-> Len(onFile)]]
    /\ playerDat' = IF playerDat = None THEN None
                    ELSE Append(playerDat, [szName |-> a, nScore |-> 0])
    /\ UNCHANGED <<now, info, spawned, running, settingsDat, tool, history>>

awardPoints(n) ==
    LET a == player[n].szAlias IN
    /\ n \in Online
    /\ earned[a] < MaxScore /\ player[n].nScore < MaxScore
    /\ player' = [player EXCEPT ![n].nScore = @ + 1]
    /\ earned' = [earned EXCEPT ![a] = @ + 1]
    /\ UNCHANGED <<now, info, spawned, running, playerDat, settingsDat, tool, due, looksNew,
                   maintained, toolOld>>

\* Once a minute, for the players S that are flagged as in the game, in the order
\* of the nodes: as each save cuts the file first, the last one's is left.
savePlayers(S) ==
    /\ S \subseteq Online
    /\ \E n \in S :
          /\ \A k \in S : k <= n
          /\ playerDat' = save(onFile, player[n])
    /\ UNCHANGED <<now, server, settingsDat, tool, history>>

\* IP_FINISHED: the destructor saves; after the last player run()
\* returns.
Leave(n) ==
    /\ n \in Online
    /\ playerDat' = save(onFile, player[n])
    /\ player' = [player EXCEPT ![n] = None]
    /\ running' = (Online # {n})
    /\ UNCHANGED <<now, info, spawned, settingsDat, tool, history>>

\* The sysop menu of a player in the game.
ListSysops(n) ==
    /\ n \in Online
    /\ player[n].szAlias \in Sysops
    /\ info' = [info EXCEPT !.bListSysops = ~@]
    /\ UNCHANGED <<now, spawned, running, player, playerDat, settingsDat, tool, history>>

-----------------------------------------------------------------------------
(* trivconfig                                                              *)

ToolStart ==
    /\ tool = None
    /\ tool' = IF settingsDat = None THEN Fresh(1) ELSE settingsDat
    /\ toolOld' = (maintained # "written")
    /\ looksNew' = (looksNew \/ (settingsDat = None /\ due /\ now = 1))
    /\ UNCHANGED <<now, server, playerDat, settingsDat, earned, due, maintained>>

ToolEdit ==
    /\ tool # None
    /\ tool' = [tool EXCEPT !.bListSysops = ~@]
    /\ UNCHANGED <<now, server, playerDat, settingsDat, history>>

\* An old copy takes back what the server has written down meanwhile.
ToolSave ==
    /\ tool # None
    /\ settingsDat' = tool
    /\ maintained' = IF maintained = "written" /\ toolOld THEN "no" ELSE maintained
    /\ UNCHANGED <<now, server, playerDat, tool, earned, due, looksNew, toolOld>>

ToolExit ==
    /\ tool # None
    /\ tool' = None
    /\ toolOld' = FALSE
    /\ UNCHANGED <<now, server, playerDat, settingsDat, earned, due, looksNew, maintained>>

-----------------------------------------------------------------------------

ServerStep == Spawn \/ GoAway \/ Start \/ StartMaint \/ Stop \/ Crash
PlayerStep(n) ==
    \/ \E a \in Alias : EnterKnown(n, a) \/ EnterNew(n, a)
    \/ awardPoints(n) \/ Leave(n) \/ ListSysops(n)
ToolStep == ToolStart \/ ToolEdit \/ ToolSave \/ ToolExit

Next ==
    \/ ServerStep
    \/ \E n \in Node : PlayerStep(n)
    \/ \E S \in SUBSET Node : savePlayers(S)
    \/ ToolStep
    \/ NextMonth

Spec == Init /\ [][Next]_vars

-----------------------------------------------------------------------------
(* Properties                                                              *)

\* Nobody but a sysop has points he did not earn, in the game or on disk.
OnlyEarned ==
    /\ \A n \in Online :
          player[n].szAlias \notin Sysops => player[n].nScore <= earned[player[n].szAlias]
    /\ \A i \in DOMAIN onFile :
          onFile[i].szName \in Alias \ Sysops =>
              onFile[i].nScore <= earned[onFile[i].szName]

\* "Reset at the end of the month" (release/readme.txt:35), as far as the code keeps it:
\* on a server of the month nobody has points he did not win this month, in the game or
\* on disk, however often record numbers are shared, files cut or maintenances repeated.
\* The exceptions: a server that is up over the month's end plays on with the old scores
\* until it stops (checkMaint is asked at the start only); settings.dat missing or cut
\* passes for a file of the current month, or of January in trivconfig; the same month a
\* year before passes for this one.  Sysops are left out: while they are not listed
\* maintenance may overlook their scores.
ScoresAreEarned == up /\ ~checkMaint(info) /\ ~looksNew => OnlyEarned

\* "Run once per month" (trivia.cpp:1008), as far as the code keeps it: a month's
\* maintenance is only repeated when the server that did it crashed before it
\* had written that down, or what it wrote is lost: settings.dat was cut by a
\* crash, or a trivconfig put back settings it had read before; or by a server
\* that had read the settings before the other wrote them (trivia.cpp:20).
MaintRepeatedOnlyIfLost == [][StartMaint => maintained = "no" \/ spawned.old]_vars

\* A player has one record, the one the next search finds, even when he is on two
\* nodes and his record is cut away under him (player.cpp:33-63).  It is cutting
\* the file that keeps a stale record number from making a second one.
OneRecordEach == \A a \in Alias : Cardinality(Places(a)) <= 1

\* release/readme.txt:35 "Scores add up from day to day, and are reset at the end
\* of the month": nothing but maintenance (and a crash while saving)
\* takes points that are on file from a player.
ScoresKept ==
    [][StartMaint \/ Crash \/ \A i \in DOMAIN onFile :
          onFile[i].nScore > 0 =>
              \E j \in DOMAIN onFile' :
                  /\ onFile'[j].szName = onFile[i].szName
                  /\ onFile'[j].nScore >= onFile[i].nScore]_vars
=============================================================================
