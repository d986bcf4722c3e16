--------------------------- MODULE RecordsProofs ----------------------------
(***************************************************************************)
(* Proofs about Records, for any players, nodes, months and bounds: types, *)
(* that nobody has points he did not win this month, that nobody has two   *)
(* records and that maintenance is not repeated without a reason.  Each    *)
(* has an invariant that is inductive with the types.                      *)
(***************************************************************************)
EXTENDS Records, FiniteSetTheorems, TLAPS

\* Whose points are not bounded: the sysops', and anybody's while the maintenance of the
\* month is still to come.
Spared == IF due THEN Alias ELSE Sysops

PointsEarned ==
    /\ \A n \in Online :
          player[n].szAlias \notin Spared => player[n].nScore <= earned[player[n].szAlias]
    /\ \A i \in DOMAIN onFile :
          onFile[i].szName \in Alias \ Spared =>
              onFile[i].nScore <= earned[onFile[i].szName]

IInv == TypeOK /\ PointsEarned

\* What is not None among the players is a player.
LEMMA OnlinePlayer ==
    ASSUME TypeOK, NEW n \in Online
    PROVE  player[n] \in Player
BY DEF TypeOK, Online

\* So are the records on file.
LEMMA RecordOnFile ==
    ASSUME TypeOK
    PROVE  /\ onFile \in Seq(PlayerRecord)
           /\ \A i \in DOMAIN onFile : onFile[i] \in PlayerRecord /\ onFile[i].nScore \in Nat
<1>1. onFile \in Seq(PlayerRecord)
  BY DEF TypeOK, onFile
<1>2. \A i \in DOMAIN onFile : onFile[i] \in PlayerRecord
  BY <1>1
<1> QED
  BY <1>1, <1>2 DEF PlayerRecord

\* The record of a player with earned points may be saved: the file is well
\* typed and holds his record and holes.
LEMMA SaveEarned ==
    ASSUME NEW f, NEW p \in Player, NEW e \in [Alias -> Nat],
           p.szAlias \notin Spared => p.nScore <= e[p.szAlias]
    PROVE  /\ save(f, p) \in Seq(PlayerRecord)
           /\ \A i \in DOMAIN save(f, p) :
                 save(f, p)[i].szName \in Alias \ Spared =>
                     save(f, p)[i].nScore <= e[save(f, p)[i].szName]
<1> DEFINE m == p.nPlayerNumber + 1
           s == save(f, p)
<1>1. m \in Nat /\ RecordOf(p) \in PlayerRecord /\ Hole \in PlayerRecord
  BY DEF Player, PlayerRecord, RecordOf, Hole
<1>2. s = [i \in 1 .. m |-> IF i = m THEN RecordOf(p) ELSE Hole]
  BY DEF save
<1>3. s \in [1 .. m -> PlayerRecord]
  <2> HIDE DEF m, s
  <2> QED BY <1>1, <1>2
<1>4. s \in Seq(PlayerRecord)
  <2> HIDE DEF m, s
  <2> QED BY <1>1, <1>3
<1>5. ASSUME NEW i \in DOMAIN s, s[i].szName \in Alias \ Spared
      PROVE  s[i].nScore <= e[s[i].szName]
  <2>1. i \in 1 .. m
    BY <1>2
  <2>2. CASE i = m
    <3>1. s[i] = RecordOf(p)
      BY <1>2, <2>1, <2>2
    <3>2. s[i].szName = p.szAlias /\ s[i].nScore = p.nScore
      BY <3>1 DEF RecordOf
    <3> QED
      BY <1>5, <3>2
  <2>3. CASE i # m
    <3>1. s[i] = Hole
      BY <1>2, <2>1, <2>3
    <3>2. s[i].szName = None /\ None \notin Alias
      BY <3>1, RecordsAssumption DEF Hole, RecordsAssumption
    <3> QED
      BY <1>5, <3>2
  <2> QED
    BY <2>2, <2>3
<1> QED
  BY <1>4, <1>5

\* Settings read from the file, or made up without one, are well typed.
LEMMA SettingsType ==
    ASSUME TypeOK
    PROVE  /\ loadSettings \in Settings
           /\ \A m \in Month : Fresh(m) \in Settings
           /\ 1 \in Month
           /\ None \notin Settings
BY RecordsAssumption
   DEF TypeOK, loadSettings, Fresh, Settings, Month, RecordsAssumption

\* Initially there are no players and no records.
LEMMA InitIInv == Init => IInv
<1> SUFFICES ASSUME Init PROVE IInv
  OBVIOUS
<1>1. TypeOK
  <2>1. now \in Month
    BY RecordsAssumption DEF Init, Month, RecordsAssumption
  <2>2. player \in [Node -> Player \cup {None}] /\ \A n \in Node : player[n] = None
    BY DEF Init
  <2>3. earned \in [Alias -> Nat]
    BY DEF Init
  <2> QED
    BY <2>1, <2>2, <2>3 DEF Init, TypeOK
<1>2. Online = {} /\ onFile = <<>>
  BY DEF Init, Online, onFile
<1> QED
  BY <1>1, <1>2 DEF IInv, PointsEarned

-----------------------------------------------------------------------------

\* A step that leaves the players, the file and the points alone.
LEMMA ScoresUntouched ==
    ASSUME PointsEarned, UNCHANGED <<player, playerDat, earned, due>>
    PROVE  PointsEarned'
BY DEF PointsEarned, Spared, Online, onFile

\* Without a player in the game, maintenance starts the month with no points.
LEMMA StartMaintIInv ==
    ASSUME IInv, StartMaint
    PROVE  IInv'
<1> USE DEF IInv
<1>1. info = None /\ Online = {} /\ spawned.info \in Settings
  BY DEF TypeOK, StartMaint, up, Online
<1>2. TypeOK'
  <2>1. [spawned.info EXCEPT !.nCurMonth = now] \in Settings
    BY <1>1 DEF Settings, TypeOK
  <2>2. playerDat' \in Seq(PlayerRecord) \cup {None}
    BY DEF TypeOK, StartMaint, maint
  <2>3. earned' \in [Alias -> Nat]
    BY DEF StartMaint
  <2> QED
    BY <2>1, <2>2, <2>3, SettingsType DEF TypeOK, StartMaint
<1>3. Online' = {}
  BY <1>1 DEF StartMaint, Online
<1>4. ASSUME NEW i \in DOMAIN onFile', onFile'[i].szName \in Alias \ Sysops
      PROVE  onFile'[i].nScore <= earned'[onFile'[i].szName]
  <2>1. CASE Ranked(spawned.info)
    <3>1. onFile' = <<>>
      BY <2>1 DEF StartMaint, maint, onFile
    <3> QED
      BY <1>4, <3>1
  <2>2. CASE ~Ranked(spawned.info)
    <3>1. onFile' = onFile
      BY <2>2 DEF StartMaint, maint, onFile
    <3>2. ~(onFile[i].nScore > 0)
      BY <2>2, <3>1, <1>4 DEF Ranked
    <3>3. onFile[i].nScore \in Nat
      BY <3>1, <1>4, RecordOnFile
    <3>4. earned'[onFile[i].szName] = 0
      BY <3>1, <1>4 DEF StartMaint
    <3> QED
      BY <3>1, <3>2, <3>3, <3>4
  <2> QED
    BY <2>1, <2>2
<1>5. Spared' = Sysops
  BY DEF StartMaint, Spared
<1> QED
  BY <1>2, <1>3, <1>4, <1>5 DEF PointsEarned

\* A crash may empty the file, but gives nobody points.
LEMMA CrashIInv ==
    ASSUME IInv, Crash
    PROVE  IInv'
<1> USE DEF IInv
<1>1. playerDat' = playerDat \/ playerDat' = <<>>
  BY DEF Crash
<1>2. TypeOK'
  <2>1. playerDat' \in Seq(PlayerRecord) \cup {None}
    <3>1. <<>> \in Seq(PlayerRecord)
      OBVIOUS
    <3>2. playerDat \in Seq(PlayerRecord) \cup {None}
      BY DEF TypeOK
    <3> QED
      BY <1>1, <3>1, <3>2
  <2>2. settingsDat' \in Settings \cup {None}
    BY DEF TypeOK, Crash
  <2>3. player' \in [Node -> Player \cup {None}] /\ \A n \in Node : player'[n] = None
    BY DEF Crash
  <2>4. maintained' \in {"no", "done", "written"}
    BY DEF Crash, TypeOK
  <2> QED
    BY <2>1, <2>2, <2>3, <2>4 DEF TypeOK, Crash
<1>3. Online' = {}
  BY DEF Crash, Online
<1>4. onFile' = onFile \/ onFile' = <<>>
  BY <1>1 DEF onFile
<1>5. earned' = earned /\ Spared' = Spared
  BY DEF Crash, Spared
<1> QED
  BY <1>2, <1>3, <1>4, <1>5 DEF PointsEarned

-----------------------------------------------------------------------------

\* A known player gets what his record says.
LEMMA EnterKnownIInv ==
    ASSUME IInv, NEW n \in Node, NEW a \in Alias, EnterKnown(n, a)
    PROVE  IInv'
<1> USE DEF IInv
<1>1. PICK i \in Places(a) :
         player' = [player EXCEPT ![n] = [szAlias |-> a, nScore |-> onFile[i].nScore,
                                          nPlayerNumber |-> i - 1]]
  BY DEF EnterKnown
<1> DEFINE p == [szAlias |-> a, nScore |-> onFile[i].nScore, nPlayerNumber |-> i - 1]
<1>2. onFile \in Seq(PlayerRecord) /\ i \in DOMAIN onFile /\ onFile[i].szName = a
  BY DEF TypeOK, onFile, Places
<1>3. i \in Nat \ {0} /\ onFile[i] \in PlayerRecord
  BY <1>2
<1>4. p \in Player
  BY <1>3 DEF Player, PlayerRecord
<1>5. player' = [player EXCEPT ![n] = p]
  BY <1>1
<1>6. a \notin Spared => p.nScore <= earned[a]
  BY <1>2 DEF PointsEarned
<1>7. UNCHANGED <<now, info, spawned, running, playerDat, settingsDat, tool, earned, due, looksNew,
                  maintained, toolOld>>
  BY DEF EnterKnown, history
<1>8. running /\ p.szAlias = a
  BY DEF EnterKnown
<1> HIDE DEF p
<1>9. TypeOK'
  <2>1. player' \in [Node -> Player \cup {None}]
    BY <1>4, <1>5 DEF TypeOK
  <2> QED
    BY <2>1, <1>7, <1>8 DEF TypeOK
<1>10. ASSUME NEW k \in Online', player'[k].szAlias \notin Spared
       PROVE  player'[k].nScore <= earned'[player'[k].szAlias]
  <2>1. CASE k = n
    BY <2>1, <1>5, <1>6, <1>7, <1>8, <1>10 DEF TypeOK
  <2>2. CASE k # n
    BY <2>2, <1>5, <1>7, <1>10 DEF TypeOK, Online, PointsEarned
  <2> QED
    BY <2>1, <2>2
<1>11. onFile' = onFile
  BY <1>7 DEF onFile
<1>12. Spared' = Spared
  BY <1>7 DEF Spared
<1> QED
  BY <1>7, <1>9, <1>10, <1>11, <1>12 DEF PointsEarned

\* A new player has no points, and nor has the record that is appended for him.
LEMMA EnterNewIInv ==
    ASSUME IInv, NEW n \in Node, NEW a \in Alias, EnterNew(n, a)
    PROVE  IInv'
<1> USE DEF IInv
<1> DEFINE p == [szAlias |-> a, nScore |-> 0, nPlayerNumber |-> Len(onFile)]
           r == [szName |-> a, nScore |-> 0]
<1>1. onFile \in Seq(PlayerRecord) /\ Len(onFile) \in Nat
  BY DEF TypeOK, onFile
<1>2. p \in Player /\ r \in PlayerRecord /\ p.szAlias = a /\ p.nScore = 0 /\ r.szName = a /\ r.nScore = 0
  BY <1>1 DEF Player, PlayerRecord
<1>3. player' = [player EXCEPT ![n] = p]
  BY DEF EnterNew
<1>4. playerDat' = IF playerDat = None THEN None ELSE Append(onFile, r)
  BY DEF EnterNew, onFile
<1>5. earned' = earned /\ earned \in [Alias -> Nat]
  BY DEF EnterNew, history, TypeOK
<1> HIDE DEF p, r
<1>6. TypeOK'
  <2>1. playerDat' \in Seq(PlayerRecord) \cup {None}
    BY <1>1, <1>2, <1>4
  <2> QED
    BY <1>2, <1>3, <2>1 DEF TypeOK, EnterNew, history
<1>7. ASSUME NEW k \in Online', player'[k].szAlias \notin Spared
      PROVE  player'[k].nScore <= earned'[player'[k].szAlias]
  <2>1. CASE k = n
    BY <1>2, <1>3, <1>5, <2>1 DEF TypeOK
  <2>2. CASE k # n
    BY <1>3, <1>5, <1>7, <2>2 DEF TypeOK, Online, PointsEarned
  <2> QED
    BY <2>1, <2>2
<1>8. ASSUME NEW i \in DOMAIN onFile', onFile'[i].szName \in Alias \ Spared
      PROVE  onFile'[i].nScore <= earned'[onFile'[i].szName]
  <2>1. CASE playerDat' = None
    BY <2>1, <1>8 DEF onFile
  <2>2. CASE playerDat' # None
    <3>1. onFile' = Append(onFile, r)
      BY <1>4, <2>2 DEF onFile
    <3>2. CASE i = Len(onFile) + 1
      <4>1. onFile'[i] = r
        BY <1>1, <3>1, <3>2
      <4> QED
        BY <4>1, <1>2, <1>5, <1>8
    <3>3. CASE i # Len(onFile) + 1
      <4>1. i \in DOMAIN onFile /\ onFile'[i] = onFile[i]
        BY <1>1, <3>1, <3>3
      <4> QED
        BY <4>1, <1>5, <1>8 DEF PointsEarned
    <3> QED
      BY <3>2, <3>3
  <2> QED
    BY <2>1, <2>2
<1>9. Spared' = Spared
  BY DEF EnterNew, history, Spared
<1> QED
  BY <1>6, <1>7, <1>8, <1>9 DEF PointsEarned

\* A point counts for the player and for what he has earned.
LEMMA AwardIInv ==
    ASSUME IInv, NEW n \in Node, awardPoints(n)
    PROVE  IInv'
<1> USE DEF IInv
<1> DEFINE a == player[n].szAlias
           p == [player[n] EXCEPT !.nScore = @ + 1]
<1>1. player[n] \in Player
  BY OnlinePlayer DEF awardPoints
<1>2. a \in Alias /\ p \in Player /\ p.szAlias = a /\ p.nScore = player[n].nScore + 1
      /\ player[n].nScore \in Nat
  BY <1>1 DEF Player
<1>3. player' = [player EXCEPT ![n] = p]
  BY DEF awardPoints
<1>4. earned' = [earned EXCEPT ![a] = earned[a] + 1] /\ earned \in [Alias -> Nat]
  BY DEF awardPoints, TypeOK
<1>5. n \in Online
  BY DEF awardPoints
<1>6. playerDat' = playerDat
  BY DEF awardPoints
<1>7. a \notin Spared => player[n].nScore <= earned[a]
  BY <1>5 DEF PointsEarned
<1>8. running
  BY <1>5 DEF TypeOK, Online
<1> HIDE DEF a, p
<1>9. earned' \in [Alias -> Nat] /\ \A b \in Alias : earned[b] <= earned'[b]
  BY <1>2, <1>4
<1>10. TypeOK'
  BY <1>2, <1>3, <1>8, <1>9 DEF TypeOK, awardPoints
<1>11. ASSUME NEW k \in Online', player'[k].szAlias \notin Spared
       PROVE  player'[k].nScore <= earned'[player'[k].szAlias]
  <2>1. CASE k = n
    <3>1. player'[k] = p
      BY <1>3, <2>1 DEF TypeOK
    <3>2. earned'[a] = earned[a] + 1 /\ earned[a] \in Nat
      BY <1>2, <1>4
    <3> QED
      BY <3>1, <3>2, <1>2, <1>7, <1>11
  <2>2. CASE k # n
    <3>1. k \in Online /\ player'[k] = player[k]
      BY <1>3, <2>2 DEF TypeOK, Online
    <3>2. player[k] \in Player
      BY <3>1, OnlinePlayer
    <3>3. player[k].szAlias \in Alias /\ player[k].nScore \in Nat
      BY <3>2 DEF Player
    <3>4. player[k].nScore <= earned[player[k].szAlias]
      BY <3>1, <1>11 DEF PointsEarned
    <3> QED
      BY <3>1, <3>3, <3>4, <1>4, <1>9
  <2> QED
    BY <2>1, <2>2
<1>12. ASSUME NEW i \in DOMAIN onFile', onFile'[i].szName \in Alias \ Spared
       PROVE  onFile'[i].nScore <= earned'[onFile'[i].szName]
  <2>1. onFile' = onFile
    BY <1>6 DEF onFile
  <2>2. onFile[i].nScore <= earned[onFile[i].szName]
    BY <2>1, <1>12 DEF PointsEarned
  <2>3. onFile[i].nScore \in Nat
    BY <2>1, <1>12, RecordOnFile
  <2> QED
    BY <2>1, <2>2, <2>3, <1>4, <1>9, <1>12
<1>13. Spared' = Spared
  BY DEF awardPoints, Spared
<1> QED
  BY <1>10, <1>11, <1>12, <1>13 DEF PointsEarned

\* Any save of a player in the game leaves a file of earned points.
LEMMA SaveStep ==
    ASSUME IInv, NEW n \in Online, playerDat' = save(onFile, player[n]),
           earned' = earned
    PROVE  /\ playerDat' \in Seq(PlayerRecord)
           /\ \A i \in DOMAIN onFile' :
                 onFile'[i].szName \in Alias \ Spared =>
                     onFile'[i].nScore <= earned'[onFile'[i].szName]
<1>1. player[n] \in Player
  BY OnlinePlayer DEF IInv
<1>2. player[n].szAlias \notin Spared => player[n].nScore <= earned[player[n].szAlias]
  BY DEF IInv, PointsEarned
<1>3. earned \in [Alias -> Nat]
  BY DEF IInv, TypeOK
<1>4. /\ playerDat' \in Seq(PlayerRecord)
      /\ \A i \in DOMAIN playerDat' :
            playerDat'[i].szName \in Alias \ Spared =>
                playerDat'[i].nScore <= earned[playerDat'[i].szName]
  BY <1>1, <1>2, <1>3, SaveEarned
<1>5. onFile' = <<>> \/ onFile' = playerDat'
  BY DEF onFile
<1> QED
  BY <1>4, <1>5

\* The saves of a minute.
LEMMA SavePlayersIInv ==
    ASSUME IInv, NEW S \in SUBSET Node, savePlayers(S)
    PROVE  IInv'
<1>1. PICK n \in Online : playerDat' = save(onFile, player[n])
  BY DEF savePlayers
<1>2. UNCHANGED <<now, info, spawned, running, player, settingsDat, tool, earned, due, looksNew,
                  maintained, toolOld>>
  BY DEF savePlayers, server, history
<1>3. /\ playerDat' \in Seq(PlayerRecord)
      /\ \A i \in DOMAIN onFile' :
            onFile'[i].szName \in Alias \ Spared =>
                onFile'[i].nScore <= earned'[onFile'[i].szName]
  BY <1>1, <1>2, SaveStep
<1>4. TypeOK'
  BY <1>2, <1>3 DEF IInv, TypeOK
<1> QED
  BY <1>2, <1>3, <1>4 DEF IInv, PointsEarned, Spared, Online

\* The save of a player who leaves.
LEMMA LeaveIInv ==
    ASSUME IInv, NEW n \in Node, Leave(n)
    PROVE  IInv'
<1>1. n \in Online /\ playerDat' = save(onFile, player[n])
  BY DEF Leave
<1>2. UNCHANGED <<now, info, spawned, settingsDat, tool, earned, due, looksNew,
                  maintained, toolOld>>
  BY DEF Leave, history
<1>3. /\ playerDat' \in Seq(PlayerRecord)
      /\ \A i \in DOMAIN onFile' :
            onFile'[i].szName \in Alias \ Spared =>
                onFile'[i].nScore <= earned'[onFile'[i].szName]
  BY <1>1, <1>2, SaveStep
<1>4. player' = [player EXCEPT ![n] = None] /\ player' \in [Node -> Player \cup {None}]
  BY DEF Leave, IInv, TypeOK
<1>5. running' \in BOOLEAN /\ (running' => info' # None)
  BY <1>1, <1>2 DEF Leave, IInv, TypeOK, Online
<1>6. ~running' => \A k \in Node : player'[k] = None
  BY <1>4 DEF Leave, Online, IInv, TypeOK
<1>7. TypeOK'
  BY <1>2, <1>3, <1>4, <1>5, <1>6 DEF IInv, TypeOK
<1>8. \A k \in Online' : k \in Online /\ player'[k] = player[k]
  BY <1>4 DEF Online, IInv, TypeOK
<1> QED
  BY <1>2, <1>3, <1>7, <1>8 DEF IInv, PointsEarned, Spared

-----------------------------------------------------------------------------

\* Every step keeps the invariant.
LEMMA NextIInv == IInv /\ [Next]_vars => IInv'
<1> SUFFICES ASSUME IInv, [Next]_vars PROVE IInv'
  OBVIOUS
<1>1. CASE Start
  <2>1. spawned.info \in Settings
    BY <1>1 DEF IInv, TypeOK, Start
  <2>2. TypeOK'
    BY <1>1, <2>1, SettingsType DEF IInv, TypeOK, Start, history, up
  <2> QED
    BY <1>1, <2>2, ScoresUntouched DEF IInv, Start, history
<1>2. CASE StartMaint
  BY <1>2, StartMaintIInv
<1>3. CASE Stop
  <2>1. TypeOK'
    BY <1>3 DEF IInv, TypeOK, Stop, up
  <2> QED
    BY <1>3, <2>1, ScoresUntouched DEF IInv, Stop
<1>4. CASE Crash
  BY <1>4, CrashIInv
<1>5. ASSUME NEW n \in Node, PlayerStep(n)
      PROVE  IInv'
  <2>1. ASSUME NEW a \in Alias, EnterKnown(n, a) \/ EnterNew(n, a)
        PROVE  IInv'
    BY <2>1, EnterKnownIInv, EnterNewIInv
  <2>2. CASE awardPoints(n)
    BY <2>2, AwardIInv
  <2>3. CASE Leave(n)
    BY <2>3, LeaveIInv
  <2>4. CASE ListSysops(n)
    <3>1. running /\ info \in Settings
      BY <2>4 DEF ListSysops, IInv, TypeOK, Online
    <3>2. info' \in Settings
      BY <2>4, <3>1 DEF ListSysops, Settings
    <3>3. TypeOK'
      BY <2>4, <3>1, <3>2, SettingsType DEF ListSysops, IInv, TypeOK, history
    <3> QED
      BY <2>4, <3>3, ScoresUntouched DEF IInv, ListSysops, history
  <2> QED
    BY <1>5, <2>1, <2>2, <2>3, <2>4 DEF PlayerStep
<1>6. ASSUME NEW S \in SUBSET Node, savePlayers(S)
      PROVE  IInv'
  BY <1>6, SavePlayersIInv
<1>7. CASE ToolStep
  <2>1. tool' \in Settings \cup {None}
    BY <1>7, SettingsType
       DEF ToolStep, ToolStart, ToolEdit, ToolSave, ToolExit, IInv, TypeOK, Settings
  <2>2. settingsDat' \in Settings \cup {None}
    BY <1>7 DEF ToolStep, ToolStart, ToolEdit, ToolSave, ToolExit, IInv, TypeOK
  <2>3. maintained' \in {"no", "done", "written"} /\ toolOld' \in BOOLEAN
    BY <1>7 DEF ToolStep, ToolStart, ToolEdit, ToolSave, ToolExit, IInv, TypeOK, history
  <2>4. UNCHANGED <<now, info, spawned, running, player, playerDat, earned, due>>
    BY <1>7 DEF ToolStep, ToolStart, ToolEdit, ToolSave, ToolExit, server, history
  <2>5. looksNew' \in BOOLEAN
    BY <1>7 DEF ToolStep, ToolStart, ToolEdit, ToolSave, ToolExit, IInv, TypeOK, history
  <2>6. TypeOK'
    BY <2>1, <2>2, <2>3, <2>4, <2>5 DEF IInv, TypeOK
  <2> QED
    BY <2>4, <2>6, ScoresUntouched DEF IInv
<1>8. CASE NextMonth
  <2>1. now' \in Month
    BY <1>8, RecordsAssumption DEF NextMonth, IInv, TypeOK, Month, RecordsAssumption
  <2>2. TypeOK'
    BY <1>8, <2>1 DEF NextMonth, IInv, TypeOK, server
  <2>3. Spared' = Alias
    BY <1>8 DEF NextMonth, Spared
  <2>4. \A n \in Online' : player'[n].szAlias \in Alias
    BY <2>2 DEF TypeOK, Online, Player
  <2> QED
    BY <2>2, <2>3, <2>4 DEF PointsEarned, IInv
<1>9. CASE Spawn \/ GoAway
  <2>1. spawned' \in [info: Settings, old: BOOLEAN] \cup {None}
    <3>1. loadSettings \in Settings
      BY SettingsType DEF IInv
    <3> DEFINE old == up /\ maintained = "done"
    <3>2. old \in BOOLEAN
      OBVIOUS
    <3>3. spawned' = None \/ spawned' = [info |-> loadSettings, old |-> old]
      BY <1>9 DEF Spawn, GoAway
    <3> HIDE DEF old
    <3> QED
      BY <3>1, <3>2, <3>3
  <2>2. /\ UNCHANGED <<now, info, running, player, playerDat, settingsDat, tool, earned, due,
                        maintained, toolOld>>
        /\ looksNew' \in BOOLEAN
    BY <1>9 DEF Spawn, GoAway, history, IInv, TypeOK
  <2>3. TypeOK'
    BY <2>1, <2>2 DEF IInv, TypeOK
  <2> QED
    BY <2>2, <2>3, ScoresUntouched DEF IInv
<1>10. CASE UNCHANGED vars
  <2>1. TypeOK'
    BY <1>10 DEF vars, server, history, IInv, TypeOK
  <2> QED
    BY <1>10, <2>1, ScoresUntouched DEF vars, server, history, IInv
<1> QED
  BY <1>1, <1>2, <1>3, <1>4, <1>5, <1>6, <1>7, <1>8, <1>9, <1>10 DEF Next, ServerStep

-----------------------------------------------------------------------------

\* The invariant holds for any players, nodes, months and bounds.
THEOREM RecordsInvariant == Spec => []IInv
BY InitIInv, NextIInv, PTL DEF Spec

\* Every reachable state is well typed; no player without a server.
THEOREM RecordsType == Spec => []TypeOK
<1>1. IInv => TypeOK
  BY DEF IInv
<1> QED
  BY <1>1, RecordsInvariant, PTL

\* A copy of the settings with the number of the current month is of this month, unless
\* it is known to pass for one.
MonthKnown == ~due \/ looksNew \/ \A s \in Copies : s.nCurMonth # now

\* Settings that a step passes on were a copy before.
LEMMA CopiesPassed ==
    ASSUME MonthKnown, Copies' \subseteq Copies,
           now' = now, due' = due, looksNew => looksNew'
    PROVE  MonthKnown'
BY DEF MonthKnown

\* New settings appear only with known months.
LEMMA MonthKnownStep == TypeOK /\ MonthKnown /\ [Next]_vars => MonthKnown'
<1> SUFFICES ASSUME TypeOK, MonthKnown, [Next]_vars PROVE MonthKnown'
  OBVIOUS
<1> USE CopiesPassed DEF Copies
<1>1. CASE Spawn
  <2>1. /\ UNCHANGED <<now, info, settingsDat, tool, due>> /\ spawned'.info = loadSettings
        /\ looksNew' = (looksNew \/ (settingsDat = None /\ due))
    BY <1>1 DEF Spawn
  <2>2. CASE settingsDat = None
    BY <2>1, <2>2 DEF MonthKnown
  <2>3. CASE settingsDat # None
    <3>1. Copies' \subseteq Copies
      BY <2>1, <2>3 DEF loadSettings
    <3> QED BY <2>1, <3>1
  <2> QED BY <2>2, <2>3
<1>2. CASE GoAway
  BY <1>2 DEF GoAway, history
<1>3. CASE Start
  BY <1>3, SettingsType DEF Start, history, TypeOK
<1>4. CASE StartMaint
  BY <1>4 DEF StartMaint, MonthKnown
<1>5. CASE Stop
  BY <1>5 DEF Stop
<1>6. CASE Crash
  BY <1>6 DEF Crash
<1>7. ASSUME NEW n \in Node, PlayerStep(n)
      PROVE  MonthKnown'
  <2>1. UNCHANGED <<now, spawned, settingsDat, tool, due, looksNew>>
    BY <1>7 DEF PlayerStep, EnterKnown, EnterNew, awardPoints, Leave, ListSysops, history
  <2>2. info' = info \/ ListSysops(n)
    BY <1>7 DEF PlayerStep, EnterKnown, EnterNew, awardPoints, Leave
  <2>3. CASE info' = info
    BY <2>1, <2>3
  <2>4. CASE ListSysops(n)
    <3>1. info \in Settings
      BY <2>4 DEF ListSysops, TypeOK, Online
    <3>2. info' \in Settings /\ info'.nCurMonth = info.nCurMonth
      BY <2>4, <3>1 DEF ListSysops, Settings
    <3> QED
      BY <2>1, <3>1, <3>2, SettingsType DEF MonthKnown
  <2> QED
    BY <2>2, <2>3, <2>4
<1>8. ASSUME NEW S \in SUBSET Node, savePlayers(S)
      PROVE  MonthKnown'
  BY <1>8 DEF savePlayers, server, history
<1>9. CASE ToolStart
  <2>1. /\ UNCHANGED <<now, info, spawned, settingsDat, due>>
        /\ tool' = IF settingsDat = None THEN Fresh(1) ELSE settingsDat
        /\ looksNew' = (looksNew \/ (settingsDat = None /\ due /\ now = 1))
    BY <1>9 DEF ToolStart, server
  <2>2. CASE settingsDat = None
    <3>1. tool'.nCurMonth = 1
      BY <2>1, <2>2 DEF Fresh
    <3> QED BY <2>1, <2>2, <3>1 DEF MonthKnown
  <2>3. CASE settingsDat # None
    BY <2>1, <2>3
  <2> QED BY <2>2, <2>3
<1>10. CASE ToolEdit
  <2>1. tool'.nCurMonth = tool.nCurMonth /\ tool # None
    BY <1>10 DEF ToolEdit, TypeOK, Settings
  <2>2. UNCHANGED <<now, info, spawned, settingsDat, due, looksNew>>
    BY <1>10 DEF ToolEdit, server, history
  <2> QED
    BY <2>1, <2>2 DEF MonthKnown
<1>11. CASE ToolSave \/ ToolExit
  BY <1>11 DEF ToolSave, ToolExit, server
<1>12. CASE NextMonth
  <2>1. Copies' = Copies /\ looksNew' = (looksNew \/ \E s \in Copies : s.nCurMonth = now')
    BY <1>12 DEF NextMonth, server
  <2> QED
    BY <2>1 DEF MonthKnown
<1>13. CASE UNCHANGED vars
  BY <1>13 DEF vars, server, history
<1> QED
  BY <1>1, <1>2, <1>3, <1>4, <1>5, <1>6, <1>7, <1>8, <1>9, <1>10, <1>11, <1>12, <1>13
     DEF Next, ServerStep, ToolStep

\* On a server of the month nobody but a sysop ever has points, in the game or in
\* player.dat, that he did not win this month, but for settings.dat that were lost or are
\* a year old (player.cpp:41-46, 90-112, trivia.cpp:888-911, 1042-1044, 1057-1075).
THEOREM NoForeignPoints == Spec => []ScoresAreEarned
<1>1. Init => MonthKnown
  BY DEF Init, MonthKnown
<1>2. TypeOK /\ PointsEarned /\ MonthKnown => ScoresAreEarned
  <2> SUFFICES ASSUME TypeOK, PointsEarned, MonthKnown, up, ~checkMaint(info), ~looksNew
               PROVE  OnlyEarned
    BY DEF ScoresAreEarned
  <2>1. info \in Copies /\ info.nCurMonth = now
    BY DEF up, checkMaint, Copies
  <2>2. Spared = Sysops
    BY <2>1 DEF MonthKnown, Spared
  <2> QED
    BY <2>2 DEF PointsEarned, OnlyEarned
<1>3. IInv => TypeOK /\ PointsEarned
  BY DEF IInv
<1> QED
  BY <1>1, <1>2, <1>3, MonthKnownStep, RecordsInvariant, PTL DEF Spec

-----------------------------------------------------------------------------
(* One record for each name                                                *)

Unique(file) ==
    \A i, j \in DOMAIN file :
        file[i].szName = file[j].szName /\ file[i].szName \in Alias => i = j

UInv == TypeOK /\ Unique(onFile)

\* Unique says of pairs of records what OneRecordEach says of their number.
LEMMA UniqueOne == Unique(onFile) => OneRecordEach
<1> SUFFICES ASSUME Unique(onFile), NEW a \in Alias
             PROVE  Cardinality(Places(a)) <= 1
  BY DEF OneRecordEach
<1>1. CASE Places(a) = {}
  BY <1>1, FS_EmptySet
<1>2. CASE Places(a) # {}
  <2>1. PICK i : i \in Places(a)
    BY <1>2
  <2>2. Places(a) = {i}
    BY <2>1 DEF Places, Unique
  <2>3. Cardinality({i}) = 1
    BY FS_Singleton
  <2> QED
    BY <2>2, <2>3
<1> QED
  BY <1>1, <1>2

\* What a save leaves has one record with a name.
LEMMA SaveUnique ==
    ASSUME NEW f, NEW p \in Player
    PROVE  Unique(save(f, p))
<1> DEFINE m == p.nPlayerNumber + 1
<1>1. save(f, p) = [i \in 1 .. m |-> IF i = m THEN RecordOf(p) ELSE Hole]
  BY DEF save
<1>2. ASSUME NEW i \in DOMAIN save(f, p), save(f, p)[i].szName \in Alias
      PROVE  i = m
  <2>1. CASE i # m
    <3>1. save(f, p)[i] = Hole
      BY <1>1, <2>1
    <3> QED
      BY <1>2, <3>1, RecordsAssumption DEF Hole, RecordsAssumption
  <2> QED
    BY <2>1
<1> HIDE DEF m
<1> QED
  BY <1>2 DEF Unique

\* Every step keeps names unique: a record is added only for a name without one.
LEMMA NextUnique == TypeOK /\ Unique(onFile) /\ [Next]_vars => Unique(onFile')
<1> SUFFICES ASSUME TypeOK, Unique(onFile), [Next]_vars PROVE Unique(onFile')
  OBVIOUS
<1>1. ASSUME UNCHANGED playerDat
      PROVE  Unique(onFile')
  BY <1>1 DEF onFile
<1>2. Unique(<<>>)
  BY DEF Unique
<1>3. ASSUME NEW n \in Online, playerDat' = save(onFile, player[n])
      PROVE  Unique(onFile')
  BY <1>2, <1>3, OnlinePlayer, SaveUnique DEF onFile
<1>4. CASE StartMaint \/ Crash
  <2>1. onFile' = onFile \/ onFile' = <<>>
    BY <1>4 DEF StartMaint, maint, Crash, onFile
  <2> QED
    BY <1>2, <2>1
<1>5. ASSUME NEW n \in Node, NEW a \in Alias, EnterNew(n, a)
      PROVE  Unique(onFile')
  <2> DEFINE r == [szName |-> a, nScore |-> 0]
  <2>1. CASE playerDat = None
    BY <1>1, <1>5, <2>1 DEF EnterNew
  <2>2. CASE playerDat # None
    <3>1. onFile \in Seq(PlayerRecord)
      BY RecordOnFile
    <3>2. r.szName = a
      OBVIOUS
    <3>3. onFile' = Append(onFile, r) \/ onFile' = <<>>
      BY <1>5, <2>2 DEF EnterNew, onFile
    <3>4. \A i \in DOMAIN onFile : onFile[i].szName # a
      BY <1>5 DEF EnterNew, Places
    <3> HIDE DEF r
    <3>5. ASSUME NEW i \in DOMAIN Append(onFile, r)
          PROVE  \/ i \in DOMAIN onFile /\ Append(onFile, r)[i] = onFile[i]
                 \/ i = Len(onFile) + 1 /\ Append(onFile, r)[i] = r
      BY <3>1
    <3>6. Unique(Append(onFile, r))
      BY <3>2, <3>4, <3>5 DEF Unique
    <3> QED
      BY <1>2, <3>3, <3>6
  <2> QED
    BY <2>1, <2>2
<1>6. ASSUME NEW n \in Node, PlayerStep(n)
      PROVE  Unique(onFile')
  <2>1. ASSUME NEW a \in Alias, EnterKnown(n, a)
        PROVE  Unique(onFile')
    BY <1>1, <2>1 DEF EnterKnown
  <2>2. CASE Leave(n)
    BY <1>3, <2>2 DEF Leave
  <2>3. CASE awardPoints(n) \/ ListSysops(n)
    BY <1>1, <2>3 DEF awardPoints, ListSysops
  <2> QED
    BY <1>5, <1>6, <2>1, <2>2, <2>3 DEF PlayerStep
<1>7. ASSUME NEW S \in SUBSET Node, savePlayers(S)
      PROVE  Unique(onFile')
  BY <1>3, <1>7 DEF savePlayers
<1>8. CASE Spawn \/ GoAway \/ Start \/ Stop \/ ToolStep \/ NextMonth \/ UNCHANGED vars
  BY <1>1, <1>8
     DEF Spawn, GoAway, Start, Stop, ToolStep, ToolStart, ToolEdit, ToolSave, ToolExit, NextMonth, vars
<1> QED
  BY <1>4, <1>6, <1>7, <1>8 DEF Next, ServerStep

\* Nobody ever has two records in player.dat, even when he plays on several nodes
\* and his record is cut away under him (player.cpp:33-63, 98).
THEOREM OneRecordForEach == Spec => []OneRecordEach
<1>1. Init => UInv
  BY InitIInv DEF UInv, IInv, Init, onFile, Unique
<1>2. UInv /\ [Next]_vars => Unique(onFile')
  BY NextUnique DEF UInv
<1>3. TypeOK /\ TypeOK' /\ UInv /\ [Next]_vars => UInv'
  BY <1>2 DEF UInv, Unique, onFile
<1>4. UInv => OneRecordEach
  BY UniqueOne DEF UInv
<1> QED
  BY <1>1, <1>3, <1>4, RecordsType, PTL DEF Spec

-----------------------------------------------------------------------------
(* Maintenance is not repeated without a reason                            *)

\* Once done, it is in the hands of the server that did it, and whoever has settings
\* from before is known to.
DoneHeld ==
    maintained = "done" =>
        /\ up /\ info.nCurMonth = now
        /\ spawned # None => spawned.old
        /\ tool # None => toolOld

\* Once written down, everybody has the month but those known to be old.
WrittenKnown ==
    maintained = "written" =>
        /\ settingsDat # None /\ settingsDat.nCurMonth = now
        /\ up => info.nCurMonth = now
        /\ spawned # None /\ ~spawned.old => spawned.info.nCurMonth = now
        /\ tool # None /\ ~toolOld => tool.nCurMonth = now

MaintInv == DoneHeld /\ WrittenKnown

\* A server that comes or goes away.
LEMMA SpawnMaintInv ==
    ASSUME TypeOK, MaintInv, Spawn \/ GoAway
    PROVE  MaintInv'
<1>1. UNCHANGED <<now, info, settingsDat, tool, maintained, toolOld>>
  BY DEF Spawn, GoAway, history
<1>2. CASE GoAway
  <2>1. spawned' = None
    BY <1>2 DEF GoAway
  <2> QED
    BY <1>1, <2>1 DEF MaintInv, DoneHeld, WrittenKnown, up
<1>3. CASE Spawn
  <2> DEFINE old == up /\ maintained = "done"
  <2>1. spawned' = [info |-> loadSettings, old |-> old]
    BY <1>3 DEF Spawn
  <2>2. spawned'.info = loadSettings /\ spawned'.old = old
    BY <2>1
  <2>3. maintained = "done" => old
    BY DEF MaintInv, DoneHeld
  <2>4. maintained = "written" => loadSettings.nCurMonth = now
    BY DEF MaintInv, WrittenKnown, loadSettings
  <2> HIDE DEF old
  <2> QED
    BY <1>1, <2>2, <2>3, <2>4 DEF MaintInv, DoneHeld, WrittenKnown, up
<1> QED
  BY <1>2, <1>3

\* A server that starts: one with maintenance is the one that holds it.
LEMMA StartsMaintInv ==
    ASSUME TypeOK, MaintInv, Start \/ StartMaint
    PROVE  MaintInv'
<1>1. spawned' = None /\ UNCHANGED <<now, settingsDat, tool>>
  BY DEF Start, StartMaint
<1>2. spawned.info \in Settings
  BY DEF TypeOK, Start, StartMaint
<1>3. CASE Start
  <2>1. info' = spawned.info /\ info'.nCurMonth = now
    BY <1>2, <1>3 DEF Start, checkMaint
  <2>2. UNCHANGED <<maintained, toolOld>> /\ maintained # "done"
    BY <1>3 DEF Start, history, MaintInv, DoneHeld
  <2> QED
    BY <1>1, <2>1, <2>2 DEF MaintInv, DoneHeld, WrittenKnown
<1>4. CASE StartMaint
  <2>1. info'.nCurMonth = now /\ info' \in Settings
    BY <1>2, <1>4 DEF StartMaint, Settings, TypeOK
  <2>2. maintained' = "done" /\ (tool' # None => toolOld')
    BY <1>4 DEF StartMaint
  <2> QED
    BY <1>1, <2>1, <2>2, SettingsType DEF MaintInv, DoneHeld, WrittenKnown, up
<1> QED
  BY <1>3, <1>4

\* trivconfig: it takes back what was written only with a copy known to be old.
LEMMA ToolMaintInv ==
    ASSUME TypeOK, MaintInv, ToolStep
    PROVE  MaintInv'
<1>1. UNCHANGED <<now, info, spawned>>
  BY DEF ToolStep, ToolStart, ToolEdit, ToolSave, ToolExit, server
<1>2. CASE ToolStart
  BY <1>1, <1>2 DEF ToolStart, MaintInv, DoneHeld, WrittenKnown, up
<1>3. CASE ToolEdit
  <2>1. tool'.nCurMonth = tool.nCurMonth /\ tool # None
    BY <1>3 DEF ToolEdit, TypeOK, Settings
  <2> QED
    BY <1>1, <1>3, <2>1 DEF ToolEdit, history, MaintInv, DoneHeld, WrittenKnown, up
<1>4. CASE ToolSave
  BY <1>1, <1>4 DEF ToolSave, MaintInv, DoneHeld, WrittenKnown, up
<1>5. CASE ToolExit
  BY <1>1, <1>5 DEF ToolExit, MaintInv, DoneHeld, WrittenKnown, up
<1> QED
  BY <1>2, <1>3, <1>4, <1>5 DEF ToolStep

\* Players change neither file nor months.
LEMMA PlayerMaintInv ==
    ASSUME TypeOK, MaintInv, NEW n \in Node, PlayerStep(n)
    PROVE  MaintInv'
<1>1. UNCHANGED <<now, spawned, settingsDat, tool, maintained, toolOld>>
  BY DEF PlayerStep, EnterKnown, EnterNew, awardPoints, Leave, ListSysops, history
<1>2. info' = info \/ ListSysops(n)
  BY DEF PlayerStep, EnterKnown, EnterNew, awardPoints, Leave
<1>3. CASE info' = info
  BY <1>1, <1>3 DEF MaintInv, DoneHeld, WrittenKnown, up
<1>4. CASE ListSysops(n)
  <2>1. info \in Settings
    BY <1>4 DEF ListSysops, TypeOK, Online
  <2>2. info' \in Settings /\ info'.nCurMonth = info.nCurMonth
    BY <1>4, <2>1 DEF ListSysops, Settings
  <2> QED
    BY <1>1, <2>1, <2>2, SettingsType DEF MaintInv, DoneHeld, WrittenKnown, up
<1> QED
  BY <1>2, <1>3, <1>4

LEMMA NextMaintInv == TypeOK /\ MaintInv /\ [Next]_vars => MaintInv'
<1> SUFFICES ASSUME TypeOK, MaintInv, [Next]_vars PROVE MaintInv'
  OBVIOUS
<1>1. CASE Stop
  BY <1>1 DEF Stop, MaintInv, DoneHeld, WrittenKnown, up
<1>2. CASE Crash
  BY <1>2 DEF Crash, MaintInv, DoneHeld, WrittenKnown, up
<1>3. CASE ServerStep
  BY <1>1, <1>2, <1>3, SpawnMaintInv, StartsMaintInv DEF ServerStep
<1>4. ASSUME NEW n \in Node, PlayerStep(n)
      PROVE  MaintInv'
  BY <1>4, PlayerMaintInv
<1>5. ASSUME NEW S \in SUBSET Node, savePlayers(S)
      PROVE  MaintInv'
  BY <1>5 DEF savePlayers, server, history, MaintInv, DoneHeld, WrittenKnown, up
<1>6. CASE NextMonth
  BY <1>6 DEF NextMonth, MaintInv, DoneHeld, WrittenKnown
<1>7. CASE UNCHANGED vars
  BY <1>7 DEF vars, server, history, MaintInv, DoneHeld, WrittenKnown, up
<1> QED
  BY <1>3, <1>4, <1>5, <1>6, <1>7, ToolMaintInv DEF Next

\* A month's maintenance runs again only when the first was lost, or for a server that
\* had read the settings too early (trivia.cpp:20, 43-47, 1008).
THEOREM MaintenanceNotRepeated == Spec => MaintRepeatedOnlyIfLost
<1>1. Init => MaintInv
  BY DEF Init, MaintInv, DoneHeld, WrittenKnown
<1>2. TypeOK /\ MaintInv /\ StartMaint => maintained = "no" \/ spawned.old
  BY DEF TypeOK, MaintInv, DoneHeld, WrittenKnown, StartMaint, checkMaint, up
<1>3. TypeOK /\ MaintInv /\ [Next]_vars
        => [StartMaint => maintained = "no" \/ spawned.old]_vars
  BY <1>2
<1> QED
  BY <1>1, <1>3, NextMaintInv, RecordsType, PTL DEF Spec, MaintRepeatedOnlyIfLost
=============================================================================
