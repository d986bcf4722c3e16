--------------------------- MODULE ConfigurationProofs ---------------------------
(***************************************************************************)
(* Proofs about what the sysop sets up, for any files with any numbers of  *)
(* questions, any number of slots and any limits: settings that are saved  *)
(* are the settings of the next server, the index of the questions fits    *)
(* into its array, and is the index of the files the menu shows.  And for  *)
(* any names and any bytes regtriv fills a key with: the name it writes is *)
(* the name the server reads, and a key with a changed header is refused.  *)
(*                                                                         *)
(* Settings: all settings there are, in the file, the server and the two   *)
(* editors, are in range and agree (SettingsInv).  Database: what          *)
(* initDatabase makes is put slot after slot into a total, so the proofs   *)
(* about it go by induction over the slots (Totals); DatabaseInv is what   *)
(* it leaves and what every other step keeps.                              *)
(***************************************************************************)
EXTENDS Configuration, Recursion, SequenceTheorems, TLAPS

-----------------------------------------------------------------------------
(* Every byte is decoded to what was encoded, at every position: the       *)
(* arithmetic of reginfo.cpp inverts that of regtriv.cpp, with its casts.  *)

LEMMA OddShiftInt == ASSUME NEW lPos \in Nat PROVE OddShift(lPos) \in Int
<1>1. (lPos % 17) + 2 \in Nat \ {0}
  OBVIOUS
<1>2. (lPos * 3 + 7) % ((lPos % 17) + 2) \in Int
  <2>1. \A a \in Nat, b \in Nat \ {0} : a % b \in Int
    OBVIOUS
  <2>2. lPos * 3 + 7 \in Nat
    OBVIOUS
  <2> QED BY <1>1, <2>1, <2>2
<1>3. (lPos + 23) % 256 \in Int
  OBVIOUS
<1> QED BY <1>2, <1>3 DEF OddShift

LEMMA Division == ASSUME NEW w \in Int PROVE \E q \in Int : w = 256 * q + (w % 256)
<1> WITNESS w \div 256 \in Int
<1> QED OBVIOUS

LEMMA ShiftBack ==
    ASSUME NEW v \in Byte, NEW s \in Int
    PROVE  (((v + s) % 256) - s) % 256 = v
<1>1. PICK q \in Int : v + s = 256 * q + ((v + s) % 256)
  BY Division DEF Byte
<1>2. ((v + s) % 256) - s = v + 256 * (0 - q)
  BY <1>1 DEF Byte
<1> QED BY <1>2 DEF Byte

LEMMA ComplementBack ==
    ASSUME NEW v \in Byte, NEW s \in Int
    PROVE  (0 - ((0 - (v + s) - 1) % 256) - 1 - s) % 256 = v
<1> DEFINE w == 0 - (v + s) - 1
<1>1. PICK q \in Int : w = 256 * q + (w % 256)
  <2>1. w \in Int
    BY DEF Byte
  <2> QED BY <2>1, Division
<1>2. 0 - (w % 256) - 1 - s = v + 256 * q
  BY <1>1 DEF Byte
<1> QED BY <1>2 DEF Byte

\* What regtriv encodes, RegInfo::load decodes: byte by byte, at every position
\* (regtriv.cpp:155, reginfo.cpp:130).
THEOREM DecodeEncode ==
    ASSUME NEW v \in Byte, NEW lPos \in Nat
    PROVE  decode(encode(v, lPos), lPos) = v
<1>1. CASE lPos % 2 = 0
  <2>1. (lPos % 8) * 3 \in Int
    OBVIOUS
  <2> QED BY <1>1, <2>1, ComplementBack DEF encode, decode
<1>2. CASE lPos % 2 # 0
  BY <1>2, OddShiftInt, ShiftBack DEF encode, decode
<1> QED BY <1>1, <1>2

-----------------------------------------------------------------------------
(* Settings                                                                *)

LEMMA SlotsAre == /\ NumFiles \in Nat /\ 0 \in Slots /\ 1 \in Slots
                  /\ \A n \in Slots : n \in Nat /\ n < NumFiles
<1>1. NumFiles \in Nat /\ NumFiles # 0 /\ NumFiles # 1
  BY ConfigurationAssumption DEF ConfigurationAssumption
<1> QED BY <1>1 DEF Slots

\* Settings in range that agree.
Good == {s \in Settings : Agreeing(s)}

SettingsInv ==
    /\ dat \in Good \cup {None}
    /\ info \in Good \cup {None}
    /\ spawned \in [info: Good, current: BOOLEAN] \cup {None}
    /\ spawned # None /\ spawned.current => spawned.info = loadSettings
    /\ sysop \in {"closed", "menu"} /\ (sysop # "closed" => info \in Good)
    /\ config \in [at: {"closed", "menu", "ask"}, settings: Good, original: Good, dirty: BOOLEAN]

LEMMA GoodDefaults == Defaults \in Good
<1>. DEFINE files == [n \in Slots |-> IF n = 0 THEN Core ELSE IF n = 1 THEN "custom.txt" ELSE ""]
<1>1. files \in [Slots -> File]
  BY ConfigurationAssumption DEF ConfigurationAssumption
<1>2. Defaults = [nQuestionFrequency |-> 50, nMaxClues |-> 3, nClueFrequency |-> 12,
                  bListSysops |-> TRUE, szExtraFiles |-> files]
  BY DEF Defaults
<1>. HIDE DEF files
<1>3. Defaults \in Settings
  BY <1>1, <1>2 DEF Settings
<1>4. Agreeing(Defaults)
  <2>1. 50 \div (3 + 1) = 12
    OBVIOUS
  <2> QED BY <1>2, <2>1 DEF Agreeing, FrequencyOK, CluesOK
<1> QED BY <1>3, <1>4 DEF Good

LEMMA GoodIs ==
    ASSUME NEW s \in Good
    PROVE  /\ s \in Settings /\ Agreeing(s)
           /\ s.nQuestionFrequency \in Int /\ s.nMaxClues \in 0 .. 4
           /\ s.nClueFrequency \in Int /\ s.bListSysops \in BOOLEAN
           /\ s.szExtraFiles \in [Slots -> File]
           /\ s = [nQuestionFrequency |-> s.nQuestionFrequency, nMaxClues |-> s.nMaxClues,
                   nClueFrequency |-> s.nClueFrequency, bListSysops |-> s.bListSysops,
                   szExtraFiles |-> s.szExtraFiles]
BY DEF Good, Settings, Agreeing, CluesOK

LEMMA DivType == ASSUME NEW v \in Int, NEW w \in 0 .. 4 PROVE v \div (w + 1) \in Int
OBVIOUS

LEMMA GoodFrequency ==
    ASSUME NEW s \in Good, NEW v \in Int, FrequencyOK(v)
    PROVE  setFrequency(s, v) \in Good /\ setFrequency(s, v).szExtraFiles = s.szExtraFiles
<1>1. v \div (s.nMaxClues + 1) \in Int
  BY GoodIs, DivType
<1> QED BY <1>1, GoodIs DEF Good, Settings, Agreeing, setFrequency

LEMMA GoodClues ==
    ASSUME NEW s \in Good, NEW v \in Int, CluesOK(v)
    PROVE  setClues(s, v) \in Good /\ setClues(s, v).szExtraFiles = s.szExtraFiles
<1>1. s.nQuestionFrequency \div (v + 1) \in Int
  BY GoodIs, DivType DEF CluesOK
<1> QED BY <1>1, GoodIs DEF Good, Settings, Agreeing, setClues

LEMMA GoodList ==
    ASSUME NEW s \in Good
    PROVE  LET t == [s EXCEPT !.bListSysops = ~@]
           IN  t \in Good /\ t.szExtraFiles = s.szExtraFiles
BY DEF Good, Settings, Agreeing

LEMMA GoodFiles ==
    ASSUME NEW s \in Good, NEW files \in [Slots -> File]
    PROVE  LET t == [s EXCEPT !.szExtraFiles = files]
           IN  t \in Good /\ t.szExtraFiles = files
BY DEF Good, Settings, Agreeing

LEMMA GoodLoad ==
    ASSUME dat \in Good \cup {None}
    PROVE  /\ loadSettings \in Good
           /\ dat # None => loadSettings = [dat EXCEPT !.szExtraFiles[0] = IF @ = "" THEN Core ELSE @]
<1>1. ASSUME NEW s \in Good
      PROVE  /\ Validated(s) = [s EXCEPT !.szExtraFiles[0] = IF @ = "" THEN Core ELSE @]
             /\ Validated(s) \in Good
  <2>1. /\ CluesOK(s.nMaxClues) /\ FrequencyOK(s.nQuestionFrequency)
        /\ s.nClueFrequency = s.nQuestionFrequency \div (s.nMaxClues + 1)
    BY DEF Good, Agreeing
  <2>2. Validated(s) = [s EXCEPT !.szExtraFiles[0] = IF @ = "" THEN Core ELSE @]
    BY <2>1, GoodIs DEF Validated
  <2>3. [s EXCEPT !.szExtraFiles[0] = IF @ = "" THEN Core ELSE @]
          = [s EXCEPT !.szExtraFiles = [s.szExtraFiles EXCEPT ![0] = IF @ = "" THEN Core ELSE @]]
    BY GoodIs
  <2>4. [s.szExtraFiles EXCEPT ![0] = IF @ = "" THEN Core ELSE @] \in [Slots -> File]
    BY GoodIs, ConfigurationAssumption DEF ConfigurationAssumption
  <2>5. [s EXCEPT !.szExtraFiles = [s.szExtraFiles EXCEPT ![0] = IF @ = "" THEN Core ELSE @]] \in Good
    BY <2>4, GoodFiles
  <2> QED BY <2>2, <2>3, <2>5
<1> QED BY <1>1, GoodDefaults DEF loadSettings

\* Nothing is saved by this step.
LEMMA SpawnedSame ==
    ASSUME SettingsInv, dat' = dat, spawned' = spawned
    PROVE  /\ dat' \in Good \cup {None}
           /\ spawned' \in [info: Good, current: BOOLEAN] \cup {None}
           /\ spawned' # None /\ spawned'.current => spawned'.info = loadSettings'
BY DEF SettingsInv, loadSettings

\* This one saves settings.
LEMMA SpawnedOutdated ==
    ASSUME SettingsInv, dat' \in Good, Outdated
    PROVE  /\ dat' \in Good \cup {None}
           /\ spawned' \in [info: Good, current: BOOLEAN] \cup {None}
           /\ spawned' # None /\ spawned'.current => spawned'.info = loadSettings'
<1>1. CASE spawned = None
  BY <1>1 DEF Outdated
<1>2. CASE spawned # None
  <2>1. spawned \in [info: Good, current: BOOLEAN]
    BY <1>2 DEF SettingsInv
  <2>2. spawned' = [spawned EXCEPT !.current = FALSE]
    BY <1>2 DEF Outdated
  <2> QED BY <2>1, <2>2
<1> QED BY <1>1, <1>2

LEMMA SettingsInit == Init => SettingsInv
<1>1. SUFFICES ASSUME Init PROVE SettingsInv
  OBVIOUS
<1>2. Closed \in [at: {"closed", "menu", "ask"}, settings: Good, original: Good, dirty: BOOLEAN]
  BY GoodDefaults DEF Closed
<1>3. dat \in Good \cup {None} /\ config = Closed /\ info = None /\ spawned = None /\ sysop = "closed"
  BY <1>1, GoodDefaults DEF Init
<1> QED BY <1>2, <1>3 DEF SettingsInv

LEMMA SettingsStep ==
    ASSUME SettingsInv, [Next]_vars
    PROVE  SettingsInv'
<1>. USE DEF serverVars
<1>0. Frequencies \subseteq Int /\ Clues \subseteq Int
  BY ConfigurationAssumption DEF ConfigurationAssumption
<1>1. CASE SpawnServer
  <2>1. loadSettings \in Good
    BY GoodLoad DEF SettingsInv
  <2>2. spawned' = [info |-> loadSettings, current |-> TRUE] /\ UNCHANGED <<dat, info, sysop, config>>
    BY <1>1 DEF SpawnServer
  <2> QED BY <2>1, <2>2 DEF SettingsInv, loadSettings
<1>2. CASE GoAway
  BY <1>2 DEF GoAway, SettingsInv, loadSettings
<1>3. CASE StartServer
  <2>1. spawned.info \in Good
    BY <1>3 DEF StartServer, SettingsInv
  <2>2. info' = spawned.info /\ spawned' = None /\ UNCHANGED <<dat, sysop, config>>
    BY <1>3 DEF StartServer
  <2> QED BY <2>1, <2>2 DEF SettingsInv
<1>4. CASE EnterNode \/ OpenMenu \/ CloseMenu \/ InstallKey \/ UNCHANGED vars
  <2>1. UNCHANGED <<dat, info, spawned, config>>
    BY <1>4 DEF EnterNode, OpenMenu, CloseMenu, InstallKey, vars
  <2>2. sysop' \in {"closed", "menu"} /\ (sysop' # "closed" => info \in Good)
    BY <1>4 DEF EnterNode, OpenMenu, CloseMenu, InstallKey, vars, SettingsInv
  <2> QED BY <2>1, <2>2, SpawnedSame DEF SettingsInv
<1>5. CASE MenuValue \/ MenuFile
  <2>1. UNCHANGED <<dat, spawned, config>> /\ sysop = "menu" /\ sysop' = "menu"
    BY <1>5 DEF MenuValue, MenuFile
  <2>2. info \in Good
    BY <2>1 DEF SettingsInv
  <2>3. CASE MenuValue
    <3>1. info' \in Good
      BY <1>0, <2>2, <2>3, GoodFrequency, GoodClues, GoodList DEF MenuValue
    <3> QED BY <2>1, <3>1, SpawnedSame DEF SettingsInv
  <2>4. CASE MenuFile
    <3>1. PICK n \in Slots, f \in File :
             info' = [info EXCEPT !.szExtraFiles = WithValidFile([info.szExtraFiles EXCEPT ![n] = f])]
      BY <2>4 DEF MenuFile
    <3>2. WithValidFile([info.szExtraFiles EXCEPT ![n] = f]) \in [Slots -> File]
      BY <2>2, GoodIs, ConfigurationAssumption DEF WithValidFile, ConfigurationAssumption
    <3>3. info' \in Good
      BY <2>2, <3>1, <3>2, GoodFiles
    <3> QED BY <2>1, <3>3, SpawnedSame DEF SettingsInv
  <2> QED BY <1>5, <2>3, <2>4
<1>6. CASE StopServer
  <2>1. info # None /\ sysop = "closed" /\ info' = None /\ sysop' = sysop /\ config' = config
        /\ ((dat' = info /\ Outdated) \/ UNCHANGED <<dat, spawned>>)
    BY <1>6 DEF StopServer
  <2>2. info \in Good
    BY <2>1 DEF SettingsInv
  <2> QED BY <2>1, <2>2, SpawnedSame, SpawnedOutdated DEF SettingsInv
<1>7. CASE OpenConfig
  <2>1. loadSettings \in Good
    BY GoodLoad DEF SettingsInv
  <2>2. config' = [at |-> "menu", settings |-> loadSettings, original |-> loadSettings, dirty |-> FALSE]
        /\ UNCHANGED <<dat, spawned, info, sysop>>
    BY <1>7 DEF OpenConfig
  <2>3. config' \in [at: {"closed", "menu", "ask"}, settings: Good, original: Good, dirty: BOOLEAN]
    BY <2>1, <2>2
  <2> QED BY <2>2, <2>3, SpawnedSame DEF SettingsInv
<1>8. CASE ConfigValue \/ ConfigFile
  <2>1. UNCHANGED <<dat, spawned, info, sysop>>
    BY <1>8 DEF ConfigValue, ConfigFile
  <2>. DEFINE s == config.settings
  <2>2. s \in Good /\ config \in [at: {"closed", "menu", "ask"}, settings: Good, original: Good, dirty: BOOLEAN]
    BY DEF SettingsInv
  <2>3. \E t \in Good : edited(t)
    <3>1. CASE ConfigValue
      <4>1. ASSUME NEW v \in Frequencies, promptInt(v, 25, 75), edited(setFrequency(config.settings, v))
            PROVE  \E t \in Good : edited(t)
        BY <1>0, <2>2, <4>1, GoodFrequency DEF promptInt, FrequencyOK
      <4>2. ASSUME NEW v \in Clues, promptInt(v, 0, 4), edited(setClues(config.settings, v))
            PROVE  \E t \in Good : edited(t)
        BY <1>0, <2>2, <4>2, GoodClues DEF promptInt, CluesOK
      <4>3. ASSUME edited([config.settings EXCEPT !.bListSysops = ~@])
            PROVE  \E t \in Good : edited(t)
        BY <2>2, <4>3, GoodList
      <4> QED BY <3>1, <4>1, <4>2, <4>3 DEF ConfigValue
    <3>2. CASE ConfigFile
      <4>1. PICK n \in Slots, f \in File :
               LET files == [s.szExtraFiles EXCEPT ![n] = f]
               IN  edited([s EXCEPT !.szExtraFiles =
                              IF \A m \in Slots : files[m] = "" THEN [files EXCEPT ![0] = Core] ELSE files])
        BY <3>2 DEF ConfigFile
      <4>. DEFINE files == [s.szExtraFiles EXCEPT ![n] = f]
                  set == IF \A m \in Slots : files[m] = "" THEN [files EXCEPT ![0] = Core] ELSE files
      <4>2. set \in [Slots -> File]
        BY <2>2, GoodIs, ConfigurationAssumption DEF ConfigurationAssumption
      <4>3. edited([s EXCEPT !.szExtraFiles = set])
        BY <4>1
      <4>. HIDE DEF set
      <4> QED BY <2>2, <4>2, <4>3, GoodFiles
    <3> QED BY <1>8, <3>1, <3>2
  <2>4. config' \in [at: {"closed", "menu", "ask"}, settings: Good, original: Good, dirty: BOOLEAN]
    BY <2>2, <2>3 DEF edited
  <2> QED BY <2>1, <2>4, SpawnedSame DEF SettingsInv
<1>9. CASE ConfigSave \/ ConfigQuit \/ ConfigAnswer
  <2>1. UNCHANGED <<info, sysop>>
    BY <1>9 DEF ConfigSave, ConfigQuit, ConfigAnswer
  <2>2. config \in [at: {"closed", "menu", "ask"}, settings: Good, original: Good, dirty: BOOLEAN]
    BY DEF SettingsInv
  <2>3. Closed \in [at: {"closed", "menu", "ask"}, settings: Good, original: Good, dirty: BOOLEAN]
    BY GoodDefaults DEF Closed
  <2>4. config' \in [at: {"closed", "menu", "ask"}, settings: Good, original: Good, dirty: BOOLEAN]
    BY <1>9, <2>2, <2>3 DEF ConfigSave, ConfigQuit, ConfigAnswer
  <2>5. (dat' = config.settings /\ Outdated) \/ UNCHANGED <<dat, spawned>>
    BY <1>9 DEF ConfigSave, ConfigQuit, ConfigAnswer, saveSettings
  <2>6. config.settings \in Good
    BY <2>2
  <2> QED BY <2>1, <2>4, <2>5, <2>6, SpawnedSame, SpawnedOutdated DEF SettingsInv
<1> QED
  BY <1>1, <1>2, <1>3, <1>4, <1>5, <1>6, <1>7, <1>8, <1>9 DEF Next

-----------------------------------------------------------------------------
(* Arithmetic, where it is better alone                                    *)

LEMMA LeqLeq ==
    ASSUME NEW a \in Nat, NEW b \in Nat, NEW c \in Nat, a <= b, b <= c
    PROVE  a <= c
OBVIOUS

LEMMA FiveMore ==
    ASSUME NEW a \in Nat, NEW b \in Nat
    PROVE  /\ a + b \in Nat /\ a + b + 5 \in Nat
           /\ \A c \in Nat : c <= a + b => c <= a + b + 5
OBVIOUS

LEMMA NoneMore == ASSUME NEW a \in Nat, a > 0 PROVE a # 0 /\ ~(a <= 0)
OBVIOUS

-----------------------------------------------------------------------------
(* The database                                                            *)

LEMMA MinTwo ==
    ASSUME NEW a \in Nat, NEW b \in Nat
    PROVE  Min({a, b}) \in Nat /\ Min({a, b}) <= a /\ Min({a, b}) <= b
<1>1. \E x \in {a, b} : \A y \in {a, b} : x <= y
  <2>1. a <= b \/ b <= a
    OBVIOUS
  <2> QED BY <2>1
<1>2. Min({a, b}) \in {a, b} /\ \A y \in {a, b} : Min({a, b}) <= y
  BY <1>1 DEF Min
<1> QED BY <1>2

LEMMA LimitsAre ==
    /\ Questions \in [File -> Nat] /\ Counted \in [File -> Nat] /\ Questions[""] = 0
    /\ \A f \in File : Questions[f] <= Counted[f]
    /\ MaxCore \in Nat /\ MaxExtra \in Nat /\ Core \in File
BY ConfigurationAssumption DEF ConfigurationAssumption

\* What indexQuestions adds.
LEMMA AddsRegistered == ASSUME NEW f \in File, NEW t \in Nat PROVE indexQuestions(f, t, TRUE) = Questions[f]
BY DEF indexQuestions

LEMMA AddsUnregistered ==
    ASSUME NEW f \in File, NEW t \in Nat
    PROVE  /\ indexQuestions(f, t, FALSE) \in Nat
           /\ indexQuestions(f, t, FALSE) <= Questions[f]
           /\ f = Core => indexQuestions(f, t, FALSE) <= MaxCore
           /\ f # Core /\ t > MaxCore + MaxExtra => indexQuestions(f, t, FALSE) = 0
           /\ f # Core /\ t <= MaxCore + MaxExtra => t + indexQuestions(f, t, FALSE) <= MaxCore + MaxExtra
<1>. DEFINE added == indexQuestions(f, t, FALSE)
<1>1. Questions[f] \in Nat /\ MaxCore \in Nat /\ MaxExtra \in Nat
  BY LimitsAre
<1>2. CASE f = Core
  <2>1. added = Min({Questions[f], MaxCore})
    BY <1>2 DEF indexQuestions
  <2> QED BY <1>1, <1>2, <2>1, MinTwo
<1>3. CASE f # Core /\ t > MaxCore + MaxExtra
  <2>1. added = 0
    BY <1>3 DEF indexQuestions
  <2>2. ~(t <= MaxCore + MaxExtra) /\ 0 <= Questions[f]
    BY <1>1, <1>3
  <2>3. 0 \in Nat /\ (f # Core /\ t <= MaxCore + MaxExtra => t + 0 <= MaxCore + MaxExtra)
    BY <1>1
  <2> QED BY <1>3, <2>1, <2>2, <2>3
<1>4. CASE f # Core /\ ~(t > MaxCore + MaxExtra)
  <2>. DEFINE left == MaxCore + MaxExtra - t
  <2>1. added = Min({Questions[f], left})
    BY <1>4 DEF indexQuestions
  <2>2. left \in Nat
    BY <1>1, <1>4
  <2>. HIDE DEF left
  <2>3. added \in Nat /\ added <= Questions[f] /\ added <= left
    BY <1>1, <2>1, <2>2, MinTwo
  <2>4. t + added <= MaxCore + MaxExtra
    <3>. HIDE DEF added
    <3> QED BY <1>1, <2>3 DEF left
  <2> QED BY <1>4, <2>3, <2>4
<1> QED BY <1>2, <1>3, <1>4

\* The totals of indexAll, slot after slot.
Totals(files, total, size, registered) ==
    /\ total \in [0 .. NumFiles -> Nat] /\ total[0] = 0
    /\ size \in [Slots -> Nat]
    /\ \A n \in Slots : /\ size[n] = indexQuestions(files[n], total[n], registered)
                        /\ total[n + 1] = total[n] + size[n]

LEMMA IndexAll ==
    ASSUME NEW files \in [Slots -> File], NEW registered,
           \A f \in File, t \in Nat : indexQuestions(f, t, registered) \in Nat
    PROVE  \E total : Totals(files, total, indexAll(files, registered), registered)
<1>. DEFINE D == 0 .. NumFiles
            rank == [n \in D |-> n]
            step(g, n) == IF n = 0 THEN 0 ELSE g[n - 1] + indexQuestions(files[n - 1], g[n - 1], registered)
            F == [g \in [D -> Nat] |-> [n \in D |-> step(g, n)]]
<1>1. NumFiles \in Nat /\ \A n \in D : n # 0 => n - 1 \in D /\ n - 1 \in Slots /\ n - 1 < n
  BY SlotsAre DEF Slots
<1>2. \A n \in Slots : n \in D /\ n + 1 \in D /\ n + 1 # 0 /\ (n + 1) - 1 = n
  BY SlotsAre DEF Slots
<1>3. 0 \in D /\ D \subseteq Nat
  BY <1>1
<1>. HIDE DEF D
<1>4. \A g \in [D -> Nat], n \in D : step(g, n) \in Nat
  <2>. TAKE g \in [D -> Nat], n \in D
  <2>1. CASE n = 0
    BY <2>1
  <2>2. CASE n # 0
    <3>1. g[n - 1] \in Nat /\ files[n - 1] \in File
      BY <1>1, <2>2
    <3>2. indexQuestions(files[n - 1], g[n - 1], registered) \in Nat
      BY <3>1
    <3> QED BY <2>2, <3>1, <3>2
  <2> QED BY <2>1, <2>2
<1>5. \A g, h \in [D -> Nat] : \A n \in D :
        (\A e \in D : rank[e] < rank[n] => g[e] = h[e]) => F[g][n] = F[h][n]
  <2>1. ASSUME NEW g \in [D -> Nat], NEW h \in [D -> Nat], NEW n \in D,
               \A e \in D : rank[e] < rank[n] => g[e] = h[e]
        PROVE  step(g, n) = step(h, n)
    <3>1. n # 0 => g[n - 1] = h[n - 1]
      BY <1>1, <2>1
    <3> QED BY <3>1
  <2>. HIDE DEF step
  <2>2. \A g \in [D -> Nat], n \in D : F[g][n] = step(g, n)
    OBVIOUS
  <2>. HIDE DEF F
  <2> QED BY <2>1, <2>2
<1>6. F \in [[D -> Nat] -> [D -> Nat]]
  <2>. HIDE DEF step
  <2> QED BY <1>4
<1>7. /\ rank \in [D -> Nat]
      /\ \E N \in Nat : \A n \in D : rank[n] < N
  <2>1. NumFiles + 1 \in Nat /\ \A n \in D : n < NumFiles + 1
    BY <1>1 DEF D
  <2> QED BY <1>3, <2>1
<1>8. \E g \in [D -> Nat] : g = F[g]
  <2>1. GoesDown(D, Nat, rank, F)
    <3>. HIDE DEF F, rank
    <3> QED BY <1>5, <1>6, <1>7 DEF GoesDown
  <2>. HIDE DEF F
  <2> QED BY <2>1, RecursiveFunction
<1>9. PICK g \in [D -> Nat] : g = [n \in D |-> step(g, n)]
  BY <1>8
<1>. DEFINE total == CHOOSE h : h = [n \in D |-> step(h, n)]
            size == indexAll(files, registered)
<1>10. total = [n \in D |-> step(total, n)]
  BY <1>9
<1>11. size = [n \in Slots |-> total[n + 1] - total[n]]
  BY DEF indexAll, D
<1>. HIDE DEF total, size
<1>12. \A n \in D : total[n] = step(total, n)
  BY <1>10
<1>13. total \in [D -> Nat]
  <2>. DEFINE T == {n \in D : total[n] \in Nat}
  <2>1. ASSUME NEW n \in D, \A e \in D : rank[e] < rank[n] => e \in T
        PROVE  n \in T
    <3>1. CASE n = 0
      <4>1. total[n] = 0
        BY <1>12, <3>1
      <4> QED BY <4>1
    <3>2. CASE n # 0
      <4>1. total[n - 1] \in Nat /\ files[n - 1] \in File
        BY <1>1, <2>1, <3>2
      <4>2. indexQuestions(files[n - 1], total[n - 1], registered) \in Nat
        BY <4>1
      <4>3. total[n] = total[n - 1] + indexQuestions(files[n - 1], total[n - 1], registered)
        BY <1>12, <3>2
      <4> QED BY <4>1, <4>2, <4>3
    <3> QED BY <3>1, <3>2
  <2>2. D \subseteq T
    <3>. HIDE DEF T, rank
    <3> QED BY <1>7, <2>1, RankInduction
  <2> QED BY <1>10, <2>2
<1>14. ASSUME NEW n \in Slots
       PROVE  /\ size[n] = indexQuestions(files[n], total[n], registered)
              /\ size[n] \in Nat
              /\ total[n + 1] = total[n] + size[n]
  <2>1. total[n] \in Nat /\ total[n + 1] \in Nat
    BY <1>2, <1>13
  <2>2. total[n + 1] = total[n] + indexQuestions(files[n], total[n], registered)
    BY <1>2, <1>12
  <2>3. indexQuestions(files[n], total[n], registered) \in Nat
    BY <2>1
  <2>4. size[n] = total[n + 1] - total[n]
    BY <1>11
  <2> QED BY <2>1, <2>2, <2>3, <2>4
<1>15. total[0] = 0
  BY <1>3, <1>12
<1>16. size \in [Slots -> Nat]
  BY <1>11, <1>14
<1>17. Totals(files, total, size, registered)
  BY <1>13, <1>14, <1>15, <1>16 DEF Totals, D
<1> QED BY <1>17 DEF size

\* A total is the sum of the sizes before it.
LEMMA TotalIsSum ==
    ASSUME NEW files, NEW total, NEW size, NEW registered, Totals(files, total, size, registered)
    PROVE  \A n \in 0 .. NumFiles : SumOver(size, 0 .. n - 1) = total[n]
<1>. USE DEF Totals
<1>. DEFINE S == {n \in Nat : n <= NumFiles => SumOver(size, 0 .. n - 1) = total[n]}
<1>1. 0 \in S
  <2>1. 0 .. 0 - 1 = {}
    OBVIOUS
  <2>2. SumOver(size, {}) = 0
    BY SumStep, FS_EmptySet
  <2> QED BY <2>1, <2>2
<1>2. ASSUME NEW n \in Nat, n \in S PROVE n + 1 \in S
  <2>1. SUFFICES ASSUME n + 1 <= NumFiles PROVE SumOver(size, 0 .. (n + 1) - 1) = total[n + 1]
    OBVIOUS
  <2>2. n \in Slots /\ n <= NumFiles
    BY <2>1, SlotsAre DEF Slots
  <2>. DEFINE U == 0 .. n
  <2>3. (n + 1) - 1 = n /\ n \in U /\ U \ {n} = 0 .. n - 1
    OBVIOUS
  <2>4. \A m \in U : size[m] \in Nat
    BY <2>1, SlotsAre DEF Slots
  <2>5. IsFiniteSet(U)
    BY FS_Interval
  <2>6. SumOver(size, U) = size[n] + SumOver(size, U \ {n})
    <3>. HIDE DEF U, Totals, S
    <3> QED BY <2>3, <2>4, <2>5, SumOff
  <2>7. SumOver(size, U) = size[n] + SumOver(size, 0 .. n - 1)
    <3>. HIDE DEF U
    <3> QED BY <2>3, <2>6
  <2>8. SumOver(size, 0 .. n - 1) = total[n]
    BY <1>2, <2>2
  <2>9. total[n + 1] = total[n] + size[n] /\ size[n] \in Nat /\ total[n] \in Nat
    BY <2>2, SlotsAre DEF Slots
  <2>10. SumOver(size, U) = total[n + 1]
    <3>. HIDE DEF U, Totals, S
    <3> QED BY <2>7, <2>8, <2>9
  <2> QED BY <2>3, <2>10
<1>3. Nat \subseteq S
  <2>. HIDE DEF S
  <2> QED BY <1>1, <1>2, Induct
<1>4. \A n \in 0 .. NumFiles : n \in S /\ n <= NumFiles
  BY <1>3, SlotsAre
<1> QED BY <1>4

\* What the questions of a file that are indexed take up.
LEMMA CountsAre ==
    ASSUME NEW f \in File
    PROVE  /\ countInFile(f, TRUE) = Counted[f]
           /\ countInFile(f, FALSE) \in Nat
           /\ f # Core => countInFile(f, FALSE) = Counted[f]
           /\ f = Core => countInFile(f, FALSE) = Counted[f] \/ countInFile(f, FALSE) = MaxCore
BY LimitsAre DEF countInFile

LEMMA SlotsFinite == IsFiniteSet(Slots)
BY SlotsAre, FS_Interval DEF Slots

LEMMA TotalIsWhole ==
    ASSUME NEW files, NEW total, NEW size, NEW registered, Totals(files, total, size, registered)
    PROVE  SumOver(size, Slots) = total[NumFiles]
BY TotalIsSum, SlotsAre DEF Slots

LEMMA RoomIs ==
    ASSUME NEW files \in [Slots -> File]
    PROVE  /\ roomFor(files, TRUE) = SumOver([n \in Slots |-> countInFile(files[n], TRUE)], Slots)
           /\ LET sum == SumOver([n \in Slots |-> countInFile(files[n], FALSE)], Slots)
              IN  roomFor(files, FALSE) = IF sum > MaxCore + MaxExtra THEN MaxCore + MaxExtra + 5 ELSE sum
<1>. DEFINE count(r) == [n \in Slots |-> countInFile(files[n], r)]
<1>1. DOMAIN count(TRUE) = Slots /\ DOMAIN count(FALSE) = Slots
  OBVIOUS
<1>. HIDE DEF count
<1>2. FoldFunction(+, 0, count(TRUE)) = SumOver(count(TRUE), Slots)
  BY <1>1 DEF FoldFunction, SumOver
<1>3. FoldFunction(+, 0, count(FALSE)) = SumOver(count(FALSE), Slots)
  BY <1>1 DEF FoldFunction, SumOver
<1>4. roomFor(files, TRUE) = FoldFunction(+, 0, count(TRUE))
  BY DEF roomFor, count
<1>5. roomFor(files, FALSE) = IF FoldFunction(+, 0, count(FALSE)) > MaxCore + MaxExtra
                              THEN MaxCore + MaxExtra + 5 ELSE FoldFunction(+, 0, count(FALSE))
  BY DEF roomFor, count
<1> QED BY <1>2, <1>3, <1>4, <1>5 DEF count

\* A registered copy: every question, and room for all.
LEMMA RegisteredIndex ==
    ASSUME NEW files \in [Slots -> File]
    PROVE  LET size == indexAll(files, TRUE)
           IN  /\ size \in [Slots -> Nat]
               /\ size = [n \in Slots |-> Questions[files[n]]]
               /\ SumOver(size, Slots) <= roomFor(files, TRUE)
               /\ roomFor(files, TRUE) \in Nat
<1>. DEFINE size == indexAll(files, TRUE)
            count == [n \in Slots |-> countInFile(files[n], TRUE)]
<1>1. \A f \in File, t \in Nat : indexQuestions(f, t, TRUE) \in Nat
  BY AddsRegistered, LimitsAre
<1>2. PICK total : Totals(files, total, size, TRUE)
  BY <1>1, IndexAll
<1>3. size \in [Slots -> Nat] /\ \A n \in Slots : size[n] = indexQuestions(files[n], total[n], TRUE)
  BY <1>2 DEF Totals
<1>. HIDE DEF size
<1>4. ASSUME NEW n \in Slots PROVE size[n] = Questions[files[n]] /\ files[n] \in File
  <2>1. total[n] \in Nat
    BY <1>2, SlotsAre DEF Totals, Slots
  <2> QED BY <1>3, <2>1, AddsRegistered
<1>5. \A n \in Slots : size[n] \in Nat /\ count[n] \in Nat /\ size[n] <= count[n]
  BY <1>4, LimitsAre, CountsAre
<1>6. SumOver(size, Slots) <= SumOver(count, Slots)
  <2>. HIDE DEF count
  <2> QED BY <1>5, SlotsFinite, SumLeq
<1>7. SumOver(count, Slots) \in Nat
  <2>. HIDE DEF count
  <2> QED BY <1>5, SlotsFinite, SumStep
<1>8. roomFor(files, TRUE) = SumOver(count, Slots)
  BY RoomIs
<1>9. size = [n \in Slots |-> Questions[files[n]]]
  BY <1>3, <1>4
<1> QED BY <1>3, <1>6, <1>7, <1>8, <1>9 DEF size

\* An unregistered copy: room enough if the core file comes first, and only there.
LEMMA UnregisteredIndex ==
    ASSUME NEW files \in [Slots -> File]
    PROVE  LET size == indexAll(files, FALSE)
           IN  /\ size \in [Slots -> Nat]
               /\ CoreFirst(files) => SumOver(size, Slots) <= roomFor(files, FALSE)
               /\ roomFor(files, FALSE) \in Nat
               /\ \A n \in Slots : size[n] > 0 => ~skipped(files, n, FALSE)
<1>. DEFINE size == indexAll(files, FALSE)
            count == [n \in Slots |-> countInFile(files[n], FALSE)]
<1>1. \A f \in File, t \in Nat : indexQuestions(f, t, FALSE) \in Nat
  BY AddsUnregistered
<1>2. PICK total : Totals(files, total, size, FALSE)
  BY <1>1, IndexAll
<1>3. /\ size \in [Slots -> Nat]
      /\ \A n \in Slots : /\ size[n] = indexQuestions(files[n], total[n], FALSE)
                          /\ total[n + 1] = total[n] + size[n]
  BY <1>2 DEF Totals
<1>4. total \in [0 .. NumFiles -> Nat] /\ total[0] = 0
  BY <1>2 DEF Totals
<1>5. SumOver(size, Slots) = total[NumFiles]
  BY <1>2, TotalIsWhole
<1>6. \A n \in 0 .. NumFiles : SumOver(size, 0 .. n - 1) = total[n]
  BY <1>2, TotalIsSum
<1>7. \A n \in Slots : n \in 0 .. NumFiles /\ n + 1 \in 0 .. NumFiles /\ files[n] \in File
  BY SlotsAre DEF Slots
<1>8. roomFor(files, FALSE) = IF SumOver(count, Slots) > MaxCore + MaxExtra
                              THEN MaxCore + MaxExtra + 5 ELSE SumOver(count, Slots)
  BY RoomIs
<1>9. ASSUME NEW n \in Slots, size[n] > 0
      PROVE  ~skipped(files, n, FALSE)
  <2>1. total[n] \in Nat /\ files[n] \in File
    BY <1>4, <1>7
  <2>2. size[n] = indexQuestions(files[n], total[n], FALSE) /\ size[n] \in Nat
    BY <1>3
  <2>3. files[n] # ""
    <3>1. files[n] = "" => size[n] <= 0
      BY <2>1, <2>2, AddsUnregistered, LimitsAre
    <3>. HIDE DEF size
    <3> QED BY <1>9, <2>2, <3>1, NoneMore
  <2>4. files[n] # Core => ~(total[n] > MaxCore + MaxExtra)
    <3>1. files[n] # Core /\ total[n] > MaxCore + MaxExtra => size[n] = 0
      BY <2>1, <2>2, AddsUnregistered
    <3>. HIDE DEF size
    <3> QED BY <1>9, <2>2, <3>1, NoneMore
  <2>5. FoldFunctionOnSet(+, 0, size, 0 .. n - 1) = total[n]
    BY <1>6, <1>7 DEF SumOver
  <2> QED BY <2>3, <2>4, <2>5 DEF skipped
<1>. HIDE DEF size
<1>10. \A n \in Slots : count[n] \in Nat
  BY <1>7, CountsAre
<1>11. SumOver(count, Slots) \in Nat
  <2>. HIDE DEF count
  <2> QED BY <1>10, SlotsFinite, SumStep
<1>12. ASSUME CoreFirst(files)
       PROVE  SumOver(size, Slots) <= roomFor(files, FALSE)
  <2>1. ASSUME NEW n \in Slots
        PROVE  /\ size[n] <= count[n]
               /\ n = 0 => size[n] <= MaxCore
               /\ n # 0 => files[n] # Core
    <3>1. /\ total[n] \in Nat /\ files[n] \in File
          /\ size[n] = indexQuestions(files[n], total[n], FALSE) /\ size[n] \in Nat
      BY <1>3, <1>4, <1>7
    <3>2. CASE n = 0
      <4>1. files[n] = Core
        BY <1>12, <3>2 DEF CoreFirst
      <4>2. size[n] <= MaxCore /\ size[n] <= Questions[files[n]]
        BY <3>1, <4>1, AddsUnregistered
      <4>3. count[n] = Counted[files[n]] \/ count[n] = MaxCore
        BY <3>1, <4>1, CountsAre
      <4>4. Questions[files[n]] \in Nat /\ Counted[files[n]] \in Nat
            /\ Questions[files[n]] <= Counted[files[n]]
        BY <3>1, LimitsAre
      <4>5. size[n] <= Counted[files[n]]
        <5>. HIDE DEF count
        <5> QED BY <3>1, <4>2, <4>4, LeqLeq
      <4>. HIDE DEF count
      <4> QED BY <3>2, <4>2, <4>3, <4>5
    <3>3. CASE n # 0
      <4>1. files[n] # Core
        BY <1>12, <3>3 DEF CoreFirst
      <4>2. count[n] = Counted[files[n]] /\ size[n] <= Questions[files[n]]
        BY <3>1, <4>1, CountsAre, AddsUnregistered
      <4>3. Questions[files[n]] \in Nat /\ Counted[files[n]] \in Nat
            /\ Questions[files[n]] <= Counted[files[n]]
        BY <3>1, LimitsAre
      <4>. HIDE DEF count
      <4>4. size[n] <= count[n]
        BY <3>1, <4>2, <4>3, LeqLeq
      <4> QED BY <3>3, <4>1, <4>4
    <3> QED BY <3>2, <3>3
  <2>2. SumOver(size, Slots) <= SumOver(count, Slots)
    <3>1. \A n \in Slots : size[n] \in Nat /\ count[n] \in Nat /\ size[n] <= count[n]
      BY <1>3, <1>10, <2>1
    <3>. HIDE DEF count
    <3> QED BY <3>1, SlotsFinite, SumLeq
  <2>. DEFINE S == {n \in Nat : n + 1 <= NumFiles => total[n + 1] <= MaxCore + MaxExtra}
  <2>3. 0 \in S
    <3>1. 0 \in Slots /\ 0 + 1 = 1
      BY SlotsAre
    <3>2. total[1] = total[0] + size[0] /\ size[0] \in Nat
      BY <1>3, <3>1
    <3>3. size[0] <= MaxCore
      BY <2>1, <3>1
    <3>4. total[1] = size[0]
      BY <1>4, <3>2
    <3>5. MaxCore \in Nat /\ MaxExtra \in Nat
      BY LimitsAre
    <3>6. total[1] <= MaxCore + MaxExtra
      <4>. HIDE DEF count
      <4> QED BY <3>2, <3>3, <3>4, <3>5
    <3> QED BY <3>1, <3>6
  <2>4. ASSUME NEW n \in Nat, n \in S PROVE n + 1 \in S
    <3>1. SUFFICES ASSUME (n + 1) + 1 <= NumFiles PROVE total[(n + 1) + 1] <= MaxCore + MaxExtra
      OBVIOUS
    <3>2. n + 1 \in Slots /\ n + 1 # 0 /\ n + 1 <= NumFiles /\ n + 1 \in 0 .. NumFiles
      BY <3>1, SlotsAre DEF Slots
    <3>3. total[n + 1] <= MaxCore + MaxExtra /\ total[n + 1] \in Nat
      BY <1>4, <2>4, <3>2
    <3>4. total[n + 1] + indexQuestions(files[n + 1], total[n + 1], FALSE) <= MaxCore + MaxExtra
      BY <1>7, <2>1, <3>2, <3>3, AddsUnregistered
    <3> QED BY <1>3, <3>2, <3>4
  <2>5. Nat \subseteq S
    <3>. HIDE DEF S
    <3> QED BY <2>3, <2>4, Induct
  <2>6. total[NumFiles] <= MaxCore + MaxExtra
    <3>1. NumFiles - 1 \in Nat /\ (NumFiles - 1) + 1 = NumFiles /\ NumFiles <= NumFiles
      BY SlotsAre DEF Slots
    <3>2. NumFiles - 1 \in S
      BY <2>5, <3>1
    <3> QED BY <3>1, <3>2
  <2>7. total[NumFiles] \in Nat
    BY <1>4, SlotsAre
  <2>8. MaxCore \in Nat /\ MaxExtra \in Nat
    BY LimitsAre
  <2>. HIDE DEF count, S
  <2>9. CASE SumOver(count, Slots) > MaxCore + MaxExtra
    <3>1. roomFor(files, FALSE) = MaxCore + MaxExtra + 5
      BY <1>8, <2>9
    <3>2. total[NumFiles] <= MaxCore + MaxExtra + 5
      BY <2>6, <2>7, <2>8, FiveMore
    <3> QED BY <1>5, <3>1, <3>2
  <2>10. CASE ~(SumOver(count, Slots) > MaxCore + MaxExtra)
    <3>1. roomFor(files, FALSE) = SumOver(count, Slots)
      BY <1>8, <2>10
    <3> QED BY <2>2, <3>1
  <2> QED BY <2>9, <2>10
<1>13. roomFor(files, FALSE) \in Nat
  <2>. HIDE DEF count
  <2>1. MaxCore + MaxExtra + 5 \in Nat
    BY LimitsAre, FiveMore
  <2> QED BY <1>8, <1>11, <2>1
<1> QED BY <1>3, <1>9, <1>12, <1>13 DEF size

DatabaseInv ==
    /\ index.size \in [Slots -> Nat] /\ index.room \in Nat
    /\ szDB \in [Slots -> File \cup {"none"}]
    /\ indexed \in [Slots -> File]
    /\ \A n \in Slots : index.size[n] > 0 => szDB[n] = indexed[n]
    /\ szRegdTo # <<>> \/ CoreFirst(indexed) => SumOver(index.size, Slots) <= index.room
    /\ szRegdTo # <<>> => index.size = [n \in Slots |-> Questions[indexed[n]]]

\* The database is made again, whichever way the server is registered then.
LEMMA DatabaseMade ==
    ASSUME NEW files \in [Slots -> File], NEW names \in [Slots -> File \cup {"none"}],
           initDatabase(files, names, szRegdTo' # <<>>)
    PROVE  DatabaseInv' /\ indexed' = files
<1>. DEFINE r == szRegdTo' # <<>>
<1>1. /\ index' = [size |-> indexAll(files, r), room |-> roomFor(files, r)]
      /\ szDB' = [n \in Slots |-> IF skipped(files, n, r) THEN names[n] ELSE files[n]]
      /\ indexed' = files
  BY DEF initDatabase
<1>2. CASE szRegdTo' # <<>>
  <2>1. r = TRUE
    BY <1>2
  <2>2. /\ index' = [size |-> indexAll(files, TRUE), room |-> roomFor(files, TRUE)]
        /\ szDB' = [n \in Slots |-> IF skipped(files, n, TRUE) THEN names[n] ELSE files[n]]
    BY <1>1, <2>1
  <2>3. index'.size = indexAll(files, TRUE) /\ index'.room = roomFor(files, TRUE)
    BY <2>2
  <2>4. /\ index'.size \in [Slots -> Nat]
        /\ index'.size = [n \in Slots |-> Questions[files[n]]]
        /\ SumOver(index'.size, Slots) <= index'.room
        /\ index'.room \in Nat
    BY <2>3, RegisteredIndex
  <2>5. ASSUME NEW n \in Slots, index'.size[n] > 0 PROVE szDB'[n] = files[n]
    <3>1. files[n] # ""
      <4>1. index'.size[n] = Questions[files[n]]
        BY <2>4
      <4>2. 0 > 0 => FALSE
        OBVIOUS
      <4> QED BY <2>5, <4>1, <4>2, LimitsAre
    <3>2. ~skipped(files, n, TRUE)
      BY <3>1 DEF skipped
    <3> QED BY <2>2, <3>2
  <2>6. szDB' \in [Slots -> File \cup {"none"}]
    BY <2>2
  <2> QED BY <1>1, <2>4, <2>5, <2>6 DEF DatabaseInv
<1>3. CASE szRegdTo' = <<>>
  <2>1. r = FALSE
    BY <1>3
  <2>2. /\ index' = [size |-> indexAll(files, FALSE), room |-> roomFor(files, FALSE)]
        /\ szDB' = [n \in Slots |-> IF skipped(files, n, FALSE) THEN names[n] ELSE files[n]]
    <3>. HIDE DEF r
    <3> QED BY <1>1, <2>1
  <2>3. index'.size = indexAll(files, FALSE) /\ index'.room = roomFor(files, FALSE)
    BY <2>2
  <2>4. /\ index'.size \in [Slots -> Nat]
        /\ CoreFirst(files) => SumOver(index'.size, Slots) <= index'.room
        /\ index'.room \in Nat
        /\ \A n \in Slots : index'.size[n] > 0 => ~skipped(files, n, FALSE)
    BY <2>3, UnregisteredIndex
  <2>5. \A n \in Slots : index'.size[n] > 0 => szDB'[n] = files[n]
    BY <2>2, <2>4
  <2>6. szDB' \in [Slots -> File \cup {"none"}]
    BY <2>2
  <2> QED BY <1>1, <1>3, <2>4, <2>5, <2>6 DEF DatabaseInv, CoreFirst
<1> QED BY <1>1, <1>2, <1>3

LEMMA DatabaseInit == Init => DatabaseInv
<1>1. SUFFICES ASSUME Init PROVE DatabaseInv
  OBVIOUS
<1>2. /\ index.size = [n \in Slots |-> 0] /\ index.room = 0 /\ szRegdTo = <<>>
      /\ szDB = [n \in Slots |-> "none"] /\ indexed = [n \in Slots |-> ""]
  BY <1>1 DEF Init
<1>3. ~CoreFirst(indexed)
  BY <1>2, SlotsAre DEF CoreFirst, Core
<1>4. \A n \in Slots : ~(index.size[n] > 0)
  <2>1. ~(0 > 0)
    OBVIOUS
  <2> QED BY <1>2, <2>1
<1>5. "" \in File
  BY ConfigurationAssumption DEF ConfigurationAssumption
<1>6. index.size \in [Slots -> Nat] /\ index.room \in Nat
  <2>1. [n \in Slots |-> 0] \in [Slots -> Nat] /\ 0 \in Nat
    OBVIOUS
  <2>2. index.size = [n \in Slots |-> 0] /\ index.room = 0
    BY <1>2
  <2> QED BY <2>1, <2>2
<1>7. szDB \in [Slots -> File \cup {"none"}] /\ indexed \in [Slots -> File]
  BY <1>2, <1>5
<1> QED BY <1>2, <1>3, <1>4, <1>6, <1>7 DEF DatabaseInv

LEMMA DatabaseStep ==
    ASSUME SettingsInv, DatabaseInv, [Next]_vars
    PROVE  DatabaseInv'
<1>. USE DEF serverVars
<1>1. CASE StartServer
  <2>1. spawned.info \in Good
    BY <1>1 DEF StartServer, SettingsInv
  <2>2. info'.szExtraFiles \in [Slots -> File]
    BY <1>1, <2>1, GoodIs DEF StartServer
  <2>. DEFINE names == [n \in Slots |-> IF n = 0 THEN Core ELSE "none"]
  <2>3. names \in [Slots -> File \cup {"none"}]
    BY LimitsAre
  <2>4. initDatabase(info'.szExtraFiles, names, szRegdTo' # <<>>)
    BY <1>1 DEF StartServer
  <2>. HIDE DEF names
  <2> QED BY <2>2, <2>3, <2>4, DatabaseMade
<1>2. CASE EnterNode
  <2>1. info \in Good
    BY <1>2 DEF EnterNode, SettingsInv
  <2>2. info.szExtraFiles \in [Slots -> File] /\ szDB \in [Slots -> File \cup {"none"}]
    BY <2>1, GoodIs DEF DatabaseInv
  <2>3. szRegdTo' # <<>> /\ initDatabase(info.szExtraFiles, szDB, TRUE)
    BY <1>2 DEF EnterNode
  <2>4. initDatabase(info.szExtraFiles, szDB, szRegdTo' # <<>>)
    <3>1. (szRegdTo' # <<>>) = TRUE
      BY <2>3
    <3> QED BY <2>3, <3>1
  <2> QED BY <2>2, <2>4, DatabaseMade
<1>3. CASE MenuFile
  <2>1. sysop = "menu" /\ szRegdTo' = szRegdTo
    BY <1>3 DEF MenuFile
  <2>2. info \in Good
    BY <2>1 DEF SettingsInv
  <2>3. PICK n \in Slots, f \in File :
           LET files == WithValidFile([info.szExtraFiles EXCEPT ![n] = f])
           IN  initDatabase(files, szDB, szRegdTo # <<>>)
    BY <1>3 DEF MenuFile
  <2>. DEFINE files == WithValidFile([info.szExtraFiles EXCEPT ![n] = f])
  <2>4. files \in [Slots -> File] /\ szDB \in [Slots -> File \cup {"none"}]
    BY <2>2, GoodIs, ConfigurationAssumption DEF WithValidFile, ConfigurationAssumption, DatabaseInv
  <2>5. initDatabase(files, szDB, szRegdTo' # <<>>)
    BY <2>1, <2>3
  <2>. HIDE DEF files
  <2> QED BY <2>4, <2>5, DatabaseMade
<1>4. CASE UNCHANGED <<szRegdTo, index, szDB, indexed>>
  BY <1>4 DEF DatabaseInv, CoreFirst
<1>5. Next => StartServer \/ EnterNode \/ MenuFile \/ UNCHANGED <<szRegdTo, index, szDB, indexed>>
  BY DEF Next, SpawnServer, GoAway, OpenMenu, MenuValue, CloseMenu, StopServer, OpenConfig,
         ConfigValue, ConfigFile, ConfigSave, ConfigQuit, ConfigAnswer, InstallKey
<1> QED BY <1>1, <1>2, <1>3, <1>4, <1>5 DEF vars

\* The settings in the file, in a server and in trivconfig are in range and agree,
\* wherever they came from, and the index is one that initDatabase made of them.
THEOREM SettingsAgree == Spec => [](SettingsInv /\ DatabaseInv)
<1>1. Init => SettingsInv /\ DatabaseInv
  BY SettingsInit, DatabaseInit
<1>2. (SettingsInv /\ DatabaseInv) /\ [Next]_vars => (SettingsInv /\ DatabaseInv)'
  BY SettingsStep, DatabaseStep
<1> QED BY <1>1, <1>2, PTL DEF Spec

\* The questions fit into the array that was counted for them, with any files: the sum
\* of what is indexed is at most the sum of what is counted (trivia.cpp:139).
THEOREM NothingOverflows == Spec => []IndexFits
<1>1. ASSUME DatabaseInv PROVE IndexFits
  <2>1. DOMAIN index.size = Slots
    BY <1>1 DEF DatabaseInv
  <2>2. FoldFunction(+, 0, index.size) = SumOver(index.size, Slots)
    BY <2>1 DEF FoldFunction, SumOver
  <2> QED BY <1>1, <2>2 DEF DatabaseInv, IndexFits
<1> QED BY <1>1, SettingsAgree, PTL

\* A running server, and so one with an open menu, has the index of the files of its
\* settings.
IndexOfFiles == info # None \/ sysop # "closed" => indexed = info.szExtraFiles

LEMMA IndexOfFilesStep ==
    ASSUME SettingsInv, IndexOfFiles, [Next]_vars
    PROVE  IndexOfFiles'
<1>. USE DEF serverVars
<1>1. CASE StartServer
  BY <1>1 DEF StartServer, initDatabase, IndexOfFiles
<1>2. CASE EnterNode
  BY <1>2 DEF EnterNode, initDatabase, IndexOfFiles
<1>3. CASE MenuFile
  <2>1. PICK n \in Slots, f \in File :
           LET files == WithValidFile([info.szExtraFiles EXCEPT ![n] = f])
           IN  /\ info' = [info EXCEPT !.szExtraFiles = files]
               /\ initDatabase(files, szDB, szRegdTo # <<>>)
    BY <1>3 DEF MenuFile
  <2>2. info \in Good
    BY <1>3 DEF MenuFile, SettingsInv
  <2> QED BY <2>1, <2>2, GoodIs DEF initDatabase, IndexOfFiles
<1>4. CASE MenuValue
  <2>1. info \in Good /\ indexed' = indexed /\ sysop = "menu"
    BY <1>4 DEF MenuValue, SettingsInv
  <2>2. Frequencies \subseteq Int /\ Clues \subseteq Int
    BY ConfigurationAssumption DEF ConfigurationAssumption
  <2>3. info'.szExtraFiles = info.szExtraFiles
    <3>1. ASSUME NEW v \in Frequencies, FrequencyOK(v), info' = setFrequency(info, v)
          PROVE  info'.szExtraFiles = info.szExtraFiles
      BY <2>1, <2>2, <3>1, GoodFrequency
    <3>2. ASSUME NEW v \in Clues, CluesOK(v), info' = setClues(info, v)
          PROVE  info'.szExtraFiles = info.szExtraFiles
      BY <2>1, <2>2, <3>2, GoodClues
    <3>3. ASSUME info' = [info EXCEPT !.bListSysops = ~@]
          PROVE  info'.szExtraFiles = info.szExtraFiles
      BY <2>1, <3>3, GoodList
    <3> QED BY <1>4, <3>1, <3>2, <3>3 DEF MenuValue
  <2> QED BY <2>1, <2>3 DEF IndexOfFiles
<1>5. CASE StopServer
  BY <1>5 DEF StopServer, IndexOfFiles
<1>6. Next => \/ StartServer \/ EnterNode \/ MenuFile \/ MenuValue \/ StopServer \/ OpenMenu \/ CloseMenu
              \/ UNCHANGED <<info, sysop, indexed>>
  BY DEF Next, SpawnServer, GoAway, OpenConfig, ConfigValue, ConfigFile, ConfigSave,
         ConfigQuit, ConfigAnswer, InstallKey
<1>7. CASE OpenMenu \/ CloseMenu \/ UNCHANGED <<info, sysop, indexed>>
  BY <1>7 DEF OpenMenu, CloseMenu, IndexOfFiles
<1> QED BY <1>1, <1>2, <1>3, <1>4, <1>5, <1>6, <1>7 DEF vars

\* The index of a running server is that of the files in its settings, and a slot with
\* questions has the name of their file, whatever the sysop chooses and whenever a key
\* is found (trivia.cpp:114-145, threads.cpp:251-275).
THEOREM MenuShowsIndex == Spec => []IndexIsCurrent
<1>1. Init => IndexOfFiles
  BY DEF Init, IndexOfFiles
<1>2. Spec => []IndexOfFiles
  BY <1>1, IndexOfFilesStep, SettingsAgree, PTL DEF Spec
<1>3. DatabaseInv /\ IndexOfFiles => IndexIsCurrent
  BY DEF DatabaseInv, IndexOfFiles, IndexIsCurrent
<1> QED BY <1>2, <1>3, SettingsAgree, PTL

\* A server starts with the settings that were last saved, whichever program saved
\* them: its constructor takes every file the programs write as it is
\* (trivia.cpp:2101, trivconfig.cpp:137).
THEOREM SavedIsStarted == Spec => StartsAsSaved
<1>1. Spec => []SettingsInv
  BY SettingsAgree, PTL
<1>2. SettingsInv /\ [Next]_vars =>
        [StartServer /\ spawned.current /\ dat # None =>
            info' = [dat EXCEPT !.szExtraFiles[0] = IF @ = "" THEN Core ELSE @]]_vars
  BY GoodLoad DEF SettingsInv, StartServer
<1> QED
  BY <1>1, <1>2, PTL DEF Spec, StartsAsSaved

-----------------------------------------------------------------------------
(* The key: what regtriv writes is a header and a letter after the other,  *)
(* each at the end of what is there (Grows), so nothing written is changed *)
(* (FileHas); and reading goes the same way back (ReadsBack), for a name   *)
(* that the header confirms (GivenReads).                                  *)

LEMMA ByteOf == ASSUME NEW v \in Int PROVE v % 256 \in Byte
BY DEF Byte

LEMMA PartOf == ASSUME NEW v \in Byte, NEW d \in Nat \ {0} PROVE v \div d \in Int
BY DEF Byte

LEMMA ByteSumType ==
    ASSUME NEW start \in Byte, NEW bytes \in Seq(Byte), NEW d \in Nat \ {0}
    PROVE  ByteSum(start, bytes, d) \in Byte
<1>. DEFINE N == Len(bytes)
            D == SUBSET (1 .. N)
            step(g, s) == IF s = {} THEN start ELSE (g[s \ {Max(s)}] + bytes[Max(s)] \div d) % 256
            op == [e \in Byte \X (1 .. N) |-> (e[1] + bytes[e[2]] \div d) % 256]
<1>1. N \in Nat /\ DOMAIN bytes = 1 .. N /\ \A k \in 1 .. N : bytes[k] \in Byte
  OBVIOUS
<1>. HIDE DEF N
<1>2. \A k \in 1 .. N : bytes[k] \div d \in Int
  BY <1>1, PartOf
<1>3. \A v \in Byte, k \in 1 .. N : (v + bytes[k] \div d) % 256 \in Byte
  <2>1. \A v \in Byte, w \in Int : (v + w) % 256 \in Byte
    BY ByteOf DEF Byte
  <2> QED BY <1>2, <2>1
<1>4. op \in [Byte \X (1 .. N) -> Byte]
  BY <1>3
<1>5. \A v \in Byte, k \in 1 .. N : op[<<v, k>>] = (v + bytes[k] \div d) % 256
  OBVIOUS
<1>. HIDE DEF op
<1>6. PICK g \in [D -> Byte] : Folds(N, start, op, g)
  BY <1>1, <1>4, FoldExists
<1>7. ASSUME NEW s \in D, s # {} PROVE s \ {Max(s)} \in D /\ Max(s) \in 1 .. N
  <2>1. s \subseteq Nat /\ \A m \in s : m <= N
    BY <1>1
  <2>2. Max(s) \in s
    BY <1>1, <1>7, <2>1, MaxIs
  <2> QED BY <2>2
<1>8. ASSUME NEW s \in D PROVE g[s] = step(g, s)
  <2>1. g[s] = IF s = {} THEN start ELSE op[<<g[s \ {Max(s)}], Max(s)>>]
    BY <1>6 DEF Folds
  <2>2. s # {} => op[<<g[s \ {Max(s)}], Max(s)>>] = (g[s \ {Max(s)}] + bytes[Max(s)] \div d) % 256
    BY <1>5, <1>7
  <2> QED BY <2>1, <2>2
<1>9. g = [s \in D |-> step(g, s)]
  <2>. HIDE DEF step
  <2> QED BY <1>8
<1>. DEFINE iter == CHOOSE h : h = [s \in D |-> step(h, s)]
<1>10. iter = [s \in D |-> step(iter, s)]
  BY <1>9
<1>11. ByteSum(start, bytes, d) = iter[1 .. N]
  BY <1>1 DEF ByteSum, FoldLeft, MapThenFoldSet
<1>. HIDE DEF iter
<1>12. \A s \in D : iter[s] = step(iter, s)
  <2>. HIDE DEF step
  <2> QED BY <1>10
<1>. DEFINE T == {k \in Nat : k <= N => iter[1 .. k] \in Byte}
<1>13. 0 \in T
  <2>1. 1 .. 0 = {} /\ {} \in D
    BY UpTo
  <2> QED BY <1>12, <2>1
<1>14. ASSUME NEW k \in Nat, k \in T PROVE k + 1 \in T
  <2>1. SUFFICES ASSUME k + 1 <= N PROVE iter[1 .. k + 1] \in Byte
    OBVIOUS
  <2>2. 1 .. k + 1 \in D /\ k <= N /\ k + 1 \in 1 .. N
    BY <1>1, <2>1
  <2>3. 1 .. k + 1 # {} /\ Max(1 .. k + 1) = k + 1 /\ (1 .. k + 1) \ {k + 1} = 1 .. k
    BY UpTo
  <2>4. iter[1 .. k + 1] = step(iter, 1 .. k + 1)
    BY <1>12, <2>2
  <2>5. iter[1 .. k + 1] = (iter[1 .. k] + bytes[k + 1] \div d) % 256
    BY <2>3, <2>4
  <2>6. iter[1 .. k] \in Byte
    BY <1>14, <2>2
  <2> QED BY <1>3, <2>2, <2>5, <2>6
<1>15. N \in T
  <2>. HIDE DEF T
  <2> QED BY <1>1, <1>13, <1>14, Induct
<1> QED BY <1>1, <1>11, <1>15

LEMMA EncodeByte == ASSUME NEW v \in Byte, NEW lPos \in Nat PROVE encode(v, lPos) \in Byte
<1>1. CASE lPos % 2 = 0
  <2>1. 0 - (v + (lPos % 8) * 3) - 1 \in Int
    BY DEF Byte
  <2> QED BY <1>1, <2>1, ByteOf DEF encode
<1>2. CASE lPos % 2 # 0
  <2>1. v + OddShift(lPos) \in Int
    BY OddShiftInt DEF Byte
  <2> QED BY <1>2, <2>1, ByteOf DEF encode
<1> QED BY <1>1, <1>2

LEMMA DecodeByte == ASSUME NEW v \in Byte, NEW lPos \in Nat PROVE decode(v, lPos) \in Byte
<1>1. CASE lPos % 2 = 0
  <2>1. 0 - v - 1 - (lPos % 8) * 3 \in Int
    BY DEF Byte
  <2> QED BY <1>1, <2>1, ByteOf DEF decode
<1>2. CASE lPos % 2 # 0
  <2>1. v - OddShift(lPos) \in Int
    BY OddShiftInt DEF Byte
  <2> QED BY <1>2, <2>1, ByteOf DEF decode
<1> QED BY <1>1, <1>2

\* A name regtriv takes is of bytes that are not zero.
LEMMA NameIs ==
    ASSUME NEW name, IsName(name)
    PROVE  /\ name \in Seq(Byte) /\ Len(name) \in 3 .. 79 /\ DOMAIN name = 1 .. Len(name)
           /\ \A k \in 1 .. Len(name) : name[k] \in Byte /\ name[k] # 0
           /\ Reverse(name) \in Seq(Byte) /\ Len(Reverse(name)) = Len(name)
           /\ \A k \in 1 .. Len(name) : Reverse(name)[k] = name[Len(name) - k + 1]
<1>1. name \in Seq(1 .. 127) /\ Len(name) \in 3 .. 79
  BY DEF IsName
<1>2. Len(name) \in Nat /\ DOMAIN name = 1 .. Len(name)
  BY <1>1
<1>3. \A c \in 1 .. 127 : c \in Byte /\ c # 0
  BY DEF Byte
<1>4. \A k \in 1 .. Len(name) : name[k] \in Byte /\ name[k] # 0
  <2>. DEFINE A == 1 .. 127
  <2>1. \A k \in 1 .. Len(name) : name[k] \in A
    <3>1. name \in Seq(A)
      BY <1>1
    <3>. HIDE DEF A
    <3> QED BY <3>1
  <2> QED BY <1>3, <2>1
<1>5. name \in Seq(Byte)
  <2>1. name = [k \in 1 .. Len(name) |-> name[k]]
    BY <1>1
  <2> QED BY <1>2, <1>4, <2>1
<1>6. \A k \in 1 .. Len(name) : Len(name) - k + 1 \in 1 .. Len(name)
  BY <1>2
<1>7. Reverse(name) = [k \in 1 .. Len(name) |-> name[(Len(name) - k) + 1]]
  BY DEF Reverse
<1>8. Reverse(name) \in [1 .. Len(name) -> Byte]
  BY <1>4, <1>6, <1>7
<1>9. Reverse(name) \in Seq(Byte) /\ Len(Reverse(name)) = Len(name)
  BY <1>2, <1>8
<1> QED BY <1>1, <1>2, <1>4, <1>5, <1>7, <1>9

LEMMA HighestByte == ASSUME NEW name, IsName(name) PROVE Highest(name) \in Byte
<1>. DEFINE S == {0} \cup {name[k] : k \in DOMAIN name}
<1>1. S \subseteq Nat /\ 0 \in S /\ 255 \in Nat /\ \A m \in S : m \in Byte /\ m <= 255
  <2>1. \A k \in DOMAIN name : name[k] \in Byte
    BY NameIs
  <2>2. \A m \in S : m \in Byte
    BY <2>1 DEF Byte
  <2>3. \A m \in Byte : m \in Nat /\ m <= 255
    BY DEF Byte
  <2>4. 0 \in S
    OBVIOUS
  <2>. HIDE DEF S
  <2>5. 255 \in Nat
    OBVIOUS
  <2> QED BY <2>2, <2>3, <2>4, <2>5
<1>. HIDE DEF S
<1>2. Max(S) \in S
  BY <1>1, MaxIs
<1>3. Highest(name) = Max(S)
  BY DEF Highest, S
<1> QED BY <1>1, <1>2, <1>3

LEMMA SpacesByte == ASSUME NEW name, IsName(name) PROVE Spaces(name) \in Byte
<1>. DEFINE S == {k \in DOMAIN name : name[k] = Space}
            N == Len(name)
<1>1. N \in Nat /\ N <= 79 /\ DOMAIN name = 1 .. N
  <2>1. N \in 3 .. 79 /\ DOMAIN name = 1 .. N
    BY NameIs
  <2>2. \A n \in 3 .. 79 : n \in Nat /\ n <= 79
    OBVIOUS
  <2>. HIDE DEF N
  <2> QED BY <2>1, <2>2
<1>. HIDE DEF N
<1>2. IsFiniteSet(1 .. N) /\ Cardinality(1 .. N) = IF 1 > N THEN 0 ELSE N - 1 + 1
  BY <1>1, FS_Interval
<1>3. Cardinality(1 .. N) <= 79
  BY <1>1, <1>2
<1>4. S \subseteq 1 .. N
  BY <1>1
<1>. HIDE DEF S
<1>5. IsFiniteSet(S) /\ Cardinality(S) <= Cardinality(1 .. N) /\ Cardinality(S) \in Nat /\ Cardinality(1 .. N) \in Nat
  BY <1>2, <1>4, FS_Subset, FS_CardinalityType
<1>6. Spaces(name) = Cardinality(S)
  BY DEF Spaces, S
<1>7. Cardinality(S) \in Nat /\ Cardinality(S) <= 79
  BY <1>3, <1>5
<1> QED BY <1>6, <1>7 DEF Byte

\* What the header says, field by field.
Fields(name) == << Len(name), Spaces(name), name[3], Last(name), Highest(name), Len(name), Total(name) >>

LEMMA FieldsAre ==
    ASSUME NEW name, IsName(name)
    PROVE  /\ \A k \in 1 .. 7 : Fields(name)[k] \in Byte
           /\ Header(name) \in Seq(Byte) /\ Len(Header(name)) = 7
           /\ \A k \in 1 .. 7 : Header(name)[k] = encode(Fields(name)[k], k - 1)
<1>1. name[3] \in Byte /\ Last(name) \in Byte /\ Len(name) \in Byte
  <2>1. Len(name) \in 3 .. 79
    BY NameIs
  <2>2. \A n \in 3 .. 79 : 3 \in 1 .. n /\ n \in 1 .. n /\ n \in Byte
    BY DEF Byte
  <2> QED BY <2>1, <2>2, NameIs DEF Last
<1>2. Total(name) \in Byte
  <2>1. 0 \in Byte /\ 2 \in Nat \ {0}
    BY DEF Byte
  <2> QED BY <2>1, NameIs, ByteSumType DEF Total
<1>. DEFINE F == Fields(name)
<1>3. \A k \in 1 .. 7 : F[k] \in Byte
  BY <1>1, <1>2, HighestByte, SpacesByte DEF Fields
<1>4. Header(name) = << encode(F[1], 0), encode(F[2], 1), encode(F[3], 2), encode(F[4], 3), encode(F[5], 4),
                        encode(F[6], 5), encode(F[7], 6) >>
  BY DEF Header, Fields
<1>. HIDE DEF F
<1>5. \A k \in 1 .. 7 : k - 1 \in Nat /\ encode(F[k], k - 1) \in Byte
  BY <1>3, EncodeByte
<1>6. /\ encode(F[1], 0) \in Byte /\ encode(F[2], 1) \in Byte /\ encode(F[3], 2) \in Byte
      /\ encode(F[4], 3) \in Byte /\ encode(F[5], 4) \in Byte /\ encode(F[6], 5) \in Byte
      /\ encode(F[7], 6) \in Byte
  BY <1>5
<1>7. Header(name) \in Seq(Byte) /\ Len(Header(name)) = 7
  BY <1>4, <1>6
<1>8. \A k \in 1 .. 7 : Header(name)[k] = encode(F[k], k - 1)
  BY <1>4
<1> QED BY <1>3, <1>7, <1>8 DEF F

LEMMA FillIs ==
    ASSUME NEW fill, IsFiller(fill)
    PROVE  /\ fill \in Seq(Byte) /\ Len(fill) \in 1 .. 5 /\ Len(fill) \in Nat
           /\ SumOf(fill) \in Byte
<1>. DEFINE A == 0 .. 249
<1>1. fill \in Seq(A) /\ Len(fill) \in 1 .. 5
  BY DEF IsFiller
<1>2. A \subseteq Byte
  BY DEF Byte
<1>. HIDE DEF A
<1>3. fill \in Seq(Byte) /\ Len(fill) \in Nat
  BY <1>1, <1>2
<1>4. 7 \in Byte /\ 6 \in Nat \ {0}
  BY DEF Byte
<1>5. SumOf(fill) \in Byte
  BY <1>3, <1>4, ByteSumType DEF SumOf
<1> QED BY <1>1, <1>3, <1>5

LEMMA CodedIs ==
    ASSUME NEW c \in Byte, NEW fill, IsFiller(fill), NEW lPos \in Nat
    PROVE  LET coded == Coded(c, fill, lPos)
           IN  /\ coded \in Seq(Byte) /\ Len(coded) = Len(fill) + 3
               /\ coded[1] = encode(c, lPos) /\ coded[2] = 255 - 50 * Len(fill)
               /\ \A q \in 1 .. Len(fill) : coded[2 + q] = fill[q]
               /\ coded[Len(fill) + 3] = SumOf(fill)
<1>. DEFINE many == 255 - 50 * Len(fill)
            begin == <<encode(c, lPos), many>>
            end == <<SumOf(fill)>>
            n == Len(fill)
            e == encode(c, lPos)
            t == SumOf(fill)
<1>1. e \in Byte
  BY EncodeByte
<1>2. fill \in Seq(Byte) /\ n \in 1 .. 5 /\ n \in Nat /\ t \in Byte
  BY FillIs
<1>. HIDE DEF e, t, n
<1>3. 255 - 50 * n \in Byte
  BY <1>2 DEF Byte
<1>4. many = 255 - 50 * n
  BY DEF n
<1>. HIDE DEF many
<1>5. begin = <<e, many>> /\ end = <<t>>
  BY DEF e, t
<1>. HIDE DEF begin, end
<1>6. begin \in Seq(Byte) /\ Len(begin) = 2 /\ begin[1] = e /\ begin[2] = many
  BY <1>1, <1>3, <1>4, <1>5
<1>7. end \in Seq(Byte) /\ Len(end) = 1 /\ end[1] = t
  BY <1>2, <1>5
<1>. DEFINE two == begin \o fill
<1>8. /\ two \in Seq(Byte) /\ Len(two) = Len(begin) + Len(fill)
      /\ \A q \in 1 .. Len(begin) : two[q] = begin[q]
      /\ \A q \in 1 .. Len(fill) : two[Len(begin) + q] = fill[q]
  <2>1. begin \in Seq(Byte) /\ fill \in Seq(Byte)
    BY <1>2, <1>6
  <2> QED BY <2>1, Joined
<1>9. Len(two) = 2 + n /\ two[1] = e /\ two[2] = many /\ \A q \in 1 .. n : two[2 + q] = fill[q]
  BY <1>6, <1>8 DEF n
<1>. HIDE DEF two
<1>. DEFINE all == two \o end
<1>10. /\ all \in Seq(Byte) /\ Len(all) = Len(two) + Len(end)
       /\ \A q \in 1 .. Len(two) : all[q] = two[q]
       /\ \A q \in 1 .. Len(end) : all[Len(two) + q] = end[q]
  <2>1. two \in Seq(Byte) /\ end \in Seq(Byte)
    BY <1>7, <1>8
  <2> QED BY <2>1, Joined
<1>. HIDE DEF all
<1>11. Len(all) = n + 3 /\ all[n + 3] = t
  <2>1. Len(all) = (2 + n) + 1 /\ all[(2 + n) + 1] = t
    BY <1>7, <1>9, <1>10
  <2>2. (2 + n) + 1 = n + 3
    BY <1>2
  <2> QED BY <2>1, <2>2
<1>12. all[1] = e /\ all[2] = many
  BY <1>2, <1>9, <1>10
<1>13. \A q \in 1 .. n : all[2 + q] = fill[q]
  <2>1. \A q \in 1 .. n : 2 + q \in 1 .. 2 + n
    BY <1>2
  <2> QED BY <1>9, <1>10, <2>1
<1>14. Coded(c, fill, lPos) = all
  BY DEF Coded, all, two, begin, end, many
<1>. HIDE DEF Coded
<1> QED BY <1>4, <1>10, <1>11, <1>12, <1>13, <1>14 DEF n, e, t

\* The file as it grows, letter by letter: after the header, and after each letter of the
\* name, from the last to the first.
Grows(name, filler, P) ==
    /\ P \in [0 .. Len(name) -> Seq(Byte)]
    /\ P[0] = Header(name)
    /\ \A k \in 0 .. Len(name) - 1 :
          P[k + 1] = P[k] \o Coded(Reverse(name)[k + 1], filler[k + 1], Len(P[k]))

LEMMA FileGrows ==
    ASSUME NEW name, IsName(name), NEW filler, \A k \in 1 .. Len(name) : IsFiller(filler[k])
    PROVE  \E P : Grows(name, filler, P) /\ RegFile(name, filler) = P[Len(name)]
<1>. DEFINE N == Len(name)
            D == SUBSET (1 .. N)
            rev == Reverse(name)
            base == Header(name)
            seq == [i \in DOMAIN name |-> i]
            more(file, k) == file \o Coded(rev[k], filler[k], Len(file))
            step(g, s) == IF s = {} THEN base ELSE more(g[s \ {Max(s)}], seq[Max(s)])
            op == [e \in Seq(Byte) \X (1 .. N) |-> more(e[1], e[2])]
<1>1. N \in Nat /\ DOMAIN name = 1 .. N /\ DOMAIN seq = 1 .. N /\ \A k \in 1 .. N : seq[k] = k
  <2>1. DOMAIN name = 1 .. N /\ name \in Seq(Byte)
    BY NameIs
  <2> QED BY <2>1
<1>2. base \in Seq(Byte) /\ \A k \in 1 .. N : rev[k] \in Byte
  <2>1. rev \in Seq(Byte) /\ Len(rev) = N
    BY NameIs
  <2> QED BY <2>1, FieldsAre
<1>3. \A file \in Seq(Byte), k \in 1 .. N : more(file, k) \in Seq(Byte)
  <2>1. SUFFICES ASSUME NEW file \in Seq(Byte), NEW k \in 1 .. N PROVE more(file, k) \in Seq(Byte)
    OBVIOUS
  <2>. DEFINE block == Coded(rev[k], filler[k], Len(file))
  <2>2. IsFiller(filler[k]) /\ Len(file) \in Nat /\ rev[k] \in Byte
    BY <1>2
  <2>. HIDE DEF rev
  <2>3. block \in Seq(Byte)
    BY <2>2, CodedIs
  <2>. HIDE DEF block
  <2>4. file \o block \in Seq(Byte)
    BY <2>3, Joined
  <2> QED BY <2>4 DEF block
<1>. HIDE DEF N, rev, base, seq
<1>4. op \in [Seq(Byte) \X (1 .. N) -> Seq(Byte)]
  <2>. HIDE DEF more
  <2> QED BY <1>3
<1>5. \A file \in Seq(Byte), k \in 1 .. N : op[<<file, k>>] = more(file, k)
  <2>. HIDE DEF more
  <2> QED OBVIOUS
<1>. HIDE DEF op
<1>6. PICK g \in [D -> Seq(Byte)] : Folds(N, base, op, g)
  BY <1>1, <1>2, <1>4, FoldExists
<1>7. ASSUME NEW s \in D, s # {} PROVE s \ {Max(s)} \in D /\ Max(s) \in 1 .. N
  <2>1. s \subseteq Nat /\ \A m \in s : m <= N
    BY <1>1
  <2>2. Max(s) \in s
    BY <1>1, <1>7, <2>1, MaxIs
  <2> QED BY <2>2
<1>8. ASSUME NEW s \in D PROVE g[s] = step(g, s)
  <2>. HIDE DEF more
  <2>1. g[s] = IF s = {} THEN base ELSE op[<<g[s \ {Max(s)}], Max(s)>>]
    BY <1>6 DEF Folds
  <2>2. s # {} => op[<<g[s \ {Max(s)}], Max(s)>>] = more(g[s \ {Max(s)}], seq[Max(s)])
    BY <1>1, <1>5, <1>7
  <2> QED BY <2>1, <2>2
<1>9. g = [s \in D |-> step(g, s)]
  <2>. HIDE DEF step
  <2> QED BY <1>8
<1>. DEFINE iter == CHOOSE h : h = [s \in D |-> step(h, s)]
<1>10. iter = [s \in D |-> step(iter, s)]
  BY <1>9
<1>11. RegFile(name, filler) = iter[1 .. N]
  BY <1>1 DEF RegFile, FoldLeftDomain, FoldLeft, MapThenFoldSet, base, rev, seq
<1>. HIDE DEF iter
<1>12. \A s \in D : iter[s] = step(iter, s)
  <2>. HIDE DEF step
  <2> QED BY <1>10
<1>. DEFINE P == [k \in 0 .. N |-> iter[1 .. k]]
            T == {k \in Nat : k <= N => iter[1 .. k] \in Seq(Byte)}
<1>13. iter[1 .. 0] = base
  <2>1. 1 .. 0 = {} /\ {} \in D
    BY UpTo
  <2> QED BY <1>12, <2>1
<1>14. ASSUME NEW k \in Nat, k + 1 <= N PROVE iter[1 .. k + 1] = more(iter[1 .. k], k + 1)
  <2>1. 1 .. k + 1 \in D /\ k + 1 \in 1 .. N
    BY <1>1, <1>14
  <2>2. 1 .. k + 1 # {} /\ Max(1 .. k + 1) = k + 1 /\ (1 .. k + 1) \ {k + 1} = 1 .. k
    BY UpTo
  <2>3. iter[1 .. k + 1] = step(iter, 1 .. k + 1)
    BY <1>12, <2>1
  <2>4. seq[k + 1] = k + 1
    BY <1>1, <2>1
  <2>. HIDE DEF more
  <2> QED BY <2>2, <2>3, <2>4
<1>15. 0 \in T
  BY <1>2, <1>13
<1>16. ASSUME NEW k \in Nat, k \in T PROVE k + 1 \in T
  <2>1. SUFFICES ASSUME k + 1 <= N PROVE iter[1 .. k + 1] \in Seq(Byte)
    OBVIOUS
  <2>2. k <= N /\ k + 1 \in 1 .. N
    BY <1>1, <2>1
  <2>3. iter[1 .. k] \in Seq(Byte)
    BY <1>16, <2>2
  <2>4. iter[1 .. k + 1] = more(iter[1 .. k], k + 1)
    BY <1>14, <2>1
  <2>. HIDE DEF more
  <2> QED BY <1>3, <2>2, <2>3, <2>4
<1>17. \A k \in Nat : k \in T
  <2>. HIDE DEF T
  <2> QED BY <1>15, <1>16, Induct
<1>18. Grows(name, filler, P)
  <2>1. \A k \in 0 .. N : k \in Nat /\ k <= N
    BY <1>1
  <2>2. P \in [0 .. N -> Seq(Byte)]
    BY <1>17, <2>1
  <2>3. 0 \in 0 .. N /\ \A k \in 0 .. N - 1 : k \in 0 .. N /\ k + 1 \in 0 .. N /\ k \in Nat /\ k + 1 <= N
    BY <1>1
  <2>4. P[0] = base
    BY <1>13, <2>3
  <2>5. \A k \in 0 .. N - 1 : P[k + 1] = more(P[k], k + 1)
    <3>. HIDE DEF more
    <3>1. \A k \in 0 .. N - 1 : P[k + 1] = iter[1 .. k + 1] /\ P[k] = iter[1 .. k]
      BY <2>3
    <3>. HIDE DEF P
    <3> QED BY <1>14, <2>3, <3>1
  <2>. HIDE DEF P
  <2> QED BY <2>2, <2>4, <2>5 DEF Grows, N, base, rev
<1>19. P[N] = iter[1 .. N]
  BY <1>1
<1> QED BY <1>11, <1>18, <1>19 DEF N

Letter == Byte \cup {Bad}

\* What Letters finds at a position, n letters before the most there can be, when from says
\* what is found with fewer.
One(file, from, n, lPos) ==
    LET skip == (255 - file[lPos + 2]) \div 50
        end == lPos + skip + 3
    IN  IF n = 0 \/ lPos = Len(file) THEN <<>>
        ELSE IF lPos + 1 = Len(file) \/ end > Len(file)
             \/ file[end] # SumOf(SubSeq(file, lPos + 3, end - 1)) THEN <<Bad>>
        ELSE <<decode(file[lPos + 1], lPos)>> \o from[n - 1][end]

LEMMA SkipIs == ASSUME NEW b \in Byte PROVE (255 - b) \div 50 \in Nat
<1>1. 255 - b \in Nat
  BY DEF Byte
<1>2. \A v \in Nat : v \div 50 \in Nat
  OBVIOUS
<1> QED BY <1>1, <1>2

LEMMA PlaceIs ==
    ASSUME NEW L \in Nat, NEW lPos \in 7 .. L, lPos # L, lPos + 1 # L
    PROVE  lPos \in Nat /\ lPos + 1 \in 1 .. L /\ lPos + 2 \in 1 .. L
OBVIOUS

LEMMA PlaceAfter ==
    ASSUME NEW L \in Nat, NEW lPos \in 7 .. L, NEW skip \in Nat, ~(lPos + skip + 3 > L)
    PROVE  lPos + skip + 3 \in 7 .. L
OBVIOUS

LEMMA OneType ==
    ASSUME NEW file \in Seq(Byte), NEW n \in 0 .. 79, NEW lPos \in 7 .. Len(file),
           NEW from \in [0 .. 79 -> [7 .. Len(file) -> Seq(Letter)]]
    PROVE  One(file, from, n, lPos) \in Seq(Letter)
<1>1. <<>> \in Seq(Letter) /\ <<Bad>> \in Seq(Letter)
  BY DEF Letter
<1>. DEFINE skip == (255 - file[lPos + 2]) \div 50
            end == lPos + skip + 3
            c == decode(file[lPos + 1], lPos)
            rest == from[n - 1][end]
<1>2. CASE n = 0 \/ lPos = Len(file) \/ lPos + 1 = Len(file) \/ end > Len(file)
           \/ file[end] # SumOf(SubSeq(file, lPos + 3, end - 1))
  BY <1>1, <1>2 DEF One
<1>3. CASE /\ n # 0 /\ lPos # Len(file) /\ lPos + 1 # Len(file) /\ ~(end > Len(file))
           /\ file[end] = SumOf(SubSeq(file, lPos + 3, end - 1))
  <2>0. Len(file) \in Nat /\ lPos # Len(file) /\ lPos + 1 # Len(file)
    BY <1>3
  <2>1. lPos \in Nat /\ lPos + 1 \in 1 .. Len(file) /\ lPos + 2 \in 1 .. Len(file)
    BY <2>0, PlaceIs
  <2>2. file[lPos + 1] \in Byte /\ file[lPos + 2] \in Byte
    <3>1. \A q \in 1 .. Len(file) : file[q] \in Byte
      BY MemberAt
    <3> QED BY <2>1, <3>1
  <2>3. skip \in Nat
    BY <2>2, SkipIs
  <2>. HIDE DEF skip
  <2>4. end \in 7 .. Len(file)
    <3>1. ~(lPos + skip + 3 > Len(file))
      BY <1>3
    <3> QED BY <2>0, <2>3, <3>1, PlaceAfter
  <2>5. n - 1 \in 0 .. 79
    BY <1>3
  <2>. HIDE DEF end
  <2>6. rest \in Seq(Letter)
    BY <2>4, <2>5
  <2>7. c \in Letter
    BY <2>1, <2>2, DecodeByte DEF Letter
  <2>8. One(file, from, n, lPos) = <<c>> \o rest
    BY <1>3 DEF One, end, skip
  <2>. HIDE DEF rest, c
  <2>9. <<c>> \o rest \in Seq(Letter)
    BY <2>6, <2>7
  <2> QED BY <2>8, <2>9
<1> QED BY <1>2, <1>3

LEMMA LettersFound ==
    ASSUME NEW file \in Seq(Byte), Len(file) >= 7
    PROVE  \E from : /\ \A n \in 0 .. 79, lPos \in 7 .. Len(file) : from[n][lPos] = One(file, from, n, lPos)
                     /\ Letters(file) = from[79][7]
<1>. DEFINE D == 0 .. 79
            Pos == 7 .. Len(file)
            T == [Pos -> Seq(Letter)]
            rank == [n \in D |-> n]
            F == [h \in [D -> T] |-> [n \in D |-> [lPos \in Pos |-> One(file, h, n, lPos)]]]
            from == CHOOSE h : h = [n \in D |-> [lPos \in Pos |-> One(file, h, n, lPos)]]
<1>1. Letters(file) = from[79][7]
  BY DEF Letters, One
<1>2. rank \in [D -> Nat] /\ 80 \in Nat /\ \A n \in D : rank[n] < 80 /\ rank[n] = n
  OBVIOUS
<1>. HIDE DEF rank
<1>3. T # {}
  <2>1. [lPos \in Pos |-> <<>>] \in T
    OBVIOUS
  <2> QED BY <2>1
<1>4. F \in [[D -> T] -> [D -> T]]
  <2>1. ASSUME NEW h \in [D -> T], NEW n \in D, NEW lPos \in Pos PROVE One(file, h, n, lPos) \in Seq(Letter)
    BY <2>1, OneType
  <2>. HIDE DEF Pos
  <2>2. ASSUME NEW h \in [D -> T], NEW n \in D PROVE [lPos \in Pos |-> One(file, h, n, lPos)] \in T
    BY <2>1
  <2>. HIDE DEF T
  <2> QED BY <2>2
<1>5. ASSUME NEW g \in [D -> T], NEW h \in [D -> T], NEW n \in D,
             \A e \in D : rank[e] < rank[n] => g[e] = h[e]
      PROVE  F[g][n] = F[h][n]
  <2>1. n # 0 => g[n - 1] = h[n - 1]
    <3>1. n # 0 => n - 1 \in D /\ n - 1 < n
      OBVIOUS
    <3> QED BY <1>2, <1>5, <3>1
  <2>2. \A lPos \in Pos : One(file, g, n, lPos) = One(file, h, n, lPos)
    BY <2>1 DEF One
  <2>3. F[g][n] = [lPos \in Pos |-> One(file, g, n, lPos)] /\ F[h][n] = [lPos \in Pos |-> One(file, h, n, lPos)]
    <3>. HIDE DEF Pos, T, D
    <3> QED OBVIOUS
  <2>. HIDE DEF Pos, T, F
  <2> QED BY <2>2, <2>3
<1>6. GoesDown(D, T, rank, F)
  <2>. HIDE DEF D, T, F
  <2> QED BY <1>2, <1>3, <1>4, <1>5 DEF GoesDown
<1>7. PICK g \in [D -> T] : g = F[g]
  <2>. HIDE DEF D, T, F
  <2> QED BY <1>6, RecursiveFunction
<1>8. g = [n \in D |-> [lPos \in Pos |-> One(file, g, n, lPos)]]
  <2>. HIDE DEF D, T, Pos
  <2> QED BY <1>7
<1>9. from = [n \in D |-> [lPos \in Pos |-> One(file, from, n, lPos)]]
  <2>. HIDE DEF D, Pos
  <2> QED BY <1>8
<1>. HIDE DEF from
<1>10. \A n \in D, lPos \in Pos : from[n][lPos] = One(file, from, n, lPos)
  <2>1. \A n \in D : from[n] = [lPos \in Pos |-> One(file, from, n, lPos)]
    <3>. HIDE DEF D, Pos
    <3> QED BY <1>9
  <2>. HIDE DEF D, Pos
  <2> QED BY <2>1
<1> QED BY <1>1, <1>10

\* What stands in a file from position l on is a letter with its fillers and their sum.
Stands(file, l, c, fill) ==
    /\ Len(file) >= l + Len(fill) + 3
    /\ file[l + 1] = encode(c, l) /\ file[l + 2] = 255 - 50 * Len(fill)
    /\ \A q \in 1 .. Len(fill) : file[l + 2 + q] = fill[q]
    /\ file[l + Len(fill) + 3] = SumOf(fill)

LEMMA StandsAfter ==
    ASSUME NEW file \in Seq(Byte), NEW c \in Byte, NEW fill, IsFiller(fill)
    PROVE  LET l == Len(file)
               all == file \o Coded(c, fill, l)
           IN  /\ all \in Seq(Byte) /\ Len(all) = l + Len(fill) + 3
               /\ \A q \in 1 .. l : all[q] = file[q]
               /\ Stands(all, l, c, fill)
<1>. DEFINE l == Len(file)
            coded == Coded(c, fill, l)
            n == Len(fill)
            all == file \o coded
            e == encode(c, l)
            t == SumOf(fill)
<1>1. l \in Nat /\ n \in Nat
  BY FillIs
<1>2. /\ coded \in Seq(Byte) /\ Len(coded) = n + 3
      /\ coded[1] = e /\ coded[2] = 255 - 50 * n
      /\ \A q \in 1 .. n : coded[2 + q] = fill[q]
      /\ coded[n + 3] = t
  BY <1>1, CodedIs
<1>. HIDE DEF coded, e, t
<1>3. /\ all \in Seq(Byte) /\ Len(all) = l + Len(coded)
      /\ \A q \in 1 .. l : all[q] = file[q]
      /\ \A q \in 1 .. Len(coded) : all[l + q] = coded[q]
  <2>1. coded \in Seq(Byte)
    BY <1>2
  <2> QED BY <2>1, Joined
<1>. HIDE DEF all, l, n
<1>4. Len(all) = l + n + 3
  BY <1>1, <1>2, <1>3
<1>5. 1 \in 1 .. n + 3 /\ 2 \in 1 .. n + 3 /\ n + 3 \in 1 .. n + 3 /\ l + (n + 3) = l + n + 3
      /\ \A q \in 1 .. n : 2 + q \in 1 .. n + 3 /\ l + (2 + q) = l + 2 + q
  BY <1>1
<1>6. all[l + 1] = e /\ all[l + 2] = 255 - 50 * n
  BY <1>2, <1>3, <1>5
<1>7. all[l + n + 3] = t
  BY <1>2, <1>3, <1>5
<1>8. \A q \in 1 .. n : all[l + 2 + q] = fill[q]
  <2>1. \A q \in 1 .. n : all[l + (2 + q)] = coded[2 + q]
    BY <1>2, <1>3, <1>5
  <2> QED BY <1>2, <1>5, <2>1
<1>9. Len(all) >= l + n + 3
  BY <1>1, <1>4
<1> QED BY <1>3, <1>4, <1>6, <1>7, <1>8, <1>9 DEF Stands, all, coded, l, n, e, t

\* Nothing of what has been written is changed.
LEMMA GrowsOn ==
    ASSUME NEW name, IsName(name), NEW filler, \A k \in 1 .. Len(name) : IsFiller(filler[k]),
           NEW P, Grows(name, filler, P)
    PROVE  /\ Len(P[0]) = 7
           /\ \A k \in 0 .. Len(name) : P[k] \in Seq(Byte) /\ Len(P[k]) >= 7
           /\ \A k \in 0 .. Len(name) - 1 :
                 /\ Len(P[k + 1]) = Len(P[k]) + Len(filler[k + 1]) + 3
                 /\ \A q \in 1 .. Len(P[k]) : P[k + 1][q] = P[k][q]
                 /\ Stands(P[k + 1], Len(P[k]), Reverse(name)[k + 1], filler[k + 1])
<1>. DEFINE N == Len(name)
            rev == Reverse(name)
<1>1. N \in Nat /\ \A k \in 1 .. N : rev[k] \in Byte
  <2>1. name \in Seq(Byte) /\ rev \in Seq(Byte) /\ Len(rev) = N
    BY NameIs
  <2>2. N \in Nat
    BY <2>1
  <2> QED BY <2>1, <2>2, MemberAt
<1>2. /\ \A k \in 0 .. N : P[k] \in Seq(Byte)
      /\ P[0] = Header(name)
      /\ \A k \in 0 .. N - 1 : P[k + 1] = P[k] \o Coded(rev[k + 1], filler[k + 1], Len(P[k]))
  BY DEF Grows
<1>3. Len(P[0]) = 7
  BY <1>2, FieldsAre
<1>. HIDE DEF rev
<1>4. ASSUME NEW k \in 0 .. N - 1
      PROVE  /\ Len(P[k + 1]) = Len(P[k]) + Len(filler[k + 1]) + 3
             /\ \A q \in 1 .. Len(P[k]) : P[k + 1][q] = P[k][q]
             /\ Stands(P[k + 1], Len(P[k]), rev[k + 1], filler[k + 1])
  <2>1. k \in 0 .. N /\ k + 1 \in 1 .. N
    BY <1>1
  <2>2. P[k] \in Seq(Byte) /\ rev[k + 1] \in Byte /\ IsFiller(filler[k + 1])
    BY <1>1, <1>2, <2>1
  <2>3. P[k + 1] = P[k] \o Coded(rev[k + 1], filler[k + 1], Len(P[k]))
    BY <1>2
  <2>. DEFINE file == P[k]
              c == rev[k + 1]
              fill == filler[k + 1]
  <2>4. file \in Seq(Byte) /\ c \in Byte /\ IsFiller(fill)
    BY <2>2
  <2>5. P[k + 1] = file \o Coded(c, fill, Len(file))
    BY <2>3
  <2>. HIDE DEF file, c, fill
  <2>6. /\ Len(P[k + 1]) = Len(file) + Len(fill) + 3
        /\ \A q \in 1 .. Len(file) : P[k + 1][q] = file[q]
        /\ Stands(P[k + 1], Len(file), c, fill)
    <3>1. file \in Seq(Byte) /\ c \in Byte
      BY <2>4
    <3>2. IsFiller(fill)
      BY <2>4
    <3> QED BY <2>5, <3>1, <3>2, StandsAfter
  <2> QED BY <2>6 DEF file, c, fill
<1>. HIDE DEF N
<1>. DEFINE S == {k \in Nat : k <= N => Len(P[k]) >= 7}
<1>5. 0 \in S
  <2>1. Len(P[0]) >= 7
    <3>1. 7 >= 7
      OBVIOUS
    <3> QED BY <1>3, <3>1
  <2> QED BY <2>1
<1>6. ASSUME NEW k \in Nat, k \in S PROVE k + 1 \in S
  <2>1. SUFFICES ASSUME k + 1 <= N PROVE Len(P[k + 1]) >= 7
    OBVIOUS
  <2>2. k \in 0 .. N - 1 /\ k \in 0 .. N /\ k + 1 \in 1 .. N /\ k <= N
    BY <1>1, <2>1
  <2>3. Len(P[k + 1]) = Len(P[k]) + Len(filler[k + 1]) + 3
    BY <1>4, <2>2
  <2>4. Len(filler[k + 1]) \in Nat /\ Len(P[k]) \in Nat /\ Len(P[k]) >= 7
    <3>1. IsFiller(filler[k + 1]) /\ P[k] \in Seq(Byte)
      BY <1>2, <2>2 DEF N
    <3>2. Len(filler[k + 1]) \in Nat
      BY <3>1, FillIs
    <3> QED BY <1>6, <2>2, <3>1, <3>2
  <2>5. \A a, b \in Nat : a >= 7 => a + b + 3 >= 7
    OBVIOUS
  <2> QED BY <2>3, <2>4, <2>5
<1>7. \A k \in Nat : k \in S
  <2>. HIDE DEF S
  <2> QED BY <1>5, <1>6, Induct
<1>8. \A k \in 0 .. N : Len(P[k]) >= 7
  <2>1. \A k \in 0 .. N : k \in Nat /\ k <= N
    BY <1>1
  <2> QED BY <1>7, <2>1
<1> QED BY <1>2, <1>3, <1>4, <1>8 DEF rev, N

\* Where two files agree, the same stands in both.
LEMMA StandsAlso ==
    ASSUME NEW file, NEW other, NEW l \in Nat, NEW c, NEW fill, IsFiller(fill), Stands(file, l, c, fill),
           Len(other) \in Nat, Len(file) \in Nat, Len(other) >= l + Len(fill) + 3,
           \A q \in l + 1 .. l + Len(fill) + 3 : other[q] = file[q]
    PROVE  Stands(other, l, c, fill)
<1>. DEFINE n == Len(fill)
<1>1. n \in Nat
  BY FillIs
<1>. HIDE DEF n
<1>2. /\ l + 1 \in l + 1 .. l + n + 3 /\ l + 2 \in l + 1 .. l + n + 3 /\ l + n + 3 \in l + 1 .. l + n + 3
      /\ \A q \in 1 .. n : l + 2 + q \in l + 1 .. l + n + 3
  BY <1>1
<1>3. \A q \in l + 1 .. l + n + 3 : other[q] = file[q]
  BY DEF n
<1>4. other[l + 1] = file[l + 1] /\ other[l + 2] = file[l + 2] /\ other[l + n + 3] = file[l + n + 3]
      /\ \A q \in 1 .. n : other[l + 2 + q] = file[l + 2 + q]
  BY <1>2, <1>3
<1> QED BY <1>4 DEF Stands, n

LEMMA FileHas ==
    ASSUME NEW name, IsName(name), NEW filler, \A k \in 1 .. Len(name) : IsFiller(filler[k]),
           NEW P, Grows(name, filler, P)
    PROVE  \A k \in 0 .. Len(name) :
              /\ Len(P[k]) <= Len(P[Len(name)])
              /\ \A q \in 1 .. Len(P[k]) : P[Len(name)][q] = P[k][q]
<1>. DEFINE N == Len(name)
            has(k) == Len(P[k]) <= Len(P[N]) /\ \A q \in 1 .. Len(P[k]) : P[N][q] = P[k][q]
            S == {m \in Nat : m <= N => has(N - m)}
<1>1. N \in Nat
  BY NameIs
<1>2. \A k \in 0 .. N : Len(P[k]) \in Nat
  <2>1. \A k \in 0 .. N : P[k] \in Seq(Byte)
    BY GrowsOn
  <2>2. \A s \in Seq(Byte) : Len(s) \in Nat
    OBVIOUS
  <2> QED BY <2>1, <2>2
<1>3. \A k \in 0 .. N - 1 : Len(filler[k + 1]) \in Nat
  <2>1. \A k \in 0 .. N - 1 : k + 1 \in 1 .. N
    BY <1>1
  <2> QED BY <2>1, FillIs
<1>4. \A k \in 0 .. N - 1 : /\ Len(P[k + 1]) = Len(P[k]) + Len(filler[k + 1]) + 3
                            /\ \A q \in 1 .. Len(P[k]) : P[k + 1][q] = P[k][q]
  <2>. DEFINE l(k) == Len(P[k])
  <2>1. \A k \in 0 .. Len(name) - 1 :
           /\ l(k + 1) = l(k) + Len(filler[k + 1]) + 3
           /\ \A q \in 1 .. l(k) : P[k + 1][q] = P[k][q]
           /\ Stands(P[k + 1], l(k), Reverse(name)[k + 1], filler[k + 1])
    BY GrowsOn
  <2>. HIDE DEF l
  <2>2. \A k \in 0 .. Len(name) - 1 :
           l(k + 1) = l(k) + Len(filler[k + 1]) + 3 /\ \A q \in 1 .. l(k) : P[k + 1][q] = P[k][q]
    BY <2>1
  <2> QED BY <2>2 DEF l
<1>. HIDE DEF N
<1>5. 0 \in S
  <2>1. N - 0 = N /\ N \in 0 .. N
    BY <1>1
  <2> QED BY <1>2, <2>1
<1>6. ASSUME NEW m \in Nat, m \in S PROVE m + 1 \in S
  <2>1. SUFFICES ASSUME m + 1 <= N PROVE has(N - (m + 1))
    OBVIOUS
  <2>. DEFINE k == N - (m + 1)
  <2>2. k \in 0 .. N - 1 /\ k + 1 = N - m /\ k \in 0 .. N /\ k + 1 \in 0 .. N /\ m <= N /\ N \in 0 .. N
    BY <1>1, <2>1
  <2>. HIDE DEF k
  <2>3. has(k + 1)
    BY <1>6, <2>2
  <2>. DEFINE a == Len(P[k])
              b == Len(P[k + 1])
              d == Len(filler[k + 1])
              e == Len(P[N])
  <2>4. b = a + d + 3 /\ a \in Nat /\ b \in Nat /\ d \in Nat /\ e \in Nat
    BY <1>2, <1>3, <1>4, <2>2
  <2>5. \A q \in 1 .. a : P[k + 1][q] = P[k][q]
    BY <1>4, <2>2
  <2>6. b <= e /\ \A q \in 1 .. b : P[N][q] = P[k + 1][q]
    BY <2>3
  <2>. HIDE DEF a, b, d, e
  <2>7. a <= e /\ \A q \in 1 .. a : q \in 1 .. b
    BY <2>4, <2>6
  <2>8. a <= e /\ \A q \in 1 .. a : P[N][q] = P[k][q]
    BY <2>5, <2>6, <2>7
  <2> QED BY <2>8 DEF a, e, k
<1>7. \A m \in Nat : m \in S
  <2>. HIDE DEF S
  <2> QED BY <1>5, <1>6, Induct
<1>8. ASSUME NEW k \in 0 .. N PROVE has(k)
  <2>1. N - k \in Nat /\ N - k <= N /\ N - (N - k) = k
    BY <1>1
  <2>2. has(N - (N - k))
    BY <1>7, <2>1
  <2>. HIDE DEF has
  <2> QED BY <2>1, <2>2
<1> QED BY <1>8 DEF N

LEMMA SkipBack == ASSUME NEW n \in 1 .. 5 PROVE (255 - (255 - 50 * n)) \div 50 = n
<1>1. n = 1 \/ n = 2 \/ n = 3 \/ n = 4 \/ n = 5
  OBVIOUS
<1> QED BY <1>1

LEMMA SubSeqIs ==
    ASSUME NEW S, NEW s \in Seq(S), NEW t \in Seq(S), NEW a \in Nat \ {0}, a - 1 + Len(t) <= Len(s),
           \A q \in 1 .. Len(t) : s[a - 1 + q] = t[q]
    PROVE  SubSeq(s, a, a - 1 + Len(t)) = t
<1>. DEFINE n == Len(t)
            u == SubSeq(s, a, a - 1 + n)
<1>1. n \in Nat /\ Len(s) \in Nat
  OBVIOUS
<1>2. u = [q \in 1 .. n |-> s[a - 1 + q]]
  <2>1. u \in Seq(S) /\ Len(u) = n /\ \A q \in 1 .. n : u[q] = s[a + q - 1]
    BY <1>1
  <2>2. \A q \in 1 .. n : a + q - 1 = a - 1 + q
    BY <1>1
  <2>. HIDE DEF u, n
  <2>3. u = [q \in 1 .. Len(u) |-> u[q]]
    BY <2>1
  <2> QED BY <2>1, <2>2, <2>3
<1>3. t = [q \in 1 .. n |-> t[q]]
  OBVIOUS
<1>4. \A q \in 1 .. n : s[a - 1 + q] = t[q]
  OBVIOUS
<1>. HIDE DEF u, n
<1>5. u = t
  BY <1>2, <1>3, <1>4
<1> QED BY <1>5 DEF u, n

LEMMA RoomFor ==
    ASSUME NEW l \in Nat, NEW m \in Nat, NEW L \in Nat, L >= l + m + 3
    PROVE  l # L /\ l + 1 # L /\ ~(l + m + 3 > L)
OBVIOUS

\* A letter stands at l where one can still be read, and is what is read there.
CanRead(given, n, l, c, fill) ==
    /\ given \in Seq(Byte) /\ n \in 1 .. 79 /\ l \in 7 .. Len(given) /\ c \in Byte
    /\ IsFiller(fill) /\ Stands(given, l, c, fill)
HasRead(given, from, n, l, c, fill) ==
    One(given, from, n, l) = <<c>> \o from[n - 1][l + Len(fill) + 3]

LEMMA OneReads ==
    ASSUME NEW given, NEW from, NEW n, NEW l, NEW c, NEW fill, CanRead(given, n, l, c, fill)
    PROVE  HasRead(given, from, n, l, c, fill)
<1>. DEFINE m == Len(fill)
            e == encode(c, l)
            t == SumOf(fill)
            L == Len(given)
<1>0. given \in Seq(Byte) /\ n \in 1 .. 79 /\ l \in 7 .. Len(given) /\ c \in Byte
      /\ IsFiller(fill) /\ Stands(given, l, c, fill)
  BY DEF CanRead
<1>1. fill \in Seq(Byte) /\ m \in 1 .. 5 /\ m \in Nat /\ L \in Nat
  BY <1>0, FillIs
<1>2. /\ L >= l + m + 3 /\ given[l + 1] = e /\ given[l + 2] = 255 - 50 * m
      /\ \A q \in 1 .. m : given[l + 2 + q] = fill[q]
      /\ given[l + m + 3] = t
  BY <1>0 DEF Stands
<1>3. (255 - given[l + 2]) \div 50 = m
  <2>1. (255 - (255 - 50 * m)) \div 50 = m
    BY <1>1, SkipBack
  <2>. HIDE DEF m
  <2> QED BY <1>2, <2>1
<1>4. l \in Nat
  <2>1. \A top \in Nat : \A v \in 7 .. top : v \in Nat
    OBVIOUS
  <2> QED BY <1>0, <1>1, <2>1
<1>. DEFINE skip == (255 - given[l + 2]) \div 50
            end == l + skip + 3
<1>. HIDE DEF m, e, t, L, skip
<1>5. /\ l + 3 \in Nat \ {0} /\ (l + 3) - 1 + m <= L /\ (l + 3) - 1 + m = l + m + 3 - 1
      /\ \A q \in 1 .. m : (l + 3) - 1 + q = l + 2 + q
  BY <1>1, <1>2, <1>4
<1>6. skip = m /\ end = l + m + 3 /\ (l + 3) - 1 + m = end - 1
  <2>1. skip = m
    BY <1>3 DEF skip
  <2>. HIDE DEF L
  <2>2. end = l + m + 3
    BY <2>1
  <2>3. (l + 3) - 1 + m = l + m + 3 - 1
    BY <1>5
  <2>. HIDE DEF end
  <2>4. (l + 3) - 1 + m = end - 1
    BY <1>1, <1>4, <2>2
  <2> QED BY <2>1, <2>2, <2>4
<1>. HIDE DEF end
<1>7. SubSeq(given, l + 3, end - 1) = fill
  <2>1. \A q \in 1 .. m : given[(l + 3) - 1 + q] = fill[q]
    BY <1>2, <1>5
  <2>2. SubSeq(given, l + 3, (l + 3) - 1 + m) = fill
    BY <1>0, <1>1, <1>5, <2>1, SubSeqIs DEF m, L
  <2>. DEFINE z == (l + 3) - 1 + m
  <2>3. SubSeq(given, l + 3, z) = fill /\ z = end - 1
    BY <1>6, <2>2
  <2>. HIDE DEF z
  <2> QED BY <2>3
<1>8. given[end] = t
  <2>. DEFINE z == l + m + 3
  <2>1. given[z] = t /\ z = end
    BY <1>2, <1>6
  <2>. HIDE DEF z
  <2> QED BY <2>1
<1>9. n # 0 /\ l # L /\ l + 1 # L /\ ~(end > L)
  <2>1. n # 0
    BY <1>0
  <2>2. l # L /\ l + 1 # L /\ ~(l + m + 3 > L)
    BY <1>1, <1>2, <1>4, RoomFor
  <2> QED BY <1>6, <2>1, <2>2
<1>10. ~(n = 0 \/ l = L)
       /\ ~(l + 1 = L \/ end > L \/ given[end] # SumOf(SubSeq(given, l + 3, end - 1)))
  <2>1. given[end] = SumOf(SubSeq(given, l + 3, end - 1))
    BY <1>7, <1>8 DEF t
  <2> QED BY <1>9, <2>1
<1>11. decode(given[l + 1], l) = c
  <2>1. decode(e, l) = c
    BY <1>0, <1>4, DecodeEncode DEF e
  <2> QED BY <1>2, <2>1
<1>12. One(given, from, n, l) = <<c>> \o from[n - 1][end]
  BY <1>10, <1>11 DEF One, L, end, skip
<1> QED BY <1>6, <1>12 DEF m, HasRead

\* What is left of a sequence after a position, and after the next.
LEMMA LeftOver ==
    ASSUME NEW S, NEW s \in Seq(S), NEW k \in 0 .. Len(s) - 1
    PROVE  SubSeq(s, k + 1, Len(s)) = <<s[k + 1]>> \o SubSeq(s, k + 1 + 1, Len(s))
<1>1. k + 1 \in 1 .. Len(s) /\ Len(s) \in k + 1 .. Len(s)
  <2>1. Len(s) \in Nat
    OBVIOUS
  <2> QED BY <2>1
<1>. DEFINE m == k + 1
<1>. HIDE DEF m
<1>2. SubSeq(s, m, Len(s)) = <<s[m]>> \o SubSeq(s, m + 1, Len(s))
  BY <1>1, SubSeqRecursiveFirst DEF m
<1> QED BY <1>2 DEF m

LEMMA NothingLeft ==
    ASSUME NEW S, NEW s \in Seq(S)
    PROVE  SubSeq(s, Len(s) + 1, Len(s)) = <<>> /\ SubSeq(s, 0 + 1, Len(s)) = s
<1>1. Len(s) \in Int /\ Len(s) + 1 \in Int /\ Len(s) < Len(s) + 1
  <2>1. Len(s) \in Nat
    OBVIOUS
  <2> QED BY <2>1
<1>2. SubSeq(s, Len(s) + 1, Len(s)) = <<>>
  BY <1>1, SubSeqEmpty
<1>3. SubSeq(s, 1, Len(s)) = s
  BY SubSeqFull
<1> QED BY <1>2, <1>3

\* Read from any file that is the written one from the first letter on, whatever its header.
LEMMA ReadsBack ==
    ASSUME NEW name, IsName(name), NEW filler, \A k \in 1 .. Len(name) : IsFiller(filler[k]),
           NEW P, Grows(name, filler, P),
           NEW given \in Seq(Byte), Len(given) = Len(P[Len(name)]),
           \A q \in 8 .. Len(given) : given[q] = P[Len(name)][q]
    PROVE  Letters(given) = Reverse(name)
<1>. DEFINE N == Len(name)
            rev == Reverse(name)
            l(k) == Len(P[k])
            left(k) == SubSeq(rev, k + 1, N)
            G == Len(given)
<1>1. N \in Nat /\ N <= 79 /\ rev \in Seq(Byte) /\ Len(rev) = N /\ \A k \in 1 .. N : rev[k] \in Byte
  <2>1. N \in 3 .. 79 /\ rev \in Seq(Byte) /\ Len(rev) = N
    BY NameIs
  <2>. HIDE DEF rev
  <2>2. \A k \in 1 .. Len(rev) : rev[k] \in Byte
    BY <2>1, MemberAt
  <2>3. \A n \in 3 .. 79 : n \in Nat /\ n <= 79
    OBVIOUS
  <2>. HIDE DEF N
  <2> QED BY <2>1, <2>2, <2>3
<1>2. /\ l(0) = 7
      /\ \A k \in 0 .. N : P[k] \in Seq(Byte) /\ l(k) >= 7
      /\ \A k \in 0 .. N - 1 :
            /\ l(k + 1) = l(k) + Len(filler[k + 1]) + 3
            /\ Stands(P[k + 1], l(k), rev[k + 1], filler[k + 1])
  <2>. HIDE DEF l, rev
  <2>1. /\ Len(P[0]) = 7
        /\ \A k \in 0 .. N : P[k] \in Seq(Byte) /\ Len(P[k]) >= 7
        /\ \A k \in 0 .. N - 1 :
              /\ Len(P[k + 1]) = Len(P[k]) + Len(filler[k + 1]) + 3
              /\ \A q \in 1 .. Len(P[k]) : P[k + 1][q] = P[k][q]
              /\ Stands(P[k + 1], Len(P[k]), Reverse(name)[k + 1], filler[k + 1])
    BY GrowsOn
  <2> QED BY <2>1, Zenon DEF l, rev
<1>3. \A k \in 0 .. N : l(k) \in Nat /\ l(k) <= G /\ \A q \in 1 .. l(k) : P[N][q] = P[k][q]
  <2>1. \A s \in Seq(Byte) : Len(s) \in Nat
    OBVIOUS
  <2>2. \A k \in 0 .. N : Len(P[k]) <= Len(P[N]) /\ \A q \in 1 .. Len(P[k]) : P[N][q] = P[k][q]
    BY FileHas
  <2>3. \A k \in 0 .. N : Len(P[k]) \in Nat
    BY <1>2, <2>1
  <2> QED BY <2>2, <2>3
<1>4. \A k \in 0 .. N - 1 : IsFiller(filler[k + 1]) /\ Len(filler[k + 1]) \in Nat
  <2>1. \A k \in 0 .. N - 1 : k + 1 \in 1 .. N
    BY <1>1
  <2>2. \A k \in 0 .. N - 1 : IsFiller(filler[k + 1])
    BY <2>1
  <2> QED BY <2>2, FillIs
<1>5. G \in Nat /\ G = l(N) /\ G >= 7
  <2>1. N \in 0 .. N
    BY <1>1
  <2> QED BY <1>2, <1>3, <2>1
<1>6. PICK from : /\ \A n \in 0 .. 79, lPos \in 7 .. G : from[n][lPos] = One(given, from, n, lPos)
                  /\ Letters(given) = from[79][7]
  BY <1>5, LettersFound
<1>. HIDE DEF l, rev
<1>7. ASSUME NEW k \in 0 .. N - 1
      PROVE  /\ l(k) \in 7 .. G /\ l(k + 1) \in 7 .. G
             /\ l(k + 1) = l(k) + Len(filler[k + 1]) + 3
             /\ Stands(given, l(k), rev[k + 1], filler[k + 1])
  <2>1. k \in 0 .. N /\ k + 1 \in 0 .. N /\ k + 1 \in 1 .. N
    BY <1>1
  <2>. DEFINE a == l(k)
              b == l(k + 1)
              d == Len(filler[k + 1])
  <2>2. /\ a \in Nat /\ b \in Nat /\ d \in Nat /\ a >= 7 /\ b >= 7 /\ a <= G /\ b <= G
        /\ b = a + d + 3
    BY <1>2, <1>3, <1>4, <2>1
  <2>3. Stands(P[k + 1], a, rev[k + 1], filler[k + 1])
    BY <1>2
  <2>4. /\ \A q \in 1 .. b : P[N][q] = P[k + 1][q]
        /\ Len(P[k + 1]) \in Nat
    BY <1>3, <2>1 DEF l
  <2>. HIDE DEF a, b, d, G, N
  <2>5. /\ a \in 7 .. G /\ b \in 7 .. G /\ G >= a + d + 3
        /\ \A q \in a + 1 .. a + d + 3 : q \in 8 .. G /\ q \in 1 .. b
    BY <1>5, <2>2
  <2>6. \A q \in a + 1 .. a + d + 3 : given[q] = P[k + 1][q]
    <3>1. \A q \in 8 .. G : given[q] = P[N][q]
      BY DEF G, N
    <3> QED BY <2>4, <2>5, <3>1
  <2>7. IsFiller(filler[k + 1])
    BY <1>4
  <2>. DEFINE fill == filler[k + 1]
              c == rev[k + 1]
              part == P[k + 1]
  <2>8. /\ a \in Nat /\ IsFiller(fill) /\ Stands(part, a, c, fill)
        /\ Len(given) \in Nat /\ Len(part) \in Nat /\ Len(given) >= a + Len(fill) + 3
        /\ \A q \in a + 1 .. a + Len(fill) + 3 : given[q] = part[q]
    BY <1>5, <2>2, <2>3, <2>4, <2>5, <2>6, <2>7 DEF d, G
  <2>. HIDE DEF fill, c, part
  <2>9. Stands(given, a, c, fill)
    BY <2>8, StandsAlso
  <2> QED BY <2>2, <2>5, <2>9 DEF a, b, d, fill, c
<1>. DEFINE S == {m \in Nat : m <= N => from[79 - (N - m)][l(N - m)] = left(N - m)}
<1>. HIDE DEF N, G
<1>8. 0 \in S
  <2>1. N - 0 = N /\ 79 - N \in 0 .. 79 /\ G \in 7 .. G
    BY <1>1, <1>5
  <2>2. from[79 - N][G] = One(given, from, 79 - N, G)
    BY <1>6, <2>1
  <2>3. One(given, from, 79 - N, G) = <<>>
    BY DEF One, G
  <2>4. left(N) = <<>>
    BY <1>1, NothingLeft
  <2>5. from[79 - (N - 0)][l(N - 0)] = left(N - 0)
    BY <1>5, <2>1, <2>2, <2>3, <2>4
  <2>. HIDE DEF left
  <2> QED BY <2>5
<1>9. ASSUME NEW m \in Nat, m \in S PROVE m + 1 \in S
  <2>1. SUFFICES ASSUME m + 1 <= N PROVE from[79 - (N - (m + 1))][l(N - (m + 1))] = left(N - (m + 1))
    BY <1>9
  <2>. DEFINE k == N - (m + 1)
              n == 79 - k
  <2>2. /\ k \in 0 .. N - 1 /\ k + 1 = N - m /\ k + 1 \in 1 .. N /\ m <= N
        /\ n \in 1 .. 79 /\ n \in 0 .. 79 /\ n - 1 = 79 - (k + 1)
    BY <1>1, <2>1
  <2>. HIDE DEF k, n
  <2>. DEFINE c == rev[k + 1]
              fill == filler[k + 1]
              a == l(k)
  <2>3. a \in 7 .. G /\ l(k + 1) = a + Len(fill) + 3 /\ Stands(given, a, c, fill)
    BY <1>7, <2>2
  <2>4. c \in Byte /\ IsFiller(fill)
    BY <1>1, <1>4, <2>2
  <2>5. from[79 - (k + 1)][l(k + 1)] = left(k + 1)
    BY <1>9, <2>2
  <2>. HIDE DEF c, fill, a
  <2>6. One(given, from, n, a) = <<c>> \o from[n - 1][a + Len(fill) + 3]
    <3>1. c \in Byte /\ a \in 7 .. Len(given) /\ n \in 1 .. 79
      BY <2>2, <2>3, <2>4 DEF G
    <3>2. IsFiller(fill) /\ Stands(given, a, c, fill)
      BY <2>3, <2>4
    <3>3. given \in Seq(Byte)
      OBVIOUS
    <3>4. CanRead(given, n, a, c, fill)
      BY <3>1, <3>2, <3>3 DEF CanRead
    <3> QED BY <3>4, OneReads DEF HasRead
  <2>7. from[n][a] = One(given, from, n, a)
    BY <1>6, <2>2, <2>3
  <2>8. from[n - 1][a + Len(fill) + 3] = left(k + 1)
    <3>. HIDE DEF left
    <3>1. n - 1 = 79 - (k + 1) /\ l(k + 1) = a + Len(fill) + 3
      BY <2>2, <2>3
    <3> QED BY <2>5, <3>1
  <2>9. left(k) = <<c>> \o left(k + 1)
    <3>1. k \in 0 .. Len(rev) - 1
      BY <1>1, <2>2
    <3>2. SubSeq(rev, k + 1, Len(rev)) = <<rev[k + 1]>> \o SubSeq(rev, k + 1 + 1, Len(rev))
      BY <1>1, <3>1, LeftOver
    <3> QED BY <1>1, <3>2 DEF c
  <2>. HIDE DEF left
  <2>10. from[n][a] = left(k)
    BY <2>6, <2>7, <2>8, <2>9
  <2> QED BY <2>10 DEF n, a, k
<1>10. \A m \in Nat : m \in S
  <2>. HIDE DEF S
  <2> QED BY <1>8, <1>9, Induct
<1>11. from[79][7] = left(0)
  <2>1. N \in S /\ N - N = 0 /\ 79 - (N - N) = 79 /\ N <= N
    BY <1>1, <1>10
  <2>2. from[79 - (N - N)][l(N - N)] = left(N - N)
    BY <2>1
  <2>. HIDE DEF S, left
  <2> QED BY <1>2, <2>1, <2>2
<1>12. left(0) = rev
  BY <1>1, NothingLeft
<1> QED BY <1>6, <1>11, <1>12 DEF rev

LEMMA ReversedBack ==
    ASSUME NEW name, IsName(name)
    PROVE  /\ CString(Reverse(name)) = Reverse(name)
           /\ Reverse(Reverse(name)) = name
           /\ \A k \in DOMAIN Reverse(name) : Reverse(name)[k] # Bad
<1>. DEFINE N == Len(name)
            rev == Reverse(name)
<1>1. /\ N \in Nat /\ name \in Seq(Byte) /\ rev \in Seq(Byte) /\ Len(rev) = N /\ DOMAIN rev = 1 .. N
      /\ \A k \in 1 .. N : name[k] \in Byte /\ name[k] # 0 /\ rev[k] = name[N - k + 1]
  <2>1. name \in Seq(Byte) /\ rev \in Seq(Byte) /\ Len(rev) = N
    BY NameIs
  <2>2. N \in Nat /\ DOMAIN rev = 1 .. N
    BY <2>1
  <2> QED BY <2>1, <2>2, NameIs
<1>2. \A k \in 1 .. N : N - k + 1 \in 1 .. N /\ (N - (N - k + 1)) + 1 = k
  BY <1>1
<1>3. \A k \in 1 .. N : rev[k] \in Byte /\ rev[k] # 0
  BY <1>1, <1>2
<1>4. \A k \in DOMAIN rev : rev[k] # Bad
  <2>1. \A b \in Byte : b # Bad
    BY DEF Byte, Bad
  <2> QED BY <1>1, <1>3, <2>1
<1>5. Reverse(rev) = name
  <2>1. Reverse(rev) = [k \in 1 .. Len(rev) |-> rev[(Len(rev) - k) + 1]]
    BY DEF Reverse
  <2>. HIDE DEF rev, N
  <2>2. \A k \in 1 .. N : rev[(N - k) + 1] = name[k]
    <3>1. \A k \in 1 .. N : rev[N - k + 1] = name[N - (N - k + 1) + 1]
      BY <1>1, <1>2
    <3> QED BY <1>2, <3>1
  <2>3. name = [k \in 1 .. N |-> name[k]]
    BY <1>1 DEF N
  <2> QED BY <1>1, <2>1, <2>2, <2>3
<1>6. CString(rev) = rev
  <2>. DEFINE S == {k \in DOMAIN rev : rev[k] = 0} \cup {Len(rev) + 1}
  <2>1. S = {N + 1}
    BY <1>1, <1>3
  <2>. HIDE DEF S, rev, N
  <2>2. Min(S) = N + 1
    <3>1. N + 1 \in Int
      BY <1>1
    <3> QED BY <2>1, <3>1 DEF Min
  <2>3. (N + 1) - 1 = N
    BY <1>1
  <2>4. Min(S) - 1 = N
    BY <2>2, <2>3
  <2>5. CString(rev) = SubSeq(rev, 1, Min(S) - 1)
    BY DEF CString, S
  <2>6. SubSeq(rev, 1, Len(rev)) = rev
    BY <1>1, SubSeqFull
  <2> QED BY <1>1, <2>4, <2>5, <2>6
<1> QED BY <1>4, <1>5, <1>6

LEMMA SameByte ==
    ASSUME NEW v \in Byte, NEW w \in Byte, NEW a \in Int, (a - v) % 256 = (a - w) % 256
    PROVE  v = w
<1>1. a - v \in Int /\ a - w \in Int
  BY DEF Byte
<1>2. PICK q \in Int : a - v = 256 * q + ((a - v) % 256)
  BY <1>1, Division
<1>3. PICK p \in Int : a - w = 256 * p + ((a - w) % 256)
  BY <1>1, Division
<1>4. (a - v) % 256 \in Int
  BY <1>1
<1>5. w - v = 256 * (q - p)
  BY <1>2, <1>3, <1>4 DEF Byte
<1> QED BY <1>5 DEF Byte

LEMMA SameByteUp ==
    ASSUME NEW v \in Byte, NEW w \in Byte, NEW s \in Int, (v - s) % 256 = (w - s) % 256
    PROVE  v = w
<1>1. v - s \in Int /\ w - s \in Int
  BY DEF Byte
<1>2. PICK q \in Int : v - s = 256 * q + ((v - s) % 256)
  BY <1>1, Division
<1>3. PICK p \in Int : w - s = 256 * p + ((w - s) % 256)
  BY <1>1, Division
<1>4. (v - s) % 256 \in Int
  BY <1>1
<1>5. v - w = 256 * (q - p)
  BY <1>2, <1>3, <1>4 DEF Byte
<1> QED BY <1>5 DEF Byte

\* No two bytes are decoded to one at the same position.
LEMMA DecodeTellsApart ==
    ASSUME NEW v \in Byte, NEW w \in Byte, NEW lPos \in Nat, decode(v, lPos) = decode(w, lPos)
    PROVE  v = w
<1>1. CASE lPos % 2 = 0
  <2>. DEFINE s == (lPos % 8) * 3
              a == 0 - 1 - s
  <2>1. s \in Int
    OBVIOUS
  <2>2. decode(v, lPos) = (0 - v - 1 - s) % 256 /\ decode(w, lPos) = (0 - w - 1 - s) % 256
    BY <1>1 DEF decode
  <2>. HIDE DEF s
  <2>3. a \in Int /\ 0 - v - 1 - s = a - v /\ 0 - w - 1 - s = a - w
    BY <2>1 DEF Byte
  <2>. HIDE DEF a
  <2>4. (a - v) % 256 = (a - w) % 256
    BY <2>2, <2>3
  <2> QED BY <2>3, <2>4, SameByte
<1>2. CASE lPos % 2 # 0
  <2>. DEFINE s == OddShift(lPos)
  <2>1. s \in Int
    BY OddShiftInt
  <2>2. decode(v, lPos) = (v - s) % 256 /\ decode(w, lPos) = (w - s) % 256
    BY <1>2 DEF decode
  <2>. HIDE DEF s
  <2>3. (v - s) % 256 = (w - s) % 256
    BY <2>2
  <2> QED BY <2>1, <2>3, SameByteUp
<1> QED BY <1>1, <1>2

LEMMA Damaged == ASSUME NEW b \in Byte, NEW d \in 1 .. 255 PROVE (b + d) % 256 \in Byte /\ (b + d) % 256 # b
<1>1. b + d \in Int
  BY DEF Byte
<1>2. PICK q \in Int : b + d = 256 * q + ((b + d) % 256)
  BY <1>1, Division
<1>. DEFINE r == (b + d) % 256
<1>3. r \in Byte
  BY <1>1, ByteOf
<1>4. r # b
  <2>1. b + d = 256 * q + r
    BY <1>2
  <2>. HIDE DEF r
  <2> QED BY <1>3, <2>1 DEF Byte
<1> QED BY <1>3, <1>4

\* The header of a file is that of a name.
HeaderSays(given, name) == \A k \in 1 .. 7 : decode(given[k], k - 1) = Fields(name)[k]

LEMMA GivenReads ==
    ASSUME NEW name, IsName(name), NEW given, Letters(given) = Reverse(name)
    PROVE  getRegName(given) = IF HeaderSays(given, name) THEN name ELSE <<>>
<1>. DEFINE Field(k) == decode(given[k + 1], k)
            F == Fields(name)
            N == Len(name)
<1>1. /\ CString(Reverse(name)) = Reverse(name) /\ Reverse(Reverse(name)) = name
      /\ \A k \in DOMAIN Reverse(name) : Reverse(name)[k] # Bad
  BY ReversedBack
<1>2. N > 2
  <2>1. N \in 3 .. 79
    BY NameIs
  <2>. HIDE DEF N
  <2> QED BY <2>1
<1>3. /\ F[1] = N /\ F[2] = Spaces(name) /\ F[3] = name[3] /\ F[4] = Last(name)
      /\ F[5] = Highest(name) /\ F[6] = N /\ F[7] = Total(name)
  BY DEF Fields
<1>. DEFINE checks == /\ Field(0) = Field(5) /\ N = Field(0) /\ N > 2 /\ Highest(name) = Field(4)
                      /\ Spaces(name) = Field(1) /\ name[3] = Field(2) /\ Last(name) = Field(3)
                      /\ Total(name) = Field(6)
<1>4. getRegName(given) = IF checks THEN name ELSE <<>>
  BY <1>1, Zenon DEF getRegName
<1>5. HeaderSays(given, name) <=>
         /\ Field(0) = F[1] /\ Field(1) = F[2] /\ Field(2) = F[3] /\ Field(3) = F[4]
         /\ Field(4) = F[5] /\ Field(5) = F[6] /\ Field(6) = F[7]
  <2>. DEFINE says(k) == decode(given[k], k - 1) = F[k]
  <2>1. HeaderSays(given, name) <=> \A k \in 1 .. 7 : says(k)
    BY DEF HeaderSays
  <2>2. \A k \in 1 .. 7 : k = 1 \/ k = 2 \/ k = 3 \/ k = 4 \/ k = 5 \/ k = 6 \/ k = 7
    OBVIOUS
  <2>3. /\ says(1) <=> Field(0) = F[1]
        /\ says(2) <=> Field(1) = F[2]
        /\ says(3) <=> Field(2) = F[3]
        /\ says(4) <=> Field(3) = F[4]
        /\ says(5) <=> Field(4) = F[5]
        /\ says(6) <=> Field(5) = F[6]
        /\ says(7) <=> Field(6) = F[7]
    <3>. HIDE DEF F
    <3> QED OBVIOUS
  <2>. HIDE DEF says, Field, F
  <2>4. (\A k \in 1 .. 7 : says(k)) <=> says(1) /\ says(2) /\ says(3) /\ says(4) /\ says(5) /\ says(6) /\ says(7)
    BY <2>2
  <2> QED BY <2>1, <2>3, <2>4
<1>. HIDE DEF Field, F, N
<1>6. HeaderSays(given, name) <=> checks
  BY <1>2, <1>3, <1>5
<1>. HIDE DEF checks
<1> QED BY <1>4, <1>6

\* What regtriv writes: the header, and the letters from the eighth byte on.
LEMMA FileIs ==
    ASSUME NEW name, IsName(name), NEW filler, \A k \in 1 .. Len(name) : IsFiller(filler[k])
    PROVE  LET file == RegFile(name, filler)
           IN  /\ file \in Seq(Byte) /\ Len(file) >= 8
               /\ \A k \in 1 .. 7 : file[k] = encode(Fields(name)[k], k - 1)
               /\ \A given \in Seq(Byte) :
                     /\ Len(given) = Len(file)
                     /\ \A q \in 8 .. Len(given) : given[q] = file[q]
                     => Letters(given) = Reverse(name)
<1>. DEFINE N == Len(name)
            file == RegFile(name, filler)
<1>1. PICK P : Grows(name, filler, P) /\ file = P[N]
  BY FileGrows
<1>2. N \in Nat /\ N >= 3
  <2>1. N \in 3 .. 79
    BY NameIs
  <2>. HIDE DEF N
  <2> QED BY <2>1
<1>. HIDE DEF file
<1>3. P[N] \in Seq(Byte) /\ P[0] = Header(name) /\ Len(P[0]) = 7
  <2>1. N \in 0 .. N
    BY <1>2
  <2>2. Len(P[0]) = 7 /\ \A k \in 0 .. N : P[k] \in Seq(Byte)
    BY <1>1, GrowsOn, Zenon
  <2>3. P[0] = Header(name)
    BY <1>1 DEF Grows
  <2>. HIDE DEF N
  <2> QED BY <2>1, <2>2, <2>3
<1>4. Len(P[1]) = 7 + Len(filler[1]) + 3 /\ Len(filler[1]) \in Nat
  <2>1. 0 \in 0 .. N - 1 /\ 1 \in 1 .. N /\ 0 + 1 = 1
    BY <1>2
  <2>2. Len(P[0 + 1]) = Len(P[0]) + Len(filler[0 + 1]) + 3
    <3>. DEFINE l(k) == Len(P[k])
    <3>. HIDE DEF l
    <3>1. \A k \in 0 .. Len(name) - 1 :
             /\ l(k + 1) = l(k) + Len(filler[k + 1]) + 3
             /\ \A q \in 1 .. l(k) : P[k + 1][q] = P[k][q]
             /\ Stands(P[k + 1], l(k), Reverse(name)[k + 1], filler[k + 1])
      BY <1>1, GrowsOn DEF l
    <3>2. l(0 + 1) = l(0) + Len(filler[0 + 1]) + 3
      BY <2>1, <3>1
    <3> QED BY <3>2 DEF l
  <2>3. IsFiller(filler[1])
    BY <2>1
  <2> QED BY <1>3, <2>1, <2>2, <2>3, FillIs
<1>5. Len(P[1]) <= Len(P[N]) /\ \A q \in 1 .. Len(P[0]) : P[N][q] = P[0][q]
  <2>1. 0 \in 0 .. N /\ 1 \in 0 .. N
    BY <1>2
  <2> QED BY <1>1, <2>1, FileHas
<1>6. Len(file) >= 8 /\ file \in Seq(Byte)
  <2>1. Len(P[N]) \in Nat
    BY <1>3
  <2> QED BY <1>1, <1>3, <1>4, <1>5, <2>1
<1>7. \A k \in 1 .. 7 : file[k] = encode(Fields(name)[k], k - 1)
  <2>1. \A k \in 1 .. 7 : file[k] = Header(name)[k]
    BY <1>1, <1>3, <1>5
  <2> QED BY <2>1, FieldsAre
<1>8. ASSUME NEW given \in Seq(Byte), Len(given) = Len(file),
             \A q \in 8 .. Len(given) : given[q] = file[q]
      PROVE  Letters(given) = Reverse(name)
  BY <1>1, <1>8, ReadsBack
<1> QED BY <1>6, <1>7, <1>8 DEF file

\* The name regtriv writes a key for is the name the server reads, whatever bytes it fills
\* the key with (regtriv.cpp main, RegInfo::load).
THEOREM KeyReadsBack ==
    ASSUME NEW name, IsName(name), NEW filler, \A k \in 1 .. Len(name) : IsFiller(filler[k]),
           Len(RegFile(name, filler)) <= 2000
    PROVE  load(RegFile(name, filler)) = name
<1>. DEFINE file == RegFile(name, filler)
<1>1. file \in Seq(Byte) /\ Len(file) >= 8 /\ Letters(file) = Reverse(name)
      /\ \A k \in 1 .. 7 : file[k] = encode(Fields(name)[k], k - 1)
  <2>1. file \in Seq(Byte)
    BY FileIs
  <2> QED BY <2>1, FileIs
<1>2. HeaderSays(file, name)
  <2>1. \A k \in 1 .. 7 : k - 1 \in Nat /\ Fields(name)[k] \in Byte
    BY FieldsAre
  <2> QED BY <1>1, <2>1, DecodeEncode DEF HeaderSays
<1>3. getRegName(file) = name
  BY <1>1, <1>2, GivenReads
<1>4. ~(Len(file) < 8 \/ Len(file) > 2000)
  <2>1. Len(file) \in Nat
    BY <1>1
  <2>. HIDE DEF file
  <2>2. Len(file) <= 2000
    BY DEF file
  <2> QED BY <1>1, <2>1, <2>2
<1>. HIDE DEF file
<1>5. load(file) = name
  BY <1>3, <1>4 DEF load
<1> QED BY <1>5 DEF file

\* A key with a byte of its header changed registers nobody.
THEOREM DamagedKeyRefused ==
    ASSUME NEW name, IsName(name), NEW filler, \A k \in 1 .. Len(name) : IsFiller(filler[k]),
           NEW b \in 1 .. 7, NEW d \in 1 .. 255
    PROVE  load(Changed(RegFile(name, filler), b, d)) = <<>>
<1>. DEFINE file == RegFile(name, filler)
            given == [file EXCEPT ![b] = (@ + d) % 256]
            L == Len(file)
<1>1. file \in Seq(Byte) /\ L >= 8 /\ L \in Nat
      /\ \A k \in 1 .. 7 : file[k] = encode(Fields(name)[k], k - 1)
  <2>1. file \in Seq(Byte) /\ Len(file) >= 8
    BY FileIs
  <2>2. L \in Nat
    BY <2>1
  <2> QED BY <2>1, <2>2, FileIs
<1>2. \A q \in 1 .. L : file[q] \in Byte
  <2>1. \A q \in 1 .. Len(file) : file[q] \in Byte
    <3>. HIDE DEF file
    <3> QED BY <1>1, MemberAt
  <2> QED BY <2>1
<1>3. b \in 1 .. L /\ DOMAIN file = 1 .. L /\ b - 1 \in Nat
  <2>. HIDE DEF file, L
  <2>1. b \in 1 .. L /\ b - 1 \in Nat
    BY <1>1
  <2>2. DOMAIN file = 1 .. L
    BY <1>1 DEF L
  <2> QED BY <2>1, <2>2
<1>4. file[b] \in Byte /\ (file[b] + d) % 256 \in Byte /\ (file[b] + d) % 256 # file[b]
  <2>1. file[b] \in Byte
    BY <1>2, <1>3
  <2>. HIDE DEF file
  <2> QED BY <2>1, Damaged
<1>5. given \in [1 .. L -> Byte]
  <2>. HIDE DEF file, L
  <2>1. file \in [1 .. L -> Byte]
    <3>1. file = [q \in 1 .. Len(file) |-> file[q]]
      BY <1>1
    <3> QED BY <1>2, <3>1 DEF L
  <2> QED BY <1>3, <1>4, <2>1
<1>6. given[b] = (file[b] + d) % 256 /\ \A q \in 8 .. L : given[q] = file[q]
  <2>. HIDE DEF file, L
  <2>1. \A q \in 8 .. L : q \in 1 .. L /\ q # b
    BY <1>1
  <2> QED BY <1>3, <2>1
<1>. HIDE DEF given, L
<1>7. given \in Seq(Byte) /\ Len(given) = L
  BY <1>1, <1>5
<1>8. Letters(given) = Reverse(name)
  <2>1. \A other \in Seq(Byte) : /\ Len(other) = Len(file)
                                 /\ \A q \in 8 .. Len(other) : other[q] = file[q]
                                 => Letters(other) = Reverse(name)
    BY FileIs
  <2>. HIDE DEF file
  <2> QED BY <1>6, <1>7, <2>1 DEF L
<1>9. ~HeaderSays(given, name)
  <2>. DEFINE v == (file[b] + d) % 256
              w == file[b]
              f == Fields(name)[b]
  <2>1. decode(w, b - 1) = f
    BY <1>1, <1>3, FieldsAre, DecodeEncode
  <2>2. v \in Byte /\ w \in Byte /\ v # w /\ given[b] = v
    BY <1>4, <1>6
  <2>. HIDE DEF v, w, f
  <2>3. decode(v, b - 1) # f
    BY <1>3, <2>1, <2>2, DecodeTellsApart
  <2> QED BY <2>2, <2>3 DEF HeaderSays, f
<1>10. getRegName(given) = <<>>
  BY <1>8, <1>9, GivenReads
<1>11. load(given) = <<>>
  BY <1>10 DEF load
<1> QED BY <1>11 DEF given, file, Changed

\* What is read of a key, whatever was done to its header.
LEMMA NameRead ==
    ASSUME NEW key \in Keys
    PROVE  /\ NameOn[key] = IF key.damage = None THEN key.name ELSE <<>>
           /\ NameOn[key] \in SysopNames \cup {<<>>}
<1>1. /\ \A name \in SysopNames : IsName(name) /\ Len(RegFile(name, Filler)) <= 500
      /\ \A k \in 1 .. 79 : IsFiller(Filler[k])
      /\ Damages \subseteq (1 .. 7) \X (1 .. 255) /\ None \notin Damages
  BY ConfigurationAssumption DEF ConfigurationAssumption
<1>2. key.name \in SysopNames /\ key.damage \in Damages \cup {None}
  BY DEF Keys
<1>. DEFINE name == key.name
            file == RegFile(name, Filler)
<1>3. IsName(name) /\ Len(file) <= 500
  BY <1>1, <1>2
<1>4. \A k \in 1 .. Len(name) : IsFiller(Filler[k])
  <2>1. \A n \in 3 .. 79 : \A k \in 1 .. n : k \in 1 .. 79
    OBVIOUS
  <2>2. Len(name) \in 3 .. 79
    BY <1>3, NameIs
  <2> QED BY <1>1, <2>1, <2>2
<1>5. NameOn[key] = load(KeyFile(key))
  BY DEF NameOn
<1>6. CASE key.damage = None
  <2>1. Len(file) <= 2000
    <3>1. Len(file) \in Nat
      <4>1. file \in Seq(Byte)
        BY <1>3, <1>4, FileIs
      <4>. HIDE DEF file
      <4> QED BY <4>1
    <3>. HIDE DEF file
    <3> QED BY <1>3, <3>1
  <2>2. load(file) = name
    <3>. HIDE DEF name
    <3> QED BY <1>3, <1>4, <2>1, KeyReadsBack
  <2>3. KeyFile(key) = file
    BY <1>6 DEF KeyFile
  <2> QED BY <1>2, <1>5, <1>6, <2>2, <2>3
<1>7. CASE key.damage # None
  <2>. DEFINE b == key.damage[1]
              d == key.damage[2]
  <2>1. b \in 1 .. 7 /\ d \in 1 .. 255
    BY <1>1, <1>2, <1>7
  <2>2. KeyFile(key) = Changed(file, b, d)
    BY <1>7 DEF KeyFile
  <2>3. load(Changed(file, b, d)) = <<>>
    <3>. HIDE DEF name, b, d
    <3> QED BY <1>3, <1>4, <2>1, DamagedKeyRefused
  <2> QED BY <1>5, <1>7, <2>2, <2>3
<1> QED BY <1>6, <1>7

\* The keys there are, and the names a server takes from them.
RegistrationInv ==
    /\ szRegdTo \in SysopNames \cup {<<>>}
    /\ ttreg \in Keys \cup {None}
    /\ edits \in 0 .. MaxEdits

LEMMA RegistrationInit == Init => RegistrationInv
<1>1. MaxEdits \in Nat
  BY ConfigurationAssumption DEF ConfigurationAssumption
<1>2. 0 \in 0 .. MaxEdits
  BY <1>1
<1> QED BY <1>2 DEF Init, RegistrationInv

LEMMA RegistrationStep == RegistrationInv /\ [Next]_vars => RegistrationInv'
<1>1. SUFFICES ASSUME RegistrationInv, [Next]_vars PROVE RegistrationInv'
  OBVIOUS
<1>. USE DEF serverVars
<1>2. regName \in SysopNames \cup {<<>>}
  BY <1>1, NameRead DEF RegistrationInv, regName
<1>3. edits' = edits \/ Edit
  BY <1>1 DEF Next, vars, SpawnServer, GoAway, StartServer, EnterNode, OpenMenu, MenuValue, MenuFile,
              CloseMenu, StopServer, OpenConfig, ConfigValue, ConfigFile, ConfigSave, ConfigQuit, ConfigAnswer,
              InstallKey
<1>4. edits' \in 0 .. MaxEdits
  <2>1. MaxEdits \in Nat
    BY ConfigurationAssumption DEF ConfigurationAssumption
  <2> QED BY <1>1, <1>3, <2>1 DEF RegistrationInv, Edit
<1>5. ttreg' = ttreg \/ ttreg' \in Keys
  BY <1>1 DEF Next, vars, SpawnServer, GoAway, StartServer, EnterNode, OpenMenu, MenuValue, MenuFile,
              CloseMenu, StopServer, OpenConfig, ConfigValue, ConfigFile, ConfigSave, ConfigQuit, ConfigAnswer,
              InstallKey
<1>6. szRegdTo' = szRegdTo \/ szRegdTo' = regName
  BY <1>1 DEF Next, vars, SpawnServer, GoAway, StartServer, EnterNode, OpenMenu, MenuValue, MenuFile,
              CloseMenu, StopServer, OpenConfig, ConfigValue, ConfigFile, ConfigSave, ConfigQuit, ConfigAnswer,
              InstallKey
<1> QED BY <1>1, <1>2, <1>4, <1>5, <1>6 DEF RegistrationInv

\* Every variable has its type, in every state, with any keys that can be installed.
THEOREM ConfigurationType == Spec => []TypeOK
<1>1. SettingsInv /\ DatabaseInv /\ RegistrationInv => TypeOK
  <2>1. SUFFICES ASSUME SettingsInv, DatabaseInv, RegistrationInv PROVE TypeOK
    OBVIOUS
  <2>2. \A s \in Good : s \in Settings /\ Agreeing(s)
    BY GoodIs
  <2>3. config.settings \in Good /\ config.original \in Good /\ config.at \in {"closed", "menu", "ask"}
        /\ config.dirty \in BOOLEAN
    BY <2>1 DEF SettingsInv
  <2>4. dat \in Settings \cup {None} /\ info \in Settings \cup {None} /\ (info # None => Agreeing(info))
    BY <2>1, <2>2 DEF SettingsInv
  <2>5. spawned \in [info: Settings, current: BOOLEAN] \cup {None}
    BY <2>1, <2>2 DEF SettingsInv
  <2>6. sysop \in {"closed", "menu"}
    BY <2>1 DEF SettingsInv
  <2> QED BY <2>1, <2>2, <2>3, <2>4, <2>5, <2>6 DEF TypeOK, DatabaseInv, RegistrationInv
<1>2. Spec => []RegistrationInv
  BY RegistrationInit, RegistrationStep, PTL DEF Spec
<1> QED BY <1>1, <1>2, SettingsAgree, PTL

\* A server is registered to the name on its key, whenever it finds it, and to nobody by a
\* key with a changed header (reginfo.cpp:130, gamesrv.cpp addNode).
THEOREM KeysRegister == Spec => KeyRegisters
<1>1. Spec => []RegistrationInv
  BY RegistrationInit, RegistrationStep, PTL DEF Spec
<1>2. RegistrationInv /\ [Next]_vars =>
        [(StartServer \/ szRegdTo' # szRegdTo) /\ ttreg # None =>
            szRegdTo' = IF ttreg.damage = None THEN ttreg.name ELSE <<>>]_vars
  <2>1. SUFFICES ASSUME RegistrationInv, Next, StartServer \/ szRegdTo' # szRegdTo, ttreg # None
                 PROVE  szRegdTo' = IF ttreg.damage = None THEN ttreg.name ELSE <<>>
    BY DEF vars
  <2>2. szRegdTo' = regName
    BY <2>1 DEF Next, serverVars, SpawnServer, GoAway, StartServer, EnterNode, OpenMenu, MenuValue, MenuFile,
                CloseMenu, StopServer, OpenConfig, ConfigValue, ConfigFile, ConfigSave, ConfigQuit,
                ConfigAnswer, InstallKey
  <2>3. ttreg \in Keys
    BY <2>1 DEF RegistrationInv
  <2> QED BY <2>1, <2>2, <2>3, NameRead DEF regName
<1> QED BY <1>1, <1>2, PTL DEF Spec, KeyRegisters
=================================================================================
