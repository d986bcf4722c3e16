---------------------------- MODULE Configuration ----------------------------
(***************************************************************************)
(* What the sysop sets up: settings.dat, edited by trivconfig and by the   *)
(* sysop menu of the running server; the registration file; and the        *)
(* question database the server indexes from both.                         *)
(*                                                                         *)
(* A question file is a name with a number of questions.  The settings are *)
(* those that the server or the checks of both programs look at.           *)
(***************************************************************************)
EXTENDS Integers, Sequences, Functions, FiniteSetsExt, RegKey

CONSTANTS
    File,          \* names of question files; "" is no file
    Questions,     \* per file: the questions that can be indexed, 0 if it is missing
    Counted,       \* per file: the line pairs countInFile sees
    NumFiles,      \* MAX_TRIVIA_FILES (10)
    MaxCore, MaxExtra,      \* limits of an unregistered copy (395 and 155)
    Frequencies, Clues,     \* what a sysop may type
    SysopNames,    \* the names keys are made for
    Filler,        \* per letter: the fillers regtriv chose
    Damages,       \* bytes of a key's header that were changed, and by how much
    None,
    MaxEdits       \* bound: changes a sysop makes

Core == "database.enc"
Slots == 0 .. NumFiles - 1

ASSUME ConfigurationAssumption ==
    /\ {Core, "custom.txt", ""} \subseteq File
    /\ Questions \in [File -> Nat] /\ Counted \in [File -> Nat]
    /\ \A f \in File : Questions[f] <= Counted[f]
    /\ Questions[""] = 0 /\ Counted[""] = 0
    /\ NumFiles \in Nat \ {0, 1}
    /\ {MaxCore, MaxExtra, MaxEdits} \subseteq Nat
    /\ Frequencies \cup Clues \subseteq Int
    /\ \A name \in SysopNames : IsName(name) /\ Len(RegFile(name, Filler)) <= 500
    /\ \A k \in 1 .. 79 : IsFiller(Filler[k])
    /\ Damages \subseteq (1 .. 7) \X (1 .. 255) /\ None \notin Damages

VARIABLES
    dat,           \* settings.dat, None if there is none of 290 bytes
    info,          \* GameSettings::info of the running server, None if none runs
    spawned,       \* a server that is spawned and has not asked for the lock: what it
                   \* loaded, and whether the file has not been saved since; or None
    sysop,         \* the sysop menu: closed or open
    szRegdTo,      \* RegInfo: the name the server is registered to
    ttreg,         \* ttreg.dat
    index,         \* tqDatabase: per slot, how many questions, and for how many
                   \* there is room
    szDB,          \* per slot: the file name the questions are read from
    indexed,       \* the files of the settings when the index was made
    config,        \* trivconfig: its screen, its settings and their original
    edits          \* changes made so far

serverVars == <<info, sysop, szRegdTo, index, szDB, indexed>>
vars == <<dat, serverVars, spawned, ttreg, config, edits>>

Settings == [nQuestionFrequency: Int, nMaxClues: Int, nClueFrequency: Int,
             bListSysops: BOOLEAN, szExtraFiles: [Slots -> File]]

Defaults == [nQuestionFrequency |-> 50, nMaxClues |-> 3, nClueFrequency |-> 12,
             bListSysops |-> TRUE,
             szExtraFiles |-> [n \in Slots |-> IF n = 0 THEN Core
                                               ELSE IF n = 1 THEN "custom.txt" ELSE ""]]

Closed == [at |-> "closed", settings |-> Defaults, original |-> Defaults, dirty |-> FALSE]

FrequencyOK(v) == 25 <= v /\ v <= 75
CluesOK(v) == 0 <= v /\ v <= 4

\* Settings in range, with the clue frequency that the other two give: every clue of
\* a question falls into its time.
Agreeing(s) ==
    /\ FrequencyOK(s.nQuestionFrequency)
    /\ CluesOK(s.nMaxClues)
    /\ s.nClueFrequency = s.nQuestionFrequency \div (s.nMaxClues + 1)

\* ttreg.dat as regtriv wrote it, or with a byte of its header changed.
Keys == [name: SysopNames, damage: Damages \cup {None}]

\* The types; and wherever they come from, the settings in use and the settings being
\* edited agree.
TypeOK ==
    /\ info # None => Agreeing(info)
    /\ Agreeing(config.settings)
    /\ dat \in Settings \cup {None}
    /\ info \in Settings \cup {None}
    /\ spawned \in [info: Settings, current: BOOLEAN] \cup {None}
    /\ sysop \in {"closed", "menu"}
    /\ szRegdTo \in SysopNames \cup {<<>>}
    /\ ttreg \in Keys \cup {None}
    /\ index.size \in [Slots -> Nat] /\ index.room \in Nat
    /\ szDB \in [Slots -> File \cup {"none"}]
    /\ indexed \in [Slots -> File]
    /\ config.at \in {"closed", "menu", "ask"}
    /\ config.settings \in Settings /\ config.original \in Settings
    /\ config.dirty \in BOOLEAN
    /\ edits \in 0 .. MaxEdits

Init ==
    /\ dat \in {None, Defaults}
    /\ info = None
    /\ spawned = None
    /\ sysop = "closed"
    /\ szRegdTo = <<>>
    /\ ttreg = None
    /\ index = [size |-> [n \in Slots |-> 0], room |-> 0]
    /\ szDB = [n \in Slots |-> "none"]
    /\ indexed = [n \in Slots |-> ""]
    /\ config = Closed
    /\ edits = 0

-----------------------------------------------------------------------------
(* Settings: what both programs accept                                     *)

\* The clue frequency follows from the other two.
setFrequency(s, v) == [s EXCEPT !.nQuestionFrequency = v,
                                !.nClueFrequency = v \div (s.nMaxClues + 1)]
setClues(s, v) == [s EXCEPT !.nMaxClues = v,
                            !.nClueFrequency = s.nQuestionFrequency \div (v + 1)]

\* Mutant of Validated: the bounds themselves are refused.
ValidatedStrictly(s) ==
    LET clues == IF 0 < s.nMaxClues /\ s.nMaxClues < 4 THEN s.nMaxClues ELSE 3
    IN  [s EXCEPT !.nMaxClues = clues,
                  !.nClueFrequency = s.nQuestionFrequency \div (clues + 1),
                  !.szExtraFiles[0] = IF @ = "" THEN Core ELSE @]

\* The end of the constructor: a value out of range is replaced, and so is an
\* empty first file.
Validated(s) ==
    LET clues == IF CluesOK(s.nMaxClues) THEN s.nMaxClues ELSE 3
        freq == IF FrequencyOK(s.nQuestionFrequency) THEN s.nQuestionFrequency ELSE 50
    IN  [s EXCEPT !.nMaxClues = clues,
                  !.nQuestionFrequency = freq,
                  !.nClueFrequency = freq \div (clues + 1),
                  !.szExtraFiles[0] = IF @ = "" THEN Core ELSE @]

\* GameSettings::GameSettings: what is left of a file that is not of the right
\* size are the defaults.
loadSettings == Validated(IF dat = None THEN Defaults ELSE dat)

-----------------------------------------------------------------------------
(* The database                                                            *)

\* countInFile, with the limit of the core file.
countInFile(f, registered) ==
    IF ~registered /\ f = Core /\ Counted[f] > MaxCore THEN MaxCore ELSE Counted[f]

\* The array initDatabase allocates.
roomFor(files, registered) ==
    LET nCurCount == FoldFunction(+, 0, [n \in Slots |-> countInFile(files[n], registered)])
    IN  IF ~registered /\ nCurCount > MaxCore + MaxExtra THEN MaxCore + MaxExtra + 5
                                                         ELSE nCurCount

\* Mutant of indexQuestions: the limit of the other files forgets what is indexed.
indexQuestionsEach(f, size, registered) ==
    IF registered THEN Questions[f]
    ELSE IF f = Core THEN Min({Questions[f], MaxCore})
    ELSE Min({Questions[f], MaxCore + MaxExtra})

\* indexQuestions: how many questions it adds to an index of that size.
indexQuestions(f, size, registered) ==
    IF registered THEN Questions[f]
    ELSE IF f = Core THEN Min({Questions[f], MaxCore})
    ELSE IF size > MaxCore + MaxExtra THEN 0
    ELSE Min({Questions[f], MaxCore + MaxExtra - size})

\* The index sizes of the slots of files, one after the other.
indexAll(files, registered) ==
    LET total[n \in 0 .. NumFiles] ==
            IF n = 0 THEN 0
            ELSE total[n - 1] + indexQuestions(files[n - 1], total[n - 1], registered)
    IN  [n \in Slots |-> total[n + 1] - total[n]]

\* A file that is not even opened keeps the old name of its slot.
skipped(files, n, registered) ==
    \/ files[n] = ""
    \/ /\ ~registered
       /\ files[n] # Core
       /\ FoldFunctionOnSet(+, 0, indexAll(files, registered), 0 .. n - 1) > MaxCore + MaxExtra

\* Mutant of initDatabase: a slot that has a name keeps it.
initDatabaseKeepsNames(files, names, registered) ==
    /\ index' = [size |-> indexAll(files, registered), room |-> roomFor(files, registered)]
    /\ szDB' = [n \in Slots |-> IF names[n] # "none" THEN names[n] ELSE files[n]]
    /\ indexed' = files

initDatabase(files, names, registered) ==
    /\ index' = [size |-> indexAll(files, registered), room |-> roomFor(files, registered)]
    /\ szDB' = [n \in Slots |-> IF skipped(files, n, registered) THEN names[n] ELSE files[n]]
    /\ indexed' = files

-----------------------------------------------------------------------------
(* The server                                                              *)

\* The bytes of ttreg.dat, and what is read from them.
Changed(file, b, d) == [file EXCEPT ![b] = (@ + d) % 256]
KeyFile(key) ==
    LET file == RegFile(key.name, Filler)
    IN  IF key.damage = None THEN file ELSE Changed(file, key.damage[1], key.damage[2])
NameOn == [key \in Keys |-> load(KeyFile(key))]
regName == IF ttreg = None THEN <<>> ELSE NameOn[ttreg]

\* The settings are static, so they are loaded before main begins.
SpawnServer ==
    /\ spawned = None
    /\ spawned' = [info |-> loadSettings, current |-> TRUE]
    /\ UNCHANGED <<dat, serverVars, ttreg, config, edits>>

\* Something has been saved, and a spawned server has not read it.
Outdated == spawned' = IF spawned = None THEN None ELSE [spawned EXCEPT !.current = FALSE]

\* The constructor of the server does not get the lock.
GoAway ==
    /\ info # None /\ spawned # None
    /\ spawned' = None
    /\ UNCHANGED <<dat, serverVars, ttreg, config, edits>>

\* It gets the lock; then it loads RegInfo and the database.
StartServer ==
    /\ info = None /\ spawned # None
    /\ info' = spawned.info
    /\ spawned' = None
    /\ szRegdTo' = regName
    /\ initDatabase(info'.szExtraFiles, [n \in Slots |-> IF n = 0 THEN Core ELSE "none"],
                    regName # <<>>)
    /\ UNCHANGED <<dat, sysop, ttreg, config, edits>>

\* addNode: a player enters, and a key that has been installed meanwhile is found.
EnterNode ==
    /\ info # None
    /\ szRegdTo = <<>> /\ regName # <<>>
    /\ szRegdTo' = regName
    /\ initDatabase(info.szExtraFiles, szDB, TRUE)
    /\ UNCHANGED <<dat, spawned, info, sysop, ttreg, config, edits>>

OpenMenu ==
    /\ info # None /\ sysop = "closed"
    /\ sysop' = "menu"
    /\ UNCHANGED <<dat, spawned, info, szRegdTo, index, szDB, indexed, ttreg, config, edits>>

Edit == edits < MaxEdits /\ edits' = edits + 1

\* Mutant of MenuValue: the clue frequency is left as it was.
MenuValueAlone ==
    /\ sysop = "menu" /\ Edit
    /\ \/ \E v \in Frequencies : FrequencyOK(v) /\ info' = [info EXCEPT !.nQuestionFrequency = v]
       \/ \E v \in Clues : CluesOK(v) /\ info' = [info EXCEPT !.nMaxClues = v]
       \/ info' = [info EXCEPT !.bListSysops = ~@]
    /\ UNCHANGED <<dat, spawned, sysop, szRegdTo, index, szDB, indexed, ttreg, config>>

\* Choices F, M and S of the sysop menu; what is out of range changes nothing.
MenuValue ==
    /\ sysop = "menu" /\ Edit
    /\ \/ \E v \in Frequencies : FrequencyOK(v) /\ info' = setFrequency(info, v)
       \/ \E v \in Clues : CluesOK(v) /\ info' = setClues(info, v)
       \/ info' = [info EXCEPT !.bListSysops = ~@]
    /\ UNCHANGED <<dat, spawned, sysop, szRegdTo, index, szDB, indexed, ttreg, config>>

\* The files of the menu, with the default in the first slot if no file that is
\* named has anything in it.
WithValidFile(files) ==
    IF \A n \in Slots : Counted[files[n]] = 0 THEN [files EXCEPT ![0] = Core] ELSE files

\* A digit of the menu: the database is made again at once, whether or not the note on
\* the limit is shown.
MenuFile ==
    /\ sysop = "menu" /\ Edit
    /\ \E n \in Slots, f \in File :
          LET files == WithValidFile([info.szExtraFiles EXCEPT ![n] = f])
          IN  /\ info' = [info EXCEPT !.szExtraFiles = files]
              /\ initDatabase(files, szDB, szRegdTo # <<>>)
    /\ UNCHANGED <<dat, spawned, sysop, szRegdTo, ttreg, config>>

\* The menu ends, by choice or with its client while it waits for a line; the line is
\* not there then, and nothing has changed.
CloseMenu ==
    /\ sysop = "menu"
    /\ sysop' = "closed"
    /\ UNCHANGED <<dat, spawned, info, szRegdTo, index, szDB, indexed, ttreg, config, edits>>

\* The last player is gone: the settings are saved.  A server that dies saves
\* nothing.
StopServer ==
    /\ info # None /\ sysop = "closed"
    /\ info' = None
    /\ \/ dat' = info /\ Outdated
       \/ UNCHANGED <<dat, spawned>>
    /\ UNCHANGED <<sysop, szRegdTo, index, szDB, indexed, ttreg, config, edits>>

-----------------------------------------------------------------------------
(* trivconfig and regtriv                                                  *)

OpenConfig ==
    /\ config.at = "closed"
    /\ config' = [at |-> "menu", settings |-> loadSettings, original |-> loadSettings,
                  dirty |-> FALSE]
    /\ UNCHANGED <<dat, spawned, serverVars, ttreg, edits>>

\* The settings after an edit, and whether they differ from what was loaded or
\* saved last.
edited(s) == config' = [config EXCEPT !.settings = s, !.dirty = s # config.original]

\* Whether what was typed is taken.
promptInt(v, minVal, maxVal) == minVal <= v /\ v <= maxVal

\* The numbers and a yes/no field.
ConfigValue ==
    /\ config.at = "menu" /\ Edit
    /\ \/ \E v \in Frequencies : promptInt(v, 25, 75) /\ edited(setFrequency(config.settings, v))
       \/ \E v \in Clues : promptInt(v, 0, 4) /\ edited(setClues(config.settings, v))
       \/ edited([config.settings EXCEPT !.bListSysops = ~@])
    /\ UNCHANGED <<dat, spawned, serverVars, ttreg>>

\* A file name, or none; here any name counts as a file.
ConfigFile ==
    /\ config.at = "menu" /\ Edit
    /\ \E n \in Slots, f \in File :
          LET files == [config.settings.szExtraFiles EXCEPT ![n] = f]
          IN  edited([config.settings EXCEPT !.szExtraFiles =
                         IF \A m \in Slots : files[m] = "" THEN [files EXCEPT ![0] = Core]
                                                           ELSE files])
    /\ UNCHANGED <<dat, spawned, serverVars, ttreg>>

\* It may fail.
saveSettings(bSaved) ==
    IF bSaved THEN dat' = config.settings /\ Outdated ELSE UNCHANGED <<dat, spawned>>

ConfigSave ==
    /\ config.at = "menu"
    /\ \E bSaved \in BOOLEAN :
          /\ saveSettings(bSaved)
          /\ config' = IF bSaved
                       THEN [config EXCEPT !.original = config.settings, !.dirty = FALSE]
                       ELSE config
    /\ UNCHANGED <<serverVars, ttreg, edits>>

ConfigQuit ==
    /\ config.at = "menu"
    /\ config' = IF config.dirty THEN [config EXCEPT !.at = "ask"] ELSE Closed
    /\ UNCHANGED <<dat, spawned, serverVars, ttreg, edits>>

\* Yes saves and leaves even if that fails, no leaves, anything else goes back.
ConfigAnswer ==
    /\ config.at = "ask"
    /\ \/ (\E bSaved \in BOOLEAN : saveSettings(bSaved)) /\ config' = Closed
       \/ UNCHANGED <<dat, spawned>> /\ config' = [config EXCEPT !.at = "menu"]
    /\ UNCHANGED <<serverVars, ttreg, edits>>

InstallKey ==
    /\ Edit
    /\ ttreg' \in Keys
    /\ UNCHANGED <<dat, spawned, serverVars, config>>

Next ==
    \/ SpawnServer \/ GoAway \/ StartServer \/ EnterNode
    \/ OpenMenu \/ MenuValue \/ MenuFile \/ CloseMenu
    \/ StopServer
    \/ OpenConfig \/ ConfigValue \/ ConfigFile \/ ConfigSave \/ ConfigQuit \/ ConfigAnswer
    \/ InstallKey

Spec == Init /\ [][Next]_vars

-----------------------------------------------------------------------------
(* Properties                                                              *)

\* The files are listed as they are by default: the core file first, and once.
CoreFirst(files) == files[0] = Core /\ \A n \in Slots \ {0} : files[n] # Core

\* The index fits into the array that was counted for it, registered or not
\* (trivia.cpp:139).  For an unregistered copy that is true of the usual order of
\* the files; the limit of a file says nothing of the files before it.  And as soon as
\* the server is registered it asks every question of its files.
IndexFits ==
    info # None =>
        /\ szRegdTo # <<>> \/ CoreFirst(indexed) => FoldFunction(+, 0, index.size) <= index.room
        /\ szRegdTo # <<>> => index.size = [n \in Slots |-> Questions[indexed[n]]]

\* Whatever the sysop makes of the list of files and whenever a key is found, the
\* index is that of the files the menu shows, and every question in it is read from
\* the file it was counted in, though initDatabase leaves the old names in the slots it
\* skips (trivia.cpp:175, :184).
IndexIsCurrent ==
    info # None =>
        /\ indexed = info.szExtraFiles
        /\ \A n \in Slots : index.size[n] > 0 => szDB[n] = indexed[n]

\* A server is registered to the name on the key regtriv made, when it starts or when
\* the key is found later, and to nobody if a byte of the header is not what regtriv
\* wrote (reginfo.cpp:130).
KeyRegisters ==
    [][ (StartServer \/ szRegdTo' # szRegdTo) /\ ttreg # None =>
            szRegdTo' = IF ttreg.damage = None THEN ttreg.name ELSE <<>> ]_vars

\* A server starts with the settings that were last saved, by whichever program,
\* to the last one: what one accepts and writes the other takes as it is.  Only a first
\* file that was taken away comes back; and what is saved between the spawning of the
\* server and its lock is passed over (trivia.cpp:20).
StartsAsSaved ==
    [][ StartServer /\ spawned.current /\ dat # None =>
            info' = [dat EXCEPT !.szExtraFiles[0] = IF @ = "" THEN Core ELSE @] ]_vars
=============================================================================
