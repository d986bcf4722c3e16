# Tournament Trivia: TLA+ models and proofs

Tournament Trivia is a multi-player quiz for bulletin board systems. Each
caller's door process talks through message queues to one server process per
game directory. The server runs a main thread, a round ticker and short-lived
threads that take over a player's keyboard, all around one mutex. It keeps
scores in `player.dat` and settings in `settings.dat`.

The models follow the parts of the program:

| module | what it models | proofs |
|---|---|---|
| `Lobby` | what the door promises the nodes, as an abstract specification | |
| `GameServer` | threads, critical section, input slot, node table, clients; implements `Lobby` | `GameServerProofs` |
| `ServerStart` | servers spawned, locked out, killed and replaced, clients that look for them; implements `Lobby` | `ServerStartProofs` |
| `DoorClient` | one client in the game: keys, prompts, pauses, timers, exit | `DoorClientProofs` |
| `TriviaRound` | question timer, clues, answers, skip votes, sysop settings | `TriviaRoundProofs` |
| `Records` | `player.dat`, `settings.dat`, maintenance, crashes, trivconfig | `RecordsProofs` |
| `Configuration` | settings from menu and trivconfig to the question index; uses `RegKey` | `ConfigurationProofs` |
| `RegKey` | the registration key, byte by byte | `ConfigurationProofs` |
| `Display` | what players see, composed of `Clue`, `Ranking`, `Commands` and `Screen`; `Text` compares texts | `DisplayProofs` |
| `Recursion` | no part of the program: induction, folds and sums for the proofs | in the module |

Each `MC` module instantiates one of them for TLC with the `.cfg` files of the
same name. `PROJECT.json` lists components, runs, mutants, the source lines
behind every definition, findings, hazards and theorems. Paths below are
relative to `source/`.

## 1. Inventory

| component | state | operations | what makes it correct |
|---|---|---|---|
| Main loop and routing, `intrnode/gamesrv.cpp` | `gNode[]`, `nPlayersInGame`, `bInGame`, `bHasThread`, the input slot | `run`, `handleInput`: enter, finish, route | the count is the number of nodes; it stops only when all have left; a finished node has no thread |
| Node threads, `gamesrv.cpp`, `trivia/threads.cpp` | `mqInput`, program counters, `csCritical` | `launch`, `handleThread`, `getStr`, `getKey`; login, exit prompt, sysop menu | one thread per node, no thread outlives its node, lock discipline across `sleep` and exceptions |
| Round ticker, `gamesrv.cpp` | the ticker threads | `startRoundThread` | exactly one while somebody plays |
| Messages and slots, `intrnode/intrnode.cpp`, `mqueue_compat.h` | bounded queues, the lock file | `sendToSlot`, `createSlot`, `MessageQueue` | a dropped or misdirected message does not break the server; a name leads to a live queue; a message arrives as it was sent |
| Starting and stopping, `door.cpp`, `intrnode.cpp`, `gamesrv.cpp` | lock file, names of slots, handles | spawn, lock, create, open, retry, unlink | one server at a time, reachable by its name; a client is heard or ends |
| Door client, `intrnode/door.cpp` | current prompt, key, screen, timers, unanswered messages | `performIO`, `getInput`, `getOutput`, `sendInput`, `beforeExit` | one answer per question, no output over the user's typing, a goodbye, nobody timed out who typed |
| Round, `trivia/trivia.cpp`, `commands.cpp` | `nStartTime`, `nClueNumber`, `nSkipRequests`, `bWantedSkip`, scores | `centralInput`, `doorRound`, `nextQuestion`, `requestSkip` | votes are exact, questions are won once and end, clues follow the clock |
| Sysop settings, `threads.cpp`, `trivia.cpp` | `GameSettings::info` | the sysop menu, load, save, validation | changes take effect on a running question without upsetting it |
| Player file, `trivia/player.cpp` | `player.dat`, a record number per player | constructor, destructor, `save` | scores are kept, one record per name |
| Ranking, `player.cpp` | `rankedRecords`, `lastCalled` | `getRankedRecords` | order, no sysop unless listed, a kept list is current |
| Maintenance, `trivia.cpp` | `nCurMonth`, previous winner | `checkMaint`, `maint` | once a month, resets every score |
| Configuration program, `trivconfig.cpp` | a copy of `settings.dat` | edit, save | does not undo what the server wrote |
| Question database, `trivia.cpp` | `tqDatabase`, `nDatabaseSize` | `initDatabase`, `indexQuestions` | index within its bounds |
| Clue text, `trivia.cpp` | `szClue` | `nextClue`, `checkForAnswer` | reveals letters of the answer only, and never most of it |
| Registration, `reginfo.cpp`, `keygen/regtriv.cpp` | the key file | encode, decode, check | what one side encodes the other accepts |
| Chat commands, `commands.cpp` | none of their own | tell, players, scores, help | name matching of tell; every line is answered |
| Help and word wrap, `door.cpp`, `gamesrv.cpp` | a file, a page | `displayHelp`, `printWordWrap` | the entry asked for, a page at a time; no text lost |
| Platform layers, `platxsdk.cpp`, `platod.cpp`, `platlocl.cpp` | terminal, time left, carrier | keys, checks, exit | the checks end the client through its exit function |
| Vendored BBS kits | terminal | input and output | outside this project |

Interaction. Clients send `InputData` to the server's input slot; the main
thread handles each under `csCritical` and either changes the node table,
queues the input for the node's thread, or hands it to `centralInput`. Node
threads and the ticker take the same mutex for a turn and give it up while
they sleep. Output goes to one slot per client. The files are read when a
server or a player starts and written once a minute, when a player leaves and
when the server stops; trivconfig reads and writes `settings.dat` beside it.

Hard behaviours: the hand-over of a node's input between main thread and node
threads; flags and counts read outside the lock; lines, hang-ups and good-byes
that overtake each other's effects; a slot that fills up; clients that die; one
start time and one clue number moved by ticker, answers, skips and sysop; votes
of players who come and go; files cut by `save`; crashes between maintenance
and the write that records it; a server spawned while another stops; keys that
cross the prompt they were typed under. Each is listed with its line under
`hazards`, those no property covers with the reason.

## 2. GameServer

**State.** `lock` is the owner of `csCritical`; `mainPc` and `curMsg` are the
main thread; `gNode`, `bInGame`, `bHasThread` are sets of nodes; `thread` and
`ticker` give the pc of each thread, taken from pools of identities because the
code detaches them; `inputSlot`, `mqInput`, `outQ` are the queues; `linked`
says whether the server's output handle leads to the queue the client reads
(on Linux a client that restarts makes a new one).

**Grain.** What runs between `enterCritical` and `leaveCritical` is one step
of the thread that took the lock in an earlier step (`MainEnter`,
`ThreadEnter`, `TickerEnter`). `getStr` and `getKey` leave in the middle, so a
thread is split at every wait: `ThreadRun` to the first prompt, `ThreadPoll`
without the lock, `ThreadResume` and `ThreadReact` from one prompt to the next,
`EndThread` for both ends of `handleThread`. `TickerCheck` and the tests in
`MainCheck` read `nPlayersInGame` without the lock, as the code does. The wait
of `IP_FINISHED` is the loop `HandleFinishedWait`, `MainEnter`.
`ThreadDangling` is the thread that runs on a deleted node, undefined behaviour:
the process dies, or the freed memory still looks like a node and the thread
waits, finds input or ends without touching a live node. The third outcome, that
the next `Player` gets the same memory and the old thread then acts on the new
node, is in `launchLogin`. A write through the stale pointer into memory that
now belongs to something else is not modelled.

**Messages.** A send to a full slot may be dropped after its two seconds
(`sendInput`). A line is one of the few that the threads tell apart. Client
actions are `ClientEnter`, `ClientType`, `ClientRead`, `ClientLeave`,
`ClientFinish` and `ClientCrash`.

**Runs.**

| run | question | bounds |
|---|---|---|
| `server_two_nodes` | lock discipline, one ticker, no flag without a thread, the count; the server implements `Lobby` | two nodes of sysops under one name, so both are told to leave; four kinds of lines, two lines each; three threads, two tickers; slot of 2, so that messages are lost and strangers' messages arrive |
| `server_live` | a hang-up ends the thread that has the node; rounds go on | one sysop node whose client may crash and start again, two lines, fair threads |
| `server_dangling` | violates `NoThreadOutlivesNode` | a line and the client's goodbye before the first thread has its flag |

The bounds are enough for what the properties tell apart: a race needs two
threads of one node and a third to inherit their input; a second session, in
`server_live`, leaves a stale output slot behind (that the invariants hold with
any number of sessions is proved); a second ticker exists only while the first
is on its way out. Deadlock is not an error in this model: when all clients have
used up their sessions the server has stopped, or waits for input that nobody
can send any more. More lines on `server_live`'s node would need more threads
than the two it has.

**Fairness** (`Fairness`). Weak fairness for the steps of the server's threads,
which the operating system schedules; strong fairness for taking the lock,
because the others sleep 100 ms to 1 s between their turns, so a thread that
keeps asking gets it. Nothing is assumed of clients. `HangUpEndsThread` and
`RoundsGoOn` need no more.

**Found.** `launch` tests `bHasThread`, and the new thread sets it only after
it has the lock. In between a second line can launch a second thread, the
goodbye can delete the node (`server_dangling`), and a hang-up can be routed to
`centralInput`, which ignores it. Once the flag is set the design works: that is
what `FlagBacked` and `HangUpEndsThread` say.

**Refinement.** `Lobby` says what the nodes may rely on: a host is open, nodes
come and go, it begins to close only when nobody is left, and it seats nobody
from then on. `TheLobby` maps the live process to the host, `mainPc` to the
phase and `gNode` to the seats; every other step is a stutter.

## 3. TriviaRound

**State.** `place[n]` is where a player is: `login`, in the game, in the sysop
`menu`, or `left` (he confirmed the exit and his client has not gone yet).
`elapsed` stands for `time(NULL) - nStartTime`, the only form in which the code
compares the two, and `started` for `nStartTime # 0`. `loaded` stands for
`nDatabaseSize # 0`. `asked`, `cluesGiven`, `missed` and `steady` are history for
the properties; no action depends on them.

**Actions.** One per stretch of code under the lock: `Enter`, `LoggedIn`,
`Leave`, the menu, `CorrectAnswer`, the three outcomes of `requestSkip`
(`SkipAlone`, `SkipVote`, `SkipDecided`), `DoorRound` for a turn of the ticker.
`nextQuestion` is called from where the code calls it, with its early return
for an empty database. When the last player leaves, the server stops and the
next one starts afresh (`Leave`). The text of questions, answers and clues is
left out: a typed line is a correct answer, a skip, or has no effect.

**Time.** `ClockStep` passes some seconds; `MaxGap` is the longest the ticker
is kept from its turn. It is a bound and no promise of the code: whoever holds
the lock waits up to two seconds for each message to a full slot
(`intrnode/intrnode.cpp:136-146`), so a client that does not read its output can
hold the ticker up for longer than a clue period, and the turn that follows
advances the clue by one only. `missed` counts the periods of the question that
went by that way. `ClueSchedule` says that the clue number is never ahead of the
clock, and behind it by no more than `missed`. In `round_play` the periods are 2
seconds and the gap up to 5, so that two of them may be missed in a row.

**Runs.**

| run | question | bounds |
|---|---|---|
| `round_play` | exact votes, a question for everybody, clues by the clock, won once | three players, periods of 2 s, time limit 6 s, steps of 1 and 2 s, 5 s between two turns of the ticker, one answer each |
| `round_sysop` | no question beyond its time; every question ends | a sysop and a player, two frequencies, two clue limits, question files emptied and restored |

Three players are the fewest for a vote that is neither alone nor decisive.
Only `QuestionEnds` needs fairness: time passes and the ticker has its turns
(`FairSpec`). It is stated for servers that have questions; one whose database
was emptied keeps the last question. That question may then be answered again
and again, which `WonOnce` names as its exception.

## 4. Records

**State.** `playerDat` is the sequence of records or `None`; `settingsDat` the
month and the option to list sysops, `None` also for a file of the wrong size,
which the loader ignores; `info` is the server's copy while it runs, `spawned`
what a server has loaded that has not asked for the lock yet; `player[n]`
holds the score and the record number the constructor found; `tool` is
trivconfig's copy. `earned`, `due`, `looksNew`, `maintained`, `toolOld` and the
field `old` of `spawned` are history; `earned` begins at nothing with each month
(`NextMonth`) and each maintenance.

**Actions.** `GameSettings::info` is a static object, so a server reads the
settings before `main` (`Spawn`) and asks for the lock after that: it goes away
(`GoAway`) or runs, with maintenance if the month it read is not the current
one (`Start`, `StartMaint`). `EnterKnown` and `EnterNew` are the two ends of
`Player::Player` (a new record is appended only if there is a file to open);
`savePlayers`, once a minute, and `Leave` save; `Stop` writes the settings.
`save` does what opening with `out|binary|ate` does: it cuts the file, then
writes one record at its place, and what was before it reads as zeros. `Crash`
may come at any time, and in the middle of a save leaves an empty file.
`ToolStart`, `ToolEdit`, `ToolSave` and `ToolExit` are trivconfig.

**Runs.**

| run | question | bounds |
|---|---|---|
| `records_month` | whose points are on file, one record each, how often maintenance runs | a player and a sysop, each of whom may be on both of two nodes; two months, one of which may begin while a server runs; one point each; two records before the file stops growing |
| `records_lost` | violates `ScoresKept`, the promise of `release/readme.txt:35`: the scores of a player are gone when the next one leaves | two players on one node |

Two names on two nodes are enough for shared and stale record numbers, a file
cut under another player, repeated and lost maintenance, and an old copy
written back.

`ScoresAreEarned` is the promise of `release/readme.txt:35`, that scores are
reset at the end of the month, as far as the code keeps it: on a server whose
`info` has the current month nobody has points he did not win in it. It says
nothing of a server that is up over the month's end, because `checkMaint` is
asked at the start only and the old scores are played on with until it stops;
nor where the month looks new (`looksNew`): `settings.dat` missing or cut passes
for a file of the current month (of January in trivconfig), and a file of the
same month a year before for one of this. Players who are sysops are left out:
if they are not listed they are not ranked, and with nobody ranked maintenance
does not delete the file.

The month in `settings.dat` is written only at an orderly stop.
`MaintRepeatedOnlyIfLost` says precisely when maintenance runs twice in a
month: a crash before the write, a crash during it, a trivconfig that puts back
an older copy, or a server that read the file while the one before it had still
to write.

## 5. ServerStart

**State.** Per server `srv` (from `start` over `locked`, `up`, `last`, `saving`
to `gone`), its queue `inQ` and its nodes; `lockOwner` of the lock file;
`inputName`, the queue that the input slot's name leads to, and `outputName`,
the same for each node; per client where it is, the `tries` it has made and
`hInputSlot`, the queue it writes to. A queue is named after its creator,
because it lives as long as somebody has it open, whatever its name leads to
meanwhile. `turnedAway` and `silent` are history: per node, how often an entry
found it occupied, and how many clients that were in the game ended without a
goodbye. `kills` counts killed processes up to the bound `MaxKills`.

**Actions.** The server's are one for each system call the others can see:
`Lock`, `UnlinkStale`, `CreateInput`, `Receive`, `UnlinkInput`, `Exit`; the
client's are the steps of its `main`: `SpawnServer`, `OpenInput`,
`CreateOutput`, `Retry`, `Enter`, then `BeforeExit` and `CloseSlots`, or
`LockedUpExit`. The exit function first sends an order to its node's thread. If
that is the fifth message without an answer, `sendInput` ends the process there
(`intrnode/door.cpp:225-233`): `IP_FINISHED` is not sent and the slot's name
stays, although nobody was killed. If `IP_FINISHED` itself is the fifth, it is
sent and the name stays (the second outcome of `CloseSlots`). `KillServer` and
`KillClient` come anywhere. `mq_open` gives the queue of an ended process or
fails: POSIX queues outlive their reader, the sockets of `mqueue_compat.h` do
not. `Retry` keeps the order of door.cpp:112-126, where the sixth failure ends
the client even if that attempt has opened the slot. A server spawned while the
old one still holds the lock goes away, and nobody spawns another for that
client: it ends after its retries.

**Run.** `door_start`: three clients, one after the other on one node, two
servers, one attempt to spawn and one retry, one process killed, and any client
may end itself in the middle of its goodbye. Two clients after one that ended
without a goodbye are needed to see that the first is turned away and the
second is not; two servers meet at the lock and at the name. The code's five
retries only repeat what one does. A run ends when every client has ended, so
deadlock is not an error.

**Fairness.** Each server process and each client process goes on (`ServerStep`,
`ClientStep`). `Told` says that a client in the game leaves when it has an exit
order or when nobody writes to it, with a goodbye or without; the second because
of the inactivity limit and the count of unanswered messages, which `DoorClient`
models. No process has to be started, and none has to be killed. `HeardOrEnds`
follows from that.

**Refinement.** The servers together implement the same `Lobby` as the threads
of one: the host is the owner of the lock, which is open until its last player
has gone, and the seats are its nodes.

## 6. DoorClient

**State.** `pc` is the place in `performIO`, `getInput`, a pause or the exit;
`outputSlot` what the server has sent; `odPromptInfo` and `bPromptOnScreen` the
prompt; `screen` what the screen ends with; `key`, `nPosition`, `bFound` and
`szOldString` the typing; `nPending` the unanswered messages; `now` and the four
times both inactivity checks compare it with. `answers`, `lastKey` and `goodbye`
are history. `kit` is the terminal kit the program is built for: with XSDK the
client looks at carrier, time left and inactivity itself; OpenDoors ends the
process, through the exit function, wherever it happens to be.

**Actions.** One for each turn of the loops between two looks at the keyboard
or the slot, `sendInput` and `handleOutput` being part of the steps that call
them, and the exit one step for each message it sends, because `sendInput`
may end the client while it exits.

**Run.** `door_client`: both kits, lines of two keys, two messages in the slot,
a clock of three units with the warning after one and the time-out after two,
five unanswered messages as in the code. The properties relate a key to the
prompt before it and to the one after it, so two of everything is enough; a
third unit of time is needed for a timer that was renewed once. A client that
has ended does nothing more, so deadlock is not an error.

`OnlyTheIdleTimeOut` has an exception that the code has: a key that ends a
pause renews the timer of the pause and not that of the prompt which is waiting
behind it. `GoodbyeIsSaid` has one too: if the goodbye itself is the message
that shows the server to be stuck, `sendInput` leaves `beforeExit` half done.

## 7. Configuration and RegKey

**State.** `dat` is `settings.dat`, `ttreg` the key file; `info`, `szRegdTo`,
`szDB` and `index` belong to the running server; `spawned` is a server that has
loaded the settings and has not asked for the lock; `sysop` says whether the
server's menu is open, `config` trivconfig's screen with its copy. `indexed` is
history.

**Actions.** Loading with its validation, the sysop menu with its questions; a
new question file and `initDatabase` are one action (`MenuFile`), because the
server prints its note on the limit of an unregistered copy without waiting for
a key and counts the questions in the same turn under the lock
(`trivia/threads.cpp:251-275`); the save when the server stops, trivconfig's
menu and its question on leaving, a key that is installed while the server runs,
as regtriv wrote it or with a byte of its header changed. The index is filled in
the order of the slots, each within the limits that are checked file by file.
`RegKey` gives the bytes of a key file and what `RegInfo::load` reads from them.
What fills the key is any one to five bytes after each letter; a name has at
most the 79 characters regtriv reads, and its key fits into regtriv's 500 bytes
(`ConfigurationAssumption`).

`IndexIsCurrent` follows from that turn: at any time the index is that of the
files the settings name, as they were when it was made, and a slot that
`initDatabase` skips has no name.

**Run.** `configuration`: three file slots, four names (no file, the core file,
a custom one, one that is missing), counts of questions below and above what an
unregistered copy may ask, a frequency and a number of clues that are allowed
(the number is the largest there is) and one of each that is not, one name for
a key, one change of its header, three changes by a sysop. The two limits are 7
and 1 instead of 395 and 155, and the files are small with them. The server may
be off for good, so deadlock is not an error.

## 8. Display

`Clue`, `Ranking`, `Commands` and `Screen` are four parts that compute rather
than communicate; they share no state, and `Display` lets a behaviour move one
of them. Their characters are members of a small set with a few letters of both
cases, digits, a blank and the signs that the code looks for.

- `Clue`: `nextClue` picks hidden letters at random, a wrong answer reveals what
  it begins with (`checkForAnswer`). `ClueAgrees`, `CluesLeaveTwoFifths`.
- `Ranking`: who is ranked, in which order, and for how long the list is kept;
  the cache compares start times in a type that wraps. A player is in the game,
  in the sysop menu, or past the exit prompt until he is gone; only in the game
  has he `bInGame`, and is ranked by his present points instead of his record.
  `ListsTheBest`: the list is right when it is made, and until the next question
  it is short of no points of a player in the game, except one who was in his
  menu with more than his record when it was made (`rankedLow`). The constructor
  of a player and the thread that logs him in are one action, because his points
  are those of his record until then.
- `Commands`: which command a line is, who hears what of it, the matching of
  names after TELL. `TellIsRight` is in three parts: a message reaches the one
  who is named, the longest name wins, and a line is never passed over in
  silence. Which of two equally good names wins is left open.
- `Screen`: `displayHelp` with its second pass and its pages, `printWordWrap`,
  and a message as one text and back. `HelpIsGiven`, `TextSurvives`.

**Run.** `shown` takes every small input: answers of one to fourteen characters
and six tries at them, names and parameters of up to five characters for
three nodes, help files of up to four lines from nine, texts of up to nine
characters on a screen of four, a page of one line, lists of two places for
three players of whom two have records at a time, the players who are no sysops
being interchangeable. Each length crosses the limit it is about, except that of
the list: that a player beyond a full list has no more points than those on it is
left to the theorem.

**Found.** `trivia/trivia.cpp:619-621` says that the start time tells a new
question from an old one, for the ranking's cache. It does not if the question is
answered in the second it was asked, or after a multiple of 65536 seconds: the
score has gone up, the start time as the cache sees it is the same, and the list
that is shown is the old one. The run `stale_list` violates
`NewTimeForNewScore` with the first of these.

## 9. Proofs

The proofs hold for every value of the constants, under the assumptions the
modules name; TLC evaluates those assumptions in the runs. Each goes through an
inductive invariant, with one step for each action.

- `GameServerProofs`. `IInv` is `TypeOK` with the properties that are proved and
  two that they need: the main thread has a message while it handles one
  (`MessageHeld`), and without players there is a ticker only while the main
  thread is about to stop (`NoTickerWithoutPlayers`). From it follow
  `LockDiscipline`, `PlayersCounted`, `OneTicker`, `FlagBacked` and
  `StopsOnlyWhenEmpty`. `ServerImplementsLobby` adds that a process that died
  has no nodes, and shows for every step the action of `Lobby` it is, or that it
  is a stutter.
- `ServerStartProofs`. `IInv`: the lock names the one server between `locked`
  and `gone` (`LockNamesServer`), its slot's name leads to it
  (`UpIsReachable`), and nobody else has nodes (`OnlyUpHasNodes`).
  `OneServerAtATime`, `SlotReachable` and `ServersImplementLobby` follow.
  `GoodbyeInv` adds the messages on their way: one client of a node lives at a
  time and owns its output queue (`LifeInv`); nobody has entered twice, and the
  last message of the node of a client in the game is its entry (`QueueInv`);
  the node is taken when all messages have been read (`InHasSeat`), by that client
  if nobody ended without a goodbye (`ReaderIsIt`). With these, every client that
  is turned away, or will be when its entry is read, is covered by one that ended
  without a goodbye (`SilentCover`): `GhostTurnedAwayOnce` and `AnsweredHeard`
  follow.
- `TriviaRoundProofs`. `VoteExact` is inductive only together with what
  `QuestionAsked` and `SteadyLoaded` say of a question and of the history.
  `CluesByTheClock` is proved for a server without sysops, as the run checks
  it, and for any `MaxGap`: by `ClockInv` the clock is ahead of the clue number by
  less than a period, the periods missed so far, and what has passed since the
  ticker's last turn; `ClueOnTime` is the same between two turns.
- `RecordsProofs`. `PointsEarned` says of every state that nobody has points he
  did not win this month, but for those it spares: sysops, and everybody while
  maintenance is due (`Spared`). By `MonthKnown` maintenance is not due on a
  server of the month unless the month looks new; `ScoresAreEarned` follows from
  the two. `Unique`, which says of pairs of records what `OneRecordEach` says of
  their number, is inductive with `TypeOK`. A crash, a cut file and a second
  record number need no special case. `MaintInv`: maintenance that was done and
  not yet written is held by the running server (`DoneHeld`), once written it is
  in the file (`WrittenKnown`), and every copy of the settings read before it is
  known to be old.
- `DoorClientProofs`. `AskInv`: a prompt that was answered is no longer valid
  (`NotYetAnswered`), and a key is kept only under a valid one
  (`KeyHasPrompt`). `GoodbyeInv`: too many unanswered messages have been
  noticed (`LockIsNoticed`), an exit has a cause (`ExitHasCause`), and within it
  only goodbyes are sent (`GoodbyeOnly`). `ScreenInv`: a line that is
  typed stands behind its prompt (`TypingHasPrompt`), and where output may be
  printed the flag says whether the screen ends with the prompt
  (`PromptKnown`). `IdleInv`: no timer began before the last key, but for the
  key of a pause (`TimersHold`).
- `Recursion` holds no model: it has the induction that the other proofs need,
  stated with sets, because the library states it with operators that no prover
  here can instantiate. A set of naturals that has 0 and every successor has
  them all (`Induct`); a function defined by recursion along a rank exists
  (`RecursiveFunction`); `FoldLeft` is the last of a sequence of intermediate
  results (`FoldExists`, `FoldSteps`); a sum over a finite set may take any
  element off (`SumOff`).
- `ConfigurationProofs`. `SettingsInv`: every copy of the settings, in the file,
  in a server and in trivconfig, is in range and agrees in itself, and a server
  that was spawned has what the file says unless it was written since.
  `DatabaseInv`: the index is one that `initDatabase` makes (`Totals`), each
  slot at most what was counted for it, so the sum is at most the room.
  `IndexOfFiles`: it was made for the files that `info` names. `NothingOverflows`,
  `MenuShowsIndex` and `SavedIsStarted` follow.
  The key: every byte is decoded to what was encoded (`DecodeEncode`). regtriv
  puts each letter behind what is there (`Grows`) and changes nothing of it
  (`FileHas`), so every letter with its fillers stands in the finished file where
  it was written (`Stands`). Reading goes back by induction from the last letter
  (`ReadsBack`), for any file that is the written one from the eighth byte on;
  the header then decides (`GivenReads`). `KeyReadsBack` and, as no two bytes are
  decoded to one, `DamagedKeyRefused` follow, and with them `KeysRegister`.
- `DisplayProofs`. `ClueInv`: the clue is the answer with letters and digits
  hidden (`ClueOf`); how many a clue may reveal is then arithmetic. `RankInv`:
  nobody in the game has more points than a list of the question gives him,
  unless he was ranked low (`ListKept`); nobody has two records or is named twice
  (`NamesOnce`), and nobody is in two of game, menu and exit (`WhereInv`); that
  the sort puts the best first is by induction over the places. TELL's search is
  followed name by name: the best so far is the best of those looked at
  (`BestFor`). Messages and wrapped text are followed character by character:
  the text read so far is the one sent (`Strings`), and the lines so far joined
  with blanks are the text up to the break (`Joints`, `Broken`).
  Help goes line by line (`Passed`): what one line keeps, both passes keep
  (`BothKeep`), which gives the pages (`Paged`) and that nothing is shown before
  an entry is found (`Quiet`); what is shown is the entry as far as it was read
  (`Known`), and with both passes over an entry is found if some line begins
  one (`FoundIs`). `HelpGiven` follows.

Only model-checked is liveness (`HangUpEndsThread`, `RoundsGoOn`,
`QuestionEnds`, `HeardOrEnds`), which the prover does not reach. The three
properties that are violated, `NoThreadOutlivesNode`, `ScoresKept` and
`NewTimeForNewScore`, are in sections 2, 4 and 8.

Every property has a mutant: the definition it depends on with a bug that would
be easy to make there, under which TLC finds the property violated. They stand
before the definitions they change, as `Mutant of ...`.

## 10. Not modelled

- The vendored kits, and the terminal layout and colours drawn with them.
  `DoorClient` has what the platform layers report. OpenDoors checks the time
  and the carrier in a thread of its own; it is taken to stop the process where
  it is, and what the exit function does while the main thread is still moving
  is not modelled.
- What the lines of question files say: a file is a number of questions, and a
  clue begins with the answer that `getStrings` gives. So a file that changes
  under the positions of its index is a hazard without a property.
- Settings nothing here depends on: the time-out of players, the text of the
  previous winner (whose longer name shows through a shorter one, a hazard
  without a property).
- That a skip vote also moves the clue number on (`trivia/trivia.cpp:676`) is in
  `TriviaRound` and not in `Clue`, where the number only bounds how many letters a
  clue may reveal.
- Failures of system calls other than opening a queue or spawning a server, a
  clock that is set back, a score beyond a `short`.
- A line that stays in `mqInput` when a thread ends answers the next thread's
  prompts. The model does the same; the repository promises nothing else.
- The reading of drop files and the start-up of the platform layers; the local
  console.

## 11. What is left

1. An abstract quiz (a question is asked, won or passed, points are given) that
   `TriviaRound` implements with its timer and votes.
2. The lines of question files, with the index as positions in them.
