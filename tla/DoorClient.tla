------------------------------ MODULE DoorClient ------------------------------
(***************************************************************************)
(* One door process once it is in the game: the loop of performIO and      *)
(* getInput, which lets the user type under a prompt and prints what the   *)
(* server sends while nothing is typed; the two inactivity timers; and     *)
(* exitDoor, which runs beforeExit wherever the client happens to be.      *)
(*                                                                         *)
(* A line is one of the few kinds performIO tells apart, a key one of the  *)
(* kinds getInput tells apart, and time counts in units of the inactivity  *)
(* check.  The client is built for one of two kits: with XSDK it looks at  *)
(* carrier, time left and inactivity itself, OpenDoors does all that and   *)
(* ends the process where it happens to be.                                *)
(***************************************************************************)
EXTENDS Naturals, Sequences

CONSTANTS
    Kits,          \* "xsdk" and "opendoors", or one of them
    nMaxLength,    \* longest line getInput takes (189)
    LockedUp,      \* unanswered messages that mean the server is stuck (5)
    sec_warn, sec_timeout,
    MaxOut,        \* bound: messages waiting in the output slot
    MaxNow         \* bound: the clock

ASSUME DoorClientAssumption ==
    /\ Kits \subseteq {"xsdk", "opendoors"}
    /\ nMaxLength \in Nat \ {0}
    /\ LockedUp \in Nat /\ LockedUp > 1
    /\ {sec_warn, sec_timeout, MaxNow} \subseteq Nat

VARIABLES
    kit,           \* the kit it is built for
    pc,            \* where the process is
    outputSlot,    \* what the server has sent
    odPromptInfo,  \* the current prompt
    bPromptOnScreen,
    screen,        \* what the screen ends with
    nPosition,     \* keys of the line typed so far
    key,           \* chKeyPressed, kept while the output is printed
    bFound,        \* bMessagesFound
    szOldString,   \* the line "!" repeats
    nPending,      \* messages sent since the server last said something
    bLockWarned,   \* bAlreadyWarned of sendInput
    now,
    timeout,       \* start of getInput's inactivity
    pauseStart,    \* start of the inactivity of a pause
    ttPrevious, bAlreadyWarned,  \* of inactiveCheck
    answers,       \* lines sent under the current prompt, unless it is the blank one
    lastKey,       \* when a key was last taken, and whether a pause took it
    goodbye        \* what beforeExit has done, and nPending when it began

ioVars == <<outputSlot, odPromptInfo, bPromptOnScreen, screen, answers>>
inputVars == <<nPosition, key, bFound, szOldString>>
pendingVars == <<nPending, bLockWarned>>
timeVars == <<now, timeout, pauseStart, ttPrevious, bAlreadyWarned, lastKey>>
vars == <<kit, pc, ioVars, inputVars, pendingVars, timeVars, goodbye>>

\* OP_: text stands for every message that only prints; "stat" is the blank
\* command prompt.
Prompts == {"hotkey", "line", "stat"}
Outputs == Prompts \cup {"text", "pause", "help", "exit"}

\* Keys: a character, return, backspace, one that getInput ignores.
Keys == {"char", "enter", "bs", "bad"}

\* Lines: the empty one and text go to the server; "!", "=x" and, with XSDK, "#" are for the client.
Lines == {"empty", "text", "!", "#", "=x"}

Causes == {"carrier", "order", "user", "lockup", "inactive"}

IOType ==
    /\ outputSlot \in Seq(Outputs)
    /\ odPromptInfo \in [type: Prompts \cup {"none"}, answered: BOOLEAN]
    /\ bPromptOnScreen \in BOOLEAN
    /\ screen \in {"prompt", "typed", "warning", "other"}
    /\ answers \in Nat

InputType ==
    /\ nPosition \in 0 .. nMaxLength
    /\ key \in Keys \cup {"none"}
    /\ bFound \in BOOLEAN
    /\ szOldString \in Lines \ {"!"}

PendingType == nPending \in Nat /\ bLockWarned \in BOOLEAN

TimeType ==
    /\ now \in Nat /\ timeout \in Nat /\ pauseStart \in Nat /\ ttPrevious \in Nat
    /\ bAlreadyWarned \in BOOLEAN
    /\ lastKey \in [at: Nat, paused: BOOLEAN]

EndType ==
    /\ pc \in {"idle", "drain", "typing", "pause", "exit", "force", "finished", "gone"}
    /\ goodbye \in [cause: Causes \cup {"none"}, pending: Nat,
                    finished: BOOLEAN, closed: BOOLEAN]

TypeOK == kit \in Kits /\ IOType /\ InputType /\ PendingType /\ TimeType /\ EndType

Init ==
    /\ kit \in Kits
    /\ pc = "idle"
    /\ outputSlot = <<>>
    /\ odPromptInfo = [type |-> "none", answered |-> FALSE]
    /\ bPromptOnScreen = FALSE
    /\ screen = "other"
    /\ nPosition = 0
    /\ key = "none"
    /\ bFound = FALSE
    /\ szOldString = "empty"
    /\ nPending = 1              \* IP_ENTER_GAME
    /\ bLockWarned = FALSE
    /\ now = 1 /\ timeout = 1 /\ pauseStart = 1
    /\ ttPrevious = 0
    /\ bAlreadyWarned = FALSE
    /\ answers = 0
    /\ lastKey = [at |-> 1, paused |-> FALSE]
    /\ goodbye = [cause |-> "none", pending |-> 0, finished |-> FALSE, closed |-> FALSE]

-----------------------------------------------------------------------------
(* Prompts, exits and the inactivity check                                 *)

isValidPrompt == odPromptInfo.type # "none" /\ ~odPromptInfo.answered

\* A prompt is on the screen from here on, if there is one to show.
fixStatline ==
    /\ bPromptOnScreen' = isValidPrompt
    /\ screen' = IF isValidPrompt THEN "prompt" ELSE "other"

\* exitDoor, from wherever it is called: the exit function runs.
exitDoor(cause) ==
    /\ pc' = "exit"
    /\ goodbye' = [goodbye EXCEPT !.cause = cause, !.pending = nPending']

Stay == UNCHANGED goodbye

\* inactiveCheck(start, nFixLine): the warning, which is not repeated for the
\* same start, then the end.  Without fixing the line the warning stays under
\* the prompt.
warnNow(start) ==
    now - start >= sec_warn /\ ~(bAlreadyWarned /\ start = ttPrevious)

TimedOut(start) == kit = "xsdk" /\ now - start >= sec_timeout

inactiveCheckXSDK(start, nFixLine) ==
    /\ bAlreadyWarned' = ((bAlreadyWarned /\ start = ttPrevious) \/ warnNow(start))
    /\ ttPrevious' = IF TimedOut(start) THEN ttPrevious ELSE start
    /\ screen' = IF warnNow(start) /\ ~nFixLine THEN "warning" ELSE screen

\* That of OpenDoors is empty.
inactiveCheck(start, nFixLine) ==
    /\ IF kit = "xsdk" THEN inactiveCheckXSDK(start, nFixLine)
                       ELSE UNCHANGED <<bAlreadyWarned, ttPrevious, screen>>
    /\ UNCHANGED <<now, timeout, pauseStart, lastKey>>

\* sendInput, and what follows if it returns.  The fifth message without an
\* answer ends the process: through beforeExit, or, if that is what sends it, at once.
sendInput(next) ==
    /\ nPending' = nPending + 1
    /\ bLockWarned' = (bLockWarned \/ nPending' >= LockedUp)
    /\ IF nPending' >= LockedUp /\ ~bLockWarned
       THEN IF goodbye.cause = "none" THEN exitDoor("lockup") ELSE pc' = "gone" /\ Stay
       ELSE next

-----------------------------------------------------------------------------
(* performIO: what becomes of a line                                       *)

\* Mutant of invalidatePrompt: the prompt stays as it was.
invalidatePromptNot == UNCHANGED odPromptInfo

invalidatePrompt ==
    odPromptInfo' = [odPromptInfo EXCEPT !.answered = odPromptInfo.type # "stat"]

\* The line is complete; getInput is called again after it, with a new timeout.  "#"
\* is for the client where XSDK can list the users of the BBS.
performIO(line) ==
    LET s == IF line = "!" THEN szOldString ELSE line
        whoIsOnline == kit = "xsdk" /\ s = "#"
    IN  /\ szOldString' = s
        /\ nPosition' = 0
        /\ key' = "none"
        /\ \/ /\ whoIsOnline
              /\ fixStatline
              /\ pc' = "idle" /\ Stay
              /\ UNCHANGED <<odPromptInfo, answers, pendingVars>>
           \/ /\ s = "=x"
              /\ bPromptOnScreen' = FALSE /\ screen' = "other"
              /\ UNCHANGED <<odPromptInfo, answers, pendingVars>>
              /\ exitDoor("user")
           \/ /\ ~whoIsOnline /\ s # "=x"
              /\ bPromptOnScreen' = FALSE /\ screen' = "other"
              /\ sendInput(pc' = "idle" /\ Stay)
              /\ invalidatePrompt
              /\ answers' = IF odPromptInfo.type = "stat" THEN 0 ELSE answers + 1

\* The lines that end with this key: one character in hotkey mode, else return.
LinesEndedBy(k) ==
    IF k = "enter" THEN IF nPosition = 0 THEN {"empty"}
                        ELSE IF nPosition = 1 THEN {"text", "!", "#"} ELSE {"text", "=x", "#"}
    ELSE IF k = "char" /\ odPromptInfo.type = "hotkey" /\ nPosition < nMaxLength
         THEN {"text", "!", "#"} ELSE {}

\* A key that does not end the line.  The prompt is shown before the first key,
\* whatever the key is.
editLine(k) ==
    /\ nPosition' = IF k = "char" /\ nPosition < nMaxLength THEN nPosition + 1
                    ELSE IF k = "bs" /\ nPosition > 0 THEN nPosition - 1 ELSE nPosition
    /\ bPromptOnScreen' = (bPromptOnScreen \/ (k # "bad" /\ nPosition = 0 /\ isValidPrompt))
    /\ screen' = IF nPosition' > 0 THEN "typed"
                 ELSE IF nPosition > 0 \/ (k # "bad" /\ ~bPromptOnScreen /\ isValidPrompt)
                      THEN "prompt" ELSE screen
    /\ pc' = IF nPosition' > 0 THEN "typing" ELSE "idle"
    /\ key' = "none" /\ Stay
    /\ UNCHANGED <<odPromptInfo, answers, szOldString, pendingVars>>

\* Mutant of takeKey: the timer runs on from the beginning of the line.
takeKeyUntimed(k) ==
    /\ IF LinesEndedBy(k) # {} THEN \E line \in LinesEndedBy(k) : performIO(line)
                               ELSE editLine(k)
    /\ timeout' = IF nPosition' = 0 THEN now ELSE timeout
    /\ lastKey' = [at |-> now, paused |-> FALSE]
    /\ UNCHANGED <<now, pauseStart, outputSlot>>

takeKey(k) ==
    /\ IF LinesEndedBy(k) # {} THEN \E line \in LinesEndedBy(k) : performIO(line)
                               ELSE editLine(k)
    /\ timeout' = now
    /\ lastKey' = [at |-> now, paused |-> FALSE]
    /\ UNCHANGED <<now, pauseStart, outputSlot>>

-----------------------------------------------------------------------------
(* getInput                                                                *)

\* What inputKey may return.  A telnet command counts as no key.
inputKey == {"none"} \cup Keys

\* The start of a turn of the inner loop: the check that does not fix the line,
\* then a key, under a valid prompt only; the output comes next, before the key
\* is looked at.
IdleTurn ==
    /\ pc = "idle"
    /\ inactiveCheck(timeout, FALSE)
    /\ \/ /\ ~TimedOut(timeout)
          /\ key' \in IF isValidPrompt THEN inputKey ELSE {"none"}
          /\ bFound' = FALSE
          /\ pc' = "drain" /\ Stay
       \/ /\ TimedOut(timeout)
          /\ UNCHANGED <<key, bFound, pendingVars>>
          /\ exitDoor("inactive")
    /\ UNCHANGED <<outputSlot, odPromptInfo, bPromptOnScreen, answers, nPosition,
                   szOldString, pendingVars>>

\* checkNodeMsg found a message of the BBS: the prompt makes room for it and is
\* shown again.  Its interrupt flag ends the process.
NodeMessage ==
    /\ kit = "xsdk"
    /\ pc = "idle"
    /\ \/ fixStatline /\ UNCHANGED pc /\ Stay
       \/ /\ UNCHANGED <<bPromptOnScreen, screen, pendingVars>>
          /\ exitDoor("order")
    /\ UNCHANGED <<outputSlot, odPromptInfo, answers, inputVars, pendingVars, timeVars>>

\* Mutant of handleOutput: what a message prints goes behind the prompt.
handleOutputBehind(m) ==
    /\ UNCHANGED bPromptOnScreen
    /\ screen' = "other"
    /\ odPromptInfo' = IF m \in Prompts THEN [type |-> m, answered |-> FALSE]
                                        ELSE odPromptInfo
    /\ answers' = IF m \in Prompts THEN 0 ELSE answers
    /\ pauseStart' = IF m \in {"pause", "help"} THEN now ELSE pauseStart

\* handleOutput: an old prompt is erased, a new one replaces it, a pause waits
\* for a key of its own.
handleOutput(m) ==
    /\ bPromptOnScreen' = FALSE
    /\ screen' = "other"
    /\ odPromptInfo' = IF m \in Prompts THEN [type |-> m, answered |-> FALSE]
                                        ELSE odPromptInfo
    /\ answers' = IF m \in Prompts THEN 0 ELSE answers
    /\ pauseStart' = IF m \in {"pause", "help"} THEN now ELSE pauseStart

\* getOutput: all that is in the slot, one message after the other.  A help text
\* longer than a screen pauses, a shorter one does not.
GetOutput ==
    /\ pc = "drain"
    /\ outputSlot # <<>>
    /\ LET m == Head(outputSlot)
       IN  /\ outputSlot' = Tail(outputSlot)
           /\ handleOutput(m)
           /\ \/ m \in {"pause", "help"} /\ pc' = "pause" /\ UNCHANGED nPending /\ Stay
              \/ m = "exit" /\ UNCHANGED nPending /\ exitDoor("order")
              \/ m \notin {"pause", "exit"} /\ pc' = "drain" /\ nPending' = 0 /\ Stay
    /\ bFound' = TRUE
    /\ UNCHANGED <<nPosition, key, szOldString, bLockWarned, now, timeout, ttPrevious,
                   bAlreadyWarned, lastKey>>

\* pausePrompt, and the pause of displayHelp, which may come again: any key ends
\* it, and it is timed from its own start.
PauseKey ==
    /\ pc = "pause"
    /\ lastKey' = [at |-> now, paused |-> TRUE]
    /\ \/ pc' = "drain" /\ nPending' = 0 /\ UNCHANGED pauseStart
       \/ pc' = "pause" /\ pauseStart' = now /\ UNCHANGED nPending
    /\ Stay
    /\ UNCHANGED <<ioVars, inputVars, bLockWarned, now, timeout, ttPrevious, bAlreadyWarned>>

PauseCheck ==
    /\ pc = "pause"
    /\ inactiveCheck(pauseStart, TRUE)
    /\ \/ ~TimedOut(pauseStart) /\ UNCHANGED pc /\ Stay
       \/ TimedOut(pauseStart) /\ UNCHANGED pendingVars /\ exitDoor("inactive")
    /\ UNCHANGED <<outputSlot, odPromptInfo, bPromptOnScreen, answers, inputVars, pendingVars>>

\* The slot is empty: the prompt is shown again, and the key that was read is
\* dealt with, under whatever prompt is the current one now.
Drained ==
    /\ pc = "drain"
    /\ outputSlot = <<>>
    /\ bFound
    /\ fixStatline
    /\ bFound' = FALSE
    /\ Stay
    /\ UNCHANGED <<pc, outputSlot, odPromptInfo, answers, nPosition, key, szOldString,
                   pendingVars, timeVars>>

DrainedKey ==
    /\ pc = "drain"
    /\ outputSlot = <<>>
    /\ ~bFound
    /\ \/ /\ key = "none"
          /\ pc' = "idle" /\ Stay
          /\ UNCHANGED <<ioVars, inputVars, pendingVars, timeVars>>
       \/ /\ key # "none"
          /\ takeKey(key)
          /\ UNCHANGED <<bFound, ttPrevious, bAlreadyWarned>>

\* The outer loop while a line is being typed: no output is read.
TypingTurn ==
    /\ pc = "typing"
    /\ ~TimedOut(timeout)
    /\ isValidPrompt
    /\ \E k \in inputKey \ {"none"} : takeKey(k)
    /\ UNCHANGED <<bFound, ttPrevious, bAlreadyWarned>>

TypingCheck ==
    /\ pc = "typing"
    /\ inactiveCheck(timeout, TRUE)
    /\ \/ ~TimedOut(timeout) /\ UNCHANGED pc /\ Stay
       \/ TimedOut(timeout) /\ UNCHANGED pendingVars /\ exitDoor("inactive")
    /\ UNCHANGED <<outputSlot, odPromptInfo, bPromptOnScreen, answers, inputVars, pendingVars>>

\* checkCarrier or checkTimeLeft ends the process.
CarrierLost ==
    /\ kit = "xsdk"
    /\ pc \in {"idle", "typing", "pause"}
    /\ UNCHANGED <<ioVars, inputVars, pendingVars, timeVars>>
    /\ exitDoor("carrier")

\* OpenDoors ends the process itself, in the middle of output, too, and runs the exit
\* function; its inactivity is counted from the last key.
KitExit ==
    /\ kit = "opendoors"
    /\ pc \in {"idle", "drain", "typing", "pause"}
    /\ UNCHANGED <<ioVars, inputVars, pendingVars, timeVars>>
    /\ \/ exitDoor("carrier")
       \/ now - lastKey.at >= sec_timeout /\ exitDoor("inactive")

-----------------------------------------------------------------------------
(* beforeExit, the server and time                                         *)

SendForceExit ==
    /\ pc = "exit"
    /\ sendInput(pc' = "force" /\ Stay)
    /\ UNCHANGED <<ioVars, inputVars, timeVars>>

\* Mutant of SendFinished: one message early.
SendFinishedEarly ==
    /\ pc = "force"
    /\ nPending' = nPending + 1
    /\ bLockWarned' = (bLockWarned \/ nPending' >= LockedUp - 1)
    /\ pc' = IF nPending' >= LockedUp - 1 /\ ~bLockWarned THEN "gone" ELSE "finished"
    /\ goodbye' = [goodbye EXCEPT !.finished = TRUE]
    /\ UNCHANGED <<ioVars, inputVars, timeVars>>

\* The message is sent before sendInput looks at what is pending.
SendFinished ==
    /\ pc = "force"
    /\ nPending' = nPending + 1
    /\ bLockWarned' = (bLockWarned \/ nPending' >= LockedUp)
    /\ pc' = IF nPending' >= LockedUp /\ ~bLockWarned THEN "gone" ELSE "finished"
    /\ goodbye' = [goodbye EXCEPT !.finished = TRUE]
    /\ UNCHANGED <<ioVars, inputVars, timeVars>>

CloseSlots ==
    /\ pc = "finished"
    /\ pc' = "gone"
    /\ goodbye' = [goodbye EXCEPT !.closed = TRUE]
    /\ UNCHANGED <<ioVars, inputVars, pendingVars, timeVars>>

ServerSends ==
    /\ pc # "gone"
    /\ Len(outputSlot) < MaxOut
    /\ \E m \in Outputs : outputSlot' = Append(outputSlot, m)
    /\ UNCHANGED <<pc, odPromptInfo, bPromptOnScreen, screen, answers, inputVars, pendingVars,
                   timeVars, goodbye>>

Tick ==
    /\ pc \in {"idle", "typing", "pause"}
    /\ now < MaxNow
    /\ now' = now + 1
    /\ UNCHANGED <<pc, ioVars, inputVars, pendingVars, timeout, pauseStart, ttPrevious,
                   bAlreadyWarned, lastKey, goodbye>>

Next ==
    /\ \/ IdleTurn \/ NodeMessage \/ GetOutput \/ PauseKey \/ PauseCheck \/ Drained
       \/ DrainedKey \/ TypingTurn \/ TypingCheck \/ CarrierLost \/ KitExit
       \/ SendForceExit \/ SendFinished \/ CloseSlots
       \/ ServerSends \/ Tick
    /\ UNCHANGED kit

Spec == Init /\ [][Next]_vars

-----------------------------------------------------------------------------
(* Properties                                                              *)

\* A question of the server gets at most one line: what is typed ahead or after
\* it waits for the next prompt, even when keys and prompts cross.
AskAnsweredOnce == odPromptInfo.type \in {"hotkey", "line"} => answers <= 1

\* Where output may be printed, bPromptOnScreen is right about the end of the
\* screen, so that erasing the prompt erases nothing else; only the warning of
\* the inner loop comes between, which ends its own line.
ErasesOnlyPrompt ==
    pc \in {"idle", "drain", "pause"} /\ nPosition = 0 =>
        /\ bPromptOnScreen => screen \in {"prompt", "warning"}
        /\ screen = "prompt" => bPromptOnScreen

\* However a process in the game ends, it has told the server so, unless its
\* IP_FORCE_EXIT was the fifth message without an answer; and it has unlinked its slot,
\* too, unless its goodbye was what showed that the server is stuck (door.cpp:176-192).
GoodbyeIsSaid ==
    pc = "gone" =>
        /\ goodbye.finished \/ goodbye.pending = LockedUp - 1
        /\ goodbye.closed \/ goodbye.pending \in {LockedUp - 2, LockedUp - 1}

\* Nobody is thrown out as inactive who has pressed a key lately, unless it was
\* the key of a pause that arrived while the prompt was waiting (door.cpp:297:
\* only getInput's own keys renew its timer).
OnlyTheIdleTimeOut ==
    goodbye.cause = "inactive" =>
        \/ now - lastKey.at >= sec_timeout
        \/ lastKey.paused
=============================================================================
