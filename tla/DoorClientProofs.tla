-------------------------- MODULE DoorClientProofs --------------------------
(***************************************************************************)
(* What TLAPS proves of DoorClient, for both kits and every length of the  *)
(* lines, the slot and the timers: its types, that a question of the       *)
(* server gets at most one line, that whoever ends says goodbye, that the  *)
(* server's output erases nothing but the prompt, and that only the idle   *)
(* are thrown out as idle.                                                 *)
(***************************************************************************)
EXTENDS DoorClient, TLAPS

-----------------------------------------------------------------------------
(* Types                                                                   *)

LEMMA TypeInit == Init => TypeOK
  <1> SUFFICES ASSUME Init PROVE TypeOK
    OBVIOUS
  <1>1. outputSlot \in Seq(Outputs) /\ answers \in Nat
    BY DEF Init
  <1>2. IOType
    BY <1>1, Zenon DEF Init, IOType
  <1>3. InputType
    <2>1. nPosition \in 0 .. nMaxLength
      BY DoorClientAssumption DEF Init
    <2> QED BY <2>1, Zenon DEF Init, InputType, Lines
  <1>4. PendingType /\ TimeType
    BY DEF Init, PendingType, TimeType
  <1>5. EndType
    BY DEF Init, EndType
  <1> QED BY <1>2, <1>3, <1>4, <1>5 DEF Init, TypeOK

\* A finished line is one of the kinds performIO knows.
LEMMA LinesAreLines ==
    ASSUME NEW k PROVE LinesEndedBy(k) \subseteq Lines
  BY DEF LinesEndedBy, Lines

\* Ending the process, and staying in it.
LEMMA ExitType ==
    ASSUME EndType, nPending' \in Nat, NEW cause \in Causes, exitDoor(cause)
    PROVE  EndType'
  BY DEF EndType, exitDoor

LEMMA CheckType ==
    ASSUME TypeOK, NEW start \in Nat, NEW nFixLine, inactiveCheck(start, nFixLine)
    PROVE  TimeType' /\ screen' \in {"prompt", "typed", "warning", "other"}
  BY DEF TypeOK, IOType, TimeType, inactiveCheck, inactiveCheckXSDK, warnNow, TimedOut

\* A message that is sent while the client plays keeps the types of what it changes.
LEMMA SendType ==
    ASSUME PendingType, EndType, NEW next \in {"idle", "force"}, sendInput(pc' = next /\ Stay)
    PROVE  PendingType' /\ EndType'
  <1>1. PendingType'
    BY DEF PendingType, sendInput
  <1>2. CASE nPending' >= LockedUp /\ ~bLockWarned /\ goodbye.cause = "none"
    BY <1>1, <1>2, ExitType DEF sendInput, PendingType, Causes
  <1>3. CASE ~(nPending' >= LockedUp /\ ~bLockWarned /\ goodbye.cause = "none")
    <2>1. pc' \in {next, "gone"} /\ goodbye' = goodbye
      BY <1>3, Zenon DEF sendInput, Stay
    <2> QED BY <1>1, <2>1 DEF EndType
  <1> QED BY <1>1, <1>2, <1>3

\* performIO and the other keys keep the types of all they change.
LEMMA PerformType ==
    ASSUME TypeOK, NEW line \in Lines, performIO(line), UNCHANGED <<outputSlot, bFound>>
    PROVE  IOType' /\ InputType' /\ PendingType' /\ EndType'
  <1> DEFINE s == IF line = "!" THEN szOldString ELSE line
             whoIsOnline == kit = "xsdk" /\ s = "#"
  <1>1. s \in Lines \ {"!"}
    BY Zenon DEF TypeOK, InputType
  <1>2. InputType'
    <2>1. nPosition' \in 0 .. nMaxLength
      BY DoorClientAssumption DEF performIO
    <2> QED BY <1>1, <2>1, Zenon DEF performIO, TypeOK, InputType
  <1>3. IOType'
    <2>1. odPromptInfo' \in [type: Prompts \cup {"none"}, answered: BOOLEAN]
      BY DEF performIO, invalidatePrompt, TypeOK, IOType
    <2>2. answers' \in Nat
      BY DEF performIO, TypeOK, IOType
    <2>3. bPromptOnScreen' \in BOOLEAN /\ screen' \in {"prompt", "typed", "warning", "other"}
      BY Zenon DEF performIO, fixStatline, isValidPrompt
    <2> QED BY <2>1, <2>2, <2>3, Zenon DEF TypeOK, IOType
  <1>4. CASE whoIsOnline
    <2>1. pc' = "idle" /\ Stay /\ UNCHANGED pendingVars
      BY <1>4 DEF performIO
    <2> QED BY <1>2, <1>3, <2>1 DEF TypeOK, PendingType, EndType, pendingVars, Stay
  <1>5. CASE s = "=x"
    <2>1. UNCHANGED pendingVars /\ exitDoor("user")
      BY <1>5 DEF performIO
    <2> QED BY <1>2, <1>3, <2>1, ExitType DEF TypeOK, PendingType, pendingVars, Causes
  <1>6. CASE ~whoIsOnline /\ s # "=x"
    <2>1. sendInput(pc' = "idle" /\ Stay)
      BY <1>6 DEF performIO
    <2> QED BY <1>2, <1>3, <2>1, SendType DEF TypeOK
  <1> QED BY <1>4, <1>5, <1>6

LEMMA EditType ==
    ASSUME TypeOK, NEW k \in Keys, editLine(k), UNCHANGED <<outputSlot, bFound>>
    PROVE  IOType' /\ InputType' /\ PendingType' /\ EndType'
  <1>1. nPosition' \in 0 .. nMaxLength
    BY DoorClientAssumption DEF editLine, TypeOK, InputType
  <1>2. InputType'
    BY <1>1, Zenon DEF editLine, TypeOK, InputType
  <1>3. bPromptOnScreen' \in BOOLEAN
    BY Zenon DEF editLine, TypeOK, IOType
  <1>4. screen' \in {"prompt", "typed", "warning", "other"} /\ pc' \in {"idle", "typing"}
    BY DEF editLine, TypeOK, IOType
  <1>5. IOType'
    BY <1>3, <1>4, Zenon DEF editLine, TypeOK, IOType
  <1>6. PendingType' /\ EndType'
    BY <1>4 DEF editLine, TypeOK, PendingType, EndType, pendingVars, Stay
  <1> QED BY <1>2, <1>5, <1>6

LEMMA KeyType ==
    ASSUME TypeOK, NEW k \in Keys, takeKey(k), UNCHANGED <<bFound, ttPrevious, bAlreadyWarned>>
    PROVE  IOType' /\ InputType' /\ PendingType' /\ TimeType' /\ EndType'
  <1>1. TimeType'
    BY DEF takeKey, TypeOK, TimeType
  <1>2. CASE LinesEndedBy(k) # {}
    BY <1>1, <1>2, LinesAreLines, PerformType DEF takeKey
  <1>3. CASE LinesEndedBy(k) = {}
    BY <1>1, <1>3, EditType DEF takeKey
  <1> QED BY <1>2, <1>3

\* Every step keeps the types.
LEMMA TypeStep == TypeOK /\ [Next]_vars => TypeOK'
  <1> SUFFICES ASSUME TypeOK, [Next]_vars PROVE TypeOK'
    OBVIOUS
  <1> USE DEF ioVars, inputVars, pendingVars, timeVars
  <1>0. kit' \in Kits
    BY DEF Next, vars, TypeOK
  <1>1. CASE IdleTurn
    <2>1. TimeType' /\ IOType' /\ PendingType'
      <3>1. TimeType' /\ screen' \in {"prompt", "typed", "warning", "other"}
        BY <1>1, CheckType DEF IdleTurn, TypeOK, TimeType
      <3> QED BY <1>1, <3>1, Zenon DEF IdleTurn, TypeOK, IOType, PendingType
    <2>2. InputType'
      <3>1. key' \in Keys \cup {"none"}
        BY <1>1, Zenon DEF IdleTurn, inputKey, TypeOK, InputType
      <3> QED BY <1>1, <3>1, Zenon DEF IdleTurn, TypeOK, InputType
    <2>3. EndType'
      BY <1>1, <2>1, ExitType DEF IdleTurn, TypeOK, EndType, PendingType, Stay, Causes
    <2> QED BY <1>0, <2>1, <2>2, <2>3 DEF TypeOK
  <1>2. CASE NodeMessage
    <2>1. IOType' /\ InputType' /\ PendingType' /\ TimeType'
      BY <1>2, Zenon DEF NodeMessage, fixStatline, isValidPrompt, TypeOK, IOType, InputType,
                         PendingType, TimeType
    <2>2. EndType'
      BY <1>2, <2>1, ExitType DEF NodeMessage, TypeOK, EndType, PendingType, Stay, Causes
    <2> QED BY <1>0, <2>1, <2>2 DEF TypeOK
  <1>3. CASE GetOutput
    <2> DEFINE m == Head(outputSlot)
    <2>1. m \in Outputs /\ outputSlot' \in Seq(Outputs)
      BY <1>3 DEF GetOutput, TypeOK, IOType
    <2>2. odPromptInfo' \in [type: Prompts \cup {"none"}, answered: BOOLEAN]
      BY <1>3 DEF GetOutput, handleOutput, TypeOK, IOType
    <2>3. answers' \in Nat /\ pauseStart' \in Nat /\ nPending' \in Nat
      BY <1>3 DEF GetOutput, handleOutput, TypeOK, IOType, TimeType, PendingType
    <2>4. IOType' /\ InputType' /\ PendingType' /\ TimeType'
      BY <1>3, <2>1, <2>2, <2>3, Zenon
         DEF GetOutput, handleOutput, TypeOK, IOType, InputType, PendingType, TimeType
    <2>5. EndType'
      BY <1>3, <2>3, ExitType DEF GetOutput, TypeOK, EndType, Stay, Causes
    <2> QED BY <1>0, <2>4, <2>5 DEF TypeOK
  <1>4. CASE PauseKey
    <2>1. TimeType' /\ PendingType' /\ EndType'
      BY <1>4 DEF PauseKey, TypeOK, TimeType, PendingType, EndType, Stay
    <2>2. IOType' /\ InputType'
      BY <1>4, Zenon DEF PauseKey, TypeOK, IOType, InputType
    <2> QED BY <1>0, <2>1, <2>2 DEF TypeOK
  <1>5. CASE PauseCheck
    <2>1. TimeType' /\ screen' \in {"prompt", "typed", "warning", "other"}
      BY <1>5, CheckType DEF PauseCheck, TypeOK, TimeType
    <2>2. IOType' /\ InputType' /\ PendingType'
      BY <1>5, <2>1, Zenon DEF PauseCheck, TypeOK, IOType, InputType, PendingType
    <2>3. EndType'
      BY <1>5, <2>2, ExitType DEF PauseCheck, TypeOK, EndType, PendingType, Stay, Causes
    <2> QED BY <1>0, <2>1, <2>2, <2>3 DEF TypeOK
  <1>6. CASE Drained
    BY <1>0, <1>6, Zenon DEF Drained, fixStatline, isValidPrompt, TypeOK, IOType, InputType,
                             PendingType, TimeType, EndType, Stay
  <1>7. CASE DrainedKey
    <2>1. CASE key = "none"
      BY <1>0, <1>7, <2>1, Zenon DEF DrainedKey, TypeOK, IOType, InputType, PendingType,
                                     TimeType, EndType, Stay
    <2>2. CASE key # "none"
      BY <1>0, <1>7, <2>2, KeyType DEF DrainedKey, TypeOK, InputType
    <2> QED BY <2>1, <2>2
  <1>8. CASE TypingTurn
    BY <1>0, <1>8, KeyType DEF TypingTurn, inputKey, TypeOK
  <1>9. CASE TypingCheck
    <2>1. TimeType' /\ screen' \in {"prompt", "typed", "warning", "other"}
      BY <1>9, CheckType DEF TypingCheck, TypeOK, TimeType
    <2>2. IOType' /\ InputType' /\ PendingType'
      BY <1>9, <2>1, Zenon DEF TypingCheck, TypeOK, IOType, InputType, PendingType
    <2>3. EndType'
      BY <1>9, <2>2, ExitType DEF TypingCheck, TypeOK, EndType, PendingType, Stay, Causes
    <2> QED BY <1>0, <2>1, <2>2, <2>3 DEF TypeOK
  <1>10. CASE CarrierLost \/ KitExit
    <2>1. IOType' /\ InputType' /\ PendingType' /\ TimeType'
      BY <1>10, Zenon DEF CarrierLost, KitExit, TypeOK, IOType, InputType, PendingType, TimeType
    <2>2. EndType'
      BY <1>10, <2>1, ExitType DEF CarrierLost, KitExit, TypeOK, PendingType, Causes
    <2> QED BY <1>0, <2>1, <2>2 DEF TypeOK
  <1>11. CASE SendForceExit
    <2>1. PendingType' /\ EndType'
      BY <1>11, SendType DEF SendForceExit, TypeOK
    <2>2. IOType' /\ InputType' /\ TimeType'
      BY <1>11, Zenon DEF SendForceExit, TypeOK, IOType, InputType, TimeType
    <2> QED BY <1>0, <2>1, <2>2 DEF TypeOK
  <1>12. CASE SendFinished \/ CloseSlots
    <2>1. PendingType'
      <3>1. nPending' \in Nat
        BY <1>12 DEF SendFinished, CloseSlots, TypeOK, PendingType
      <3>2. bLockWarned' \in BOOLEAN
        BY <1>12, Zenon DEF SendFinished, CloseSlots, TypeOK, PendingType
      <3> QED BY <3>1, <3>2 DEF PendingType
    <2>2. pc' \in {"gone", "finished"}
      BY <1>12, Zenon DEF SendFinished, CloseSlots
    <2>3. EndType'
      BY <1>12, <2>2, Zenon DEF SendFinished, CloseSlots, TypeOK, EndType
    <2>4. IOType' /\ InputType' /\ TimeType'
      BY <1>12, Zenon DEF SendFinished, CloseSlots, TypeOK, IOType, InputType, TimeType
    <2> QED BY <1>0, <2>1, <2>3, <2>4 DEF TypeOK
  <1>13. CASE ServerSends
    <2>1. outputSlot' \in Seq(Outputs)
      BY <1>13 DEF ServerSends, TypeOK, IOType
    <2>2. IOType' /\ InputType' /\ PendingType'
      BY <1>13, <2>1, Zenon DEF ServerSends, TypeOK, IOType, InputType, PendingType
    <2>3. TimeType' /\ EndType'
      BY <1>13, Zenon DEF ServerSends, TypeOK, TimeType, EndType
    <2> QED BY <1>0, <2>2, <2>3 DEF TypeOK
  <1>14. CASE Tick
    <2>1. TimeType'
      BY <1>14 DEF Tick, TypeOK, TimeType
    <2>2. IOType' /\ InputType'
      BY <1>14, Zenon DEF Tick, TypeOK, IOType, InputType
    <2>3. PendingType' /\ EndType'
      BY <1>14 DEF Tick, TypeOK, PendingType, EndType
    <2> QED BY <1>0, <2>1, <2>2, <2>3 DEF TypeOK
  <1>15. CASE UNCHANGED vars
    <2>1. UNCHANGED ioVars /\ UNCHANGED inputVars /\ UNCHANGED pendingVars
          /\ UNCHANGED timeVars /\ UNCHANGED goodbye /\ UNCHANGED pc
      BY <1>15 DEF vars
    <2>2. IOType' /\ InputType' /\ TimeType'
      BY <2>1, Zenon DEF TypeOK, IOType, InputType, TimeType
    <2>3. PendingType' /\ EndType'
      BY <2>1 DEF TypeOK, PendingType, EndType
    <2> QED BY <1>0, <2>2, <2>3 DEF TypeOK
  <1> QED BY <1>1, <1>2, <1>3, <1>4, <1>5, <1>6, <1>7, <1>8, <1>9, <1>10, <1>11, <1>12, <1>13,
             <1>14, <1>15 DEF Next

\* The client's types hold in every state, for both kits and every bound.
THEOREM ClientTypes == Spec => []TypeOK
  BY TypeInit, TypeStep, PTL DEF Spec

-----------------------------------------------------------------------------
(* A question of the server gets at most one line                          *)

\* A key is read, and kept while output is printed, only under a prompt that is not
\* answered; and a prompt that is not answered has had no line yet.
NotYetAnswered ==
    odPromptInfo.type \in {"hotkey", "line"} =>
        answers <= 1 /\ (~odPromptInfo.answered => answers = 0)
KeyHasPrompt ==
    pc = "typing" \/ (pc \in {"drain", "pause"} /\ key # "none") => isValidPrompt

AskInv == NotYetAnswered /\ KeyHasPrompt

LEMMA AskInit == Init => AskInv
  BY DEF Init, AskInv, NotYetAnswered, KeyHasPrompt

\* A line answers the prompt it is sent under, unless that is the blank one.
LEMMA PerformAsk ==
    ASSUME TypeOK, AskInv, isValidPrompt, NEW line \in Lines, performIO(line)
    PROVE  AskInv'
  <1> DEFINE s == IF line = "!" THEN szOldString ELSE line
             whoIsOnline == kit = "xsdk" /\ s = "#"
  <1>1. key' = "none"
    BY DEF performIO
  <1>2. CASE whoIsOnline \/ s = "=x"
    <2>1. pc' \in {"idle", "exit"} /\ UNCHANGED <<odPromptInfo, answers>>
      BY <1>2 DEF performIO, exitDoor
    <2> QED BY <1>1, <2>1 DEF AskInv, NotYetAnswered, KeyHasPrompt
  <1>3. CASE ~whoIsOnline /\ s # "=x"
    <2>1. pc' \in {"idle", "exit", "gone"}
      BY <1>3 DEF performIO, sendInput, exitDoor
    <2>2. invalidatePrompt /\ answers' = IF odPromptInfo.type = "stat" THEN 0 ELSE answers + 1
      BY <1>3 DEF performIO
    <2>3. odPromptInfo'.type = odPromptInfo.type
      BY <2>2 DEF invalidatePrompt, TypeOK, IOType
    <2>4. ASSUME odPromptInfo.type \in {"hotkey", "line"}
          PROVE  answers' = 1 /\ odPromptInfo'.answered
      <3>1. answers = 0
        BY <2>4 DEF isValidPrompt, AskInv, NotYetAnswered
      <3>2. odPromptInfo' = [odPromptInfo EXCEPT !.answered = TRUE]
        BY <2>2, <2>4 DEF invalidatePrompt
      <3> QED BY <2>2, <2>4, <3>1, <3>2 DEF TypeOK, IOType
    <2>5. NotYetAnswered'
      BY <2>3, <2>4 DEF NotYetAnswered
    <2> QED BY <1>1, <2>1, <2>5 DEF AskInv, KeyHasPrompt
  <1> QED BY <1>2, <1>3

LEMMA KeyAsk ==
    ASSUME TypeOK, AskInv, isValidPrompt, NEW k \in Keys, takeKey(k)
    PROVE  AskInv'
  <1>1. CASE LinesEndedBy(k) # {}
    BY <1>1, LinesAreLines, PerformAsk DEF takeKey
  <1>2. CASE LinesEndedBy(k) = {}
    BY <1>2 DEF takeKey, editLine, AskInv, NotYetAnswered, KeyHasPrompt, isValidPrompt
  <1> QED BY <1>1, <1>2

LEMMA AskStep == TypeOK /\ AskInv /\ [Next]_vars => AskInv'
  <1> SUFFICES ASSUME TypeOK, AskInv, [Next]_vars PROVE AskInv'
    OBVIOUS
  <1> USE DEF ioVars, inputVars
  <1>1. CASE IdleTurn
    BY <1>1 DEF IdleTurn, exitDoor, AskInv, NotYetAnswered, KeyHasPrompt, isValidPrompt
  <1>2. CASE GetOutput
    <2> DEFINE m == Head(outputSlot)
    <2>1. m \in Outputs
      BY <1>2 DEF GetOutput, TypeOK, IOType
    <2>2. NotYetAnswered'
      BY <1>2, <2>1 DEF GetOutput, handleOutput, AskInv, NotYetAnswered
    <2>3. KeyHasPrompt'
      BY <1>2, <2>1 DEF GetOutput, handleOutput, AskInv, KeyHasPrompt, isValidPrompt, exitDoor,
                        Prompts
    <2> QED BY <2>2, <2>3 DEF AskInv
  <1>3. CASE DrainedKey
    <2>1. CASE key = "none"
      BY <1>3, <2>1 DEF DrainedKey, AskInv, NotYetAnswered, KeyHasPrompt, isValidPrompt
    <2>2. CASE key # "none"
      BY <1>3, <2>2, KeyAsk DEF DrainedKey, TypeOK, InputType, AskInv, KeyHasPrompt
    <2> QED BY <2>1, <2>2
  <1>4. CASE TypingTurn
    BY <1>4, KeyAsk DEF TypingTurn, inputKey
  <1>5. CASE PauseKey \/ PauseCheck \/ Drained
    BY <1>5 DEF PauseKey, PauseCheck, Drained, exitDoor, AskInv, NotYetAnswered, KeyHasPrompt,
                isValidPrompt
  <1>6. CASE TypingCheck \/ NodeMessage \/ CarrierLost \/ KitExit
    BY <1>6 DEF TypingCheck, NodeMessage, CarrierLost, KitExit, exitDoor, AskInv,
                NotYetAnswered, KeyHasPrompt, isValidPrompt
  <1>7. CASE SendForceExit \/ SendFinished \/ CloseSlots
    BY <1>7 DEF SendForceExit, SendFinished, CloseSlots, sendInput, exitDoor, AskInv,
                NotYetAnswered, KeyHasPrompt, isValidPrompt
  <1>8. CASE ServerSends \/ Tick
    BY <1>8 DEF ServerSends, Tick, AskInv, NotYetAnswered, KeyHasPrompt, isValidPrompt
  <1>9. CASE UNCHANGED vars
    BY <1>9 DEF vars, AskInv, NotYetAnswered, KeyHasPrompt, isValidPrompt
  <1> QED BY <1>1, <1>2, <1>3, <1>4, <1>5, <1>6, <1>7, <1>8, <1>9 DEF Next

\* However keys and prompts cross, no question of the server is answered by two
\* lines: the second waits for the next prompt.
THEOREM AnsweredOnce == Spec => []AskAnsweredOnce
  <1>1. AskInv => AskAnsweredOnce
    BY DEF AskInv, NotYetAnswered, AskAnsweredOnce
  <1> QED BY <1>1, TypeInit, TypeStep, AskInit, AskStep, PTL DEF Spec

-----------------------------------------------------------------------------
(* The goodbye                                                             *)

\* While the server is not taken to be stuck, fewer messages are pending than would
\* show it; and from where exitDoor was called nothing but the goodbye is sent.
LockIsNoticed == bLockWarned \/ nPending < LockedUp
ExitHasCause ==
    /\ pc \in {"idle", "drain", "typing", "pause"} => goodbye.cause = "none"
    /\ pc \in {"exit", "force", "finished"} => goodbye.cause # "none"
GoodbyeOnly ==
    /\ pc = "exit" => nPending = goodbye.pending
    /\ pc = "force" => nPending = goodbye.pending + 1
    /\ pc = "finished" => goodbye.finished

GoodbyeInv == LockIsNoticed /\ ExitHasCause /\ GoodbyeOnly /\ GoodbyeIsSaid

LEMMA SentIsNoticed ==
    ASSUME PendingType, nPending' = nPending + 1,
           bLockWarned' = (bLockWarned \/ nPending' >= LockedUp)
    PROVE  LockIsNoticed' /\ nPending' \in Nat
  <1>1. nPending' \in Nat /\ (nPending' >= LockedUp \/ nPending' < LockedUp)
    BY DoorClientAssumption DEF PendingType
  <1>2. CASE nPending' >= LockedUp
    BY <1>1, <1>2, Zenon DEF LockIsNoticed
  <1>3. CASE nPending' < LockedUp
    BY <1>1, <1>3, Zenon DEF LockIsNoticed
  <1> QED BY <1>1, <1>2, <1>3

LEMMA GoodbyeInit == Init => GoodbyeInv
  BY DoorClientAssumption
     DEF Init, GoodbyeInv, LockIsNoticed, ExitHasCause, GoodbyeOnly, GoodbyeIsSaid

\* Ending the process, or going on, while the client plays.
LEMMA ExitGoodbye ==
    ASSUME TypeOK, LockIsNoticed', NEW cause \in Causes, nPending' \in Nat, exitDoor(cause)
    PROVE  GoodbyeInv'
  BY DEF TypeOK, EndType, exitDoor, GoodbyeInv, ExitHasCause, GoodbyeOnly, GoodbyeIsSaid, Causes

LEMMA StayGoodbye ==
    ASSUME TypeOK, ExitHasCause, pc \in {"idle", "drain", "typing", "pause"}, LockIsNoticed',
           pc' \in {"idle", "drain", "typing", "pause"}, Stay
    PROVE  GoodbyeInv'
  BY DEF Stay, GoodbyeInv, ExitHasCause, GoodbyeOnly, GoodbyeIsSaid

\* Sending a message that is no goodbye: the fifth ends the process by exitDoor.
LEMMA SendGoodbye ==
    ASSUME TypeOK, GoodbyeInv, pc \in {"idle", "drain", "typing", "pause"},
           sendInput(pc' = "idle" /\ Stay)
    PROVE  GoodbyeInv'
  <1>1. LockIsNoticed' /\ nPending' \in Nat
    BY SentIsNoticed DEF sendInput, TypeOK
  <1>2. goodbye.cause = "none"
    BY DEF GoodbyeInv, ExitHasCause
  <1>3. exitDoor("lockup") \/ (pc' = "idle" /\ Stay)
    BY <1>2 DEF sendInput
  <1> QED BY <1>1, <1>3, ExitGoodbye, StayGoodbye DEF GoodbyeInv, Causes

LEMMA KeyGoodbye ==
    ASSUME TypeOK, GoodbyeInv, pc \in {"idle", "drain", "typing", "pause"}, NEW k \in Keys,
           takeKey(k)
    PROVE  GoodbyeInv'
  <1>1. CASE LinesEndedBy(k) = {}
    <2>1. editLine(k)
      BY <1>1 DEF takeKey
    <2>2. pc' \in {"idle", "typing"} /\ Stay /\ UNCHANGED pendingVars
      BY <2>1 DEF editLine
    <2> QED BY <2>2, StayGoodbye DEF GoodbyeInv, LockIsNoticed, pendingVars
  <1>2. ASSUME NEW line \in Lines, performIO(line)
        PROVE  GoodbyeInv'
    <2>1. \/ UNCHANGED pendingVars /\ pc' = "idle" /\ Stay
          \/ UNCHANGED pendingVars /\ exitDoor("user")
          \/ sendInput(pc' = "idle" /\ Stay)
      BY <1>2 DEF performIO
    <2>2. UNCHANGED pendingVars => LockIsNoticed' /\ nPending' \in Nat
      BY DEF pendingVars, GoodbyeInv, LockIsNoticed, TypeOK, PendingType
    <2> QED BY <2>1, <2>2, StayGoodbye, ExitGoodbye, SendGoodbye DEF GoodbyeInv, Causes
  <1>3. CASE LinesEndedBy(k) # {}
    BY <1>2, <1>3, LinesAreLines DEF takeKey
  <1> QED BY <1>1, <1>3

LEMMA GoodbyeStep == TypeOK /\ GoodbyeInv /\ [Next]_vars => GoodbyeInv'
  <1> SUFFICES ASSUME TypeOK, GoodbyeInv, [Next]_vars PROVE GoodbyeInv'
    OBVIOUS
  <1>0. UNCHANGED pendingVars => LockIsNoticed' /\ nPending' \in Nat
    BY DEF pendingVars, GoodbyeInv, LockIsNoticed, TypeOK, PendingType
  <1>1. CASE IdleTurn
    <2>1. /\ pc = "idle" /\ UNCHANGED pendingVars
          /\ exitDoor("inactive") \/ (pc' = "drain" /\ Stay)
      BY <1>1 DEF IdleTurn, pendingVars
    <2> QED BY <1>0, <2>1, ExitGoodbye, StayGoodbye DEF GoodbyeInv, Causes
  <1>2. CASE NodeMessage \/ CarrierLost \/ KitExit
    <2>1. /\ pc \in {"idle", "drain", "typing", "pause"} /\ UNCHANGED pendingVars
          /\ \/ exitDoor("order") \/ exitDoor("carrier") \/ exitDoor("inactive")
             \/ pc' = pc /\ Stay
      BY <1>2 DEF NodeMessage, CarrierLost, KitExit, pendingVars
    <2> QED BY <1>0, <2>1, ExitGoodbye, StayGoodbye DEF GoodbyeInv, Causes
  <1>3. CASE GetOutput \/ PauseKey
    <2>1. /\ pc \in {"drain", "pause"} /\ nPending' \in {0, nPending}
          /\ bLockWarned' = bLockWarned
          /\ exitDoor("order") \/ (pc' \in {"drain", "pause"} /\ Stay)
      BY <1>3 DEF GetOutput, PauseKey
    <2>2. LockIsNoticed' /\ nPending' \in Nat
      BY <2>1, DoorClientAssumption DEF GoodbyeInv, LockIsNoticed, TypeOK, PendingType
    <2> QED BY <2>1, <2>2, ExitGoodbye, StayGoodbye DEF GoodbyeInv, Causes
  <1>4. CASE PauseCheck \/ TypingCheck
    <2>1. /\ pc \in {"pause", "typing"} /\ UNCHANGED pendingVars
          /\ exitDoor("inactive") \/ (pc' = pc /\ Stay)
      BY <1>4 DEF PauseCheck, TypingCheck, pendingVars
    <2> QED BY <1>0, <2>1, ExitGoodbye, StayGoodbye DEF GoodbyeInv, Causes
  <1>5. CASE Drained
    <2>1. pc = "drain" /\ pc' = pc /\ Stay /\ UNCHANGED pendingVars
      BY <1>5 DEF Drained, pendingVars
    <2> QED BY <1>0, <2>1, StayGoodbye DEF GoodbyeInv
  <1>6. CASE DrainedKey
    <2>1. CASE key = "none"
      <3>1. pc = "drain" /\ pc' = "idle" /\ Stay /\ UNCHANGED pendingVars
        BY <1>6, <2>1 DEF DrainedKey, takeKey
      <3> QED BY <1>0, <3>1, StayGoodbye DEF GoodbyeInv
    <2>2. CASE key # "none"
      BY <1>6, <2>2, KeyGoodbye DEF DrainedKey, TypeOK, InputType
    <2> QED BY <2>1, <2>2
  <1>7. CASE TypingTurn
    BY <1>7, KeyGoodbye DEF TypingTurn, inputKey
  <1>8. CASE SendForceExit
    <2>1. goodbye.cause # "none" /\ pc = "exit" /\ nPending = goodbye.pending
      BY <1>8 DEF SendForceExit, GoodbyeInv, ExitHasCause, GoodbyeOnly
    <2>2. nPending' = nPending + 1 /\ goodbye' = goodbye
      BY <1>8, <2>1 DEF SendForceExit, sendInput, Stay
    <2>3. CASE nPending' >= LockedUp /\ ~bLockWarned
      <3>1. pc' = "gone" /\ LockIsNoticed'
        BY <1>8, <2>1, <2>3 DEF SendForceExit, sendInput, LockIsNoticed
      <3>2. goodbye.pending = LockedUp - 1
        BY <2>1, <2>2, <2>3, DoorClientAssumption
           DEF GoodbyeInv, LockIsNoticed, TypeOK, PendingType
      <3> QED BY <2>2, <3>1, <3>2 DEF GoodbyeInv, ExitHasCause, GoodbyeOnly, GoodbyeIsSaid
    <2>4. CASE ~(nPending' >= LockedUp /\ ~bLockWarned)
      <3>1. pc' = "force"
        BY <1>8, <2>4 DEF SendForceExit, sendInput
      <3>2. LockIsNoticed'
        BY <1>8, SentIsNoticed DEF SendForceExit, sendInput, TypeOK
      <3> QED BY <2>1, <2>2, <3>1, <3>2
              DEF GoodbyeInv, ExitHasCause, GoodbyeOnly, GoodbyeIsSaid
    <2> QED BY <2>3, <2>4
  <1>9. CASE SendFinished
    <2>1. goodbye.cause # "none" /\ nPending = goodbye.pending + 1
      BY <1>9 DEF SendFinished, GoodbyeInv, ExitHasCause, GoodbyeOnly
    <2>2. nPending' = nPending + 1 /\ goodbye' = [goodbye EXCEPT !.finished = TRUE]
      BY <1>9 DEF SendFinished
    <2>3. /\ goodbye'.cause = goodbye.cause /\ goodbye'.pending = goodbye.pending
          /\ goodbye'.finished
      BY <2>2 DEF TypeOK, EndType
    <2>4. LockIsNoticed'
      BY <1>9, SentIsNoticed DEF SendFinished, TypeOK
    <2>5. CASE nPending' >= LockedUp /\ ~bLockWarned
      <3>1. pc' = "gone"
        BY <1>9, <2>5 DEF SendFinished
      <3>2. goodbye.pending = LockedUp - 2
        BY <2>1, <2>2, <2>5, DoorClientAssumption
           DEF GoodbyeInv, LockIsNoticed, TypeOK, PendingType, EndType
      <3> QED BY <2>3, <2>4, <3>1, <3>2
              DEF GoodbyeInv, ExitHasCause, GoodbyeOnly, GoodbyeIsSaid
    <2>6. CASE ~(nPending' >= LockedUp /\ ~bLockWarned)
      <3>1. pc' = "finished"
        BY <1>9, <2>6 DEF SendFinished
      <3> QED BY <2>1, <2>3, <2>4, <3>1
              DEF GoodbyeInv, ExitHasCause, GoodbyeOnly, GoodbyeIsSaid
    <2> QED BY <2>5, <2>6
  <1>10. CASE CloseSlots
    <2>1. pc' = "gone" /\ goodbye.finished /\ goodbye' = [goodbye EXCEPT !.closed = TRUE]
      BY <1>10 DEF CloseSlots, GoodbyeInv, GoodbyeOnly
    <2>2. goodbye'.finished /\ goodbye'.closed
      BY <2>1 DEF TypeOK, EndType
    <2> QED BY <1>0, <1>10, <2>1, <2>2
            DEF CloseSlots, GoodbyeInv, ExitHasCause, GoodbyeOnly, GoodbyeIsSaid
  <1>11. CASE ServerSends \/ Tick \/ UNCHANGED vars
    <2>1. UNCHANGED pendingVars /\ pc' = pc /\ goodbye' = goodbye
      BY <1>11 DEF ServerSends, Tick, vars
    <2> QED BY <1>0, <2>1
            DEF pendingVars, GoodbyeInv, ExitHasCause, GoodbyeOnly, GoodbyeIsSaid
  <1> QED BY <1>1, <1>2, <1>3, <1>4, <1>5, <1>6, <1>7, <1>8, <1>9, <1>10, <1>11 DEF Next

\* A process that ends has said goodbye, unless it was the goodbye itself that showed
\* the server to be stuck.
THEOREM GoodbyeSaid == Spec => []GoodbyeIsSaid
  <1>1. GoodbyeInv => GoodbyeIsSaid
    BY DEF GoodbyeInv
  <1> QED BY <1>1, TypeInit, TypeStep, GoodbyeInit, GoodbyeStep, PTL DEF Spec

-----------------------------------------------------------------------------
(* The end of the screen                                                   *)

\* Only a line that is being typed is not empty, and it stands behind its prompt; where
\* output may be printed the flag says whether the screen ends with the prompt.
TypingHasPrompt ==
    /\ pc \in {"idle", "drain", "pause"} => nPosition = 0
    /\ pc = "typing" => nPosition > 0 /\ bPromptOnScreen
PromptKnown ==
    pc \in {"idle", "drain", "pause"} =>
        /\ bPromptOnScreen => screen \in {"prompt", "warning"}
        /\ screen = "prompt" => bPromptOnScreen

ScreenInv == TypingHasPrompt /\ PromptKnown

\* A finished line leaves the screen without a prompt, or shows it again.
PerformScreenLeft(line) ==
    /\ nPosition' = 0 /\ pc' \in {"idle", "exit", "gone"}
    /\ \/ bPromptOnScreen' = FALSE /\ screen' = "other"
       \/ fixStatline

LEMMA PerformScreen ==
    ASSUME NEW line \in Lines, performIO(line)
    PROVE  PerformScreenLeft(line)
  BY Zenon DEF performIO, sendInput, exitDoor, PerformScreenLeft

LEMMA KeyScreen ==
    ASSUME TypeOK, ScreenInv, isValidPrompt, pc \in {"drain", "typing"},
           NEW k \in Keys, takeKey(k)
    PROVE  ScreenInv'
  <1>1. CASE LinesEndedBy(k) # {}
    <2>1. PICK line \in Lines : performIO(line)
      BY <1>1, LinesAreLines DEF takeKey
    <2>2. PerformScreenLeft(line)
      BY <2>1, PerformScreen
    <2> QED BY <2>2 DEF PerformScreenLeft, fixStatline, ScreenInv, TypingHasPrompt, PromptKnown
  <1>2. CASE LinesEndedBy(k) = {}
    <2>1. editLine(k)
      BY <1>2 DEF takeKey
    <2>2. nPosition \in Nat /\ nPosition' \in Nat
      BY <2>1, DoorClientAssumption DEF editLine, TypeOK, InputType, DoorClientAssumption
    <2>3. CASE nPosition' > 0
      <3>1. pc' = "typing"
        BY <2>1, <2>3 DEF editLine
      <3>2. bPromptOnScreen \/ (k # "bad" /\ nPosition = 0)
        BY <2>1, <2>2, <2>3 DEF editLine, ScreenInv, TypingHasPrompt, Keys
      <3>3. bPromptOnScreen'
        BY <2>1, <3>2 DEF editLine
      <3> QED BY <2>3, <3>1, <3>3 DEF ScreenInv, TypingHasPrompt, PromptKnown
    <2>4. CASE ~(nPosition' > 0)
      <3>1. nPosition' = 0 /\ pc' = "idle"
        BY <2>1, <2>2, <2>4 DEF editLine
      <3>2. CASE nPosition > 0
        <4>1. bPromptOnScreen
          BY <3>2 DEF ScreenInv, TypingHasPrompt
        <4>2. bPromptOnScreen' /\ screen' = "prompt"
          BY <2>1, <2>4, <3>2, <4>1 DEF editLine
        <4> QED BY <3>1, <4>2 DEF ScreenInv, TypingHasPrompt, PromptKnown
      <3>3. CASE nPosition = 0
        <4>1. pc = "drain"
          BY <3>3 DEF ScreenInv, TypingHasPrompt
        <4>2. /\ bPromptOnScreen' = (bPromptOnScreen \/ k # "bad")
              /\ screen' = IF k # "bad" /\ ~bPromptOnScreen THEN "prompt" ELSE screen
          BY <2>1, <2>4, <3>3 DEF editLine
        <4>3. bPromptOnScreen' => screen' \in {"prompt", "warning"}
          BY <4>1, <4>2 DEF ScreenInv, PromptKnown
        <4>4. screen' = "prompt" => bPromptOnScreen'
          BY <4>1, <4>2 DEF ScreenInv, PromptKnown
        <4> QED BY <3>1, <4>3, <4>4 DEF ScreenInv, TypingHasPrompt, PromptKnown
      <3> QED BY <2>2, <3>2, <3>3
    <2> QED BY <2>3, <2>4
  <1> QED BY <1>1, <1>2

LEMMA ScreenStep == TypeOK /\ AskInv /\ ScreenInv /\ [Next]_vars => ScreenInv'
  <1> SUFFICES ASSUME TypeOK, AskInv, ScreenInv, [Next]_vars PROVE ScreenInv'
    OBVIOUS
  <1> USE DEF ioVars, inputVars, ScreenInv, TypingHasPrompt, PromptKnown
  <1>1. CASE IdleTurn
    <2>1. pc = "idle" /\ pc' \in {"drain", "exit"} /\ UNCHANGED <<bPromptOnScreen, nPosition>>
      BY <1>1 DEF IdleTurn, exitDoor
    <2>2. screen' \in {screen, "warning"}
      BY <1>1 DEF IdleTurn, inactiveCheck, inactiveCheckXSDK
    <2> QED BY <2>1, <2>2
  <1>2. CASE GetOutput
    BY <1>2 DEF GetOutput, handleOutput, exitDoor
  <1>3. CASE DrainedKey
    <2>1. CASE key = "none"
      BY <1>3, <2>1 DEF DrainedKey
    <2>2. CASE key # "none"
      <3>1. takeKey(key) /\ key \in Keys /\ pc = "drain" /\ isValidPrompt
        BY <1>3, <2>2 DEF DrainedKey, TypeOK, InputType, AskInv, KeyHasPrompt
      <3> QED BY <3>1, KeyScreen
    <2> QED BY <2>1, <2>2
  <1>4. CASE TypingTurn
    <2>1. PICK k \in Keys : takeKey(k)
      BY <1>4 DEF TypingTurn, inputKey
    <2> QED BY <1>4, <2>1, KeyScreen DEF TypingTurn
  <1>5. CASE PauseKey \/ Drained
    BY <1>5 DEF PauseKey, Drained, fixStatline
  <1>6. CASE PauseCheck \/ TypingCheck
    <2>1. UNCHANGED <<screen, bPromptOnScreen, nPosition>> /\ pc' \in {pc, "exit"}
      BY <1>6 DEF PauseCheck, TypingCheck, inactiveCheck, inactiveCheckXSDK, exitDoor
    <2> QED BY <2>1
  <1>7. CASE NodeMessage
    BY <1>7 DEF NodeMessage, fixStatline, exitDoor
  <1>8. CASE CarrierLost \/ KitExit
    BY <1>8 DEF CarrierLost, KitExit, exitDoor
  <1>9. CASE SendForceExit \/ SendFinished \/ CloseSlots
    BY <1>9 DEF SendForceExit, SendFinished, CloseSlots, sendInput, exitDoor
  <1>10. CASE ServerSends \/ Tick
    BY <1>10 DEF ServerSends, Tick
  <1>11. CASE UNCHANGED vars
    BY <1>11 DEF vars
  <1> QED BY <1>1, <1>2, <1>3, <1>4, <1>5, <1>6, <1>7, <1>8, <1>9, <1>10, <1>11 DEF Next

\* Wherever the server's output is printed, erasing the prompt erases the prompt and
\* nothing else (door.cpp:316-343).
THEOREM ErasedIsPrompt == Spec => []ErasesOnlyPrompt
  <1>1. Init => ScreenInv
    BY DEF Init, ScreenInv, TypingHasPrompt, PromptKnown
  <1>2. ScreenInv => ErasesOnlyPrompt
    BY DEF ScreenInv, PromptKnown, ErasesOnlyPrompt
  <1> QED BY <1>1, <1>2, TypeInit, TypeStep, AskInit, AskStep, ScreenStep, PTL DEF Spec

-----------------------------------------------------------------------------
(* The idle                                                                *)

\* Every timer began no earlier than the last key, but for the key of a pause, which
\* the prompt behind it does not know of.
TimersHold ==
    /\ lastKey.at <= now
    /\ lastKey.at <= timeout \/ lastKey.paused
    /\ pc = "pause" => lastKey.at <= pauseStart

IdleInv == TimersHold /\ OnlyTheIdleTimeOut

\* Ending the process changes the cause and nothing else of the goodbye.
LEMMA ExitCause ==
    ASSUME EndType, NEW cause \in Causes, exitDoor(cause)
    PROVE  goodbye'.cause = cause /\ pc' = "exit"
  BY DEF EndType, exitDoor

\* A key renews the timer, and whatever it ends is not for being idle.
LEMMA KeyIdle ==
    ASSUME TypeOK, goodbye.cause = "none", NEW k \in Keys, takeKey(k)
    PROVE  IdleInv'
  <1>1. now' = now /\ timeout' = now /\ lastKey' = [at |-> now, paused |-> FALSE]
    BY DEF takeKey
  <1>2. pc' # "pause" /\ goodbye'.cause # "inactive"
    <2>1. CASE LinesEndedBy(k) # {}
      <3>1. PICK line \in Lines : performIO(line)
        BY <2>1, LinesAreLines DEF takeKey
      <3>2. \/ pc' = "idle" /\ Stay
            \/ pc' = "gone" /\ Stay
            \/ exitDoor("user")
            \/ exitDoor("lockup")
        BY <3>1, Zenon DEF performIO, sendInput
      <3> QED BY <3>2, ExitCause DEF Stay, TypeOK, Causes
    <2>2. CASE LinesEndedBy(k) = {}
      BY <2>2 DEF takeKey, editLine, Stay
    <2> QED BY <2>1, <2>2
  <1>3. now \in Nat
    BY DEF TypeOK, TimeType
  <1> QED BY <1>1, <1>2, <1>3 DEF IdleInv, TimersHold, OnlyTheIdleTimeOut

LEMMA IdleStep == TypeOK /\ GoodbyeInv /\ IdleInv /\ [Next]_vars => IdleInv'
  <1> SUFFICES ASSUME TypeOK, GoodbyeInv, IdleInv, [Next]_vars PROVE IdleInv'
    OBVIOUS
  <1>0. /\ now \in Nat /\ timeout \in Nat /\ pauseStart \in Nat /\ lastKey.at \in Nat
        /\ sec_timeout \in Nat /\ EndType
        /\ lastKey \in [at: Nat, paused: BOOLEAN]
    BY DoorClientAssumption DEF TypeOK, TimeType, DoorClientAssumption
  <1>1. ASSUME pc \in {"idle", "drain", "typing", "pause"}
        PROVE  goodbye.cause = "none"
    BY <1>1 DEF GoodbyeInv, ExitHasCause
  <1>2. ASSUME UNCHANGED <<now, timeout, lastKey, goodbye>>,
               pc' = "pause" => lastKey.at <= pauseStart'
        PROVE  IdleInv'
    BY <1>2 DEF IdleInv, TimersHold, OnlyTheIdleTimeOut
  <1>3. ASSUME UNCHANGED <<now, timeout, lastKey>>, NEW cause \in Causes, exitDoor(cause),
               cause = "inactive" => now - lastKey.at >= sec_timeout \/ lastKey.paused
        PROVE  IdleInv'
    BY <1>0, <1>3, ExitCause DEF IdleInv, TimersHold, OnlyTheIdleTimeOut
  <1>4. CASE IdleTurn \/ TypingCheck
    <2>1. UNCHANGED <<now, timeout, lastKey>> /\ pc # "pause"
      BY <1>4 DEF IdleTurn, TypingCheck, inactiveCheck
    <2>2. \/ pc' # "pause" /\ goodbye' = goodbye
          \/ TimedOut(timeout) /\ exitDoor("inactive")
      BY <1>4 DEF IdleTurn, TypingCheck, Stay
    <2>3. CASE TimedOut(timeout) /\ exitDoor("inactive")
      <3>1. now - lastKey.at >= sec_timeout \/ lastKey.paused
        BY <1>0, <2>3 DEF TimedOut, IdleInv, TimersHold
      <3> QED BY <1>3, <2>1, <2>3, <3>1 DEF Causes
    <2> QED BY <1>2, <2>1, <2>2, <2>3
  <1>5. CASE PauseCheck
    <2>1. UNCHANGED <<now, timeout, lastKey, pauseStart>> /\ lastKey.at <= pauseStart
      BY <1>5 DEF PauseCheck, inactiveCheck, IdleInv, TimersHold
    <2>2. \/ goodbye' = goodbye
          \/ TimedOut(pauseStart) /\ exitDoor("inactive")
      BY <1>5 DEF PauseCheck, Stay
    <2>3. CASE TimedOut(pauseStart) /\ exitDoor("inactive")
      <3>1. now - lastKey.at >= sec_timeout
        BY <1>0, <2>1, <2>3 DEF TimedOut
      <3> QED BY <1>3, <2>1, <2>3, <3>1 DEF Causes
    <2> QED BY <1>2, <2>1, <2>2, <2>3
  <1>6. CASE GetOutput
    <2>1. UNCHANGED <<now, timeout, lastKey>>
      BY <1>6 DEF GetOutput
    <2>2. \/ exitDoor("order")
          \/ goodbye' = goodbye /\ (pc' = "pause" => pauseStart' = now)
      BY <1>6 DEF GetOutput, handleOutput, Stay
    <2> QED BY <1>2, <1>3, <2>1, <2>2 DEF IdleInv, TimersHold, Causes
  <1>7. CASE PauseKey
    BY <1>0, <1>1, <1>7 DEF PauseKey, Stay, IdleInv, TimersHold, OnlyTheIdleTimeOut
  <1>8. CASE DrainedKey
    <2>1. CASE key = "none"
      BY <1>2, <1>8, <2>1 DEF DrainedKey, Stay, timeVars
    <2>2. CASE key # "none"
      BY <1>1, <1>8, <2>2, KeyIdle DEF DrainedKey, TypeOK, InputType
    <2> QED BY <2>1, <2>2
  <1>9. CASE TypingTurn
    BY <1>1, <1>9, KeyIdle DEF TypingTurn, inputKey
  <1>10. CASE KitExit
    <2>1. UNCHANGED <<now, timeout, lastKey>>
      BY <1>10 DEF KitExit, timeVars
    <2> QED BY <1>3, <1>10, <2>1 DEF KitExit, Causes
  <1>11. CASE NodeMessage \/ CarrierLost
    <2>1. UNCHANGED <<now, timeout, lastKey>>
      BY <1>11 DEF NodeMessage, CarrierLost, timeVars
    <2>2. \/ exitDoor("order") \/ exitDoor("carrier")
          \/ pc = "idle" /\ pc' = pc /\ goodbye' = goodbye
      BY <1>11 DEF NodeMessage, CarrierLost, Stay
    <2> QED BY <1>2, <1>3, <2>1, <2>2 DEF Causes
  <1>12. CASE SendForceExit \/ SendFinished \/ CloseSlots
    <2>1. UNCHANGED <<now, timeout, lastKey>>
      BY <1>12 DEF SendForceExit, SendFinished, CloseSlots, timeVars
    <2>2. goodbye.cause # "none"
      BY <1>12 DEF SendForceExit, SendFinished, CloseSlots, GoodbyeInv, ExitHasCause
    <2>3. pc' \in {"force", "finished", "gone"} /\ goodbye'.cause = goodbye.cause
      BY <1>0, <1>12, <2>2
         DEF SendForceExit, SendFinished, CloseSlots, sendInput, Stay, EndType
    <2> QED BY <2>1, <2>3 DEF IdleInv, TimersHold, OnlyTheIdleTimeOut
  <1>13. CASE Drained \/ ServerSends
    <2>1. UNCHANGED <<now, timeout, lastKey, goodbye, pauseStart, pc>>
      BY <1>13 DEF Drained, ServerSends, timeVars, Stay
    <2> QED BY <1>2, <2>1 DEF IdleInv, TimersHold
  <1>14. CASE Tick
    BY <1>0, <1>1, <1>14 DEF Tick, IdleInv, TimersHold, OnlyTheIdleTimeOut
  <1>15. CASE UNCHANGED vars
    BY <1>2, <1>15 DEF vars, timeVars, IdleInv, TimersHold
  <1> QED BY <1>4, <1>5, <1>6, <1>7, <1>8, <1>9, <1>10, <1>11, <1>12, <1>13, <1>14, <1>15
          DEF Next

\* Nobody is thrown out as inactive who has pressed a key lately, unless it was the key of
\* a pause (door.cpp:297): true for both kits and any limits.
THEOREM OnlyIdleEnd == Spec => []OnlyTheIdleTimeOut
  <1>1. Init => IdleInv
    BY DEF Init, IdleInv, TimersHold, OnlyTheIdleTimeOut
  <1>2. IdleInv => OnlyTheIdleTimeOut
    BY DEF IdleInv
  <1> QED BY <1>1, <1>2, TypeInit, TypeStep, GoodbyeInit, GoodbyeStep, IdleStep, PTL DEF Spec
=============================================================================
