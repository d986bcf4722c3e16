-------------------------- MODULE GameServerProofs --------------------------
(***************************************************************************)
(* Proofs about GameServer, for any nodes, threads, tickers, lines and     *)
(* bounds.  The invariant IInv adds to the checked properties that the     *)
(* main thread holds a message whenever it acts on one, and that it takes  *)
(* the next message with no player in the game only if no ticker is left.  *)
(***************************************************************************)
EXTENDS GameServer, FiniteSetTheorems, SequenceTheorems, TLAPS

MessageHeld == mainPc \in {"want", "handle", "again", "check"} => curMsg \in Message

\* With no player left, a ticker may still be on its way out only while the
\* main thread is about to stop.
NoTickerWithoutPlayers ==
    nPlayersInGame = 0 =>
        \/ LiveTickers = {}
        \/ mainPc = "check" /\ curMsg.type = "IP_FINISHED"
        \/ mainPc \in {"done", "dead"}

IInv ==
    /\ TypeOK
    /\ MessageHeld
    /\ LockDiscipline
    /\ PlayersCounted
    /\ OneTicker
    /\ NoTickerWithoutPlayers
    /\ FlagBacked
    /\ StopsOnlyWhenEmpty

-----------------------------------------------------------------------------

\* Adding or removing one node changes the size of a set of nodes by one.
LEMMA CountOne ==
    ASSUME NEW S \in SUBSET Node, NEW n \in Node
    PROVE  /\ IsFiniteSet(S)
           /\ Cardinality(S) \in Nat
           /\ Cardinality(S) = 0 => S = {}
           /\ n \notin S => Cardinality(S \cup {n}) = Cardinality(S) + 1
           /\ n \in S => Cardinality(S \ {n}) = Cardinality(S) - 1 /\ Cardinality(S) > 0
<1>1. IsFiniteSet(S)
  BY FS_Subset, GameServerAssumption DEF GameServerAssumption
<1>2. Cardinality(S) \in Nat
  BY <1>1, FS_CardinalityType
<1>3. Cardinality(S) = 0 => S = {}
  BY <1>1, FS_EmptySet
<1>4. n \notin S => Cardinality(S \cup {n}) = Cardinality(S) + 1
  BY <1>1, FS_AddElement
<1>5. ASSUME n \in S
      PROVE  Cardinality(S \ {n}) = Cardinality(S) - 1 /\ Cardinality(S) > 0
  <2>1. Cardinality(S \ {n}) = Cardinality(S) - 1
    BY <1>1, <1>5, FS_RemoveElement
  <2>2. Cardinality(S) # 0
    BY <1>3, <1>5
  <2> QED
    BY <1>2, <2>1, <2>2
<1> QED
  BY <1>1, <1>2, <1>3, <1>4, <1>5

\* The initial state satisfies the invariant.
LEMMA InitIInv == Init => IInv
<1> SUFFICES ASSUME Init PROVE IInv
  OBVIOUS
<1>1. TypeOK
  BY GameServerAssumption DEF Init, TypeOK, IdleThread, ThreadState, Places
<1>2. LockDiscipline
  BY GameServerAssumption DEF Init, LockDiscipline, InCritical, IdleThread, GameServerAssumption
<1>3. PlayersCounted
  BY FS_EmptySet DEF Init, PlayersCounted
<1>4. OneTicker /\ NoTickerWithoutPlayers
  BY DEF Init, OneTicker, NoTickerWithoutPlayers, LiveTickers
<1> QED
  BY <1>1, <1>2, <1>3, <1>4 DEF Init, IInv, MessageHeld, FlagBacked, StopsOnlyWhenEmpty
-----------------------------------------------------------------------------
(* Type correctness, step by step                                          *)

\* print keeps the type of the output slots.
LEMMA PrintType ==
    ASSUME outQ \in [Node -> Seq(Outputs)], NEW N, NEW s \in Seq(Outputs), print(N, s)
    PROVE  outQ' \in [Node -> Seq(Outputs)]
<1>1. \A n \in Node : outQ[n] \o s \in Seq(Outputs)
  OBVIOUS
<1> QED
  BY <1>1 DEF print

\* launch keeps the type of the thread pool.
LEMMA LaunchType ==
    ASSUME thread \in [Thread -> ThreadState], NEW n \in Node, NEW what \in Places,
           launch(n, what)
    PROVE  thread' \in [Thread -> ThreadState]
<1>1. [pc |-> "start", node |-> n, at |-> what] \in ThreadState
  BY DEF ThreadState
<1> QED
  BY <1>1 DEF launch

\* launchLogin does too, whatever memory the new node gets.
LEMMA LaunchLoginType ==
    ASSUME thread \in [Thread -> ThreadState], NEW n \in Node, launchLogin(n)
    PROVE  thread' \in [Thread -> ThreadState]
<1>1. [pc |-> "start", node |-> n, at |-> "login"] \in ThreadState
  BY DEF ThreadState, Places
<1>2. \A u \in Thread : [thread[u] EXCEPT !.node = n] \in ThreadState
  BY DEF ThreadState
<1>3. PICK t \in Thread, R \in SUBSET Dangling :
        thread' = [u \in Thread |->
                     IF u = t THEN [pc |-> "start", node |-> n, at |-> "login"]
                     ELSE IF u \in R THEN [thread[u] EXCEPT !.node = n]
                     ELSE thread[u]]
  BY DEF launchLogin
<1> QED
  BY <1>1, <1>2, <1>3

\* Every step of the main thread keeps the types.
LEMMA TypeMain ==
    ASSUME TypeOK, MessageHeld, PlayersCounted, MainStep
    PROVE  TypeOK'
<1>0. USE DEF TypeOK, clientVars
<1>1. CASE MainReceive
  BY <1>1 DEF MainReceive
<1>2. CASE MainEnter
  BY <1>2 DEF MainEnter, enterCritical
<1>3. CASE MainCheck
  BY <1>3 DEF MainCheck
<1>4. CASE MainReturns
  BY <1>4 DEF MainReturns, ProcessDies, IdleThread, ThreadState, Places
<1>5. CASE HandleEnterOccupied
  <2>1. curMsg.from \in Node
    BY <1>5 DEF HandleEnterOccupied, Handling, MessageHeld, Message
  <2>2. outQ' \in [Node -> Seq(Outputs)]
    <3>1. <<"exit">> \in Seq(Outputs)
      BY DEF Outputs
    <3> QED
      BY <1>5, <3>1, PrintType DEF HandleEnterOccupied
  <2> QED
    BY <1>5, <2>2 DEF HandleEnterOccupied, Handled, leaveCritical
<1>6. CASE HandleEnter
  <2>1. curMsg.from \in Node
    BY <1>6 DEF HandleEnter, Handling, MessageHeld, Message
  <2>2. thread' \in [Thread -> ThreadState]
    <3>1. launchLogin(curMsg.from)
      BY <1>6 DEF HandleEnter
    <3> QED
      BY <2>1, <3>1, LaunchLoginType DEF TypeOK
  <2>3. ticker' \in [Ticker -> {"idle", "check", "want", "tick"}]
    BY <1>6 DEF HandleEnter
  <2>4. outQ' \in [Node -> Seq(Outputs)]
    <3>1. "exit" \in Outputs
      BY DEF Outputs
    <3>2. \A k \in Node : Append(outQ[k], "exit") \in Seq(Outputs)
      BY <3>1
    <3> QED
      BY <1>6, <3>2 DEF HandleEnter
  <2>5. mqInput' \in [Node -> Seq(Message)]
    <3>1. <<>> \in Seq(Message)
      OBVIOUS
    <3>2. mqInput' = [mqInput EXCEPT ![curMsg.from] = <<>>]
      BY <1>6 DEF HandleEnter
    <3> QED
      BY <3>1, <3>2
  <2> QED
    BY <1>6, <2>1, <2>2, <2>3, <2>4, <2>5 DEF HandleEnter, Handled, leaveCritical
<1>7. CASE HandleUnknown
  BY <1>7 DEF HandleUnknown, Handled, leaveCritical
<1>8. CASE HandleFinishedWait
  BY <1>8 DEF HandleFinishedWait, leaveCritical
<1>9. CASE HandleFinished
  <2>1. curMsg.from \in gNode
    BY <1>9 DEF HandleFinished
  <2>2. nPlayersInGame' \in Nat
    <3>1. nPlayersInGame > 0
      BY <2>1, CountOne DEF PlayersCounted
    <3> QED
      BY <1>9, <3>1 DEF HandleFinished
  <2>3. mqInput' \in [Node -> Seq(Message)]
    BY <1>9 DEF HandleFinished
  <2>4. thread' \in [Thread -> ThreadState]
    <3>1. \A t \in Thread : [thread[t] EXCEPT !.node = None] \in ThreadState
      BY DEF ThreadState
    <3> QED
      BY <1>9, <3>1 DEF HandleFinished
  <2> QED
    BY <1>9, <2>2, <2>3, <2>4 DEF HandleFinished, Handled, leaveCritical
<1>10. CASE HandleRoute
  <2>1. curMsg \in Message
    BY <1>10 DEF HandleRoute, MessageHeld
  <2> QED
    BY <1>10, <2>1 DEF HandleRoute, enqueue, Handled, leaveCritical
<1>11. CASE HandleCentral
  <2>1. thread' \in [Thread -> ThreadState]
    <3>1. curMsg.from \in Node
      BY <1>11 DEF HandleCentral
    <3>2. "exit" \in Places /\ "sysop" \in Places
      BY DEF Places
    <3>3. centralInput
      BY <1>11 DEF HandleCentral
    <3> QED
      BY <3>1, <3>2, <3>3, LaunchType DEF centralInput
  <2> QED
    BY <1>11, <2>1 DEF HandleCentral, Handled, leaveCritical
<1> QED
  BY <1>1, <1>2, <1>3, <1>4, <1>5, <1>6, <1>7, <1>8, <1>9, <1>10, <1>11 DEF MainStep
\* Every step of a round ticker keeps the types.
LEMMA TypeTicker ==
    ASSUME TypeOK, NEW k \in Ticker, TickerStep(k)
    PROVE  TypeOK'
<1> USE DEF TypeOK, clientVars
<1>1. CASE TickerCheck(k)
  BY <1>1 DEF TickerCheck
<1>2. CASE TickerEnter(k)
  BY <1>2 DEF TickerEnter, enterCritical
<1>3. CASE TickerRound(k)
  BY <1>3 DEF TickerRound, leaveCritical
<1> QED
  BY <1>1, <1>2, <1>3 DEF TickerStep

\* AwaitInput keeps the types of what it changes.
LEMMA AwaitType ==
    ASSUME TypeOK, NEW t \in Thread, NEW place \in Places, AwaitInput(t, place)
    PROVE  /\ thread' \in [Thread -> ThreadState]
           /\ outQ' \in [Node -> Seq(Outputs)]
           /\ lock' = None
<1>1. thread' = [thread EXCEPT ![t] = [thread[t] EXCEPT !.pc = "poll", !.at = place]]
  BY DEF AwaitInput, TypeOK
<1>2. [thread[t] EXCEPT !.pc = "poll", !.at = place] \in ThreadState
  BY DEF TypeOK, ThreadState
<1>3. <<"ask">> \in Seq(Outputs)
  BY DEF Outputs
<1>4. outQ' \in [Node -> Seq(Outputs)]
  BY <1>3, PrintType DEF AwaitInput, TypeOK
<1> QED
  BY <1>1, <1>2, <1>4 DEF AwaitInput, leaveCritical, TypeOK

\* EndThread keeps the types of what it changes.
LEMMA EndType ==
    ASSUME TypeOK, NEW t \in Thread, NEW s \in Seq(Outputs), EndThread(t, s)
    PROVE  /\ thread' \in [Thread -> ThreadState]
           /\ outQ' \in [Node -> Seq(Outputs)]
           /\ bHasThread' \subseteq Node
           /\ lock' = None
<1>1. IdleThread \in ThreadState
  BY DEF IdleThread, ThreadState, Places
<1>2. Append(s, "stat") \in Seq(Outputs)
  BY DEF Outputs
<1>3. outQ' \in [Node -> Seq(Outputs)]
  BY <1>2, PrintType DEF EndThread, TypeOK
<1> QED
  BY <1>1, <1>3 DEF EndThread, leaveCritical, TypeOK

\* What a thread does with its input is one of two things: it waits for more,
\* or it ends.
LEMMA ReactCases ==
    ASSUME NEW t \in Thread, NEW m, ThreadReact(t, m)
    PROVE  /\ \/ \E place \in Places : AwaitInput(t, place) /\ UNCHANGED bHasThread
              \/ EndThread(t, <<>>)
              \/ EndThread(t, <<"exit">>)
           /\ \/ UNCHANGED bInGame
              \/ bInGame' = bInGame \cup {thread[t].node}
              \/ bInGame' = bInGame \ {thread[t].node}
<1>1. {"pause", "field", "menu"} \subseteq Places
  BY DEF Places
<1> QED
  BY <1>1 DEF ThreadReact

\* Every step of a node thread keeps the types.
LEMMA TypeThread ==
    ASSUME TypeOK, NEW t \in Thread, ThreadStep(t)
    PROVE  TypeOK'
<1> USE DEF clientVars
<1>1. CASE ThreadEnter(t)
  <2>1. thread' \in [Thread -> ThreadState]
    <3>1. \A pc \in {"run", "resume"} : [thread[t] EXCEPT !.pc = pc] \in ThreadState
      BY DEF TypeOK, ThreadState
    <3> QED
      BY <1>1, <3>1 DEF ThreadEnter, TypeOK
  <2> QED
    BY <1>1, <2>1 DEF ThreadEnter, enterCritical, TypeOK
<1>2. CASE ThreadRun(t)
  <2>1. thread[t].node \in Node
    BY <1>2 DEF ThreadRun, TypeOK, ThreadState
  <2>2. PICK place \in Places : AwaitInput(t, place)
    <3>1. {"instructions", "pause", "confirm", "menu"} \subseteq Places
      BY DEF Places
    <3> QED
      BY <1>2, <3>1 DEF ThreadRun
  <2>3. bHasThread' \subseteq Node /\ bInGame' \subseteq Node
    BY <1>2, <2>1 DEF ThreadRun, TypeOK
  <2> QED
    BY <1>2, <2>2, <2>3, AwaitType DEF ThreadRun, TypeOK
<1>3. CASE ThreadPoll(t)
  <2>1. [thread[t] EXCEPT !.pc = "want"] \in ThreadState
    BY DEF TypeOK, ThreadState
  <2> QED
    BY <1>3, <2>1 DEF ThreadPoll, TypeOK
<1>4. CASE ThreadResume(t)
  <2>1. thread[t].node \in Node
    BY <1>4 DEF ThreadResume, TypeOK, ThreadState
  <2>2. PICK m \in Dequeued(t) : ThreadReact(t, m)
    BY <1>4 DEF ThreadResume
  <2>3. mqInput' \in [Node -> Seq(Message)]
    <3>1. \A q \in Seq(Message) : q # <<>> => Tail(q) \in Seq(Message)
      OBVIOUS
    <3>2. mqInput \in [Node -> Seq(Message)]
      BY DEF TypeOK
    <3> QED
      BY <1>4, <3>1, <3>2 DEF ThreadResume
  <2>4. bInGame' \subseteq Node
    BY <2>1, <2>2, ReactCases DEF TypeOK
  <2>5. /\ thread' \in [Thread -> ThreadState]
        /\ outQ' \in [Node -> Seq(Outputs)]
        /\ bHasThread' \subseteq Node
        /\ lock' = None
    <3>1. <<>> \in Seq(Outputs) /\ <<"exit">> \in Seq(Outputs)
      BY DEF Outputs
    <3>2. CASE \E place \in Places : AwaitInput(t, place) /\ UNCHANGED bHasThread
      BY <3>2, AwaitType DEF TypeOK
    <3>3. CASE EndThread(t, <<>>)
      BY <3>1, <3>3, EndType
    <3>4. CASE EndThread(t, <<"exit">>)
      BY <3>1, <3>4, EndType
    <3> QED
      BY <2>2, <3>2, <3>3, <3>4, ReactCases
  <2> QED
    BY <1>4, <2>3, <2>4, <2>5 DEF ThreadResume, TypeOK
<1>5. CASE ThreadDangling(t)
  <2>1. CASE ProcessDies
    BY <2>1 DEF ProcessDies, IdleThread, ThreadState, Places, TypeOK
  <2>2. CASE ~ProcessDies
    <3>1. IdleThread \in ThreadState
      BY DEF ThreadState, IdleThread, Places
    <3>2. \A pc \in {"poll", "want"} : [thread[t] EXCEPT !.pc = pc] \in ThreadState
      BY DEF TypeOK, ThreadState
    <3>3. thread' \in [Thread -> ThreadState]
      BY <1>5, <2>2, <3>1, <3>2 DEF ThreadDangling, TypeOK
    <3> QED
      BY <1>5, <2>2, <3>3 DEF ThreadDangling, leaveCritical, TypeOK
  <2> QED
    BY <2>1, <2>2
<1> QED
  BY <1>1, <1>2, <1>3, <1>4, <1>5 DEF ThreadStep

\* Every step of a door client keeps the types.
LEMMA TypeClient ==
    ASSUME TypeOK, NEW n \in Node, ClientStep(n)
    PROVE  TypeOK'
<1> USE DEF serverVars
<1>0. ASSUME NEW type \in MessageTypes, NEW text \in Line \cup {""},
             sendInput(Msg(n, type, text))
      PROVE  inputSlot' \in Seq(Message)
  <2>1. Msg(n, type, text) \in Message
    BY DEF Msg, Message
  <2>2. inputSlot \in Seq(Message)
    BY DEF TypeOK
  <2>3. \A q \in Seq(Message), m \in Message : Append(q, m) \in Seq(Message)
    BY AppendProperties
  <2> QED
    BY <1>0, <2>1, <2>2, <2>3 DEF sendInput
<1>m. {"IP_ENTER_GAME", "IP_NORMAL", "IP_FORCE_EXIT", "IP_FINISHED"} \subseteq MessageTypes
  BY DEF MessageTypes
<1>q. \A q : q = [outQ EXCEPT ![n] = <<>>] => q \in [Node -> Seq(Outputs)]
  <2>1. <<>> \in Seq(Outputs)
    OBVIOUS
  <2> QED
    BY <2>1 DEF TypeOK
<1>1. CASE ClientEnter(n)
  <2>1. inputSlot' \in Seq(Message)
    BY <1>1, <1>0, <1>m DEF ClientEnter
  <2>2. outQ' \in [Node -> Seq(Outputs)]
    BY <1>1, <1>q DEF ClientEnter
  <2>3. sessions' \in [Node -> Nat] /\ typed' \in [Node -> Nat]
    <3>1. sessions[n] + 1 \in Nat
      BY DEF TypeOK
    <3> QED
      BY <1>1, <3>1 DEF ClientEnter, TypeOK
  <2> QED
    BY <1>1, <2>1, <2>2, <2>3 DEF ClientEnter, TypeOK
<1>2. CASE ClientRead(n)
  <2>1. Head(outQ[n]) \in {"ask", "stat"} /\ Tail(outQ[n]) \in Seq(Outputs)
    BY <1>2 DEF ClientRead, TypeOK, Outputs
  <2>2. outQ' \in [Node -> Seq(Outputs)] /\ prompt' \in [Node -> {"none", "ask", "stat"}]
    BY <1>2, <2>1 DEF ClientRead, TypeOK
  <2> QED
    BY <1>2, <2>2 DEF ClientRead, TypeOK
<1>3. CASE ClientLeave(n)
  <2>1. inputSlot' \in Seq(Message)
    BY <1>3, <1>0, <1>m DEF ClientLeave
  <2> QED
    BY <1>3, <2>1 DEF ClientLeave, TypeOK
<1>4. CASE ClientFinish(n)
  <2>1. inputSlot' \in Seq(Message)
    BY <1>4, <1>0, <1>m DEF ClientFinish
  <2> QED
    BY <1>4, <1>q, <2>1 DEF ClientFinish, TypeOK
<1>5. CASE ClientCrash(n)
  BY <1>5, <1>q DEF ClientCrash, TypeOK
<1>6. CASE \E line \in Line : ClientType(n, line)
  <2>1. inputSlot' \in Seq(Message)
    BY <1>6, <1>0, <1>m DEF ClientType
  <2> QED
    BY <1>6, <2>1 DEF ClientType, TypeOK
<1> QED
  BY <1>1, <1>2, <1>3, <1>4, <1>5, <1>6 DEF ClientStep
-----------------------------------------------------------------------------
(* The parts of the invariant, step by step                                *)

\* The main thread leaves its polling loop with a message in hand.
LEMMA MessageHeldStep ==
    ASSUME TypeOK, MessageHeld, [Next]_vars
    PROVE  MessageHeld'
<1> USE DEF MessageHeld
<1>1. CASE MainReceive
  BY <1>1 DEF MainReceive, TypeOK
<1>2. CASE MainEnter
  BY <1>2 DEF MainEnter
<1>3. CASE MainCheck
  BY <1>3 DEF MainCheck
<1>4. CASE mainPc' = "dead"
  BY <1>4
<1>5. CASE mainPc = "handle" /\ curMsg' = curMsg
  BY <1>5
<1>6. CASE UNCHANGED <<mainPc, curMsg>>
  BY <1>6
<1>7. MainStep => \/ MainReceive \/ MainEnter \/ MainCheck \/ mainPc' = "dead"
                  \/ mainPc = "handle" /\ curMsg' = curMsg
  BY DEF MainStep, MainReturns, ProcessDies, HandleEnterOccupied, HandleEnter, HandleUnknown,
         HandleFinishedWait, HandleFinished, HandleRoute, HandleCentral, Handling
<1>8. ASSUME NEW k \in Ticker, TickerStep(k)
      PROVE  UNCHANGED <<mainPc, curMsg>>
  BY <1>8 DEF TickerStep, TickerCheck, TickerEnter, TickerRound
<1>9. ASSUME NEW t \in Thread, ThreadStep(t)
      PROVE  mainPc' = "dead" \/ UNCHANGED <<mainPc, curMsg>>
  BY <1>9 DEF ThreadStep, ThreadEnter, ThreadRun, ThreadPoll, ThreadResume, ThreadDangling,
              ProcessDies
<1>10. ASSUME NEW n \in Node, ClientStep(n)
       PROVE  UNCHANGED <<mainPc, curMsg>>
  BY <1>10 DEF ClientStep, ClientEnter, ClientRead, ClientLeave, ClientFinish, ClientCrash,
               ClientType, serverVars
<1>11. CASE UNCHANGED vars
  BY <1>11 DEF vars, serverVars
<1> QED
  BY <1>1, <1>2, <1>3, <1>4, <1>5, <1>6, <1>7, <1>8, <1>9, <1>10, <1>11 DEF Next

\* What a step of the main thread does to the node threads: it creates one, lets
\* the pointer of one dangle, or a dangling pointer gets a new node to point to.
LEMMA MainKeepsThreads ==
    ASSUME TypeOK, MainStep, ~ProcessDies, NEW t \in Thread
    PROVE  \/ thread'[t] = thread[t]
           \/ thread[t].pc = "idle" /\ thread'[t].pc = "start"
           \/ /\ HandleFinished
              /\ thread[t].node = curMsg.from
              /\ thread'[t] = [thread[t] EXCEPT !.node = None]
           \/ /\ thread[t].node = None
              /\ thread'[t] = [thread[t] EXCEPT !.node = curMsg.from]
<1>1. CASE HandleEnter
  <2>1. launchLogin(curMsg.from)
    BY <1>1 DEF HandleEnter
  <2> QED
    BY <2>1 DEF launchLogin, Dangling, TypeOK
<1>2. CASE HandleCentral
  <2>1. \/ launch(curMsg.from, "exit")
        \/ launch(curMsg.from, "sysop")
        \/ UNCHANGED thread
    BY <1>2 DEF HandleCentral, centralInput
  <2> QED
    BY <2>1 DEF launch, TypeOK
<1>3. CASE HandleFinished
  BY <1>3 DEF HandleFinished, TypeOK
<1> QED
  BY <1>1, <1>2, <1>3 DEF MainStep, MainReceive, MainEnter, MainCheck, MainReturns,
     HandleEnterOccupied, HandleUnknown, HandleFinishedWait, HandleRoute

\* What a step of the main thread does to the round tickers: the first player
\* starts one.
LEMMA MainKeepsTickers ==
    ASSUME TypeOK, MainStep, ~ProcessDies
    PROVE  \/ ticker' = ticker
           \/ /\ HandleEnter
              /\ nPlayersInGame = 0 /\ nPlayersInGame' = 1
              /\ \E k \in Ticker :
                    ticker[k] = "idle" /\ ticker' = [ticker EXCEPT ![k] = "check"]
<1>1. CASE HandleEnter
  BY <1>1 DEF HandleEnter, TypeOK
<1> QED
  BY <1>1 DEF MainStep, MainReceive, MainEnter, MainCheck, MainReturns,
     HandleEnterOccupied, HandleUnknown, HandleFinishedWait, HandleFinished, HandleRoute,
     HandleCentral

\* What a step of a node thread does to itself; it never touches another.
LEMMA ThreadMoves ==
    ASSUME TypeOK, NEW t \in Thread, ThreadStep(t), ~ProcessDies
    PROVE  /\ \A u \in Thread \ {t} : thread'[u] = thread[u]
           /\ UNCHANGED <<mainPc, curMsg, gNode, nPlayersInGame, ticker>>
           /\ \/ ThreadEnter(t)
              \/ ThreadPoll(t)
              \/ /\ thread[t].pc \in {"run", "resume"}
                 /\ lock' = None
                 /\ \/ /\ thread'[t].pc = "poll"
                       /\ thread'[t].node = thread[t].node
                       /\ bHasThread' \subseteq bHasThread \cup {thread[t].node}
                    \/ /\ thread'[t] = IdleThread
                       /\ bHasThread' = bHasThread \ {thread[t].node}
              \/ /\ thread[t].node = None
                 /\ thread[t].pc = "poll" /\ thread'[t].pc = "want"
                 /\ UNCHANGED <<lock, bHasThread>>
<1>1. CASE ThreadEnter(t)
  BY <1>1 DEF ThreadEnter, TypeOK
<1>2. CASE ThreadRun(t)
  BY <1>2 DEF ThreadRun, AwaitInput, leaveCritical, TypeOK, ThreadState
<1>3. CASE ThreadPoll(t)
  BY <1>3 DEF ThreadPoll, TypeOK
<1>4. CASE ThreadResume(t)
  <2>1. PICK m \in Dequeued(t) : ThreadReact(t, m)
    BY <1>4 DEF ThreadResume
  <2>2. CASE \E place \in Places : AwaitInput(t, place) /\ UNCHANGED bHasThread
    BY <1>4, <2>2 DEF ThreadResume, AwaitInput, leaveCritical, TypeOK, ThreadState
  <2>3. CASE EndThread(t, <<>>) \/ EndThread(t, <<"exit">>)
    BY <1>4, <2>3 DEF ThreadResume, EndThread, leaveCritical, TypeOK
  <2> QED
    BY <2>1, <2>2, <2>3, ReactCases
<1>5. CASE ThreadDangling(t)
  <2>1. bHasThread \ {None} = bHasThread
    BY GameServerAssumption DEF GameServerAssumption, TypeOK
  <2> QED
    BY <1>5, <2>1 DEF ThreadDangling, leaveCritical, IdleThread, TypeOK, ThreadState
<1> QED
  BY <1>1, <1>2, <1>3, <1>4, <1>5 DEF ThreadStep

\* The clients share no memory with the server.
LEMMA ClientKeepsServer ==
    ASSUME NEW n \in Node, ClientStep(n)
    PROVE  UNCHANGED serverVars
BY DEF ClientStep, ClientEnter, ClientRead, ClientLeave, ClientFinish, ClientCrash, ClientType

\* The kinds of steps, as far as the memory of the server is concerned.
LEMMA StepCases ==
    ASSUME [Next]_vars
    PROVE  \/ ProcessDies
           \/ MainStep /\ ~ProcessDies
           \/ \E k \in Ticker : TickerStep(k)
           \/ \E t \in Thread : ThreadStep(t) /\ ~ProcessDies
           \/ UNCHANGED serverVars
BY ClientKeepsServer DEF Next, vars

\* Entering: the lock was free, so nobody was in the critical section, and now
\* the one that entered is.  Leaving: the one that leaves was the owner.
LEMMA LockStep ==
    ASSUME TypeOK, LockDiscipline, [Next]_vars
    PROVE  LockDiscipline'
<1> USE GameServerAssumption DEF GameServerAssumption, LockDiscipline, InCritical
<1>1. CASE ProcessDies
  BY <1>1 DEF ProcessDies, IdleThread
<1>2. CASE MainStep /\ ~ProcessDies
  <2>1. ASSUME NEW t \in Thread
        PROVE  thread'[t].pc \in {"run", "resume"} <=> thread[t].pc \in {"run", "resume"}
    <3>1. \A n : [thread[t] EXCEPT !.node = n].pc = thread[t].pc
      BY DEF TypeOK, ThreadState
    <3> QED
      BY <1>2, <3>1, MainKeepsThreads
  <2>2. \A k \in Ticker : ticker'[k] = "tick" <=> ticker[k] = "tick"
    BY <1>2, MainKeepsTickers DEF TypeOK
  <2>3. \/ /\ mainPc # "handle" /\ mainPc' = "handle" /\ lock = None /\ lock' = Main
        \/ /\ mainPc = "handle" /\ mainPc' # "handle" /\ lock' = None
        \/ /\ mainPc # "handle" /\ mainPc' # "handle" /\ lock' = lock
    BY <1>2 DEF MainStep, MainReceive, MainEnter, MainCheck, MainReturns, HandleEnterOccupied,
       HandleEnter, HandleUnknown, HandleFinishedWait, HandleFinished, HandleRoute, HandleCentral,
       Handling, Handled, enterCritical, leaveCritical
  <2> QED
    BY <2>1, <2>2, <2>3
<1>3. ASSUME NEW k \in Ticker, TickerStep(k)
      PROVE  LockDiscipline'
  <2>1. CASE TickerCheck(k)
    BY <2>1 DEF TickerCheck, TypeOK
  <2>2. CASE TickerEnter(k)
    BY <2>2 DEF TickerEnter, enterCritical, TypeOK
  <2>3. CASE TickerRound(k)
    BY <2>3 DEF TickerRound, leaveCritical, TypeOK
  <2> QED
    BY <1>3, <2>1, <2>2, <2>3 DEF TickerStep
<1>4. ASSUME NEW t \in Thread, ThreadStep(t), ~ProcessDies
      PROVE  LockDiscipline'
  <2>1. \A u \in Thread \ {t} : thread'[u] = thread[u]
    BY <1>4, ThreadMoves
  <2>2. UNCHANGED <<mainPc, ticker>>
    BY <1>4, ThreadMoves
  <2>3. CASE ThreadEnter(t)
    BY <2>1, <2>2, <2>3 DEF ThreadEnter, enterCritical, TypeOK
  <2>4. CASE ThreadPoll(t)
    BY <2>1, <2>2, <2>4 DEF ThreadPoll, TypeOK
  <2>5. CASE /\ thread[t].pc \in {"run", "resume"}
             /\ lock' = None
             /\ thread'[t].pc \in {"poll", "idle"}
    BY <2>1, <2>2, <2>5
  <2>6. CASE /\ thread[t].pc = "poll" /\ thread'[t].pc = "want"
             /\ UNCHANGED lock
    BY <2>1, <2>2, <2>6
  <2> QED
    BY <1>4, <2>3, <2>4, <2>5, <2>6, ThreadMoves DEF IdleThread
<1>5. CASE UNCHANGED serverVars
  BY <1>5 DEF serverVars
<1> QED
  BY <1>1, <1>2, <1>3, <1>4, <1>5, StepCases

\* Nodes come and go one at a time, each time with the counter.
LEMMA CountStep ==
    ASSUME TypeOK, MessageHeld, PlayersCounted, [Next]_vars
    PROVE  PlayersCounted'
<1>1. CASE HandleEnter
  <2>1. curMsg.from \in Node
    BY <1>1 DEF HandleEnter, Handling, MessageHeld, Message
  <2> QED
    BY <1>1, <2>1, CountOne DEF HandleEnter, PlayersCounted, TypeOK
<1>2. CASE HandleFinished
  <2>1. curMsg.from \in gNode /\ curMsg.from \in Node
    BY <1>2 DEF HandleFinished, TypeOK
  <2> QED
    BY <1>2, <2>1, CountOne DEF HandleFinished, PlayersCounted, TypeOK
<1>3. CASE ProcessDies
  BY <1>3, FS_EmptySet DEF ProcessDies, PlayersCounted
<1>4. CASE UNCHANGED <<gNode, nPlayersInGame>>
  BY <1>4 DEF PlayersCounted
<1>5. MainStep /\ ~ProcessDies => \/ HandleEnter
                                  \/ HandleFinished
                                  \/ UNCHANGED <<gNode, nPlayersInGame>>
  BY DEF MainStep, MainReceive, MainEnter, MainCheck, MainReturns, HandleEnterOccupied,
     HandleUnknown, HandleFinishedWait, HandleRoute, HandleCentral
<1>6. ASSUME NEW k \in Ticker, TickerStep(k)
      PROVE  UNCHANGED <<gNode, nPlayersInGame>>
  BY <1>6 DEF TickerStep, TickerCheck, TickerEnter, TickerRound
<1>7. ASSUME NEW t \in Thread, ThreadStep(t), ~ProcessDies
      PROVE  UNCHANGED <<gNode, nPlayersInGame>>
  BY <1>7, ThreadMoves
<1> QED
  BY <1>1, <1>2, <1>3, <1>4, <1>5, <1>6, <1>7, StepCases DEF serverVars

\* A ticker is created only by the first player, when none is left; it ends only
\* when it reads a count of zero.
LEMMA TickerStepInv ==
    ASSUME TypeOK, MessageHeld, OneTicker, NoTickerWithoutPlayers, [Next]_vars
    PROVE  OneTicker' /\ NoTickerWithoutPlayers'
<1> USE DEF OneTicker, NoTickerWithoutPlayers, LiveTickers
<1>1. CASE ProcessDies
  BY <1>1 DEF ProcessDies
<1>2. CASE MainStep /\ ~ProcessDies
  <2>1. CASE HandleEnter
    <3>1. nPlayersInGame' = nPlayersInGame + 1 /\ mainPc = "handle"
      BY <2>1 DEF HandleEnter, Handling
    <3>2. CASE nPlayersInGame = 0
      <4>1. LiveTickers = {}
        BY <3>1, <3>2
      <4>2. PICK k \in Ticker : ticker' = [ticker EXCEPT ![k] = "check"]
        BY <2>1, <3>1, <3>2 DEF HandleEnter
      <4>3. LiveTickers' = {k}
        BY <4>1, <4>2 DEF TypeOK
      <4> QED
        BY <3>1, <3>2, <4>3
    <3>3. CASE nPlayersInGame # 0
      <4>1. UNCHANGED ticker
        BY <2>1, <3>1, <3>3 DEF HandleEnter, TypeOK
      <4> QED
        BY <3>1, <3>3, <4>1 DEF TypeOK
    <3> QED
      BY <3>2, <3>3
  <2>2. CASE HandleFinished
    <3>1. UNCHANGED <<ticker, curMsg>> /\ nPlayersInGame' = nPlayersInGame - 1
          /\ curMsg.type = "IP_FINISHED" /\ mainPc' = "check"
      BY <2>2 DEF HandleFinished, Handling, Handled
    <3>2. nPlayersInGame' > 0 => nPlayersInGame > 0
      BY <3>1 DEF TypeOK
    <3> QED
      BY <3>1, <3>2
  <2>3. CASE UNCHANGED <<ticker, nPlayersInGame>> /\ ~HandleFinished /\ ~HandleEnter
    <3>1. CASE mainPc = "check"
      BY <1>2, <2>3, <3>1 DEF MainStep, MainReceive, MainEnter, MainCheck, MainReturns,
         HandleEnterOccupied, HandleUnknown, HandleFinishedWait, HandleRoute, HandleCentral, Handling
    <3>2. CASE mainPc # "check"
      BY <1>2, <2>3, <3>2 DEF MainStep, MainReceive, MainEnter, MainCheck, MainReturns,
         HandleEnterOccupied, HandleUnknown, HandleFinishedWait, HandleRoute, HandleCentral, Handling
    <3> QED
      BY <3>1, <3>2
  <2> QED
    BY <1>2, <2>1, <2>2, <2>3 DEF MainStep, MainReceive, MainEnter, MainCheck, MainReturns,
       HandleEnterOccupied, HandleUnknown, HandleFinishedWait, HandleRoute, HandleCentral
<1>3. ASSUME NEW k \in Ticker, TickerStep(k)
      PROVE  OneTicker' /\ NoTickerWithoutPlayers'
  <2>1. UNCHANGED <<nPlayersInGame, mainPc, curMsg>>
    BY <1>3 DEF TickerStep, TickerCheck, TickerEnter, TickerRound
  <2>2. CASE TickerCheck(k) /\ nPlayersInGame = 0
    <3>1. LiveTickers' \subseteq LiveTickers
      BY <2>2 DEF TickerCheck, TypeOK
    <3> QED
      BY <2>1, <2>2, <3>1
  <2>3. CASE ~(TickerCheck(k) /\ nPlayersInGame = 0)
    <3>1. LiveTickers' = LiveTickers
      BY <1>3, <2>3 DEF TickerStep, TickerCheck, TickerEnter, TickerRound, TypeOK
    <3> QED
      BY <2>1, <3>1
  <2> QED
    BY <2>2, <2>3
<1>4. ASSUME NEW t \in Thread, ThreadStep(t), ~ProcessDies
      PROVE  OneTicker' /\ NoTickerWithoutPlayers'
  BY <1>4, ThreadMoves
<1>5. CASE UNCHANGED serverVars
  BY <1>5 DEF serverVars
<1> QED
  BY <1>1, <1>2, <1>3, <1>4, <1>5, StepCases

\* A flag is set by a thread that then waits for input, and cleared by any
\* thread of the node that ends.
LEMMA FlagStep ==
    ASSUME TypeOK, FlagBacked, [Next]_vars
    PROVE  FlagBacked'
<1> DEFINE Backs(t, n) == thread[t].node = n /\ thread[t].pc \in {"poll", "want", "resume"}
<1>1. CASE ProcessDies
  BY <1>1 DEF ProcessDies, FlagBacked
<1>2. CASE MainStep /\ ~ProcessDies
  <2>1. bHasThread' \subseteq bHasThread
    BY <1>2 DEF MainStep, MainReceive, MainEnter, MainCheck, MainReturns, HandleEnterOccupied,
       HandleEnter, HandleUnknown, HandleFinishedWait, HandleFinished, HandleRoute, HandleCentral
  <2>2. HandleFinished => curMsg.from \notin bHasThread
    BY DEF HandleFinished
  <2>3. ASSUME NEW n \in bHasThread, NEW t \in Thread, Backs(t, n)
        PROVE  Backs(t, n)'
    <3>0. n \in Node /\ None \notin Node
      BY <2>3, GameServerAssumption DEF GameServerAssumption, TypeOK
    <3>1. CASE thread'[t] = thread[t]
      BY <2>3, <3>1
    <3>2. CASE thread'[t] # thread[t]
      BY <1>2, <2>2, <2>3, <3>0, <3>2, MainKeepsThreads
    <3> QED
      BY <3>1, <3>2
  <2> QED
    BY <2>1, <2>3 DEF FlagBacked
<1>3. ASSUME NEW k \in Ticker, TickerStep(k)
      PROVE  FlagBacked'
  BY <1>3 DEF FlagBacked, TickerStep, TickerCheck, TickerEnter, TickerRound
<1>4. ASSUME NEW t \in Thread, ThreadStep(t), ~ProcessDies
      PROVE  FlagBacked'
  <2>1. \A u \in Thread \ {t} : thread'[u] = thread[u]
    BY <1>4, ThreadMoves
  <2>2. CASE ThreadEnter(t)
    <3>1. UNCHANGED bHasThread
      BY <2>2 DEF ThreadEnter
    <3>2. thread[t].pc \in {"start", "want"}
      BY <2>2 DEF ThreadEnter
    <3>3. thread'[t].node = thread[t].node /\ (thread[t].pc = "want" => thread'[t].pc = "resume")
      BY <2>2 DEF ThreadEnter, TypeOK, ThreadState
    <3>4. ASSUME NEW n \in bHasThread, NEW u \in Thread, Backs(u, n)
          PROVE  Backs(u, n)'
      BY <2>1, <3>2, <3>3, <3>4
    <3> QED
      BY <3>1, <3>4 DEF FlagBacked
  <2>3. CASE ThreadPoll(t)
    BY <2>1, <2>3 DEF ThreadPoll, FlagBacked, TypeOK
  <2>4. CASE /\ thread'[t].pc = "poll"
             /\ thread'[t].node = thread[t].node
             /\ bHasThread' \subseteq bHasThread \cup {thread[t].node}
    BY <2>1, <2>4 DEF FlagBacked
  <2>5. CASE bHasThread' = bHasThread \ {thread[t].node}
    BY <2>1, <2>5 DEF FlagBacked
  <2>6. CASE thread[t].node = None /\ UNCHANGED bHasThread
    <3>1. None \notin bHasThread
      BY GameServerAssumption DEF GameServerAssumption, TypeOK
    <3> QED
      BY <2>1, <2>6, <3>1 DEF FlagBacked
  <2> QED
    BY <1>4, <2>2, <2>3, <2>4, <2>5, <2>6, ThreadMoves
<1>5. CASE UNCHANGED serverVars
  BY <1>5 DEF serverVars, FlagBacked
<1> QED
  BY <1>1, <1>2, <1>3, <1>4, <1>5, StepCases

\* The main thread decides to stop on a count of zero, and nodes come and go
\* only while it handles a message.
LEMMA StopStep ==
    ASSUME TypeOK, PlayersCounted, StopsOnlyWhenEmpty, [Next]_vars
    PROVE  StopsOnlyWhenEmpty'
<1>1. nPlayersInGame = 0 => gNode = {}
  BY CountOne, FS_EmptySet, FS_Subset, GameServerAssumption DEF PlayersCounted, TypeOK, GameServerAssumption
<1>2. CASE MainStep /\ ~ProcessDies
  BY <1>1, <1>2 DEF MainStep, MainReceive, MainEnter, MainCheck, MainReturns, HandleEnterOccupied,
     HandleEnter, HandleUnknown, HandleFinishedWait, HandleFinished, HandleRoute, HandleCentral,
     Handling, Handled, StopsOnlyWhenEmpty
<1>3. CASE ProcessDies
  BY <1>3 DEF ProcessDies, StopsOnlyWhenEmpty
<1>4. ASSUME NEW k \in Ticker, TickerStep(k)
      PROVE  UNCHANGED <<gNode, mainPc>>
  BY <1>4 DEF TickerStep, TickerCheck, TickerEnter, TickerRound
<1>5. ASSUME NEW t \in Thread, ThreadStep(t), ~ProcessDies
      PROVE  UNCHANGED <<gNode, mainPc>>
  BY <1>5, ThreadMoves
<1> QED
  BY <1>2, <1>3, <1>4, <1>5, StepCases DEF serverVars, StopsOnlyWhenEmpty

-----------------------------------------------------------------------------
(* Theorems                                                                *)

\* IInv is inductive: it holds after a step of any process when it held before.
THEOREM InvariantInductive == IInv /\ [Next]_vars => IInv'
<1> SUFFICES ASSUME IInv, [Next]_vars PROVE IInv'
  OBVIOUS
<1>1. TypeOK'
  <2>1. CASE UNCHANGED vars
    BY <2>1 DEF IInv, TypeOK, vars, serverVars, clientVars
  <2> QED
    BY <2>1, TypeMain, TypeTicker, TypeThread, TypeClient DEF IInv, Next
<1> QED
  BY <1>1, MessageHeldStep, LockStep, CountStep, TickerStepInv, FlagStep, StopStep DEF IInv

\* The invariant holds in every reachable state, for any number of nodes,
\* threads, sessions and lines.
THEOREM ServerInvariant == Spec => []IInv
<1>1. Init => IInv
  BY InitIInv
<1>2. IInv /\ [Next]_vars => IInv'
  BY InvariantInductive
<1> QED
  BY <1>1, <1>2, PTL DEF Spec

\* The state of the server is well typed, however the threads interleave.
THEOREM TypeCorrect == Spec => []TypeOK
BY ServerInvariant, PTL DEF IInv

\* csCritical is owned by the thread that is in its critical section: mutual
\* exclusion, and balanced calls of enterCritical and leaveCritical.
THEOREM MutualExclusion == Spec => []LockDiscipline
BY ServerInvariant, PTL DEF IInv

\* nPlayersInGame is always the number of nodes.
THEOREM CountCorrect == Spec => []PlayersCounted
BY ServerInvariant, PTL DEF IInv

\* While players are in the game exactly one round ticker runs.
THEOREM TickerCorrect == Spec => []OneTicker
BY ServerInvariant, PTL DEF IInv

\* Input routed to a node's thread, and the wait for it, always has a thread.
THEOREM FlagCorrect == Spec => []FlagBacked
BY ServerInvariant, PTL DEF IInv

\* The server never stops while a node exists.
THEOREM StopCorrect == Spec => []StopsOnlyWhenEmpty
BY ServerInvariant, PTL DEF IInv

-----------------------------------------------------------------------------
(* Refinement: the server implements Lobby                                 *)

\* A process that is gone has no nodes.
DeadIsEmpty == mainPc = "dead" => gNode = {}

\* Only the main thread changes the nodes and its own place, or the process dies.
LEMMA OthersKeepNodes ==
    ASSUME TypeOK, [Next]_vars, ~MainStep, ~ProcessDies
    PROVE  UNCHANGED <<gNode, mainPc>>
<1>1. ASSUME NEW k \in Ticker, TickerStep(k)
      PROVE  UNCHANGED <<gNode, mainPc>>
  BY <1>1 DEF TickerStep, TickerCheck, TickerEnter, TickerRound
<1>2. ASSUME NEW t \in Thread, ThreadStep(t)
      PROVE  UNCHANGED <<gNode, mainPc>>
  BY <1>2, ThreadMoves
<1> QED
  BY <1>1, <1>2, StepCases DEF serverVars

LEMMA DeadStep ==
    ASSUME TypeOK, DeadIsEmpty, [Next]_vars
    PROVE  DeadIsEmpty'
<1>1. CASE ProcessDies
  BY <1>1 DEF ProcessDies, DeadIsEmpty
<1>2. CASE MainStep /\ ~ProcessDies
  BY <1>2 DEF MainStep, MainReceive, MainEnter, MainCheck, MainReturns, HandleEnterOccupied,
     HandleEnter, HandleUnknown, HandleFinishedWait, HandleFinished, HandleRoute, HandleCentral,
     Handling, Handled, DeadIsEmpty
<1>3. CASE ~MainStep /\ ~ProcessDies
  BY <1>3, OthersKeepNodes DEF DeadIsEmpty
<1> QED
  BY <1>1, <1>2, <1>3

\* Every step of the server is a step of the host, or none.
LEMMA LobbyStep ==
    ASSUME IInv, DeadIsEmpty, [Next]_vars
    PROVE  [TheLobby!Next]_TheLobby!vars
<1>0. TypeOK
  BY DEF IInv
<1>00. MessageHeld
  BY DEF IInv
<1>. USE DEF TheLobby!vars
<1>1. CASE ProcessDies
  <2>1. CASE mainPc = "dead"
    BY <1>1, <2>1 DEF ProcessDies, DeadIsEmpty
  <2>2. CASE mainPc # "dead"
    <3>1. TheLobby!Die
      BY <1>1, <2>2, GameServerAssumption DEF ProcessDies, TheLobby!Die, GameServerAssumption
    <3> QED
      BY <3>1 DEF TheLobby!Next
  <2> QED
    BY <2>1, <2>2
<1>2. CASE HandleEnter
  <2>1. TheLobby!Sit(curMsg.from)
    BY <1>2 DEF HandleEnter, Handling, Handled, TheLobby!Sit
  <2>2. curMsg.from \in Node
    BY <1>00, <1>2 DEF HandleEnter, Handling, MessageHeld, Message
  <2> QED
    BY <2>1, <2>2 DEF TheLobby!Next
<1>3. CASE HandleFinished
  <2>1. TheLobby!Rise(curMsg.from)
    BY <1>3 DEF HandleFinished, Handling, Handled, TheLobby!Rise
  <2>2. curMsg.from \in Node
    BY <1>0, <1>3 DEF HandleFinished, TypeOK
  <2> QED
    BY <2>1, <2>2 DEF TheLobby!Next
<1>4. CASE MainCheck
  <2>1. nPlayersInGame = 0 => gNode = {}
    BY CountOne, FS_EmptySet, FS_Subset, GameServerAssumption
       DEF IInv, PlayersCounted, TypeOK, GameServerAssumption
  <2>2. CASE mainPc' = "done"
    <3>1. TheLobby!BeginToClose
      BY <1>4, <2>1, <2>2 DEF MainCheck, TheLobby!BeginToClose
    <3> QED
      BY <3>1 DEF TheLobby!Next
  <2>3. CASE mainPc' = "poll"
    BY <1>4, <2>3 DEF MainCheck
  <2> QED
    BY <1>4, <2>2, <2>3 DEF MainCheck
<1>5. CASE \/ MainReceive \/ MainEnter \/ HandleEnterOccupied \/ HandleUnknown
           \/ HandleFinishedWait \/ HandleRoute \/ HandleCentral
  BY <1>5 DEF MainReceive, MainEnter, HandleEnterOccupied, HandleUnknown, HandleFinishedWait,
     HandleRoute, HandleCentral, Handling, Handled
<1>6. CASE ~MainStep /\ ~ProcessDies
  BY <1>0, <1>6, OthersKeepNodes
<1> QED
  BY <1>1, <1>2, <1>3, <1>4, <1>5, <1>6 DEF MainStep, MainReturns

\* The threaded server, with its lock, its tickers and its dangling pointers, is to the
\* nodes a host as Lobby describes it: nodes are taken in and let go one by one, and it
\* begins to close only with the last of them gone.
THEOREM ServerImplementsLobby == Spec => ImplementsLobby
<1>1. Init => TheLobby!Init /\ DeadIsEmpty
  BY GameServerAssumption DEF Init, TheLobby!Init, DeadIsEmpty, GameServerAssumption
<1>2. IInv /\ DeadIsEmpty /\ [Next]_vars => DeadIsEmpty'
  BY DeadStep DEF IInv
<1>3. IInv /\ DeadIsEmpty /\ [Next]_vars => [TheLobby!Next]_TheLobby!vars
  BY LobbyStep
<1> QED
  BY <1>1, <1>2, <1>3, ServerInvariant, PTL DEF Spec, ImplementsLobby, TheLobby!Spec
=============================================================================
