----------------------------- MODULE GameServer -----------------------------
(***************************************************************************)
(* The multi-threaded door server of source/intrnode: the main thread that *)
(* reads the input slot, the round ticker, the threads that own a node's   *)
(* input for a while (login, exit prompt, sysop menu), the one critical    *)
(* section they share, and the door clients at the other end of the slots. *)
(*                                                                         *)
(* Everything done between enterCritical() and leaveCritical() is one      *)
(* step, taken by the thread that acquired the lock in a step before it;   *)
(* polls of a queue, reads of nPlayersInGame outside the lock and sends of *)
(* the clients interleave freely with it.                                  *)
(***************************************************************************)
EXTENDS Naturals, Sequences, FiniteSets

CONSTANTS
    Node,         \* node numbers 0 .. MAX_NODE-1
    Thread,       \* pool of identities of the node threads that can exist
    Ticker,       \* pool of identities of the round-ticker threads
    Main,         \* the thread that runs GameServer::run
    None,         \* no thread, no node
    Line,         \* the lines a user may type
    Sysops,       \* the nodes whose user has sysop access
    Alias,        \* the user name that logs in on a node
    SlotCap,      \* capacity of the input slot (MQ_MAX_MSGS)
    MaxSessions,  \* bound: how often a node's client is started
    MaxLines      \* bound: lines typed in one run of a client

ASSUME GameServerAssumption ==
    /\ Main \notin Thread \cup Ticker
    /\ None \notin Thread \cup Ticker \cup {Main} \cup Node
    /\ Thread \cap Ticker = {}
    /\ Sysops \subseteq Node
    /\ IsFiniteSet(Node)
    /\ SlotCap \in Nat \ {0}

VARIABLES
    lock,          \* owner of csCritical
    inputSlot,     \* the server's message queue
    mainPc,        \* where the main thread is
    curMsg,        \* idMessage of the main thread
    gNode,         \* the nodes whose gNode[] entry is not null
    nPlayersInGame,
    bInGame,       \* the nodes flagged as being in the game
    bHasThread,    \* the nodes flagged as having a thread
    mqInput,       \* per node: input waiting for the node's thread
    linked,        \* the nodes whose hOutputSlot is the queue their client reads
    thread,        \* per node thread: its pc, its node, what it waits for
    ticker,        \* per round ticker: its pc
    client,        \* per node: state of the door process
    prompt,        \* per node: the prompt the client shows
    outQ,          \* per node: prompts and exit orders in the output slot
    sessions,      \* per node: how often its client was started
    typed          \* per node: lines typed in this run of the client

serverVars == <<lock, mainPc, curMsg, gNode, nPlayersInGame, bInGame,
                bHasThread, mqInput, thread, ticker>>
clientVars == <<client, prompt, sessions, typed>>
vars == <<serverVars, clientVars, inputSlot, linked, outQ>>

MessageTypes == {"IP_ENTER_GAME", "IP_NORMAL", "IP_FORCE_EXIT", "IP_FINISHED"}

Message == [from: Node, type: MessageTypes, text: Line \cup {""}]

Msg(n, type, text) == [from |-> n, type |-> type, text |-> text]

\* What a thread is about to run, or which getStr/getKey it waits in.
Places == {"login", "instructions", "pause", "exit", "confirm",
           "sysop", "menu", "field", "none"}

IdleThread == [pc |-> "idle", node |-> None, at |-> "none"]

ThreadState ==
    [pc: {"idle", "start", "run", "poll", "want", "resume"},
     node: Node \cup {None}, at: Places]

Outputs == {"ask", "stat", "exit"}

TypeOK ==
    /\ lock \in {None, Main} \cup Thread \cup Ticker
    /\ inputSlot \in Seq(Message)
    /\ mainPc \in {"poll", "want", "handle", "again", "check", "done", "dead"}
    /\ curMsg \in Message \cup {None}
    /\ gNode \subseteq Node
    /\ nPlayersInGame \in Nat
    /\ bInGame \subseteq Node
    /\ bHasThread \subseteq Node
    /\ mqInput \in [Node -> Seq(Message)]
    /\ linked \subseteq Node
    /\ thread \in [Thread -> ThreadState]
    /\ ticker \in [Ticker -> {"idle", "check", "want", "tick"}]
    /\ client \in [Node -> {"off", "on", "leaving"}]
    /\ prompt \in [Node -> {"none", "ask", "stat"}]
    /\ outQ \in [Node -> Seq(Outputs)]
    /\ sessions \in [Node -> Nat]
    /\ typed \in [Node -> Nat]

Init ==
    /\ lock = None
    /\ inputSlot = <<>>
    /\ mainPc = "poll"
    /\ curMsg = None
    /\ gNode = {}
    /\ nPlayersInGame = 0
    /\ bInGame = {}
    /\ bHasThread = {}
    /\ mqInput = [n \in Node |-> <<>>]
    /\ linked = {}
    /\ thread = [t \in Thread |-> IdleThread]
    /\ ticker = [k \in Ticker |-> "idle"]
    /\ client = [n \in Node |-> "off"]
    /\ prompt = [n \in Node |-> "none"]
    /\ outQ = [n \in Node |-> <<>>]
    /\ sessions = [n \in Node |-> 0]
    /\ typed = [n \in Node |-> 0]

-----------------------------------------------------------------------------
(* Helpers                                                                 *)

enterCritical(p) == lock = None /\ lock' = p
leaveCritical == lock' = None

\* GameNode::print of the messages s, in order, on the nodes of N: they reach
\* the queue behind hOutputSlot, which a client that was restarted or that is
\* gone no longer reads.  Only prompts and exit orders are kept.
print(N, s) == outQ' = [n \in Node |-> IF n \in N \cap linked THEN outQ[n] \o s
                                                              ELSE outQ[n]]

\* GameThread::launch: the flag test, then a detached thread that has still
\* to reach handleThread's enterCritical().
launch(n, what) ==
    IF n \notin bHasThread
    THEN \E t \in Thread :
            /\ thread[t].pc = "idle"
            /\ thread' = [thread EXCEPT ![t] = [pc |-> "start", node |-> n, at |-> what]]
    ELSE UNCHANGED thread

-----------------------------------------------------------------------------
(* The main thread: GameServer::run and handleInput                        *)

MainReceive ==
    /\ mainPc = "poll"
    /\ inputSlot # <<>>
    /\ curMsg' = Head(inputSlot)
    /\ inputSlot' = Tail(inputSlot)
    /\ mainPc' = "want"
    /\ UNCHANGED <<lock, gNode, nPlayersInGame, bInGame, bHasThread, mqInput,
                   linked, thread, ticker, clientVars, outQ>>

\* Also the re-acquisition at the end of one turn of the IP_FINISHED wait.
MainEnter ==
    /\ mainPc \in {"want", "again"}
    /\ enterCritical(Main)
    /\ mainPc' = "handle"
    /\ UNCHANGED <<inputSlot, curMsg, gNode, nPlayersInGame, bInGame, bHasThread,
                   mqInput, linked, thread, ticker, clientVars, outQ>>

Handling(type) == mainPc = "handle" /\ curMsg.type = type
Handled == mainPc' = "check" /\ leaveCritical

\* The node is taken: the new client is told so through the old node's slot.
HandleEnterOccupied ==
    /\ Handling("IP_ENTER_GAME")
    /\ curMsg.from \in gNode
    /\ print({curMsg.from}, <<"exit">>)
    /\ Handled
    /\ UNCHANGED <<inputSlot, curMsg, gNode, nPlayersInGame, bInGame, bHasThread,
                   mqInput, linked, thread, ticker, clientVars>>

Twins(n) == {k \in gNode \ {n} : Alias[k] = Alias[n]}

Dangling == {t \in Thread : thread[t].pc # "idle" /\ thread[t].node = None}

\* The login thread of a new node, which has no thread yet.  The new Player may
\* get the memory of a deleted one, and with it threads that still point there.
launchLogin(n) ==
    \E t \in Thread, R \in SUBSET Dangling :
        /\ thread[t].pc = "idle"
        /\ thread' = [u \in Thread |->
                        IF u = t THEN [pc |-> "start", node |-> n, at |-> "login"]
                        ELSE IF u \in R THEN [thread[u] EXCEPT !.node = n]
                        ELSE thread[u]]

\* The node is created and its login thread launched; the first player starts
\* the round ticker; a user already on another node is thrown off both.
HandleEnter ==
    LET n == curMsg.from IN
    /\ Handling("IP_ENTER_GAME")
    /\ n \notin gNode
    /\ nPlayersInGame' = nPlayersInGame + 1
    /\ gNode' = gNode \cup {n}
    /\ bInGame' = bInGame \ {n}
    /\ bHasThread' = bHasThread \ {n}
    /\ mqInput' = [mqInput EXCEPT ![n] = <<>>]
    /\ linked' = IF client[n] = "off" THEN linked \ {n} ELSE linked \cup {n}
    /\ launchLogin(n)
    /\ IF nPlayersInGame' = 1
       THEN \E k \in Ticker : ticker[k] = "idle" /\ ticker' = [ticker EXCEPT ![k] = "check"]
       ELSE UNCHANGED ticker
    /\ outQ' = [k \in Node |->
                  IF Twins(n) # {} /\ k \in (Twins(n) \cup {n}) \cap linked'
                  THEN Append(outQ[k], "exit") ELSE outQ[k]]
    /\ Handled
    /\ UNCHANGED <<inputSlot, curMsg, clientVars>>

\* Mutant of HandleUnknown: the count goes down although no node is deleted.
HandleUnknownCounted ==
    /\ mainPc = "handle"
    /\ curMsg.type # "IP_ENTER_GAME"
    /\ curMsg.from \notin gNode
    /\ nPlayersInGame' = IF curMsg.type = "IP_FINISHED" THEN nPlayersInGame - 1
                                                       ELSE nPlayersInGame
    /\ Handled
    /\ UNCHANGED <<inputSlot, curMsg, gNode, bInGame, bHasThread, mqInput, linked,
                   thread, ticker, clientVars, outQ>>

HandleUnknown ==
    /\ mainPc = "handle"
    /\ curMsg.type # "IP_ENTER_GAME"
    /\ curMsg.from \notin gNode
    /\ Handled
    /\ UNCHANGED <<inputSlot, curMsg, gNode, nPlayersInGame, bInGame, bHasThread,
                   mqInput, linked, thread, ticker, clientVars, outQ>>

\* Mutant of HandleFinishedWait: the main thread sleeps with the lock.
HandleFinishedWaitLocked ==
    /\ Handling("IP_FINISHED")
    /\ curMsg.from \in gNode \cap bHasThread
    /\ UNCHANGED vars

\* One turn of the wait for the node's thread: the lock is given up, the main
\* thread sleeps 200 ms and comes back for the lock.
HandleFinishedWait ==
    /\ Handling("IP_FINISHED")
    /\ curMsg.from \in gNode \cap bHasThread
    /\ leaveCritical
    /\ mainPc' = "again"
    /\ UNCHANGED <<inputSlot, curMsg, gNode, nPlayersInGame, bInGame, bHasThread,
                   mqInput, linked, thread, ticker, clientVars, outQ>>

\* The node is deleted; a thread that still holds a pointer to it (gn) is left
\* with a dangling one, written node |-> None.
HandleFinished ==
    LET n == curMsg.from IN
    /\ Handling("IP_FINISHED")
    /\ n \in gNode \ bHasThread
    /\ gNode' = gNode \ {n}
    /\ linked' = linked \ {n}
    /\ bInGame' = bInGame \ {n}
    /\ mqInput' = [mqInput EXCEPT ![n] = <<>>]
    /\ nPlayersInGame' = nPlayersInGame - 1
    /\ thread' = [t \in Thread |-> IF thread[t].node = n THEN [thread[t] EXCEPT !.node = None]
                                                         ELSE thread[t]]
    /\ Handled
    /\ UNCHANGED <<inputSlot, curMsg, bHasThread, ticker, clientVars, outQ>>

enqueue(n, m) == mqInput' = [mqInput EXCEPT ![n] = Append(@, m)]

\* IP_NORMAL or IP_FORCE_EXIT for a node with a thread.
HandleRoute ==
    /\ mainPc = "handle"
    /\ curMsg.type \in {"IP_NORMAL", "IP_FORCE_EXIT"}
    /\ curMsg.from \in gNode \cap bHasThread
    /\ enqueue(curMsg.from, curMsg)
    /\ Handled
    /\ UNCHANGED <<inputSlot, curMsg, gNode, nPlayersInGame, bInGame, bHasThread,
                   linked, thread, ticker, clientVars, outQ>>

\* The same for a node without one: TriviaServer::centralInput ignores all but
\* IP_NORMAL.  Of its commands only those that launch a thread matter here.
centralInput ==
    LET n == curMsg.from IN
    IF curMsg.type # "IP_NORMAL" THEN UNCHANGED thread
    ELSE IF curMsg.text = "exit" THEN launch(n, "exit")
    ELSE IF curMsg.text = "sysop" /\ n \in Sysops THEN launch(n, "sysop")
    ELSE UNCHANGED thread

HandleCentral ==
    /\ mainPc = "handle"
    /\ curMsg.type \in {"IP_NORMAL", "IP_FORCE_EXIT"}
    /\ curMsg.from \in gNode \ bHasThread
    /\ centralInput
    /\ Handled
    /\ UNCHANGED <<inputSlot, curMsg, gNode, nPlayersInGame, bInGame, bHasThread,
                   mqInput, linked, ticker, clientVars, outQ>>

\* Mutant of MainCheck: it looks for players in the game, not for nodes.
MainCheckInGame ==
    /\ mainPc = "check"
    /\ mainPc' = IF curMsg.type = "IP_FINISHED" /\ bInGame = {} THEN "done" ELSE "poll"
    /\ curMsg' = None
    /\ UNCHANGED <<lock, inputSlot, gNode, nPlayersInGame, bInGame, bHasThread,
                   mqInput, linked, thread, ticker, clientVars, outQ>>

\* Outside the lock: the server stops after an IP_FINISHED that leaves no player.
MainCheck ==
    /\ mainPc = "check"
    /\ mainPc' = IF curMsg.type = "IP_FINISHED" /\ nPlayersInGame = 0 THEN "done" ELSE "poll"
    /\ curMsg' = None
    /\ UNCHANGED <<lock, inputSlot, gNode, nPlayersInGame, bInGame, bHasThread,
                   mqInput, linked, thread, ticker, clientVars, outQ>>

\* The process is gone with every thread in it: main() returned, or a thread
\* died on a node that was deleted.
ProcessDies ==
    /\ mainPc' = "dead"
    /\ lock' = None
    /\ curMsg' = None
    /\ gNode' = {}
    /\ nPlayersInGame' = 0
    /\ bInGame' = {}
    /\ bHasThread' = {}
    /\ mqInput' = [n \in Node |-> <<>>]
    /\ linked' = {}
    /\ thread' = [t \in Thread |-> IdleThread]
    /\ ticker' = [k \in Ticker |-> "idle"]
    /\ UNCHANGED <<clientVars, inputSlot, outQ>>

MainReturns == mainPc = "done" /\ ProcessDies

-----------------------------------------------------------------------------
(* The round ticker: startRoundThread                                      *)

\* Mutant of TickerCheck: the ticker ends while its only player is logging in.
TickerCheckInGame(k) ==
    /\ ticker[k] = "check"
    /\ ticker' = [ticker EXCEPT ![k] = IF bInGame # {} THEN "want" ELSE "idle"]
    /\ UNCHANGED <<lock, mainPc, curMsg, gNode, nPlayersInGame, bInGame, bHasThread,
                   mqInput, thread, inputSlot, linked, clientVars, outQ>>

\* nPlayersInGame is read without the lock; then a second of sleep.
TickerCheck(k) ==
    /\ ticker[k] = "check"
    /\ ticker' = [ticker EXCEPT ![k] = IF nPlayersInGame > 0 THEN "want" ELSE "idle"]
    /\ UNCHANGED <<lock, mainPc, curMsg, gNode, nPlayersInGame, bInGame, bHasThread,
                   mqInput, thread, inputSlot, linked, clientVars, outQ>>

TickerEnter(k) ==
    /\ ticker[k] = "want"
    /\ enterCritical(k)
    /\ ticker' = [ticker EXCEPT ![k] = "tick"]
    /\ UNCHANGED <<mainPc, curMsg, gNode, nPlayersInGame, bInGame, bHasThread,
                   mqInput, thread, inputSlot, linked, clientVars, outQ>>

\* doorRound changes the state of the round, not the state modelled here.
TickerRound(k) ==
    /\ ticker[k] = "tick"
    /\ leaveCritical
    /\ ticker' = [ticker EXCEPT ![k] = "check"]
    /\ UNCHANGED <<mainPc, curMsg, gNode, nPlayersInGame, bInGame, bHasThread,
                   mqInput, thread, inputSlot, linked, clientVars, outQ>>

-----------------------------------------------------------------------------
(* The node threads: handleThread, getStr, getKey and the run methods      *)

ThreadEnter(t) ==
    /\ thread[t].pc \in {"start", "want"}
    /\ enterCritical(t)
    /\ thread' = [thread EXCEPT ![t].pc = IF @ = "start" THEN "run" ELSE "resume"]
    /\ UNCHANGED <<mainPc, curMsg, gNode, nPlayersInGame, bInGame, bHasThread,
                   mqInput, ticker, inputSlot, linked, clientVars, outQ>>

\* getStr/getKey: show the prompt, give up the lock, poll the node's queue.
AwaitInput(t, place) ==
    /\ thread' = [thread EXCEPT ![t].pc = "poll", ![t].at = place]
    /\ print({thread[t].node}, <<"ask">>)
    /\ leaveCritical

\* Mutant of ThreadRun: a login that never asks whether its node still exists.
ThreadRunUnchecked(t) ==
    LET n == thread[t].node IN
    /\ thread[t].pc = "run"
    /\ bHasThread' = bHasThread \cup {n}
    /\ AwaitInput(t, "pause")
    /\ UNCHANGED <<mainPc, curMsg, gNode, nPlayersInGame, bInGame, mqInput, ticker,
                   inputSlot, linked, clientVars>>

\* Only now is the node flagged; then run() up to its first prompt.
ThreadRun(t) ==
    LET n == thread[t].node IN
    /\ thread[t].pc = "run"
    /\ n # None
    /\ bHasThread' = bHasThread \cup {n}
    /\ \/ /\ thread[t].at = "login"
          /\ \E place \in {"instructions", "pause"} : AwaitInput(t, place)
          /\ UNCHANGED bInGame
       \/ /\ thread[t].at = "exit"
          /\ AwaitInput(t, "confirm")
          /\ UNCHANGED bInGame
       \/ /\ thread[t].at = "sysop"
          /\ AwaitInput(t, "menu")
          /\ bInGame' = bInGame \ {n}
    /\ UNCHANGED <<mainPc, curMsg, gNode, nPlayersInGame, mqInput, ticker,
                   inputSlot, linked, clientVars>>

\* Mutant of ThreadPoll: the wait is for typed lines only.
ThreadPollLines(t) ==
    /\ thread[t].pc = "poll"
    /\ thread[t].node # None
    /\ mqInput[thread[t].node] # <<>>
    /\ Head(mqInput[thread[t].node]).type = "IP_NORMAL"
    /\ thread' = [thread EXCEPT ![t].pc = "want"]
    /\ UNCHANGED <<lock, mainPc, curMsg, gNode, nPlayersInGame, bInGame, bHasThread,
                   mqInput, ticker, inputSlot, linked, clientVars, outQ>>

\* mqInput.isEmpty() is polled without the lock.
ThreadPoll(t) ==
    /\ thread[t].pc = "poll"
    /\ thread[t].node # None
    /\ mqInput[thread[t].node] # <<>>
    /\ thread' = [thread EXCEPT ![t].pc = "want"]
    /\ UNCHANGED <<lock, mainPc, curMsg, gNode, nPlayersInGame, bInGame, bHasThread,
                   mqInput, ticker, inputSlot, linked, clientVars, outQ>>

\* Mutants of EndThread: the critical section, or the node's flag, is kept.
EndThreadLocked(t, s) ==
    /\ thread' = [thread EXCEPT ![t] = IdleThread]
    /\ bHasThread' = bHasThread \ {thread[t].node}
    /\ print({thread[t].node}, Append(s, "stat"))
    /\ UNCHANGED lock

EndThreadFlagged(t, s) ==
    /\ thread' = [thread EXCEPT ![t] = IdleThread]
    /\ print({thread[t].node}, Append(s, "stat"))
    /\ leaveCritical
    /\ UNCHANGED bHasThread

\* run() returned or ThreadException was caught: cleanup() restores the status
\* prompt after the messages s, the flag is cleared, the lock given up.
EndThread(t, s) ==
    /\ thread' = [thread EXCEPT ![t] = IdleThread]
    /\ bHasThread' = bHasThread \ {thread[t].node}
    /\ print({thread[t].node}, Append(s, "stat"))
    /\ leaveCritical

\* The input a getStr or getKey of thread t returns: the first of the queue,
\* or an InputData no constructor filled in when the queue turns out empty.
Dequeued(t) ==
    IF mqInput[thread[t].node] # <<>> THEN {Head(mqInput[thread[t].node])}
    ELSE {Msg(thread[t].node, type, text) :
            type \in {"IP_NORMAL", "IP_FORCE_EXIT"}, text \in Line \cup {""}}

\* What the run method does with the input m, up to its next prompt or its end.
ThreadReact(t, m) ==
    LET n  == thread[t].node
        at == thread[t].at
    IN
    \/ /\ m.type = "IP_FORCE_EXIT"
       /\ EndThread(t, <<>>)
       /\ UNCHANGED bInGame
    \/ /\ m.type # "IP_FORCE_EXIT"
       /\ \/ /\ at = "instructions" /\ m.text = "y"
             /\ AwaitInput(t, "pause")
             /\ UNCHANGED <<bInGame, bHasThread>>
          \/ /\ at = "pause" \/ (at = "instructions" /\ m.text # "y")
             /\ EndThread(t, <<>>)
             /\ bInGame' = bInGame \cup {n}
          \/ /\ at = "confirm" /\ m.text = "y"
             /\ EndThread(t, <<"exit">>)
             /\ bInGame' = bInGame \ {n}
          \/ /\ at = "confirm" /\ m.text # "y"
             /\ EndThread(t, <<>>)
             /\ UNCHANGED bInGame
          \/ /\ at = "menu" /\ m.text = "f"
             /\ AwaitInput(t, "field")
             /\ UNCHANGED <<bInGame, bHasThread>>
          \/ /\ at = "field" \/ (at = "menu" /\ m.text = "sysop")
             /\ AwaitInput(t, "menu")
             /\ UNCHANGED <<bInGame, bHasThread>>
          \/ /\ at = "menu" /\ m.text \notin {"f", "sysop"}
             /\ EndThread(t, <<>>)
             /\ bInGame' = bInGame \cup {n}

ThreadResume(t) ==
    LET n == thread[t].node IN
    /\ thread[t].pc = "resume"
    /\ n # None
    /\ \E m \in Dequeued(t) : ThreadReact(t, m)
    /\ mqInput' = [mqInput EXCEPT ![n] = IF @ = <<>> THEN @ ELSE Tail(@)]
    /\ UNCHANGED <<mainPc, curMsg, gNode, nPlayersInGame, ticker, inputSlot,
                   linked, clientVars>>

\* The thread's node was deleted under it and it uses the dangling pointer: the
\* process dies of it, or the freed memory still looks like a node, in which
\* case the thread waits, finds input or ends, to no effect on a live node.
ThreadDangling(t) ==
    /\ thread[t].node = None
    /\ \/ /\ thread[t].pc \in {"run", "poll", "resume"}
          /\ ProcessDies
       \/ /\ \/ /\ thread[t].pc \in {"run", "resume"}
                /\ \/ thread' = [thread EXCEPT ![t] = IdleThread]
                   \/ thread' = [thread EXCEPT ![t].pc = "poll"]
                /\ leaveCritical
             \/ /\ thread[t].pc = "poll"
                /\ thread' = [thread EXCEPT ![t].pc = "want"]
                /\ UNCHANGED lock
          /\ UNCHANGED <<mainPc, curMsg, gNode, nPlayersInGame, bInGame, bHasThread,
                         mqInput, ticker, inputSlot, linked, clientVars, outQ>>

-----------------------------------------------------------------------------
(* The door clients: main, performIO, handleOutput and beforeExit          *)

\* sendToSlot: a message that finds the slot full until the retries are used
\* up is dropped.
sendInput(m) == inputSlot' = IF Len(inputSlot) < SlotCap THEN Append(inputSlot, m)
                                                         ELSE inputSlot

\* The client opens the input slot while the server is up, creates its own
\* output slot afresh and asks to enter.
ClientEnter(n) ==
    /\ client[n] = "off"
    /\ mainPc \notin {"done", "dead"}
    /\ sessions[n] < MaxSessions
    /\ sessions' = [sessions EXCEPT ![n] = @ + 1]
    /\ client' = [client EXCEPT ![n] = "on"]
    /\ prompt' = [prompt EXCEPT ![n] = "none"]
    /\ typed' = [typed EXCEPT ![n] = 0]
    /\ linked' = linked \ {n}
    /\ outQ' = [outQ EXCEPT ![n] = <<>>]
    /\ sendInput(Msg(n, "IP_ENTER_GAME", ""))
    /\ UNCHANGED serverVars

\* A key is only accepted while a valid prompt is on screen.  A question is
\* invalidated by its answer; at the status prompt lines can be typed ahead.
ClientType(n, line) ==
    /\ client[n] = "on"
    /\ prompt[n] # "none"
    /\ typed[n] < MaxLines
    /\ typed' = [typed EXCEPT ![n] = @ + 1]
    /\ sendInput(Msg(n, "IP_NORMAL", line))
    /\ prompt' = [prompt EXCEPT ![n] = IF @ = "ask" THEN "none" ELSE @]
    /\ UNCHANGED <<serverVars, client, sessions, linked, outQ>>

ClientRead(n) ==
    /\ client[n] = "on"
    /\ outQ[n] # <<>>
    /\ Head(outQ[n]) # "exit"
    /\ prompt' = [prompt EXCEPT ![n] = Head(outQ[n])]
    /\ outQ' = [outQ EXCEPT ![n] = Tail(@)]
    /\ UNCHANGED <<serverVars, client, sessions, typed, inputSlot, linked>>

\* beforeExit, on an exit order, a hang-up, a timeout or the user's =x: first
\* IP_FORCE_EXIT ...
ClientLeave(n) ==
    /\ client[n] = "on"
    /\ client' = [client EXCEPT ![n] = "leaving"]
    /\ sendInput(Msg(n, "IP_FORCE_EXIT", ""))
    /\ UNCHANGED <<serverVars, prompt, sessions, typed, linked, outQ>>

\* ... then IP_FINISHED, and the output slot is removed.
ClientFinish(n) ==
    /\ client[n] = "leaving"
    /\ client' = [client EXCEPT ![n] = "off"]
    /\ sendInput(Msg(n, "IP_FINISHED", ""))
    /\ linked' = linked \ {n}
    /\ outQ' = [outQ EXCEPT ![n] = <<>>]
    /\ UNCHANGED <<serverVars, prompt, sessions, typed>>

\* The door process is killed: beforeExit does not run.
ClientCrash(n) ==
    /\ client[n] # "off"
    /\ client' = [client EXCEPT ![n] = "off"]
    /\ linked' = linked \ {n}
    /\ outQ' = [outQ EXCEPT ![n] = <<>>]
    /\ UNCHANGED <<serverVars, prompt, sessions, typed, inputSlot>>

-----------------------------------------------------------------------------

MainStep ==
    \/ MainReceive \/ MainEnter \/ MainCheck \/ MainReturns
    \/ HandleEnterOccupied \/ HandleEnter \/ HandleUnknown
    \/ HandleFinishedWait \/ HandleFinished \/ HandleRoute \/ HandleCentral

TickerStep(k) == TickerCheck(k) \/ TickerEnter(k) \/ TickerRound(k)

ThreadStep(t) ==
    ThreadEnter(t) \/ ThreadRun(t) \/ ThreadPoll(t) \/ ThreadResume(t) \/ ThreadDangling(t)

ClientStep(n) ==
    \/ ClientEnter(n) \/ ClientRead(n) \/ ClientLeave(n) \/ ClientFinish(n) \/ ClientCrash(n)
    \/ \E line \in Line : ClientType(n, line)

Next ==
    \/ MainStep
    \/ \E k \in Ticker : TickerStep(k)
    \/ \E t \in Thread : ThreadStep(t)
    \/ \E n \in Node : ClientStep(n)

Spec == Init /\ [][Next]_vars

\* Every server thread keeps running, and a thread that asks for the critical
\* section again and again while others sleep between their turns gets it.
Fairness ==
    /\ WF_vars(MainStep) /\ SF_vars(MainEnter)
    /\ \A k \in Ticker : WF_vars(TickerStep(k)) /\ SF_vars(TickerEnter(k))
    /\ \A t \in Thread : WF_vars(ThreadStep(t)) /\ SF_vars(ThreadEnter(t))

FairSpec == Spec /\ Fairness
-----------------------------------------------------------------------------
(* Properties                                                              *)

InCritical(p) ==
    \/ p = Main /\ mainPc = "handle"
    \/ p \in Thread /\ thread[p].pc \in {"run", "resume"}
    \/ p \in Ticker /\ ticker[p] = "tick"

\* A thread is between its enterCritical and its leaveCritical exactly while it
\* owns csCritical: no two are in there together, none unlocks a mutex it does
\* not own, and none goes away with the mutex locked (getStr, getKey and a
\* ThreadException cross the boundary in the middle of handleThread's bracket).
LockDiscipline ==
    \A p \in {Main} \cup Thread \cup Ticker : InCritical(p) <=> lock = p

\* nPlayersInGame, which decides when the server stops, whether the ticker goes
\* on, and how a question scores, is the number of nodes that exist.
PlayersCounted == nPlayersInGame = Cardinality(gNode)

LiveTickers == {k \in Ticker : ticker[k] # "idle"}

\* The ticker thread ends on its own, at an unlocked read of nPlayersInGame, and
\* is started when the count becomes 1: nevertheless players never share two
\* tickers (rounds would go at double speed) and are never left without one.
OneTicker ==
    /\ \A j, k \in LiveTickers : j = k
    /\ nPlayersInGame > 0 => LiveTickers # {}

\* A node flagged bHasThread has a thread that will come back for its input:
\* what handleInput routes to mqInput has a reader, and the wait of IP_FINISHED
\* waits for somebody.
FlagBacked ==
    \A n \in bHasThread : \E t \in Thread :
        thread[t].node = n /\ thread[t].pc \in {"poll", "want", "resume"}

\* run() returns only when the last player has left ("Returns when last player
\* exits game"): no node is cut off by the unlink of the input slot.
StopsOnlyWhenEmpty == mainPc = "done" => gNode = {}

\* A hang-up ends the node's thread: once the IP_FORCE_EXIT of beforeExit is in
\* the queue of a thread that is waiting for input (a node with one thread), the
\* flag is cleared whatever input was queued before it.
HasForceExit(n) == \E i \in DOMAIN mqInput[n] : mqInput[n][i].type = "IP_FORCE_EXIT"
HangUpEndsThread ==
    \A n \in Node : (n \in bHasThread /\ HasForceExit(n)) ~> (n \notin bHasThread)

\* The round goes on for as long as somebody plays, also while the main thread
\* waits for a node's thread: it never starves behind the critical section.
RoundsGoOn ==
    nPlayersInGame > 0 ~> (nPlayersInGame = 0 \/ \E k \in Ticker : ticker[k] = "tick")

\* gamesrv.cpp:220 "If the node has a thread, wait until the thread is
\* terminated": no thread outlives its node.
NoThreadOutlivesNode == \A t \in Thread : thread[t].pc # "idle" => thread[t].node # None

-----------------------------------------------------------------------------
(* What the server promises: Lobby                                         *)

\* The server is the host until its process is gone; its nodes are the seats.
TheLobby == INSTANCE Lobby WITH
    Host <- {Main},
    host <- IF mainPc = "dead" THEN None ELSE Main,
    phase <- IF mainPc = "dead" THEN "none" ELSE IF mainPc = "done" THEN "closing" ELSE "open",
    seats <- gNode

\* Whatever its threads do in between, to the nodes the server is a host that takes
\* them in and lets them go, and leaves the loop of run() only with the last of them
\* gone, after which nobody is taken in any more (gamesrv.cpp:147-158).
ImplementsLobby == TheLobby!Spec
=============================================================================
