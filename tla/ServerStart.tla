----------------------------- MODULE ServerStart -----------------------------
(***************************************************************************)
(* How door clients and door servers find each other.  A client spawns a   *)
(* server and opens the input slot by its name; a server stays only if it  *)
(* gets the lock file, and the last player to leave makes it unlink the    *)
(* name, save and release the lock.  A process may be killed at any point: *)
(* its locks go, the names of its slots stay.                              *)
(*                                                                         *)
(* A queue lives as long as somebody has it open, whatever its name leads  *)
(* to, so a queue is named here after the process that created it.  What a *)
(* server does for its players is in GameServer; here IP_FORCE_EXIT is left*)
(* out, every node has a user name of its own, and the slots are not full. *)
(***************************************************************************)
EXTENDS Naturals, Sequences

CONSTANTS
    Client,       \* door processes, each started once
    Server,       \* server processes that can be spawned
    Node,         \* node numbers
    NodeOf,       \* the node a client runs on
    None,         \* no process
    SpawnTries,   \* attempts to start the server (5)
    OpenTries,    \* attempts to open its slot again (5)
    MaxKills      \* bound: processes killed

ASSUME ServerStartAssumption ==
    /\ NodeOf \in [Client -> Node]
    /\ None \notin Client \cup Server
    /\ SpawnTries \in Nat \ {0}
    /\ OpenTries \in Nat

VARIABLES
    srv,          \* per server: where it is
    lockOwner,    \* who holds flock on trivsrv.lock
    inputName,    \* the server whose queue the input slot's name leads to
    inQ,          \* per server: messages in its input slot
    gNode,        \* per server and node: nobody, or the reader of hOutputSlot
    client,       \* per client: where it is
    tries,        \* per client: nTries
    hInputSlot,   \* per client: the server whose queue it writes to
    outputName,   \* per node: the client whose queue the output slot's name leads to
    exitOrder,    \* the clients with an exit order in their queue
    turnedAway,   \* per node: how often IP_ENTER_GAME found the node occupied
    kills,        \* processes killed
    silent        \* per node: clients that were in the game and ended without a goodbye

serverVars == <<srv, lockOwner, gNode, exitOrder, turnedAway>>
clientVars == <<client, tries, hInputSlot, outputName>>
vars == <<serverVars, clientVars, inputName, inQ, kills, silent>>

Message == [from: Client, type: {"IP_ENTER_GAME", "IP_FINISHED"}]

\* An entry of gNode: null, or the queue hOutputSlot leads to (None: it failed
\* to open).
Free == [reader |-> None, null |-> TRUE]
Occupied(c) == [reader |-> c, null |-> FALSE]
Entries == {Free} \cup {Occupied(c) : c \in Client \cup {None}}

TypeOK ==
    /\ srv \in [Server -> {"none", "start", "locked", "up", "last", "saving", "gone"}]
    /\ lockOwner \in Server \cup {None}
    /\ inputName \in Server \cup {None}
    /\ inQ \in [Server -> Seq(Message)]
    /\ gNode \in [Server -> [Node -> Entries]]
    /\ client \in [Client -> {"off", "spawn", "open", "create", "retry", "enter",
                              "in", "leaving", "gone"}]
    /\ tries \in [Client -> (0 .. SpawnTries - 1) \cup (0 .. OpenTries)]
    /\ hInputSlot \in [Client -> Server \cup {None}]
    /\ outputName \in [Node -> Client \cup {None}]
    /\ exitOrder \subseteq Client
    /\ turnedAway \in [Node -> Nat]
    /\ kills \in Nat
    /\ silent \in [Node -> Nat]

Init ==
    /\ srv = [s \in Server |-> "none"]
    /\ lockOwner = None
    /\ inputName = None
    /\ inQ = [s \in Server |-> <<>>]
    /\ gNode = [s \in Server |-> [n \in Node |-> Free]]
    /\ client = [c \in Client |-> "off"]
    /\ tries = [c \in Client |-> 0]
    /\ hInputSlot = [c \in Client |-> None]
    /\ outputName = [n \in Node |-> None]
    /\ exitOrder = {}
    /\ turnedAway = [n \in Node |-> 0]
    /\ kills = 0
    /\ silent = [n \in Node |-> 0]

\* What opening a name for writing may give.  A queue whose reader has ended opens, and
\* keeps what is sent; the socket that stands in for it on macOS does not.
mq_open(name, ended) == IF ended THEN {name, None} ELSE {name}

EndedServers == {s \in Server : srv[s] = "gone"}
EndedClients == {c \in Client : client[c] = "gone"}

MoveServer(s, from, to) == srv[s] = from /\ srv' = [srv EXCEPT ![s] = to]
MoveClient(c, from, to) == client[c] = from /\ client' = [client EXCEPT ![c] = to]

-----------------------------------------------------------------------------
(* The server: createSlot, run, the end of main                            *)

\* Mutant of Lock: the server without the lock unlinks the slot's name on its way out.
LockOrUnlink(s) ==
    /\ \/ /\ lockOwner = None
          /\ MoveServer(s, "start", "locked")
          /\ lockOwner' = s
          /\ UNCHANGED inputName
       \/ /\ lockOwner # None
          /\ MoveServer(s, "start", "gone")
          /\ inputName' = None
          /\ UNCHANGED lockOwner
    /\ UNCHANGED <<gNode, exitOrder, turnedAway, clientVars, inQ, kills, silent>>

\* Mutant of Lock: the result of flock is not looked at.
LockUnchecked(s) ==
    /\ MoveServer(s, "start", "locked")
    /\ lockOwner' = s
    /\ UNCHANGED <<gNode, exitOrder, turnedAway, clientVars, inputName, inQ, kills, silent>>

\* open and flock of trivsrv.lock; without it the process exits.
Lock(s) ==
    /\ \/ /\ lockOwner = None
          /\ MoveServer(s, "start", "locked")
          /\ lockOwner' = s
       \/ /\ lockOwner # None
          /\ MoveServer(s, "start", "gone")
          /\ UNCHANGED lockOwner
    /\ UNCHANGED <<gNode, exitOrder, turnedAway, clientVars, inputName, inQ, kills, silent>>

\* mq_open(O_CREAT | O_EXCL) finds the name of a dead server's queue.
UnlinkStale(s) ==
    /\ MoveServer(s, "locked", "locked")
    /\ inputName # None
    /\ inputName' = None
    /\ UNCHANGED <<lockOwner, gNode, exitOrder, turnedAway, clientVars, inQ, kills, silent>>

CreateInput(s) ==
    /\ MoveServer(s, "locked", "up")
    /\ inputName = None
    /\ inputName' = s
    /\ UNCHANGED <<lockOwner, gNode, exitOrder, turnedAway, clientVars, inQ, kills, silent>>

\* handleInput of IP_ENTER_GAME: the exit order goes where the entry leads,
\* which need not be the client that is turned away.
HandleEnter(s, n) ==
    \/ /\ ~gNode[s][n].null
       /\ exitOrder' = exitOrder \cup ({gNode[s][n].reader} \ {None})
       /\ turnedAway' = [turnedAway EXCEPT ![n] = @ + 1]
       /\ UNCHANGED <<srv, gNode>>
    \/ /\ gNode[s][n].null
       /\ \E q \in mq_open(outputName[n], outputName[n] \in EndedClients) :
             gNode' = [gNode EXCEPT ![s][n] = Occupied(q)]
       /\ UNCHANGED <<srv, exitOrder, turnedAway>>

\* Mutant of HandleFinished: only the client the node leads to may end it.
HandleFinishedOwn(s, n) ==
    /\ gNode' = [gNode EXCEPT ![s][n] = IF @.reader = outputName[n] THEN Free ELSE @]
    /\ srv' = [srv EXCEPT ![s] = IF \A m \in Node : gNode'[s][m].null THEN "last" ELSE "up"]
    /\ UNCHANGED <<exitOrder, turnedAway>>

\* handleInput of IP_FINISHED, and the check of run: the last player's goodbye
\* ends the loop whatever is still in the slot, and so does the goodbye of a
\* node that is not in the game when nobody is.
HandleFinished(s, n) ==
    /\ gNode' = [gNode EXCEPT ![s][n] = Free]
    /\ srv' = [srv EXCEPT ![s] = IF \A m \in Node : gNode'[s][m].null THEN "last" ELSE "up"]
    /\ UNCHANGED <<exitOrder, turnedAway>>

Receive(s) ==
    /\ srv[s] = "up"
    /\ inQ[s] # <<>>
    /\ inQ' = [inQ EXCEPT ![s] = Tail(@)]
    /\ LET m == Head(inQ[s])
       IN  \/ m.type = "IP_ENTER_GAME" /\ HandleEnter(s, NodeOf[m.from])
           \/ m.type = "IP_FINISHED" /\ HandleFinished(s, NodeOf[m.from])
    /\ UNCHANGED <<lockOwner, clientVars, inputName, kills, silent>>

\* mq_close and mq_unlink at the end of run.
UnlinkInput(s) ==
    /\ MoveServer(s, "last", "saving")
    /\ inputName' = None
    /\ UNCHANGED <<lockOwner, gNode, exitOrder, turnedAway, clientVars, inQ, kills, silent>>

\* main saves the settings and returns; the lock goes with the process.
Exit(s) ==
    /\ MoveServer(s, "saving", "gone")
    /\ lockOwner' = None
    /\ UNCHANGED <<gNode, exitOrder, turnedAway, clientVars, inputName, inQ, kills, silent>>

KillServer(s) ==
    /\ kills < MaxKills
    /\ srv[s] \notin {"none", "gone"}
    /\ srv' = [srv EXCEPT ![s] = "gone"]
    /\ lockOwner' = IF lockOwner = s THEN None ELSE lockOwner
    /\ gNode' = [gNode EXCEPT ![s] = [n \in Node |-> Free]]
    /\ kills' = kills + 1
    /\ UNCHANGED <<exitOrder, turnedAway, clientVars, inputName, inQ, silent>>

-----------------------------------------------------------------------------
(* The client: main up to the first performIO, and its end                 *)

\* A BBS runs one door process on a node at a time.
StartClient(c) ==
    /\ MoveClient(c, "off", "spawn")
    /\ \A o \in Client \ {c} : NodeOf[o] = NodeOf[c] => client[o] \in {"off", "gone"}
    /\ UNCHANGED <<serverVars, tries, hInputSlot, outputName, inputName, inQ, kills, silent>>

\* posix_spawn of the server: it starts, or the attempt fails.
SpawnServer(c) ==
    /\ \/ /\ MoveClient(c, "spawn", "open")
          /\ \E s \in Server : MoveServer(s, "none", "start")
          /\ tries' = [tries EXCEPT ![c] = 0]
       \/ /\ client[c] = "spawn"
          /\ tries' = [tries EXCEPT ![c] = (@ + 1) % SpawnTries]
          /\ client' = [client EXCEPT ![c] = IF tries'[c] = 0 THEN "open" ELSE "spawn"]
          /\ UNCHANGED srv
    /\ UNCHANGED <<lockOwner, gNode, exitOrder, turnedAway, hInputSlot, outputName,
                   inputName, inQ, kills, silent>>

\* openSlot(-1)
openSlot(c) ==
    \E q \in mq_open(inputName, inputName \in EndedServers) :
        hInputSlot' = [hInputSlot EXCEPT ![c] = q]

OpenInput(c) ==
    /\ MoveClient(c, "open", "create")
    /\ openSlot(c)
    /\ UNCHANGED <<serverVars, tries, outputName, inputName, inQ, kills, silent>>

\* Mutant of CreateOutput: a queue of that name is kept.
CreateOutputKeepsStale(c) ==
    /\ MoveClient(c, "create", IF hInputSlot[c] = None THEN "retry" ELSE "enter")
    /\ outputName' = [outputName EXCEPT ![NodeOf[c]] = IF @ = None THEN c ELSE @]
    /\ UNCHANGED <<serverVars, tries, hInputSlot, inputName, inQ, kills, silent>>

\* createSlot of the node's output slot: an old queue of that name is unlinked.
CreateOutput(c) ==
    /\ MoveClient(c, "create", IF hInputSlot[c] = None THEN "retry" ELSE "enter")
    /\ outputName' = [outputName EXCEPT ![NodeOf[c]] = c]
    /\ UNCHANGED <<serverVars, tries, hInputSlot, inputName, inQ, kills, silent>>

\* Mutant of Retry: the failures are not counted.
RetryForEver(c) ==
    /\ openSlot(c)
    /\ MoveClient(c, "retry", IF hInputSlot'[c] = None THEN "retry" ELSE "enter")
    /\ UNCHANGED <<serverVars, tries, outputName, inputName, inQ, kills, silent>>

\* One turn of the loop that opens the input slot again.  One failure too many
\* ends the process, even if this turn opened the slot; beforeExit is not
\* registered yet.
Retry(c) ==
    /\ openSlot(c)
    /\ \/ /\ tries[c] < OpenTries
          /\ MoveClient(c, "retry", IF hInputSlot'[c] = None THEN "retry" ELSE "enter")
          /\ tries' = [tries EXCEPT ![c] = @ + 1]
       \/ /\ tries[c] = OpenTries
          /\ MoveClient(c, "retry", "gone")
          /\ UNCHANGED tries
    /\ UNCHANGED <<serverVars, outputName, inputName, inQ, kills, silent>>

\* sendInput, as far as the two messages that matter here go.
sendInput(c, type) ==
    inQ' = [inQ EXCEPT ![hInputSlot[c]] = Append(@, [from |-> c, type |-> type])]

\* setupExitFunction, and the user's data to the server.
Enter(c) ==
    /\ MoveClient(c, "enter", "in")
    /\ sendInput(c, "IP_ENTER_GAME")
    /\ UNCHANGED <<serverVars, tries, hInputSlot, outputName, inputName, kills, silent>>

\* exitDoor: hang-up, exit order, inactivity or a server that does not answer.
BeforeExit(c) ==
    /\ MoveClient(c, "in", "leaving")
    /\ sendInput(c, "IP_FINISHED")
    /\ UNCHANGED <<serverVars, tries, hInputSlot, outputName, inputName, kills, silent>>

\* The process is over without a goodbye.
EndSilently(c) ==
    silent' = IF client[c] = "in" THEN [silent EXCEPT ![NodeOf[c]] = @ + 1] ELSE silent

\* The order to the thread that beforeExit sends first was the fifth message
\* without an answer: sendInput ends the process before IP_FINISHED, and the
\* node's name stays.
LockedUpExit(c) ==
    /\ MoveClient(c, "in", "gone")
    /\ EndSilently(c)
    /\ UNCHANGED <<serverVars, tries, hInputSlot, outputName, inputName, inQ, kills>>

\* The end of beforeExit, two seconds later: the node's name is unlinked, unless
\* IP_FINISHED was the fifth message without an answer.
CloseSlots(c) ==
    /\ MoveClient(c, "leaving", "gone")
    /\ \/ outputName' = [outputName EXCEPT ![NodeOf[c]] = None]
       \/ UNCHANGED outputName
    /\ UNCHANGED <<serverVars, tries, hInputSlot, inputName, inQ, kills, silent>>

KillClient(c) ==
    /\ kills < MaxKills
    /\ client[c] \notin {"off", "gone"}
    /\ client' = [client EXCEPT ![c] = "gone"]
    /\ kills' = kills + 1
    /\ EndSilently(c)
    /\ UNCHANGED <<serverVars, tries, hInputSlot, outputName, inputName, inQ>>

-----------------------------------------------------------------------------

ServerStep(s) == Lock(s) \/ UnlinkStale(s) \/ CreateInput(s) \/ Receive(s)
                 \/ UnlinkInput(s) \/ Exit(s)

ClientStep(c) == SpawnServer(c) \/ OpenInput(c) \/ CreateOutput(c) \/ Retry(c)
                 \/ Enter(c) \/ CloseSlots(c)

Leave(c) == BeforeExit(c) \/ LockedUpExit(c)

Next ==
    \/ \E s \in Server : ServerStep(s) \/ KillServer(s)
    \/ \E c \in Client : StartClient(c) \/ ClientStep(c) \/ Leave(c) \/ KillClient(c)

Spec == Init /\ [][Next]_vars

\* The server writes to the queue this client reads.
Heard(c) == \E s \in Server : gNode[s][NodeOf[c]] = Occupied(c)

\* A client that is told to leave leaves; so does one nobody writes to, by its
\* inactivity limit or by the fifth message without an answer.
Told(c) == Leave(c) /\ (c \in exitOrder \/ ~Heard(c))

Fairness ==
    /\ \A s \in Server : WF_vars(ServerStep(s))
    /\ \A c \in Client : WF_vars(ClientStep(c)) /\ WF_vars(Told(c))

FairSpec == Spec /\ Fairness

-----------------------------------------------------------------------------
(* Properties                                                              *)

Running == {"locked", "up", "last", "saving"}

\* One server at a time creates the slot, plays, unlinks it and saves the
\* settings: a server that is spawned while another is stopping goes away.
OneServer == \A s, r \in Server : srv[s] \in Running /\ srv[r] \in Running => s = r

\* The name of the input slot leads to the server that is reading it: neither a
\* stale name of a killed server nor an unlink by a stopping one hides it.
UpIsReachable == \A s \in Server : srv[s] \in {"up", "last"} => inputName = s

\* A client that ends without a goodbye, because it is killed in the game or because
\* it gives the server up in the middle of its goodbye (door.cpp:225-233), leaves its
\* node occupied.  That turns away one later client of the node, no more: the goodbye
\* of the one turned away frees the node.
GhostTurnsAwayOnce == \A n \in Node : turnedAway[n] <= silent[n]

\* Once a server has read what a node sent, the client that is in the game on it
\* has the node, and the node leads to the queue that client reads: a slow server
\* or a new one never takes it for its predecessor, unless a predecessor ended
\* without a goodbye.
AnsweredIsHeard ==
    \A s \in Server, c \in Client :
        /\ client[c] = "in"
        /\ hInputSlot[c] = s
        /\ srv[s] = "up"
        /\ \A k \in DOMAIN inQ[s] : NodeOf[inQ[s][k].from] # NodeOf[c]
        /\ silent[NodeOf[c]] = 0
        => Heard(c)

\* Whatever the servers do and however they stop, a client that was started is
\* heard or ends, and the node of one that said its goodbye becomes free, even if
\* the goodbye was the last message it waited for.
HeardOrEnds ==
    \A c \in Client :
        /\ client[c] = "spawn" ~> Heard(c) \/ client[c] = "gone"
        /\ client[c] = "leaving" ~> ~Heard(c)

-----------------------------------------------------------------------------
(* What the servers promise together: Lobby                                *)

\* The host is the server with the lock; its occupied nodes are the seats.
TheLobby == INSTANCE Lobby WITH
    Host <- Server,
    host <- lockOwner,
    phase <- IF lockOwner = None THEN "none"
             ELSE IF srv[lockOwner] \in {"last", "saving"} THEN "closing" ELSE "open",
    seats <- IF lockOwner = None THEN {} ELSE {n \in Node : ~gNode[lockOwner][n].null}

\* However many servers are spawned, killed and replaced, the nodes see one host at
\* a time, which closes only when it plays with nobody, and no other takes over
\* before it is gone (intrnode.cpp:64-74, gamesrv.cpp:147-158).
ImplementsLobby == TheLobby!Spec
=============================================================================
