--------------------------- MODULE ServerStartProofs ---------------------------
(***************************************************************************)
(* Proofs about ServerStart, for any clients, servers, nodes and bounds.   *)
(* The invariant IInv says that the lock file names exactly the server     *)
(* that runs, that the input slot's name leads to the server that reads    *)
(* it, and that only a server that plays has nodes.  GoodbyeInv adds what  *)
(* is on its way: which node the messages in a queue will leave occupied,  *)
(* whom they will turn away, and that a client that ended without a        *)
(* goodbye is behind each.                                                 *)
(***************************************************************************)
EXTENDS ServerStart, FiniteSetTheorems, TLAPS

\* The lock is held by the server that runs, from Lock to its end.
LockNamesServer == \A s \in Server : srv[s] \in Running <=> lockOwner = s

\* Servers that do not read their slot play with nobody.
OnlyUpHasNodes == \A s \in Server : srv[s] # "up" => \A n \in Node : gNode[s][n].null

IInv == TypeOK /\ LockNamesServer /\ UpIsReachable /\ OnlyUpHasNodes

-----------------------------------------------------------------------------
(* Types                                                                   *)

LEMMA FreeType == Free \in Entries /\ Free.null
BY DEF Entries, Free

LEMMA OccupiedType == \A c \in Client \cup {None} : Occupied(c) \in Entries /\ ~Occupied(c).null
BY DEF Entries, Occupied

LEMMA InitType == Init => TypeOK
<1>1. \A n \in Node, s \in Server : [k \in Node |-> Free] \in [Node -> Entries]
  BY FreeType
<1> QED
  BY <1>1, FreeType, ServerStartAssumption DEF Init, TypeOK, ServerStartAssumption

\* A message of a client has a type the slots hold.
LEMMA SendType ==
    ASSUME TypeOK, NEW c \in Client, NEW type \in {"IP_ENTER_GAME", "IP_FINISHED"},
           sendInput(c, type)
    PROVE  inQ' \in [Server -> Seq(Message)]
<1>1. [from |-> c, type |-> type] \in Message
  BY DEF Message
<1>2. \A s \in Server : Append(inQ[s], [from |-> c, type |-> type]) \in Seq(Message)
  BY <1>1 DEF TypeOK
<1> QED
  BY <1>2 DEF sendInput, TypeOK

\* What the handlers of the two messages do to the state of the server.
LEMMA EnterType ==
    ASSUME TypeOK, NEW s \in Server, NEW n \in Node, HandleEnter(s, n)
    PROVE  /\ srv' = srv
           /\ gNode' \in [Server -> [Node -> Entries]]
           /\ exitOrder' \subseteq Client
           /\ turnedAway' \in [Node -> Nat]
<1>1. CASE ~gNode[s][n].null
  <2>1. gNode[s][n] \in Entries
    BY DEF TypeOK
  <2>2. gNode[s][n].reader \in Client \cup {None}
    BY <2>1 DEF Entries, Free, Occupied
  <2>3. gNode' = gNode /\ srv' = srv
    BY <1>1 DEF HandleEnter
  <2>4. /\ exitOrder' = exitOrder \cup ({gNode[s][n].reader} \ {None})
        /\ turnedAway' = [turnedAway EXCEPT ![n] = @ + 1]
    BY <1>1 DEF HandleEnter
  <2> QED
    BY <2>2, <2>3, <2>4 DEF TypeOK
<1>2. CASE gNode[s][n].null
  <2>1. PICK q \in {outputName[n], None} : gNode' = [gNode EXCEPT ![s][n] = Occupied(q)]
    BY <1>2 DEF HandleEnter, mq_open
  <2>2. UNCHANGED <<srv, exitOrder, turnedAway>>
    BY <1>2 DEF HandleEnter
  <2>3. Occupied(q) \in Entries
    BY OccupiedType DEF TypeOK
  <2> QED
    BY <2>1, <2>2, <2>3 DEF TypeOK
<1> QED
  BY <1>1, <1>2

LEMMA FinishedType ==
    ASSUME TypeOK, NEW s \in Server, NEW n \in Node, HandleFinished(s, n)
    PROVE  /\ srv' \in [Server -> {"none", "start", "locked", "up", "last", "saving", "gone"}]
           /\ gNode' \in [Server -> [Node -> Entries]]
           /\ UNCHANGED <<exitOrder, turnedAway>>
BY FreeType DEF HandleFinished, TypeOK

\* The message a server receives, and which node it is from.
LEMMA Received ==
    ASSUME TypeOK, NEW s \in Server, Receive(s)
    PROVE  /\ srv[s] = "up"
           /\ UNCHANGED <<lockOwner, clientVars, inputName, kills, silent>>
           /\ inQ' \in [Server -> Seq(Message)]
           /\ \E n \in Node : HandleEnter(s, n) \/ HandleFinished(s, n)
<1>1. inQ[s] \in Seq(Message) /\ inQ[s] # <<>>
  BY DEF TypeOK, Receive
<1>2. Head(inQ[s]) \in Message /\ Tail(inQ[s]) \in Seq(Message)
  BY <1>1
<1>3. NodeOf[Head(inQ[s]).from] \in Node
  BY <1>2, ServerStartAssumption DEF Message, ServerStartAssumption
<1>4. inQ' \in [Server -> Seq(Message)]
  BY <1>2 DEF Receive, TypeOK
<1> QED
  BY <1>3, <1>4 DEF Receive

LEMMA TypeServer ==
    ASSUME TypeOK, NEW s \in Server, ServerStep(s) \/ KillServer(s)
    PROVE  TypeOK'
<1>. USE DEF MoveServer, clientVars
<1>1. CASE Lock(s)
  BY <1>1 DEF Lock, TypeOK
<1>2. CASE UnlinkStale(s)
  BY <1>2 DEF UnlinkStale, TypeOK
<1>3. CASE CreateInput(s)
  BY <1>3 DEF CreateInput, TypeOK
<1>4. CASE Receive(s)
  <2>1. PICK n \in Node : HandleEnter(s, n) \/ HandleFinished(s, n)
    BY <1>4, Received
  <2> QED
    BY <1>4, <2>1, Received, EnterType, FinishedType DEF TypeOK
<1>5. CASE UnlinkInput(s)
  BY <1>5 DEF UnlinkInput, TypeOK
<1>6. CASE Exit(s)
  BY <1>6 DEF Exit, TypeOK
<1>7. CASE KillServer(s)
  BY <1>7, FreeType DEF KillServer, TypeOK
<1> QED
  BY <1>1, <1>2, <1>3, <1>4, <1>5, <1>6, <1>7 DEF ServerStep

LEMMA TypeClient ==
    ASSUME TypeOK, NEW c \in Client,
           StartClient(c) \/ ClientStep(c) \/ Leave(c) \/ KillClient(c)
    PROVE  TypeOK'
<1>0. NodeOf[c] \in Node /\ SpawnTries \in Nat \ {0} /\ OpenTries \in Nat
  BY ServerStartAssumption DEF ServerStartAssumption
<1>01. tries[c] \in Nat
  <2>1. tries[c] \in (0 .. SpawnTries - 1) \cup (0 .. OpenTries)
    BY DEF TypeOK
  <2> QED
    BY <2>1, <1>0
<1>02. 0 \in 0 .. SpawnTries - 1 /\ (tries[c] + 1) % SpawnTries \in 0 .. SpawnTries - 1
  BY <1>0, <1>01
<1>03. tries[c] < OpenTries => tries[c] + 1 \in 0 .. OpenTries
  BY <1>0, <1>01
<1>. USE DEF MoveClient, serverVars
<1>1. CASE StartClient(c)
  BY <1>1 DEF StartClient, TypeOK
<1>2. CASE SpawnServer(c)
  <2>1. CASE /\ MoveClient(c, "spawn", "open")
             /\ \E s \in Server : MoveServer(s, "none", "start")
             /\ tries' = [tries EXCEPT ![c] = 0]
    BY <1>2, <1>02, <2>1 DEF SpawnServer, MoveServer, TypeOK
  <2>2. CASE /\ tries' = [tries EXCEPT ![c] = (@ + 1) % SpawnTries]
             /\ client' = [client EXCEPT ![c] = IF tries'[c] = 0 THEN "open" ELSE "spawn"]
             /\ UNCHANGED srv
    BY <1>2, <1>02, <2>2 DEF SpawnServer, TypeOK
  <2> QED
    BY <1>2, <2>1, <2>2 DEF SpawnServer
<1>04. openSlot(c) => hInputSlot' \in [Client -> Server \cup {None}]
  BY DEF openSlot, mq_open, TypeOK
<1>3. CASE OpenInput(c)
  BY <1>3, <1>04 DEF OpenInput, TypeOK
<1>4. CASE CreateOutput(c)
  BY <1>0, <1>4 DEF CreateOutput, TypeOK
<1>5. CASE Retry(c)
  BY <1>5, <1>03, <1>04 DEF Retry, TypeOK
<1>6. CASE Enter(c)
  BY <1>6, SendType DEF Enter, TypeOK
<1>7. CASE CloseSlots(c)
  BY <1>0, <1>7 DEF CloseSlots, TypeOK
<1>8. CASE BeforeExit(c)
  BY <1>8, SendType DEF BeforeExit, TypeOK
<1>9. CASE KillClient(c)
  BY <1>0, <1>9 DEF KillClient, EndSilently, TypeOK
<1>10. CASE LockedUpExit(c)
  BY <1>0, <1>10 DEF LockedUpExit, EndSilently, TypeOK
<1> QED
  BY <1>1, <1>2, <1>3, <1>4, <1>5, <1>6, <1>7, <1>8, <1>9, <1>10 DEF ClientStep, Leave

LEMMA TypeStep == TypeOK /\ [Next]_vars => TypeOK'
<1>1. CASE UNCHANGED vars
  BY <1>1 DEF vars, serverVars, clientVars, TypeOK
<1> QED
  BY <1>1, TypeServer, TypeClient DEF Next

-----------------------------------------------------------------------------
(* What a step may do to the servers, the lock, the name and the nodes     *)

\* The clients change none of it, but for a server they spawn.
LEMMA ClientKeeps ==
    ASSUME TypeOK, NEW c \in Client,
           StartClient(c) \/ ClientStep(c) \/ Leave(c) \/ KillClient(c)
    PROVE  /\ UNCHANGED <<lockOwner, inputName, gNode>>
           /\ \/ UNCHANGED srv
              \/ \E s \in Server : srv[s] = "none" /\ srv' = [srv EXCEPT ![s] = "start"]
BY DEF ClientStep, Leave, StartClient, SpawnServer, OpenInput, CreateOutput, Retry, Enter, CloseSlots,
       BeforeExit, LockedUpExit, KillClient, MoveServer, serverVars

\* One lemma per conjunct: LockNamesServer.
LEMMA LockStep ==
    ASSUME TypeOK, LockNamesServer, [Next]_vars
    PROVE  LockNamesServer'
<1>0. None \notin Server
  BY ServerStartAssumption DEF ServerStartAssumption
<1>. USE DEF Running, MoveServer
<1>1. ASSUME NEW s \in Server, ServerStep(s) \/ KillServer(s)
      PROVE  LockNamesServer'
  <2>1. CASE Lock(s)
    BY <1>0, <2>1 DEF Lock, LockNamesServer, TypeOK
  <2>2. CASE UnlinkStale(s)
    BY <2>2 DEF UnlinkStale, LockNamesServer, TypeOK
  <2>3. CASE CreateInput(s)
    BY <2>3 DEF CreateInput, LockNamesServer, TypeOK
  <2>4. CASE Receive(s)
    <3>1. srv' = srv \/ srv' = [srv EXCEPT ![s] = "last"] \/ srv' = [srv EXCEPT ![s] = "up"]
      BY <2>4, Received DEF HandleEnter, HandleFinished
    <3> QED
      BY <2>4, <3>1, Received DEF LockNamesServer, TypeOK
  <2>5. CASE UnlinkInput(s)
    BY <2>5 DEF UnlinkInput, LockNamesServer, TypeOK
  <2>6. CASE Exit(s)
    BY <1>0, <2>6 DEF Exit, LockNamesServer, TypeOK
  <2>7. CASE KillServer(s)
    BY <1>0, <2>7 DEF KillServer, LockNamesServer, TypeOK
  <2> QED
    BY <1>1, <2>1, <2>2, <2>3, <2>4, <2>5, <2>6, <2>7 DEF ServerStep
<1>2. ASSUME NEW c \in Client, StartClient(c) \/ ClientStep(c) \/ Leave(c) \/ KillClient(c)
      PROVE  LockNamesServer'
  BY <1>2, ClientKeeps DEF LockNamesServer, TypeOK
<1>3. CASE UNCHANGED vars
  BY <1>3 DEF vars, serverVars, LockNamesServer
<1> QED
  BY <1>1, <1>2, <1>3 DEF Next

\* UpIsReachable: whoever unlinks or gives the name has the lock.
LEMMA NameStep ==
    ASSUME TypeOK, LockNamesServer, UpIsReachable, [Next]_vars
    PROVE  UpIsReachable'
<1>. USE DEF Running, MoveServer
<1>1. ASSUME NEW s \in Server, ServerStep(s) \/ KillServer(s)
      PROVE  UpIsReachable'
  <2>1. CASE Lock(s)
    BY <2>1 DEF Lock, UpIsReachable, TypeOK
  <2>2. CASE UnlinkStale(s)
    BY <2>2 DEF UnlinkStale, UpIsReachable, LockNamesServer, TypeOK
  <2>3. CASE CreateInput(s)
    BY <2>3 DEF CreateInput, UpIsReachable, LockNamesServer, TypeOK
  <2>4. CASE Receive(s)
    <3>1. srv' = srv \/ srv' = [srv EXCEPT ![s] = "last"] \/ srv' = [srv EXCEPT ![s] = "up"]
      BY <2>4, Received DEF HandleEnter, HandleFinished
    <3> QED
      BY <2>4, <3>1, Received DEF UpIsReachable, TypeOK
  <2>5. CASE UnlinkInput(s)
    BY <2>5 DEF UnlinkInput, UpIsReachable, LockNamesServer, TypeOK
  <2>6. CASE Exit(s)
    BY <2>6 DEF Exit, UpIsReachable, TypeOK
  <2>7. CASE KillServer(s)
    BY <2>7 DEF KillServer, UpIsReachable, TypeOK
  <2> QED
    BY <1>1, <2>1, <2>2, <2>3, <2>4, <2>5, <2>6, <2>7 DEF ServerStep
<1>2. ASSUME NEW c \in Client, StartClient(c) \/ ClientStep(c) \/ Leave(c) \/ KillClient(c)
      PROVE  UpIsReachable'
  BY <1>2, ClientKeeps DEF UpIsReachable, TypeOK
<1>3. CASE UNCHANGED vars
  BY <1>3 DEF vars, serverVars, UpIsReachable
<1> QED
  BY <1>1, <1>2, <1>3 DEF Next

\* OnlyUpHasNodes: the loop ends with the last node, and a killed server has none.
LEMMA NodesStep ==
    ASSUME TypeOK, OnlyUpHasNodes, [Next]_vars
    PROVE  OnlyUpHasNodes'
<1>. USE DEF MoveServer
<1>1. ASSUME NEW s \in Server, ServerStep(s) \/ KillServer(s)
      PROVE  OnlyUpHasNodes'
  <2>1. CASE Lock(s)
    BY <2>1 DEF Lock, OnlyUpHasNodes, TypeOK
  <2>2. CASE UnlinkStale(s)
    BY <2>2 DEF UnlinkStale, OnlyUpHasNodes, TypeOK
  <2>3. CASE CreateInput(s)
    BY <2>3 DEF CreateInput, OnlyUpHasNodes, TypeOK
  <2>4. CASE Receive(s)
    <3>1. PICK n \in Node : HandleEnter(s, n) \/ HandleFinished(s, n)
      BY <2>4, Received
    <3>2. srv[s] = "up"
      BY <2>4, Received
    <3>3. CASE HandleEnter(s, n)
      BY <3>2, <3>3 DEF HandleEnter, OnlyUpHasNodes, TypeOK
    <3>4. CASE HandleFinished(s, n)
      BY <3>2, <3>4 DEF HandleFinished, OnlyUpHasNodes, TypeOK
    <3> QED
      BY <3>1, <3>3, <3>4
  <2>5. CASE UnlinkInput(s)
    BY <2>5 DEF UnlinkInput, OnlyUpHasNodes, TypeOK
  <2>6. CASE Exit(s)
    BY <2>6 DEF Exit, OnlyUpHasNodes, TypeOK
  <2>7. CASE KillServer(s)
    BY <2>7, FreeType DEF KillServer, OnlyUpHasNodes, TypeOK
  <2> QED
    BY <1>1, <2>1, <2>2, <2>3, <2>4, <2>5, <2>6, <2>7 DEF ServerStep
<1>2. ASSUME NEW c \in Client, StartClient(c) \/ ClientStep(c) \/ Leave(c) \/ KillClient(c)
      PROVE  OnlyUpHasNodes'
  BY <1>2, ClientKeeps DEF OnlyUpHasNodes, TypeOK
<1>3. CASE UNCHANGED vars
  BY <1>3 DEF vars, serverVars, OnlyUpHasNodes
<1> QED
  BY <1>1, <1>2, <1>3 DEF Next

-----------------------------------------------------------------------------
(* Theorems                                                                *)

LEMMA InitIInv == Init => IInv
<1> SUFFICES ASSUME Init PROVE IInv
  OBVIOUS
<1>1. LockNamesServer /\ UpIsReachable
  BY ServerStartAssumption DEF Init, LockNamesServer, UpIsReachable, Running, ServerStartAssumption
<1>2. OnlyUpHasNodes
  BY FreeType DEF Init, OnlyUpHasNodes
<1> QED
  BY <1>1, <1>2, InitType DEF IInv

\* IInv is inductive: it holds after a step of any process, killed or not, when it held
\* before.
THEOREM StartInductive == IInv /\ [Next]_vars => IInv'
BY TypeStep, LockStep, NameStep, NodesStep DEF IInv

\* The invariant holds in every reachable state, however many clients spawn however
\* many servers, and whoever is killed.
THEOREM StartInvariant == Spec => []IInv
<1>1. Init => IInv
  BY InitIInv
<1>2. IInv /\ [Next]_vars => IInv'
  BY StartInductive
<1> QED
  BY <1>1, <1>2, PTL DEF Spec

\* Clients, servers and slots are well typed.
THEOREM StartType == Spec => []TypeOK
BY StartInvariant, PTL DEF IInv

\* Two servers never run together, whatever was killed or spawned meanwhile
\* (intrnode.cpp:64-74).
THEOREM OneServerAtATime == Spec => []OneServer
<1>1. IInv => OneServer
  BY DEF IInv, LockNamesServer, OneServer
<1> QED
  BY <1>1, StartInvariant, PTL

\* While a server reads its slot, the slot's name leads to it.
THEOREM SlotReachable == Spec => []UpIsReachable
BY StartInvariant, PTL DEF IInv

-----------------------------------------------------------------------------
(* Refinement: the servers implement Lobby                                 *)

\* The steps that the nodes do not see.
LEMMA HiddenStep ==
    ASSUME IInv, UNCHANGED lockOwner, UNCHANGED gNode,
           \A s \in Server : lockOwner = s =>
               (srv[s] \in {"last", "saving"} <=> srv'[s] \in {"last", "saving"})
    PROVE  UNCHANGED TheLobby!vars
BY DEF TheLobby!vars, IInv, TypeOK

LEMMA LobbyStep ==
    ASSUME IInv, [Next]_vars
    PROVE  [TheLobby!Next]_TheLobby!vars
<1>0. TypeOK /\ LockNamesServer /\ OnlyUpHasNodes /\ None \notin Server
  BY ServerStartAssumption DEF IInv, ServerStartAssumption
<1>. USE DEF Running, MoveServer
<1>1. ASSUME NEW s \in Server, ServerStep(s) \/ KillServer(s)
      PROVE  [TheLobby!Next]_TheLobby!vars
  <2>1. CASE Lock(s)
    <3>1. CASE lockOwner = None
      <4>1. srv[s] = "start" /\ srv' = [srv EXCEPT ![s] = "locked"] /\ lockOwner' = s
        BY <2>1, <3>1 DEF Lock
      <4>2. \A n \in Node : gNode'[s][n].null
        BY <1>0, <2>1, <4>1 DEF Lock, OnlyUpHasNodes
      <4>3. TheLobby!Open(s)
        BY <1>0, <3>1, <4>1, <4>2 DEF TheLobby!Open, TypeOK
      <4> QED
        BY <4>3 DEF TheLobby!Next
    <3>2. CASE lockOwner # None
      BY <1>0, <2>1, <3>2, HiddenStep DEF Lock, LockNamesServer, TypeOK
    <3> QED
      BY <3>1, <3>2
  <2>2. CASE UnlinkStale(s)
    BY <1>0, <2>2, HiddenStep DEF UnlinkStale, TypeOK
  <2>3. CASE CreateInput(s)
    BY <1>0, <2>3, HiddenStep DEF CreateInput, TypeOK
  <2>4. CASE Receive(s)
    <3>1. PICK n \in Node : HandleEnter(s, n) \/ HandleFinished(s, n)
      BY <1>0, <2>4, Received
    <3>2. srv[s] = "up" /\ lockOwner = s /\ lockOwner' = s
      BY <1>0, <2>4, Received DEF LockNamesServer
    <3>3. CASE HandleEnter(s, n) /\ ~gNode[s][n].null
      BY <3>2, <3>3, HiddenStep DEF HandleEnter
    <3>4. CASE HandleEnter(s, n) /\ gNode[s][n].null
      <4>1. PICK q \in {outputName[n], None} :
                gNode' = [gNode EXCEPT ![s][n] = Occupied(q)] /\ srv' = srv
        BY <3>4 DEF HandleEnter, mq_open
      <4>2. ~Occupied(q).null
        BY <1>0, OccupiedType DEF TypeOK
      <4>3. TheLobby!Sit(n)
        BY <1>0, <3>2, <3>4, <4>1, <4>2 DEF TheLobby!Sit, TypeOK
      <4> QED
        BY <4>3 DEF TheLobby!Next
    <3>5. CASE HandleFinished(s, n)
      <4>1. /\ gNode' = [gNode EXCEPT ![s][n] = Free]
            /\ srv' = [srv EXCEPT ![s] = IF \A m \in Node : gNode'[s][m].null THEN "last" ELSE "up"]
        BY <3>5 DEF HandleFinished
      <4>2. CASE ~gNode[s][n].null
        <5>1. TheLobby!Rise(n)
          BY <1>0, <3>2, <4>1, <4>2, FreeType DEF TheLobby!Rise, TypeOK
        <5> QED
          BY <5>1 DEF TheLobby!Next
      <4>3. CASE gNode[s][n].null /\ \A m \in Node : gNode'[s][m].null
        <5>1. TheLobby!BeginToClose
          BY <1>0, <3>2, <4>1, <4>3, FreeType DEF TheLobby!BeginToClose, TypeOK
        <5> QED
          BY <5>1 DEF TheLobby!Next
      <4>4. CASE gNode[s][n].null /\ ~ \A m \in Node : gNode'[s][m].null
        BY <1>0, <3>2, <4>1, <4>4, FreeType DEF TheLobby!vars, TypeOK
      <4> QED
        BY <4>2, <4>3, <4>4
    <3> QED
      BY <3>1, <3>3, <3>4, <3>5
  <2>5. CASE UnlinkInput(s)
    BY <1>0, <2>5, HiddenStep DEF UnlinkInput, TypeOK
  <2>6. CASE Exit(s)
    <3>1. lockOwner = s /\ srv[s] = "saving" /\ lockOwner' = None /\ gNode' = gNode
      BY <1>0, <2>6 DEF Exit, LockNamesServer
    <3>2. TheLobby!Close
      BY <1>0, <3>1 DEF TheLobby!Close, OnlyUpHasNodes
    <3> QED
      BY <3>2 DEF TheLobby!Next
  <2>7. CASE KillServer(s)
    <3>1. CASE lockOwner = s
      <4>1. TheLobby!Die
        BY <1>0, <2>7, <3>1 DEF KillServer, TheLobby!Die
      <4> QED
        BY <4>1 DEF TheLobby!Next
    <3>2. CASE lockOwner # s
      <4>1. lockOwner' = lockOwner /\ \A r \in Server \ {s} : gNode'[r] = gNode[r] /\ srv'[r] = srv[r]
        BY <2>7, <3>2, <1>0 DEF KillServer, TypeOK
      <4> QED
        BY <1>0, <3>2, <4>1 DEF TheLobby!vars, TypeOK
    <3> QED
      BY <3>1, <3>2
  <2> QED
    BY <1>1, <2>1, <2>2, <2>3, <2>4, <2>5, <2>6, <2>7 DEF ServerStep
<1>2. ASSUME NEW c \in Client, StartClient(c) \/ ClientStep(c) \/ Leave(c) \/ KillClient(c)
      PROVE  [TheLobby!Next]_TheLobby!vars
  <2>1. UNCHANGED <<lockOwner, gNode>>
    BY <1>0, <1>2, ClientKeeps
  <2>2. \A s \in Server : lockOwner = s => srv'[s] = srv[s]
    BY <1>0, <1>2, ClientKeeps DEF LockNamesServer, TypeOK
  <2> QED
    BY <2>1, <2>2, HiddenStep
<1>3. CASE UNCHANGED vars
  BY <1>3, HiddenStep DEF vars, serverVars
<1> QED
  BY <1>1, <1>2, <1>3 DEF Next

\* However servers are spawned, killed and replaced, the nodes see what Lobby describes:
\* one host at a time, that closes only when it plays with nobody.
THEOREM ServersImplementLobby == Spec => ImplementsLobby
<1>1. Init => TheLobby!Init
  BY ServerStartAssumption DEF Init, TheLobby!Init
<1>2. IInv /\ [Next]_vars => [TheLobby!Next]_TheLobby!vars
  BY LobbyStep
<1> QED
  BY <1>1, <1>2, StartInvariant, PTL DEF Spec, ImplementsLobby, TheLobby!Spec

-----------------------------------------------------------------------------
(* What is on its way: the messages of a node in a queue                   *)

IsFrom(q, n, k) == NodeOf[q[k].from] = n

\* Whether the node is occupied when the first k messages of the queue have been
\* handled: the last of them that is from the node decides.
SeatAfter(q, entry, n, k) ==
    \/ \E j \in 1 .. k : /\ IsFrom(q, n, j) /\ q[j].type = "IP_ENTER_GAME"
                         /\ \A i \in j + 1 .. k : ~IsFrom(q, n, i)
    \/ ~entry.null /\ \A i \in 1 .. k : ~IsFrom(q, n, i)

\* Handling the first message does not change what the others find.
LEMMA SeatTail ==
    ASSUME NEW q, NEW t, NEW k \in Nat, \A i \in 1 .. k : t[i] = q[i + 1],
           NEW n, NEW entry, NEW after,
           IsFrom(q, n, 1) => (~after.null <=> q[1].type = "IP_ENTER_GAME"),
           ~IsFrom(q, n, 1) => (after.null <=> entry.null)
    PROVE  SeatAfter(t, after, n, k) <=> SeatAfter(q, entry, n, k + 1)
<1>1. \A i \in 1 .. k : IsFrom(t, n, i) <=> IsFrom(q, n, i + 1)
  BY DEF IsFrom
<1>2. \A i \in 2 .. k + 1 : i - 1 \in 1 .. k /\ (IsFrom(q, n, i) <=> IsFrom(t, n, i - 1))
  BY <1>1
<1>3. ASSUME SeatAfter(t, after, n, k) PROVE SeatAfter(q, entry, n, k + 1)
  <2>1. CASE \E j \in 1 .. k : /\ IsFrom(t, n, j) /\ t[j].type = "IP_ENTER_GAME"
                               /\ \A i \in j + 1 .. k : ~IsFrom(t, n, i)
    <3>1. PICK j \in 1 .. k : /\ IsFrom(t, n, j) /\ t[j].type = "IP_ENTER_GAME"
                              /\ \A i \in j + 1 .. k : ~IsFrom(t, n, i)
      BY <2>1
    <3>2. IsFrom(q, n, j + 1) /\ q[j + 1].type = "IP_ENTER_GAME" /\ j + 1 \in 1 .. k + 1
      BY <1>1, <3>1
    <3>3. \A i \in (j + 1) + 1 .. k + 1 : ~IsFrom(q, n, i)
      BY <1>2, <3>1
    <3> QED BY <3>2, <3>3 DEF SeatAfter
  <2>2. CASE ~after.null /\ \A i \in 1 .. k : ~IsFrom(t, n, i)
    <3>1. \A i \in 1 + 1 .. k + 1 : ~IsFrom(q, n, i)
      BY <1>2, <2>2
    <3>2. CASE IsFrom(q, n, 1)
      <4>1. q[1].type = "IP_ENTER_GAME" /\ 1 \in 1 .. k + 1
        BY <2>2, <3>2
      <4> QED BY <3>1, <3>2, <4>1 DEF SeatAfter
    <3>3. CASE ~IsFrom(q, n, 1)
      <4>1. \A i \in 1 .. k + 1 : i = 1 \/ i \in 1 + 1 .. k + 1
        OBVIOUS
      <4>2. ~entry.null
        BY <2>2, <3>3
      <4>3. \A i \in 1 .. k + 1 : ~IsFrom(q, n, i)
        BY <3>1, <3>3, <4>1
      <4> QED BY <4>2, <4>3 DEF SeatAfter
    <3> QED BY <3>2, <3>3
  <2> QED BY <1>3, <2>1, <2>2 DEF SeatAfter
<1>4. ASSUME SeatAfter(q, entry, n, k + 1) PROVE SeatAfter(t, after, n, k)
  <2>1. CASE \E j \in 1 .. k + 1 : /\ IsFrom(q, n, j) /\ q[j].type = "IP_ENTER_GAME"
                                   /\ \A i \in j + 1 .. k + 1 : ~IsFrom(q, n, i)
    <3>1. PICK j \in 1 .. k + 1 : /\ IsFrom(q, n, j) /\ q[j].type = "IP_ENTER_GAME"
                                  /\ \A i \in j + 1 .. k + 1 : ~IsFrom(q, n, i)
      BY <2>1
    <3>2. CASE j = 1
      <4>1. ~after.null
        BY <3>1, <3>2
      <4>2. \A i \in 1 .. k : ~IsFrom(t, n, i)
        BY <1>1, <3>1, <3>2
      <4> QED BY <4>1, <4>2 DEF SeatAfter
    <3>3. CASE j # 1
      <4>1. j - 1 \in 1 .. k /\ IsFrom(t, n, j - 1) /\ t[j - 1] = q[j]
        BY <1>2, <3>1, <3>3
      <4>2. \A i \in (j - 1) + 1 .. k : ~IsFrom(t, n, i)
        BY <1>1, <3>1
      <4> QED BY <3>1, <4>1, <4>2 DEF SeatAfter
    <3> QED BY <3>2, <3>3
  <2>2. CASE ~entry.null /\ \A i \in 1 .. k + 1 : ~IsFrom(q, n, i)
    BY <1>1, <2>2 DEF SeatAfter
  <2> QED BY <1>4, <2>1, <2>2 DEF SeatAfter
<1> QED BY <1>3, <1>4

\* Nor does a message that comes later; and the last message of the node decides.
LEMMA SeatSame ==
    ASSUME NEW q, NEW t, NEW k \in Nat, \A i \in 1 .. k : t[i] = q[i], NEW n, NEW entry
    PROVE  SeatAfter(t, entry, n, k) <=> SeatAfter(q, entry, n, k)
<1>1. \A i \in 1 .. k : IsFrom(t, n, i) <=> IsFrom(q, n, i)
  BY DEF IsFrom
<1>2. \A j \in 1 .. k : \A i \in j + 1 .. k : i \in 1 .. k
  OBVIOUS
<1> QED BY <1>1, <1>2 DEF SeatAfter

LEMMA SeatLast ==
    ASSUME NEW q, NEW k \in Nat \ {0}, NEW n, NEW entry
    PROVE  SeatAfter(q, entry, n, k) <=>
              IF IsFrom(q, n, k) THEN q[k].type = "IP_ENTER_GAME" ELSE SeatAfter(q, entry, n, k - 1)
<1>1. CASE IsFrom(q, n, k)
  <2>1. \A j \in 1 .. k : (\A i \in j + 1 .. k : ~IsFrom(q, n, i)) => j = k
    BY <1>1
  <2>2. \A i \in k + 1 .. k : FALSE
    OBVIOUS
  <2> QED BY <1>1, <2>1, <2>2 DEF SeatAfter
<1>2. CASE ~IsFrom(q, n, k)
  <2>1. \A j \in 1 .. k - 1 : (\A i \in j + 1 .. k : ~IsFrom(q, n, i))
                                  <=> (\A i \in j + 1 .. k - 1 : ~IsFrom(q, n, i))
    BY <1>2
  <2>2. (\A i \in 1 .. k : ~IsFrom(q, n, i)) <=> (\A i \in 1 .. k - 1 : ~IsFrom(q, n, i))
    BY <1>2
  <2>3. \A j \in 1 .. k : IsFrom(q, n, j) => j \in 1 .. k - 1
    BY <1>2
  <2>4. \A j \in 1 .. k - 1 : j \in 1 .. k
    OBVIOUS
  <2> QED BY <1>2, <2>1, <2>2, <2>3, <2>4 DEF SeatAfter
<1> QED BY <1>1, <1>2

-----------------------------------------------------------------------------
(* The invariant of goodbyes                                               *)

Entering(c) == [from |-> c, type |-> "IP_ENTER_GAME"]
IsIn(c, s) == client[c] = "in" /\ hInputSlot[c] = s
Seated(s, n, k) == SeatAfter(inQ[s], gNode[s][n], n, k)

\* One client runs on a node, the output slot's name leads to it, and it writes to a server.
Live == {"spawn", "open", "create", "retry", "enter", "in", "leaving"}
OneLive ==
    \A c, d \in Client :
        NodeOf[c] = NodeOf[d] /\ client[c] \in Live /\ client[d] \in Live => c = d
OwnsOutput ==
    \A c \in Client : client[c] \in {"retry", "enter", "in", "leaving"} => outputName[NodeOf[c]] = c
HasSlot == \A c \in Client : client[c] \in {"enter", "in"} => hInputSlot[c] \in Server

\* Nobody has written to a server that has not created its slot, nor can.
Fresh ==
    \A s \in Server : srv[s] \in {"none", "start", "locked"} =>
        inQ[s] = <<>> /\ inputName # s /\ \A c \in Client : hInputSlot[c] # s

\* Messages are from clients that have been in the game, who each entered once.
Sent == \A s \in Server : \A k \in 1 .. Len(inQ[s]) : client[inQ[s][k].from] \in {"in", "leaving", "gone"}
EntersOnce ==
    \A s \in Server : \A j, k \in 1 .. Len(inQ[s]) :
        inQ[s][j].type = "IP_ENTER_GAME" /\ inQ[s][j] = inQ[s][k] => j = k

\* The last message of the node of a client in the game is the one it entered with, and
\* it will have the node then.
LastIsEnter ==
    \A s \in Server, c \in Client : IsIn(c, s) =>
        \A k \in 1 .. Len(inQ[s]) :
            /\ IsFrom(inQ[s], NodeOf[c], k)
            /\ \A j \in k + 1 .. Len(inQ[s]) : ~IsFrom(inQ[s], NodeOf[c], j)
            => inQ[s][k] = Entering(c)
InHasSeat ==
    \A s \in Server, c \in Client :
        srv[s] = "up" /\ IsIn(c, s) => Seated(s, NodeOf[c], Len(inQ[s]))

\* Those who will be turned away because of what was sent so far, and whether the next one
\* will be: the node is left occupied by somebody who is not in the game.
ToTurnAway(s, n) ==
    {c \in Client : NodeOf[c] = n /\ \E k \in 1 .. Len(inQ[s]) :
                        inQ[s][k] = Entering(c) /\ Seated(s, n, k - 1)}
Abandoned(s, n) ==
    /\ Seated(s, n, Len(inQ[s]))
    /\ \A c \in Client : NodeOf[c] = n => ~IsIn(c, s)

\* A client that ended without a goodbye is behind every one of them.
SilentCover ==
    \A n \in Node :
        /\ turnedAway[n] <= silent[n]
        /\ \A s \in Server : srv[s] = "up" =>
              /\ IsFiniteSet(ToTurnAway(s, n))
              /\ turnedAway[n] + Cardinality(ToTurnAway(s, n)) + (IF Abandoned(s, n) THEN 1 ELSE 0)
                     <= silent[n]

\* Where everybody said goodbye, a node whose messages were all read leads to its client.
ReaderIsIt ==
    \A s \in Server, c \in Client :
        /\ srv[s] = "up" /\ IsIn(c, s) /\ silent[NodeOf[c]] = 0
        /\ \A k \in 1 .. Len(inQ[s]) : ~IsFrom(inQ[s], NodeOf[c], k)
        => gNode[s][NodeOf[c]] = Occupied(c)

LifeInv == OneLive /\ OwnsOutput /\ HasSlot
QueueInv == Fresh /\ Sent /\ EntersOnce /\ LastIsEnter
GoodbyeInv == LifeInv /\ QueueInv /\ InHasSeat /\ SilentCover /\ ReaderIsIt

-----------------------------------------------------------------------------
(* Kinds of steps                                                          *)

\* A step that sends and reads nothing and by which nobody comes into the game or leaves it.
Quiet ==
    /\ UNCHANGED <<inQ, turnedAway>>
    /\ \A s \in Server :
          /\ srv'[s] = "up" => srv[s] = "up" /\ gNode'[s] = gNode[s]
          /\ srv'[s] \in {"none", "start", "locked"} => srv[s] \in {"none", "start", "locked"}
    /\ \A c \in Client :
          /\ client'[c] = "in" <=> client[c] = "in"
          /\ client[c] = "in" => hInputSlot'[c] = hInputSlot[c]
          /\ client[c] \in {"in", "leaving", "gone"} => client'[c] \in {"in", "leaving", "gone"}
    /\ \A n \in Node : silent'[n] = silent[n] \/ silent'[n] = silent[n] + 1

EndedSilently(c) == client[c] = "in" /\ (LockedUpExit(c) \/ KillClient(c))

\* The assumption on the constants, as the proofs use it.
LEMMA NodeType == /\ \A c \in Client : NodeOf[c] \in Node
                  /\ None \notin Client /\ None \notin Server
BY ServerStartAssumption DEF ServerStartAssumption

\* What a step is to the queues and the nodes.
LEMMA StepKinds ==
    ASSUME TypeOK, [Next]_vars
    PROVE  \/ Quiet
           \/ \E c \in Client : Enter(c) \/ BeforeExit(c) \/ EndedSilently(c)
           \/ \E s \in Server : Receive(s) \/ CreateInput(s)
<1>. USE DEF MoveServer, MoveClient, serverVars, clientVars
<1>1. ASSUME NEW s \in Server, ServerStep(s) \/ KillServer(s)
      PROVE  Receive(s) \/ CreateInput(s) \/ Quiet
  <2>1. CASE Lock(s)
    BY <2>1 DEF Lock, Quiet, TypeOK
  <2>2. CASE UnlinkStale(s)
    BY <2>2 DEF UnlinkStale, Quiet, TypeOK
  <2>3. CASE UnlinkInput(s)
    BY <2>3 DEF UnlinkInput, Quiet, TypeOK
  <2>4. CASE Exit(s)
    BY <2>4 DEF Exit, Quiet, TypeOK
  <2>5. CASE KillServer(s)
    BY <2>5 DEF KillServer, Quiet, TypeOK
  <2> QED BY <1>1, <2>1, <2>2, <2>3, <2>4, <2>5 DEF ServerStep
<1>2. ASSUME NEW c \in Client, StartClient(c) \/ ClientStep(c) \/ Leave(c) \/ KillClient(c)
      PROVE  Enter(c) \/ BeforeExit(c) \/ EndedSilently(c) \/ Quiet
  <2>1. CASE StartClient(c)
    BY <2>1 DEF StartClient, Quiet, TypeOK
  <2>2. CASE SpawnServer(c)
    BY <2>2 DEF SpawnServer, Quiet, TypeOK
  <2>3. CASE OpenInput(c)
    BY <2>3 DEF OpenInput, openSlot, Quiet, TypeOK
  <2>4. CASE CreateOutput(c)
    BY <2>4 DEF CreateOutput, Quiet, TypeOK
  <2>5. CASE Retry(c)
    <3>1. client[c] = "retry" /\ \E q : hInputSlot' = [hInputSlot EXCEPT ![c] = q]
      BY <2>5 DEF Retry, openSlot
    <3>2. \E to \in {"retry", "enter", "gone"} : client' = [client EXCEPT ![c] = to]
      BY <2>5 DEF Retry
    <3> QED BY <2>5, <3>1, <3>2 DEF Retry, Quiet, TypeOK
  <2>6. CASE CloseSlots(c)
    BY <2>6 DEF CloseSlots, Quiet, TypeOK
  <2>7. CASE KillClient(c)
    BY <2>7 DEF KillClient, EndSilently, EndedSilently, Quiet, TypeOK
  <2>8. CASE LockedUpExit(c)
    BY <2>8 DEF LockedUpExit, EndedSilently
  <2> QED BY <1>2, <2>1, <2>2, <2>3, <2>4, <2>5, <2>6, <2>7, <2>8 DEF ClientStep, Leave
<1>3. CASE UNCHANGED vars
  BY <1>3 DEF vars, Quiet, TypeOK
<1> QED BY <1>1, <1>2, <1>3 DEF Next

-----------------------------------------------------------------------------
(* The clients of a node                                                   *)

\* A client's step leaves the others where they are.
LEMMA OneMoves ==
    ASSUME TypeOK, NEW c \in Client,
           StartClient(c) \/ ClientStep(c) \/ Leave(c) \/ KillClient(c)
    PROVE  /\ \A d \in Client \ {c} : client'[d] = client[d] /\ hInputSlot'[d] = hInputSlot[d]
           /\ \A n \in Node : outputName'[n] = outputName[n]
                                 \/ (n = NodeOf[c] /\ client[c] \in {"create", "leaving"})
           /\ client'[c] \in Live => client[c] \in Live \/ StartClient(c)
<1>. USE DEF MoveClient, serverVars, clientVars, Live
<1>1. CASE StartClient(c)
  BY <1>1 DEF StartClient, TypeOK
<1>2. CASE SpawnServer(c)
  BY <1>2 DEF SpawnServer, TypeOK
<1>3. CASE OpenInput(c)
  BY <1>3 DEF OpenInput, openSlot, TypeOK
<1>4. CASE CreateOutput(c)
  BY <1>4 DEF CreateOutput, TypeOK
<1>5. CASE Retry(c)
  <2>1. client[c] = "retry" /\ \E q : hInputSlot' = [hInputSlot EXCEPT ![c] = q]
    BY <1>5 DEF Retry, openSlot
  <2>2. \E to \in {"retry", "enter", "gone"} : client' = [client EXCEPT ![c] = to]
    BY <1>5 DEF Retry
  <2> QED BY <1>5, <2>1, <2>2 DEF Retry, TypeOK
<1>6. CASE Enter(c)
  BY <1>6 DEF Enter, TypeOK
<1>7. CASE CloseSlots(c)
  BY <1>7 DEF CloseSlots, TypeOK
<1>8. CASE BeforeExit(c)
  BY <1>8 DEF BeforeExit, TypeOK
<1>9. CASE KillClient(c)
  BY <1>9 DEF KillClient, TypeOK
<1>10. CASE LockedUpExit(c)
  BY <1>10 DEF LockedUpExit, TypeOK
<1> QED BY <1>1, <1>2, <1>3, <1>4, <1>5, <1>6, <1>7, <1>8, <1>9, <1>10 DEF ClientStep, Leave

\* What its own name and handle are after a client's step.
LEMMA OwnMove ==
    ASSUME TypeOK, OwnsOutput, HasSlot, NEW c \in Client,
           StartClient(c) \/ ClientStep(c) \/ Leave(c) \/ KillClient(c)
    PROVE  /\ client'[c] \in {"retry", "enter", "in", "leaving"} => outputName'[NodeOf[c]] = c
           /\ client'[c] \in {"enter", "in"} => hInputSlot'[c] \in Server
<1>. USE NodeType DEF MoveClient, serverVars, clientVars, OwnsOutput, HasSlot
<1>1. CASE StartClient(c)
  BY <1>1 DEF StartClient, TypeOK
<1>2. CASE SpawnServer(c)
  BY <1>2 DEF SpawnServer, TypeOK
<1>3. CASE OpenInput(c)
  BY <1>3 DEF OpenInput, TypeOK
<1>4. CASE CreateOutput(c)
  BY <1>4 DEF CreateOutput, TypeOK
<1>5. CASE Retry(c)
  <2>1. PICK q \in {inputName, None} : hInputSlot' = [hInputSlot EXCEPT ![c] = q]
    BY <1>5 DEF Retry, openSlot, mq_open
  <2>2. client[c] = "retry" /\ outputName' = outputName
    BY <1>5 DEF Retry
  <2>3. client' = [client EXCEPT ![c] = "gone"]
          \/ client' = [client EXCEPT ![c] = IF hInputSlot'[c] = None THEN "retry" ELSE "enter"]
    BY <1>5 DEF Retry
  <2> QED BY <2>1, <2>2, <2>3 DEF TypeOK
<1>6. CASE Enter(c)
  BY <1>6 DEF Enter, TypeOK
<1>7. CASE CloseSlots(c)
  BY <1>7 DEF CloseSlots, TypeOK
<1>8. CASE BeforeExit(c)
  BY <1>8 DEF BeforeExit, TypeOK
<1>9. CASE KillClient(c)
  BY <1>9 DEF KillClient, TypeOK
<1>10. CASE LockedUpExit(c)
  BY <1>10 DEF LockedUpExit, TypeOK
<1> QED BY <1>1, <1>2, <1>3, <1>4, <1>5, <1>6, <1>7, <1>8, <1>9, <1>10 DEF ClientStep, Leave

\* One client of a node at a time, and its name and handle.
LEMMA LifeStep ==
    ASSUME TypeOK, LifeInv, [Next]_vars
    PROVE  LifeInv'
<1>1. ASSUME NEW s \in Server, ServerStep(s) \/ KillServer(s)
      PROVE  UNCHANGED clientVars
  BY <1>1 DEF ServerStep, KillServer, Lock, UnlinkStale, CreateInput, Receive, UnlinkInput, Exit
<1>2. ASSUME NEW c \in Client, StartClient(c) \/ ClientStep(c) \/ Leave(c) \/ KillClient(c)
      PROVE  LifeInv'
  <2>1. /\ \A d \in Client \ {c} : client'[d] = client[d] /\ hInputSlot'[d] = hInputSlot[d]
        /\ \A n \in Node : outputName'[n] = outputName[n]
                              \/ (n = NodeOf[c] /\ client[c] \in {"create", "leaving"})
        /\ client'[c] \in Live => client[c] \in Live \/ StartClient(c)
    BY <1>2, OneMoves
  <2>2. \A d \in Client \ {c} : client'[c] \in Live /\ NodeOf[d] = NodeOf[c] => client[d] \notin Live
    <3>1. CASE client[c] \in Live
      BY <3>1 DEF LifeInv, OneLive
    <3>2. CASE StartClient(c)
      BY <3>2 DEF StartClient, Live
    <3> QED BY <2>1, <3>1, <3>2
  <2>3. OneLive'
    BY <2>1, <2>2 DEF LifeInv, OneLive
  <2>4. ASSUME NEW d \in Client \ {c}, client[d] \in {"retry", "enter", "in", "leaving"}
        PROVE  outputName'[NodeOf[d]] = d
    <3>1. client[d] \in Live
      BY <2>4 DEF Live
    <3>2. NodeOf[d] = NodeOf[c] => client[c] \notin {"create", "leaving"}
      BY <3>1 DEF LifeInv, OneLive, Live
    <3> QED BY <2>1, <2>4, <3>2, NodeType DEF LifeInv, OwnsOutput
  <2>5. OwnsOutput' /\ HasSlot'
    BY <1>2, <2>1, <2>4, OwnMove DEF LifeInv, OwnsOutput, HasSlot
  <2> QED BY <2>3, <2>5 DEF LifeInv
<1>3. CASE UNCHANGED clientVars
  BY <1>3 DEF clientVars, LifeInv, OneLive, OwnsOutput, HasSlot
<1> QED
  BY <1>1, <1>2, <1>3 DEF Next, vars

-----------------------------------------------------------------------------
(* Sending and receiving                                                   *)

\* What is sent comes last, in the queue of the server the client writes to.
LEMMA SendLast ==
    ASSUME TypeOK, HasSlot, NEW c \in Client, client[c] \in {"enter", "in"},
           NEW type \in {"IP_ENTER_GAME", "IP_FINISHED"}, sendInput(c, type)
    PROVE  LET s == hInputSlot[c]
               l == Len(inQ[s])
           IN  /\ s \in Server
               /\ l \in Nat
               /\ Len(inQ'[s]) = l + 1
               /\ inQ'[s][l + 1] = [from |-> c, type |-> type]
               /\ \A k \in 1 .. l : inQ'[s][k] = inQ[s][k]
               /\ \A r \in Server \ {s} : inQ'[r] = inQ[r]
<1>. DEFINE s == hInputSlot[c]
            m == [from |-> c, type |-> type]
<1>1. s \in Server
  BY DEF HasSlot
<1>2. inQ[s] \in Seq(Message) /\ m \in Message
  BY <1>1 DEF TypeOK, Message
<1>3. inQ'[s] = Append(inQ[s], m) /\ \A r \in Server \ {s} : inQ'[r] = inQ[r]
  BY <1>1 DEF sendInput, TypeOK
<1>. HIDE DEF s, m
<1>4. /\ Len(inQ[s]) \in Nat
      /\ Len(Append(inQ[s], m)) = Len(inQ[s]) + 1
      /\ Append(inQ[s], m)[Len(inQ[s]) + 1] = m
      /\ \A k \in 1 .. Len(inQ[s]) : Append(inQ[s], m)[k] = inQ[s][k]
  BY <1>2
<1> QED BY <1>1, <1>3, <1>4 DEF s, m

\* It takes the node of its sender, or frees it.
LEMMA SendSeat ==
    ASSUME TypeOK, HasSlot, NEW c \in Client, client[c] \in {"enter", "in"},
           NEW type \in {"IP_ENTER_GAME", "IP_FINISHED"}, sendInput(c, type),
           NEW n, NEW entry
    PROVE  LET s == hInputSlot[c]
               l == Len(inQ[s])
           IN  /\ \A k \in 0 .. l : SeatAfter(inQ'[s], entry, n, k) <=> SeatAfter(inQ[s], entry, n, k)
               /\ NodeOf[c] = n => (SeatAfter(inQ'[s], entry, n, l + 1) <=> type = "IP_ENTER_GAME")
               /\ NodeOf[c] # n =>
                     (SeatAfter(inQ'[s], entry, n, l + 1) <=> SeatAfter(inQ[s], entry, n, l))
<1>. DEFINE s == hInputSlot[c]
            l == Len(inQ[s])
            q == inQ'[s]
<1>1. /\ l \in Nat
      /\ q[l + 1] = [from |-> c, type |-> type]
      /\ \A k \in 1 .. l : q[k] = inQ[s][k]
  BY SendLast
<1>. HIDE DEF s, l, q
<1>2. ASSUME NEW k \in 0 .. l
      PROVE  SeatAfter(q, entry, n, k) <=> SeatAfter(inQ[s], entry, n, k)
  <2>1. k \in Nat /\ \A i \in 1 .. k : q[i] = inQ[s][i]
    BY <1>1
  <2> QED BY <2>1, SeatSame
<1>3. l + 1 \in Nat \ {0} /\ (l + 1) - 1 = l /\ l \in 0 .. l
  BY <1>1
<1>4. (IsFrom(q, n, l + 1) <=> NodeOf[c] = n) /\ q[l + 1].type = type
  BY <1>1 DEF IsFrom
<1>5. NodeOf[c] = n => (SeatAfter(q, entry, n, l + 1) <=> type = "IP_ENTER_GAME")
  BY <1>3, <1>4, SeatLast
<1>6. NodeOf[c] # n => (SeatAfter(q, entry, n, l + 1) <=> SeatAfter(q, entry, n, l))
  BY <1>3, <1>4, SeatLast
<1> QED BY <1>2, <1>3, <1>5, <1>6 DEF s, l, q

\* The first message of a queue, and what remains of it.
LEMMA ReceiveFirst ==
    ASSUME TypeOK, NEW s \in Server, Receive(s)
    PROVE  /\ Len(inQ[s]) \in Nat \ {0}
           /\ Len(inQ'[s]) = Len(inQ[s]) - 1
           /\ \A k \in 1 .. Len(inQ[s]) - 1 : inQ'[s][k] = inQ[s][k + 1]
           /\ \A r \in Server \ {s} : inQ'[r] = inQ[r]
           /\ inQ[s][1] \in Message
           /\ \/ inQ[s][1].type = "IP_ENTER_GAME" /\ HandleEnter(s, NodeOf[inQ[s][1].from])
              \/ inQ[s][1].type = "IP_FINISHED" /\ HandleFinished(s, NodeOf[inQ[s][1].from])
<1>1. inQ[s] \in Seq(Message) /\ inQ[s] # <<>>
  BY DEF TypeOK, Receive
<1>2. inQ'[s] = Tail(inQ[s]) /\ \A r \in Server \ {s} : inQ'[r] = inQ[r]
  BY DEF Receive, TypeOK
<1>3. /\ Len(inQ[s]) \in Nat \ {0}
      /\ Len(Tail(inQ[s])) = Len(inQ[s]) - 1
      /\ \A k \in 1 .. Len(inQ[s]) - 1 : Tail(inQ[s])[k] = inQ[s][k + 1]
      /\ Head(inQ[s]) = inQ[s][1] /\ inQ[s][1] \in Message
  BY <1>1
<1> QED BY <1>2, <1>3 DEF Receive

\* The handlers change the node of the message, and a goodbye may end the game.
LEMMA HandleNode ==
    ASSUME TypeOK, NEW s \in Server, Receive(s)
    PROVE  LET m == NodeOf[inQ[s][1].from]
           IN  /\ \A r \in Server \ {s} : gNode'[r] = gNode[r] /\ srv'[r] = srv[r]
               /\ srv[s] = "up" /\ srv'[s] \in {"up", "last"}
               /\ \A n \in Node \ {m} : gNode'[s][n] = gNode[s][n]
               /\ inQ[s][1].type = "IP_ENTER_GAME" <=> ~gNode'[s][m].null
               /\ turnedAway' = IF inQ[s][1].type = "IP_ENTER_GAME" /\ ~gNode[s][m].null
                                THEN [turnedAway EXCEPT ![m] = @ + 1] ELSE turnedAway
<1>. DEFINE m == NodeOf[inQ[s][1].from]
<1>1. /\ m \in Node
      /\ \/ inQ[s][1].type = "IP_ENTER_GAME" /\ HandleEnter(s, m)
         \/ inQ[s][1].type = "IP_FINISHED" /\ HandleFinished(s, m)
  BY ReceiveFirst, NodeType DEF Message
<1>2. srv[s] = "up"
  BY DEF Receive
<1>. HIDE DEF m
<1>3. CASE inQ[s][1].type = "IP_ENTER_GAME" /\ ~gNode[s][m].null
  <2>1. UNCHANGED <<srv, gNode>> /\ turnedAway' = [turnedAway EXCEPT ![m] = @ + 1]
    BY <1>1, <1>3 DEF HandleEnter
  <2> QED BY <1>2, <1>3, <2>1 DEF m
<1>4. CASE inQ[s][1].type = "IP_ENTER_GAME" /\ gNode[s][m].null
  <2>1. PICK q : gNode' = [gNode EXCEPT ![s][m] = Occupied(q)]
    BY <1>1, <1>4 DEF HandleEnter
  <2>2. UNCHANGED <<srv, turnedAway>>
    BY <1>1, <1>4 DEF HandleEnter
  <2> QED BY <1>1, <1>2, <1>4, <2>1, <2>2 DEF m, TypeOK, Occupied
<1>5. CASE inQ[s][1].type # "IP_ENTER_GAME"
  <2>1. HandleFinished(s, m)
    BY <1>1, <1>5
  <2> QED BY <1>1, <1>2, <1>5, <2>1 DEF HandleFinished, m, TypeOK, Free
<1> QED BY <1>3, <1>4, <1>5

LEMMA ReceiveSeat ==
    ASSUME TypeOK, NEW s \in Server, Receive(s), NEW n \in Node, NEW k \in 0 .. Len(inQ[s]) - 1
    PROVE  SeatAfter(inQ'[s], gNode'[s][n], n, k) <=> Seated(s, n, k + 1)
<1>. DEFINE before == gNode[s][n]
            after == gNode'[s][n]
<1>2. IsFrom(inQ[s], n, 1) => (~after.null <=> inQ[s][1].type = "IP_ENTER_GAME")
  BY HandleNode DEF IsFrom
<1>3. ~IsFrom(inQ[s], n, 1) => (after.null <=> before.null)
  BY HandleNode DEF IsFrom
<1>4. k \in Nat /\ \A i \in 1 .. k : inQ'[s][i] = inQ[s][i + 1]
  BY ReceiveFirst
<1>. HIDE DEF before, after
<1>5. SeatAfter(inQ'[s], after, n, k) <=> SeatAfter(inQ[s], before, n, k + 1)
  BY <1>2, <1>3, <1>4, SeatTail
<1> QED BY <1>5 DEF before, after, Seated

-----------------------------------------------------------------------------
(* What is in the queues                                                   *)

\* A name or a handle leads only where a server that created its slot is or was.
LEMMA FreshStep ==
    ASSUME TypeOK, HasSlot, Fresh, [Next]_vars
    PROVE  Fresh'
<1>. USE DEF MoveServer, MoveClient, serverVars, clientVars
<1>1. ASSUME NEW s \in Server, ServerStep(s) \/ KillServer(s)
      PROVE  Fresh'
  <2>1. CASE Lock(s)
    BY <2>1 DEF Lock, Fresh, TypeOK
  <2>2. CASE UnlinkStale(s)
    BY <2>2, NodeType DEF UnlinkStale, Fresh, TypeOK
  <2>3. CASE CreateInput(s)
    BY <2>3 DEF CreateInput, Fresh, TypeOK
  <2>4. CASE Receive(s)
    <3>1. UNCHANGED <<inputName, hInputSlot>>
      BY <2>4 DEF Receive
    <3> QED BY <2>4, <3>1, HandleNode, ReceiveFirst DEF Fresh
  <2>5. CASE UnlinkInput(s)
    BY <2>5, NodeType DEF UnlinkInput, Fresh, TypeOK
  <2>6. CASE Exit(s)
    BY <2>6 DEF Exit, Fresh, TypeOK
  <2>7. CASE KillServer(s)
    BY <2>7 DEF KillServer, Fresh, TypeOK
  <2> QED BY <1>1, <2>1, <2>2, <2>3, <2>4, <2>5, <2>6, <2>7 DEF ServerStep
<1>2. ASSUME NEW c \in Client, StartClient(c) \/ ClientStep(c) \/ Leave(c) \/ KillClient(c)
      PROVE  Fresh'
  <2>1. CASE StartClient(c)
    BY <2>1 DEF StartClient, Fresh
  <2>2. CASE SpawnServer(c)
    BY <2>2 DEF SpawnServer, Fresh, TypeOK
  <2>3. CASE OpenInput(c) \/ Retry(c)
    <3>1. PICK q \in {inputName, None} : hInputSlot' = [hInputSlot EXCEPT ![c] = q]
      BY <2>3 DEF OpenInput, Retry, openSlot, mq_open
    <3>2. UNCHANGED <<srv, inQ, inputName>>
      BY <2>3 DEF OpenInput, Retry
    <3> QED BY <3>1, <3>2, NodeType DEF Fresh, TypeOK
  <2>4. CASE CreateOutput(c)
    BY <2>4 DEF CreateOutput, Fresh
  <2>5. CASE Enter(c)
    <3>1. client[c] = "enter" /\ sendInput(c, "IP_ENTER_GAME") /\ UNCHANGED <<srv, inputName, hInputSlot>>
      BY <2>5 DEF Enter
    <3> QED BY <3>1, SendLast DEF Fresh
  <2>6. CASE BeforeExit(c)
    <3>1. client[c] = "in" /\ sendInput(c, "IP_FINISHED") /\ UNCHANGED <<srv, inputName, hInputSlot>>
      BY <2>6 DEF BeforeExit
    <3> QED BY <3>1, SendLast DEF Fresh
  <2>7. CASE CloseSlots(c)
    BY <2>7 DEF CloseSlots, Fresh
  <2>8. CASE KillClient(c)
    BY <2>8 DEF KillClient, Fresh
  <2>9. CASE LockedUpExit(c)
    BY <2>9 DEF LockedUpExit, Fresh
  <2> QED BY <1>2, <2>1, <2>2, <2>3, <2>4, <2>5, <2>6, <2>7, <2>8, <2>9 DEF ClientStep, Leave
<1>3. CASE UNCHANGED vars
  BY <1>3 DEF vars, Fresh
<1> QED BY <1>1, <1>2, <1>3 DEF Next

\* Who is in the game after a step, and what they sent.
LEMMA EnterFacts ==
    ASSUME TypeOK, NEW c \in Client, Enter(c)
    PROVE  /\ client[c] = "enter" /\ client'[c] = "in"
           /\ \A d \in Client \ {c} : client'[d] = client[d]
           /\ sendInput(c, "IP_ENTER_GAME")
           /\ UNCHANGED <<srv, gNode, turnedAway, silent, hInputSlot>>
BY DEF Enter, MoveClient, serverVars, TypeOK

LEMMA ExitFacts ==
    ASSUME TypeOK, NEW c \in Client, BeforeExit(c)
    PROVE  /\ client[c] = "in" /\ client'[c] = "leaving"
           /\ \A d \in Client \ {c} : client'[d] = client[d]
           /\ sendInput(c, "IP_FINISHED")
           /\ UNCHANGED <<srv, gNode, turnedAway, silent, hInputSlot>>
BY DEF BeforeExit, MoveClient, serverVars, TypeOK

LEMMA EndFacts ==
    ASSUME TypeOK, NEW c \in Client, EndedSilently(c)
    PROVE  /\ client[c] = "in" /\ client'[c] = "gone"
           /\ \A d \in Client \ {c} : client'[d] = client[d]
           /\ silent'[NodeOf[c]] = silent[NodeOf[c]] + 1
           /\ \A n \in Node \ {NodeOf[c]} : silent'[n] = silent[n]
           /\ UNCHANGED <<srv, gNode, turnedAway, inQ, hInputSlot>>
BY NodeType DEF EndedSilently, LockedUpExit, KillClient, EndSilently, MoveClient, serverVars, TypeOK

LEMMA ReceiveFacts ==
    ASSUME NEW s \in Server, Receive(s)
    PROVE  UNCHANGED <<client, silent, hInputSlot, outputName>>
BY DEF Receive, clientVars

LEMMA CreateFacts ==
    ASSUME TypeOK, NEW s \in Server, CreateInput(s)
    PROVE  /\ srv[s] = "locked"
           /\ \A r \in Server \ {s} : srv'[r] = srv[r]
           /\ UNCHANGED <<inQ, gNode, turnedAway, silent, client, hInputSlot>>
BY DEF CreateInput, MoveServer, clientVars, TypeOK

\* Nobody else on the node of a client that enters or is in the game is in the game.
LEMMA AloneOnNode ==
    ASSUME OneLive, NEW c \in Client, client[c] \in {"enter", "in"},
           NEW d \in Client, client[d] = "in", NodeOf[d] = NodeOf[c]
    PROVE  d = c
BY DEF OneLive, Live

\* A message in a queue is one of a client.
LEMMA FromType ==
    ASSUME TypeOK, NEW s \in Server, NEW k \in 1 .. Len(inQ[s])
    PROVE  inQ[s][k] \in Message /\ inQ[s][k].from \in Client
<1>1. inQ[s] \in Seq(Message)
  BY DEF TypeOK
<1>2. inQ[s][k] \in Message
  BY <1>1
<1> QED BY <1>2 DEF Message

\* What is in the queues stays in the order of the life of the clients.
LEMMA QueueStep ==
    ASSUME TypeOK, LifeInv, QueueInv, [Next]_vars
    PROVE  QueueInv'
<1>0. Fresh'
  BY FreshStep DEF LifeInv, QueueInv
<1>. USE DEF LifeInv, QueueInv
<1>1. CASE Quiet
  <2>1. Sent'
    BY <1>1, FromType DEF Quiet, Sent
  <2>2. EntersOnce'
    BY <1>1 DEF Quiet, EntersOnce
  <2>3. LastIsEnter'
    <3>1. \A s \in Server, c \in Client : IsIn(c, s)' => IsIn(c, s)
      BY <1>1 DEF Quiet, IsIn
    <3>2. inQ' = inQ
      BY <1>1 DEF Quiet
    <3> QED BY <3>1, <3>2 DEF LastIsEnter, IsFrom
  <2> QED BY <1>0, <2>1, <2>2, <2>3
<1>2. ASSUME NEW c \in Client, NEW type \in {"IP_ENTER_GAME", "IP_FINISHED"},
             client[c] = IF type = "IP_ENTER_GAME" THEN "enter" ELSE "in",
             client'[c] = IF type = "IP_ENTER_GAME" THEN "in" ELSE "leaving",
             \A d \in Client \ {c} : client'[d] = client[d],
             sendInput(c, type), hInputSlot' = hInputSlot
      PROVE  QueueInv'
  <2>. DEFINE s == hInputSlot[c]
              l == Len(inQ[s])
              m == [from |-> c, type |-> type]
  <2>1. /\ s \in Server /\ l \in Nat
        /\ Len(inQ'[s]) = l + 1
        /\ inQ'[s][l + 1] = m
        /\ \A k \in 1 .. l : inQ'[s][k] = inQ[s][k]
        /\ \A r \in Server \ {s} : inQ'[r] = inQ[r]
    BY <1>2, SendLast
  <2>. HIDE DEF s, l
  <2>2. ASSUME NEW k \in 1 .. l + 1
        PROVE  k \in 1 .. l \/ k = l + 1
    BY <2>1
  <2>3. Sent'
    <3>1. ASSUME NEW r \in Server, NEW k \in 1 .. Len(inQ[r])
          PROVE  client'[inQ[r][k].from] \in {"in", "leaving", "gone"}
      BY <1>2, FromType DEF Sent
    <3>2. \A k \in 1 .. l + 1 : client'[inQ'[s][k].from] \in {"in", "leaving", "gone"}
      BY <1>2, <2>1, <2>2, <3>1 DEF l
    <3>3. \A r \in Server : r # s => inQ'[r] = inQ[r]
      BY <2>1
    <3> QED BY <2>1, <3>1, <3>2, <3>3 DEF Sent
  <2>4. EntersOnce'
    <3>1. ASSUME NEW k \in 1 .. l
          PROVE  type = "IP_ENTER_GAME" => inQ[s][k] # m
      BY <1>2, <2>1 DEF Sent, l
    <3>2. ASSUME NEW j \in 1 .. l + 1, NEW k \in 1 .. l + 1,
                 inQ'[s][j].type = "IP_ENTER_GAME", inQ'[s][j] = inQ'[s][k]
          PROVE  j = k
      <4>1. CASE j = l + 1 \/ k = l + 1
        <5>1. m.type = type
          OBVIOUS
        <5>. HIDE DEF m
        <5>2. inQ'[s][j] = m /\ inQ'[s][k] = m /\ type = "IP_ENTER_GAME"
          BY <2>1, <3>2, <4>1, <5>1
        <5>3. j \notin 1 .. l /\ k \notin 1 .. l
          BY <2>1, <3>1, <5>2
        <5> QED BY <2>2, <5>3
      <4>2. CASE j # l + 1 /\ k # l + 1
        BY <2>1, <2>2, <3>2, <4>2 DEF EntersOnce, l
      <4> QED BY <4>1, <4>2
    <3> QED BY <2>1, <3>2 DEF EntersOnce
  <2>5. LastIsEnter'
    <3>1. ASSUME NEW r \in Server, NEW d \in Client, IsIn(d, r)', NEW k \in 1 .. Len(inQ'[r]),
                 NodeOf[inQ'[r][k].from] = NodeOf[d],
                 \A j \in k + 1 .. Len(inQ'[r]) : NodeOf[inQ'[r][j].from] # NodeOf[d]
          PROVE  inQ'[r][k] = Entering(d)
      <4>1. CASE d = c
        <5>1. r = s /\ type = "IP_ENTER_GAME"
          BY <1>2, <3>1, <4>1 DEF IsIn, s
        <5>2. k = l + 1
          BY <2>1, <2>2, <3>1, <4>1, <5>1
        <5> QED BY <2>1, <4>1, <5>1, <5>2 DEF Entering
      <4>2. CASE d # c
        <5>1. IsIn(d, r)
          BY <1>2, <3>1, <4>2 DEF IsIn
        <5>2. NodeOf[d] # NodeOf[c]
          BY <1>2, <4>2, <5>1, AloneOnNode DEF IsIn
        <5>3. CASE r = s
          <6>1. k \in 1 .. l
            BY <2>1, <2>2, <3>1, <5>2, <5>3
          <6>2. \A j \in k + 1 .. l : NodeOf[inQ[s][j].from] # NodeOf[d]
            <7>1. ASSUME NEW j \in k + 1 .. l
                  PROVE  j \in k + 1 .. Len(inQ'[r]) /\ inQ'[r][j] = inQ[s][j]
              BY <2>1, <5>3, <6>1
            <7> QED BY <3>1, <7>1
          <6>3. inQ'[r][k] = inQ[s][k]
            BY <2>1, <5>3, <6>1
          <6> QED BY <3>1, <5>1, <5>3, <6>1, <6>2, <6>3 DEF LastIsEnter, IsFrom, l
        <5>4. CASE r # s
          <6>1. inQ'[r] = inQ[r]
            BY <2>1, <5>4
          <6> QED BY <3>1, <5>1, <6>1 DEF LastIsEnter, IsFrom
        <5> QED BY <5>3, <5>4
      <4> QED BY <4>1, <4>2
    <3> QED BY <3>1 DEF LastIsEnter, IsFrom, Entering
  <2> QED BY <1>0, <2>3, <2>4, <2>5
<1>3. ASSUME NEW c \in Client, EndedSilently(c)
      PROVE  QueueInv'
  <2>1. /\ client'[c] = "gone" /\ UNCHANGED <<inQ, hInputSlot>>
        /\ \A d \in Client \ {c} : client'[d] = client[d]
    BY <1>3, EndFacts
  <2>2. Sent'
    BY <2>1, FromType DEF Sent
  <2>3. EntersOnce'
    BY <2>1 DEF EntersOnce
  <2>4. LastIsEnter'
    <3>1. \A s \in Server, d \in Client : IsIn(d, s)' => IsIn(d, s)
      BY <2>1 DEF IsIn
    <3> QED BY <2>1, <3>1 DEF LastIsEnter, IsFrom
  <2> QED BY <1>0, <2>2, <2>3, <2>4
<1>4. ASSUME NEW s \in Server, Receive(s)
      PROVE  QueueInv'
  <2>. DEFINE l == Len(inQ[s])
  <2>1. /\ l \in Nat \ {0}
        /\ Len(inQ'[s]) = l - 1
        /\ \A k \in 1 .. l - 1 : inQ'[s][k] = inQ[s][k + 1]
        /\ \A r \in Server \ {s} : inQ'[r] = inQ[r]
        /\ client' = client /\ hInputSlot' = hInputSlot
    BY <1>4, ReceiveFirst, ReceiveFacts
  <2>. HIDE DEF l
  <2>2. \A k \in 1 .. l - 1 : k + 1 \in 1 .. l
    BY <2>1
  <2>3. Sent'
    <3>1. \A k \in 1 .. l - 1 : client'[inQ'[s][k].from] \in {"in", "leaving", "gone"}
      BY <2>1, <2>2 DEF Sent, l
    <3>2. ASSUME NEW r \in Server \ {s}, NEW k \in 1 .. Len(inQ'[r])
          PROVE  client'[inQ'[r][k].from] \in {"in", "leaving", "gone"}
      BY <2>1 DEF Sent
    <3> QED BY <2>1, <3>1, <3>2 DEF Sent
  <2>4. EntersOnce'
    <3>1. ASSUME NEW j \in 1 .. l - 1, NEW k \in 1 .. l - 1,
                 inQ'[s][j].type = "IP_ENTER_GAME", inQ'[s][j] = inQ'[s][k]
          PROVE  j = k
      <4>1. j + 1 = k + 1
        <5>1. j + 1 \in 1 .. Len(inQ[s]) /\ k + 1 \in 1 .. Len(inQ[s])
          BY <2>2 DEF l
        <5>2. inQ[s][j + 1].type = "IP_ENTER_GAME" /\ inQ[s][j + 1] = inQ[s][k + 1]
          BY <2>1, <3>1
        <5> QED BY <5>1, <5>2 DEF EntersOnce
      <4> QED BY <2>1, <4>1
    <3> QED BY <2>1, <3>1 DEF EntersOnce
  <2>5. LastIsEnter'
    <3>1. ASSUME NEW d \in Client, IsIn(d, s)', NEW k \in 1 .. l - 1,
                 NodeOf[inQ'[s][k].from] = NodeOf[d],
                 \A j \in k + 1 .. l - 1 : NodeOf[inQ'[s][j].from] # NodeOf[d]
          PROVE  inQ'[s][k] = Entering(d)
      <4>1. ASSUME NEW j \in (k + 1) + 1 .. l
            PROVE  j - 1 \in k + 1 .. l - 1 /\ inQ'[s][j - 1] = inQ[s][j]
        <5>1. j - 1 \in k + 1 .. l - 1 /\ j - 1 \in 1 .. l - 1 /\ (j - 1) + 1 = j
          BY <2>1
        <5> QED BY <2>1, <5>1
      <4>2. \A j \in (k + 1) + 1 .. l : NodeOf[inQ[s][j].from] # NodeOf[d]
        BY <3>1, <4>1
      <4>3. IsIn(d, s) /\ inQ'[s][k] = inQ[s][k + 1] /\ k + 1 \in 1 .. l
        BY <2>1, <2>2, <3>1 DEF IsIn
      <4> QED BY <3>1, <4>2, <4>3 DEF LastIsEnter, IsFrom, l
    <3>2. ASSUME NEW r \in Server \ {s}, NEW d \in Client, IsIn(d, r)', NEW k \in 1 .. Len(inQ'[r]),
                 NodeOf[inQ'[r][k].from] = NodeOf[d],
                 \A j \in k + 1 .. Len(inQ'[r]) : NodeOf[inQ'[r][j].from] # NodeOf[d]
          PROVE  inQ'[r][k] = Entering(d)
      <4>1. inQ'[r] = inQ[r] /\ IsIn(d, r)
        BY <2>1, <3>2 DEF IsIn
      <4> QED BY <3>2, <4>1 DEF LastIsEnter, IsFrom
    <3>3. ASSUME NEW r \in Server, NEW d \in Client, IsIn(d, r)', NEW k \in 1 .. Len(inQ'[r]),
                 NodeOf[inQ'[r][k].from] = NodeOf[d],
                 \A j \in k + 1 .. Len(inQ'[r]) : NodeOf[inQ'[r][j].from] # NodeOf[d]
          PROVE  inQ'[r][k] = Entering(d)
      <4>1. CASE r = s
        BY <2>1, <3>1, <3>3, <4>1
      <4>2. CASE r # s
        BY <3>2, <3>3, <4>2
      <4> QED BY <4>1, <4>2
    <3> QED BY <3>3 DEF LastIsEnter, IsFrom, Entering
  <2> QED BY <1>0, <2>3, <2>4, <2>5
<1>5. ASSUME NEW s \in Server, CreateInput(s)
      PROVE  QueueInv'
  <2>1. UNCHANGED <<inQ, client, hInputSlot>>
    BY <1>5, CreateFacts
  <2> QED BY <1>0, <2>1 DEF Sent, EntersOnce, LastIsEnter, IsIn, IsFrom
<1>6. ASSUME NEW c \in Client, Enter(c) \/ BeforeExit(c)
      PROVE  QueueInv'
  <2>1. CASE Enter(c)
    <3>. DEFINE type == "IP_ENTER_GAME"
    <3>1. type \in {"IP_ENTER_GAME", "IP_FINISHED"}
      OBVIOUS
    <3> QED BY <1>2, <2>1, <3>1, EnterFacts
  <2>2. CASE BeforeExit(c)
    <3>. DEFINE type == "IP_FINISHED"
    <3>1. type \in {"IP_ENTER_GAME", "IP_FINISHED"}
      OBVIOUS
    <3> QED BY <1>2, <2>2, <3>1, ExitFacts
  <2> QED BY <1>6, <2>1, <2>2
<1> QED BY <1>1, <1>3, <1>4, <1>5, <1>6, StepKinds

-----------------------------------------------------------------------------
(* The seats                                                               *)

\* What a step that sends a message does to the seats of the node of its sender, and of the others.
LEMMA SentSeats ==
    ASSUME TypeOK, HasSlot, NEW c \in Client, client[c] \in {"enter", "in"},
           NEW type \in {"IP_ENTER_GAME", "IP_FINISHED"}, sendInput(c, type), gNode' = gNode, NEW n
    PROVE  LET s == hInputSlot[c]
               l == Len(inQ[s])
           IN  /\ \A k \in 0 .. l : SeatAfter(inQ'[s], gNode'[s][n], n, k) <=> Seated(s, n, k)
               /\ NodeOf[c] = n => (SeatAfter(inQ'[s], gNode'[s][n], n, l + 1) <=> type = "IP_ENTER_GAME")
               /\ NodeOf[c] # n =>
                     (SeatAfter(inQ'[s], gNode'[s][n], n, l + 1) <=> Seated(s, n, l))
BY SendSeat DEF Seated

\* A client in the game will have its node.
LEMMA HasSeatStep ==
    ASSUME TypeOK, LifeInv, QueueInv, InHasSeat, [Next]_vars
    PROVE  InHasSeat'
<1>. USE DEF LifeInv, QueueInv
<1>1. CASE Quiet
  BY <1>1 DEF Quiet, InHasSeat, IsIn, Seated
<1>2. ASSUME NEW c \in Client, NEW type \in {"IP_ENTER_GAME", "IP_FINISHED"},
             client[c] = IF type = "IP_ENTER_GAME" THEN "enter" ELSE "in",
             client'[c] = IF type = "IP_ENTER_GAME" THEN "in" ELSE "leaving",
             \A d \in Client \ {c} : client'[d] = client[d],
             sendInput(c, type), UNCHANGED <<srv, gNode, hInputSlot>>
      PROVE  InHasSeat'
  <2>. DEFINE s == hInputSlot[c]
              l == Len(inQ[s])
  <2>1. /\ s \in Server /\ l \in Nat
        /\ Len(inQ'[s]) = l + 1
        /\ \A r \in Server \ {s} : inQ'[r] = inQ[r]
    BY <1>2, SendLast
  <2>2. ASSUME NEW n
        PROVE  /\ NodeOf[c] = n => (SeatAfter(inQ'[s], gNode'[s][n], n, l + 1) <=> type = "IP_ENTER_GAME")
               /\ NodeOf[c] # n => (SeatAfter(inQ'[s], gNode'[s][n], n, l + 1) <=> Seated(s, n, l))
    BY <1>2, SentSeats
  <2>. HIDE DEF s, l
  <2>3. ASSUME NEW r \in Server, NEW d \in Client, srv'[r] = "up", IsIn(d, r)'
        PROVE  SeatAfter(inQ'[r], gNode'[r][NodeOf[d]], NodeOf[d], Len(inQ'[r]))
    <3>1. CASE d = c
      <4>1. r = s /\ type = "IP_ENTER_GAME"
        BY <1>2, <2>3, <3>1 DEF IsIn, s
      <4> QED BY <2>1, <2>2, <3>1, <4>1
    <3>2. CASE d # c
      <4>1. IsIn(d, r) /\ srv[r] = "up"
        BY <1>2, <2>3, <3>2 DEF IsIn
      <4>2. Seated(r, NodeOf[d], Len(inQ[r]))
        BY <4>1 DEF InHasSeat
      <4>3. NodeOf[c] # NodeOf[d]
        BY <1>2, <3>2, <4>1, AloneOnNode DEF IsIn
      <4>4. CASE r = s
        BY <2>1, <2>2, <4>2, <4>3, <4>4 DEF l
      <4>5. CASE r # s
        <5>1. inQ'[r] = inQ[r] /\ gNode' = gNode
          BY <1>2, <2>1, <4>5
        <5> QED BY <4>2, <5>1 DEF Seated
      <4> QED BY <4>4, <4>5
    <3> QED BY <3>1, <3>2
  <2> QED BY <2>3 DEF InHasSeat, Seated
<1>3. ASSUME NEW c \in Client, EndedSilently(c)
      PROVE  InHasSeat'
  <2>1. /\ client'[c] = "gone" /\ UNCHANGED <<srv, gNode, inQ, hInputSlot>>
        /\ \A d \in Client \ {c} : client'[d] = client[d]
    BY <1>3, EndFacts
  <2> QED BY <2>1 DEF InHasSeat, IsIn, Seated
<1>4. ASSUME NEW s \in Server, Receive(s)
      PROVE  InHasSeat'
  <2>1. UNCHANGED <<client, hInputSlot>>
    BY <1>4, ReceiveFacts
  <2>2. /\ srv[s] = "up"
        /\ \A r \in Server \ {s} : gNode'[r] = gNode[r] /\ srv'[r] = srv[r] /\ inQ'[r] = inQ[r]
    BY <1>4, HandleNode, ReceiveFirst
  <2>3. /\ Len(inQ[s]) \in Nat \ {0} /\ Len(inQ'[s]) = Len(inQ[s]) - 1
    BY <1>4, ReceiveFirst
  <2>4. Len(inQ'[s]) \in 0 .. Len(inQ[s]) - 1 /\ Len(inQ'[s]) + 1 = Len(inQ[s])
    BY <2>3
  <2>5. ASSUME NEW d \in Client, IsIn(d, s)'
        PROVE  SeatAfter(inQ'[s], gNode'[s][NodeOf[d]], NodeOf[d], Len(inQ'[s]))
    <3>1. Seated(s, NodeOf[d], Len(inQ[s]))
      BY <2>1, <2>2, <2>5 DEF InHasSeat, IsIn
    <3>2. ASSUME NEW k \in 0 .. Len(inQ[s]) - 1, k + 1 = Len(inQ[s])
          PROVE  SeatAfter(inQ'[s], gNode'[s][NodeOf[d]], NodeOf[d], k)
      BY <1>4, <3>1, <3>2, ReceiveSeat, NodeType
    <3> QED BY <2>4, <3>2
  <2>6. ASSUME NEW r \in Server \ {s}, NEW d \in Client, srv'[r] = "up", IsIn(d, r)'
        PROVE  SeatAfter(inQ'[r], gNode'[r][NodeOf[d]], NodeOf[d], Len(inQ'[r]))
    BY <2>1, <2>2, <2>6 DEF InHasSeat, IsIn, Seated
  <2> QED BY <2>5, <2>6 DEF InHasSeat, Seated
<1>5. ASSUME NEW s \in Server, CreateInput(s)
      PROVE  InHasSeat'
  <2>1. /\ srv[s] = "locked"
        /\ \A r \in Server \ {s} : srv'[r] = srv[r]
        /\ UNCHANGED <<inQ, gNode, client, hInputSlot>>
    BY <1>5, CreateFacts
  <2>2. \A c \in Client : hInputSlot[c] # s
    BY <2>1 DEF Fresh
  <2> QED BY <2>1, <2>2 DEF InHasSeat, IsIn, Seated
<1>6. ASSUME NEW c \in Client, Enter(c) \/ BeforeExit(c)
      PROVE  InHasSeat'
  <2>1. CASE Enter(c)
    <3>. DEFINE type == "IP_ENTER_GAME"
    <3>1. type \in {"IP_ENTER_GAME", "IP_FINISHED"}
      OBVIOUS
    <3> QED BY <1>2, <2>1, <3>1, EnterFacts
  <2>2. CASE BeforeExit(c)
    <3>. DEFINE type == "IP_FINISHED"
    <3>1. type \in {"IP_ENTER_GAME", "IP_FINISHED"}
      OBVIOUS
    <3> QED BY <1>2, <2>2, <3>1, ExitFacts
  <2> QED BY <1>6, <2>1, <2>2
<1> QED BY <1>1, <1>3, <1>4, <1>5, <1>6, StepKinds

-----------------------------------------------------------------------------
(* Those who will be turned away                                           *)

\* Entering an occupied node adds the one who does; other messages add nobody.
LEMMA SendTurnAway ==
    ASSUME TypeOK, HasSlot, NEW c \in Client, client[c] \in {"enter", "in"},
           NEW type \in {"IP_ENTER_GAME", "IP_FINISHED"}, sendInput(c, type), gNode' = gNode,
           NEW n \in Node, NEW s \in Server, s = hInputSlot[c]
    PROVE  ToTurnAway(s, n)' =
              IF type = "IP_ENTER_GAME" /\ NodeOf[c] = n /\ Seated(s, n, Len(inQ[s]))
              THEN ToTurnAway(s, n) \cup {c} ELSE ToTurnAway(s, n)
<1>. DEFINE l == Len(inQ[s])
            m == [from |-> c, type |-> type]
<1>1. /\ l \in Nat
      /\ Len(inQ'[s]) = l + 1
      /\ inQ'[s][l + 1] = m
      /\ \A k \in 1 .. l : inQ'[s][k] = inQ[s][k]
  BY SendLast
<1>2. \A k \in 0 .. l : SeatAfter(inQ'[s], gNode'[s][n], n, k) <=> Seated(s, n, k)
  BY SentSeats
<1>. HIDE DEF l
<1>4. ASSUME NEW d \in Client
      PROVE  (m = Entering(d)) <=> (d = c /\ type = "IP_ENTER_GAME")
  BY DEF Entering
<1>. HIDE DEF m
<1>. DEFINE waits(d, k) == inQ[s][k] = Entering(d) /\ Seated(s, n, k - 1)
            waitsNow(d, k) == inQ'[s][k] = Entering(d) /\ SeatAfter(inQ'[s], gNode'[s][n], n, k - 1)
<1>5. ASSUME NEW d \in Client, NEW k \in 1 .. l
      PROVE  waitsNow(d, k) <=> waits(d, k)
  <2>1. k - 1 \in 0 .. l
    BY <1>1
  <2> QED BY <1>1, <1>2, <2>1
<1>6. ASSUME NEW d \in Client
      PROVE  waitsNow(d, l + 1) <=> d = c /\ type = "IP_ENTER_GAME" /\ Seated(s, n, l)
  <2>1. (l + 1) - 1 = l /\ l \in 0 .. l
    BY <1>1
  <2> QED BY <1>1, <1>2, <1>4, <2>1
<1>7. \A k : k \in 1 .. l + 1 <=> k \in 1 .. l \/ k = l + 1
  BY <1>1
<1>8. ToTurnAway(s, n)' =
      {d \in Client : NodeOf[d] = n /\ \E k \in 1 .. Len(inQ'[s]) :
          inQ'[s][k] = Entering(d) /\ SeatAfter(inQ'[s], gNode'[s][n], n, k - 1)}
  BY DEF ToTurnAway, Seated, Entering
<1>9. {d \in Client : NodeOf[d] = n /\ \E k \in 1 .. l + 1 : waitsNow(d, k)} =
      IF type = "IP_ENTER_GAME" /\ NodeOf[c] = n /\ Seated(s, n, l)
      THEN {d \in Client : NodeOf[d] = n /\ \E k \in 1 .. l : waits(d, k)} \cup {c}
      ELSE {d \in Client : NodeOf[d] = n /\ \E k \in 1 .. l : waits(d, k)}
  <2>. HIDE DEF waits, waitsNow
  <2> QED BY <1>5, <1>6, <1>7
<1>10. ToTurnAway(s, n) = {d \in Client : NodeOf[d] = n /\ \E k \in 1 .. l : waits(d, k)}
  BY DEF ToTurnAway, l
<1>11. {d \in Client : NodeOf[d] = n /\ \E k \in 1 .. Len(inQ'[s]) :
          inQ'[s][k] = Entering(d) /\ SeatAfter(inQ'[s], gNode'[s][n], n, k - 1)}
       = {d \in Client : NodeOf[d] = n /\ \E k \in 1 .. l + 1 : waitsNow(d, k)}
  BY <1>1
<1> QED BY <1>1, <1>8, <1>9, <1>10, <1>11 DEF l

\* One who is turned away was expected to be, and is done with.
LEMMA ReceiveTurnAway ==
    ASSUME TypeOK, EntersOnce, NEW s \in Server, Receive(s), NEW n \in Node
    PROVE  LET m == inQ[s][1]
               turns == m.type = "IP_ENTER_GAME" /\ NodeOf[m.from] = n /\ ~gNode[s][n].null
           IN  /\ turns => m.from \in ToTurnAway(s, n)
               /\ ToTurnAway(s, n)' = IF turns THEN ToTurnAway(s, n) \ {m.from} ELSE ToTurnAway(s, n)
<1>. DEFINE m == inQ[s][1]
            l == Len(inQ[s])
            turns == m.type = "IP_ENTER_GAME" /\ NodeOf[m.from] = n /\ ~gNode[s][n].null
            waits(d, k) == inQ[s][k] = Entering(d) /\ Seated(s, n, k - 1)
            waitsNow(d, k) == inQ'[s][k] = Entering(d) /\ SeatAfter(inQ'[s], gNode'[s][n], n, k - 1)
<1>1. /\ l \in Nat \ {0}
      /\ Len(inQ'[s]) = l - 1
      /\ \A k \in 1 .. l - 1 : inQ'[s][k] = inQ[s][k + 1]
      /\ m \in Message
  BY ReceiveFirst
<1>2. \A k \in 0 .. l - 1 : SeatAfter(inQ'[s], gNode'[s][n], n, k) <=> Seated(s, n, k + 1)
  BY ReceiveSeat
<1>3. Seated(s, n, 1 - 1) <=> ~gNode[s][n].null
  BY DEF Seated, SeatAfter
<1>4. m.from \in Client /\ (m.type = "IP_ENTER_GAME" => m = Entering(m.from))
  BY <1>1 DEF Message, Entering
<1>5. \A d : Entering(d).from = d /\ Entering(d).type = "IP_ENTER_GAME"
  BY DEF Entering
<1>6. ASSUME NEW k \in 2 .. l, m.type = "IP_ENTER_GAME"
      PROVE  inQ[s][k] # m
  <2>1. 1 \in 1 .. l /\ k \in 1 .. l /\ k # 1
    BY <1>1
  <2> QED BY <1>6, <2>1 DEF EntersOnce
<1>. HIDE DEF l
<1>7. ASSUME NEW d, NEW k \in 1 .. l - 1
      PROVE  waitsNow(d, k) <=> waits(d, k + 1)
  <2>1. k - 1 \in 0 .. l - 1 /\ (k - 1) + 1 = k /\ (k + 1) - 1 = k
    BY <1>1
  <2> QED BY <1>1, <1>2, <2>1
<1>8. turns => waits(m.from, 1) /\ \A k \in 2 .. l : ~waits(m.from, k)
  BY <1>3, <1>4, <1>6
<1>9. ASSUME NEW d \in Client, NodeOf[d] = n, waits(d, 1)
      PROVE  turns /\ d = m.from
  BY <1>3, <1>5, <1>9
<1>. HIDE DEF m, turns, waits, waitsNow
<1>10. 1 \in 1 .. l /\ \A k : /\ k \in 1 .. l <=> k = 1 \/ k \in 2 .. l
                              /\ k \in 1 .. l - 1 => k + 1 \in 2 .. l
                              /\ k \in 2 .. l => k - 1 \in 1 .. l - 1 /\ (k - 1) + 1 = k
  BY <1>1
<1>11. ASSUME NEW d
       PROVE  (\E k \in 1 .. l - 1 : waitsNow(d, k)) <=> \E k \in 2 .. l : waits(d, k)
  <2>1. ASSUME NEW k \in 1 .. l - 1, waitsNow(d, k)
        PROVE  k + 1 \in 2 .. l /\ waits(d, k + 1)
    BY <1>1, <1>7, <2>1
  <2>2. ASSUME NEW k \in 2 .. l, waits(d, k)
        PROVE  k - 1 \in 1 .. l - 1 /\ waitsNow(d, k - 1)
    <3>1. k - 1 \in 1 .. l - 1 /\ (k - 1) + 1 = k
      BY <1>1
    <3>2. ASSUME NEW i \in 1 .. l - 1, i + 1 = k
          PROVE  waitsNow(d, i)
      BY <1>7, <2>2, <3>2
    <3> QED BY <3>1, <3>2
  <2> QED BY <2>1, <2>2
<1>12. {d \in Client : NodeOf[d] = n /\ \E k \in 1 .. l - 1 : waitsNow(d, k)} =
       IF turns THEN {d \in Client : NodeOf[d] = n /\ \E k \in 1 .. l : waits(d, k)} \ {m.from}
       ELSE {d \in Client : NodeOf[d] = n /\ \E k \in 1 .. l : waits(d, k)}
  <2>1. ASSUME NEW d \in Client, NodeOf[d] = n
        PROVE  (\E k \in 2 .. l : waits(d, k))
                  <=> (\E k \in 1 .. l : waits(d, k)) /\ ~(turns /\ d = m.from)
    BY <1>8, <1>9, <1>10, <2>1
  <2> QED BY <1>11, <2>1
<1>13. ToTurnAway(s, n) = {d \in Client : NodeOf[d] = n /\ \E k \in 1 .. l : waits(d, k)}
  BY DEF ToTurnAway, l, waits
<1>14. ToTurnAway(s, n)' = {d \in Client : NodeOf[d] = n /\ \E k \in 1 .. l - 1 : waitsNow(d, k)}
  <2>1. ToTurnAway(s, n)' =
        {d \in Client : NodeOf[d] = n /\ \E k \in 1 .. Len(inQ'[s]) :
            inQ'[s][k] = Entering(d) /\ SeatAfter(inQ'[s], gNode'[s][n], n, k - 1)}
    BY DEF ToTurnAway, Seated, Entering
  <2> QED BY <1>1, <2>1 DEF waitsNow
<1>15. turns => NodeOf[m.from] = n
  BY DEF turns
<1>16. turns => m.from \in ToTurnAway(s, n)
  BY <1>4, <1>8, <1>10, <1>13, <1>15
<1> QED BY <1>12, <1>13, <1>14, <1>16 DEF m, turns

-----------------------------------------------------------------------------
(* Somebody who said no goodbye is behind every one that is turned away    *)

\* What is left to cover on a node of a server.
Covered(s, n) ==
    /\ IsFiniteSet(ToTurnAway(s, n))
    /\ turnedAway[n] + Cardinality(ToTurnAway(s, n)) + (IF Abandoned(s, n) THEN 1 ELSE 0) <= silent[n]

\* A step that turns nobody away keeps a node covered.
LEMMA CoverSame ==
    ASSUME NEW s \in Server, NEW n \in Node, TypeOK, TypeOK', Covered(s, n),
           ToTurnAway(s, n)' = ToTurnAway(s, n), turnedAway'[n] = turnedAway[n],
           Abandoned(s, n)' => Abandoned(s, n) \/ silent'[n] = silent[n] + 1,
           silent'[n] = silent[n] \/ silent'[n] = silent[n] + 1
    PROVE  Covered(s, n)'
<1>1. /\ turnedAway[n] \in Nat /\ silent[n] \in Nat
      /\ Cardinality(ToTurnAway(s, n)) \in Nat
  BY FS_CardinalityType DEF TypeOK, Covered
<1> QED BY <1>1 DEF Covered

\* What happens elsewhere does not matter here.
LEMMA TurnAwaySame ==
    ASSUME NEW s \in Server, NEW n \in Node, inQ'[s] = inQ[s], gNode'[s][n] = gNode[s][n]
    PROVE  /\ ToTurnAway(s, n)' = ToTurnAway(s, n)
           /\ Seated(s, n, Len(inQ[s]))' <=> Seated(s, n, Len(inQ[s]))
BY DEF ToTurnAway, Seated, Entering

\* Each end without a goodbye covers one client turned away, step by step.
LEMMA CoverStep ==
    ASSUME IInv, LifeInv, QueueInv, SilentCover, TypeOK', [Next]_vars
    PROVE  SilentCover'
<1>. USE DEF IInv, LifeInv, QueueInv
<1>0. /\ \A n \in Node : turnedAway[n] \in Nat /\ silent[n] \in Nat /\ turnedAway[n] <= silent[n]
      /\ \A s \in Server, n \in Node : srv[s] = "up" => Covered(s, n)
  BY DEF SilentCover, Covered, TypeOK
<1>00. (\A n \in Node :
          /\ turnedAway'[n] <= silent'[n]
          /\ \A s \in Server : srv'[s] = "up" => Covered(s, n)') => SilentCover'
  BY DEF SilentCover, Covered
<1>1. CASE Quiet
  <2>1. /\ turnedAway' = turnedAway /\ inQ' = inQ
        /\ \A n \in Node : silent'[n] = silent[n] \/ silent'[n] = silent[n] + 1
    BY <1>1 DEF Quiet
  <2>2. ASSUME NEW s \in Server, srv'[s] = "up", NEW n \in Node
        PROVE  Covered(s, n)'
    <3>1. srv[s] = "up" /\ gNode'[s] = gNode[s]
      BY <1>1, <2>2 DEF Quiet
    <3>2. \A c \in Client : IsIn(c, s)' <=> IsIn(c, s)
      BY <1>1 DEF Quiet, IsIn
    <3>3. ToTurnAway(s, n)' = ToTurnAway(s, n) /\ (Seated(s, n, Len(inQ[s]))' <=> Seated(s, n, Len(inQ[s])))
      BY <2>1, <3>1, TurnAwaySame
    <3>4. Abandoned(s, n)' => Abandoned(s, n)
      BY <3>2, <3>3 DEF Abandoned
    <3> QED BY <1>0, <2>1, <3>1, <3>3, <3>4, CoverSame
  <2> QED BY <1>0, <1>00, <2>1, <2>2
<1>2. ASSUME NEW c \in Client, NEW type \in {"IP_ENTER_GAME", "IP_FINISHED"},
             client[c] = IF type = "IP_ENTER_GAME" THEN "enter" ELSE "in",
             client'[c] = IF type = "IP_ENTER_GAME" THEN "in" ELSE "leaving",
             \A d \in Client \ {c} : client'[d] = client[d],
             sendInput(c, type), UNCHANGED <<srv, gNode, hInputSlot, turnedAway, silent>>
      PROVE  SilentCover'
  <2>1. PICK s \in Server : s = hInputSlot[c]
    BY <1>2 DEF HasSlot
  <2>2. /\ Len(inQ[s]) \in Nat /\ Len(inQ'[s]) = Len(inQ[s]) + 1
        /\ \A r \in Server \ {s} : inQ'[r] = inQ[r]
    BY <1>2, <2>1, SendLast
  <2>3. \A n \in Node, r \in Server \ {s} : Covered(r, n) => Covered(r, n)'
    <3>1. ASSUME NEW n \in Node, NEW r \in Server \ {s}, Covered(r, n)
          PROVE  Covered(r, n)'
      <4>1. \A d \in Client : IsIn(d, r)' <=> IsIn(d, r)
        BY <1>2, <2>1 DEF IsIn
      <4>2. inQ'[r] = inQ[r] /\ gNode' = gNode
        BY <1>2, <2>2
      <4>3. /\ ToTurnAway(r, n)' = ToTurnAway(r, n)
            /\ (Seated(r, n, Len(inQ[r]))' <=> Seated(r, n, Len(inQ[r])))
        BY <4>2, TurnAwaySame
      <4>4. Abandoned(r, n)' => Abandoned(r, n)
        BY <4>1, <4>3 DEF Abandoned
      <4> QED BY <1>2, <3>1, <4>3, <4>4, CoverSame
    <3> QED BY <3>1
  <2>4. ASSUME NEW n \in Node, Covered(s, n)
        PROVE  Covered(s, n)'
    <3>1. ToTurnAway(s, n)' =
              IF type = "IP_ENTER_GAME" /\ NodeOf[c] = n /\ Seated(s, n, Len(inQ[s]))
              THEN ToTurnAway(s, n) \cup {c} ELSE ToTurnAway(s, n)
      BY <1>2, <2>1, SendTurnAway
    <3>2. /\ NodeOf[c] = n =>
                (SeatAfter(inQ'[s], gNode'[s][n], n, Len(inQ'[s])) <=> type = "IP_ENTER_GAME")
          /\ NodeOf[c] # n =>
                (SeatAfter(inQ'[s], gNode'[s][n], n, Len(inQ'[s])) <=> Seated(s, n, Len(inQ[s])))
      <4>1. /\ NodeOf[c] = n =>
                  (SeatAfter(inQ'[s], gNode'[s][n], n, Len(inQ[s]) + 1) <=> type = "IP_ENTER_GAME")
            /\ NodeOf[c] # n =>
                  (SeatAfter(inQ'[s], gNode'[s][n], n, Len(inQ[s]) + 1) <=> Seated(s, n, Len(inQ[s])))
        <5>1. client[c] \in {"enter", "in"} /\ gNode' = gNode
          BY <1>2
        <5> QED BY <1>2, <2>1, <5>1, SentSeats
      <4> QED BY <2>2, <4>1
    <3>3. Abandoned(s, n)' <=>
             /\ SeatAfter(inQ'[s], gNode'[s][n], n, Len(inQ'[s]))
             /\ \A d \in Client : NodeOf[d] = n => ~IsIn(d, s)'
      BY DEF Abandoned, Seated
    <3>4. CASE NodeOf[c] # n
      <4>1. \A d \in Client : NodeOf[d] = n => (IsIn(d, s)' <=> IsIn(d, s))
        BY <1>2, <3>4 DEF IsIn
      <4>2. Abandoned(s, n)' => Abandoned(s, n)
        BY <3>2, <3>3, <3>4, <4>1 DEF Abandoned
      <4> QED BY <1>2, <2>4, <3>1, <3>4, <4>2, CoverSame
    <3>5. CASE NodeOf[c] = n /\ type = "IP_FINISHED"
      <4>1. ~Abandoned(s, n)'
        BY <3>2, <3>3, <3>5
      <4> QED BY <1>2, <2>4, <3>1, <3>5, <4>1, CoverSame
    <3>6. CASE NodeOf[c] = n /\ type = "IP_ENTER_GAME"
      <4>1. IsIn(c, s)'
        BY <1>2, <2>1, <3>6 DEF IsIn
      <4>2. ~Abandoned(s, n)'
        BY <3>3, <3>6, <4>1
      <4>3. CASE ~Seated(s, n, Len(inQ[s]))
        BY <1>2, <2>4, <3>1, <4>2, <4>3, CoverSame
      <4>4. CASE Seated(s, n, Len(inQ[s]))
        <5>1. \A d \in Client : NodeOf[d] = n => ~IsIn(d, s)
          BY <1>2, <3>6, AloneOnNode DEF IsIn
        <5>2. Abandoned(s, n)
          BY <4>4, <5>1 DEF Abandoned
        <5>3. ToTurnAway(s, n)' = ToTurnAway(s, n) \cup {c}
          BY <3>1, <3>6, <4>4
        <5>4. /\ IsFiniteSet(ToTurnAway(s, n))
              /\ turnedAway[n] + Cardinality(ToTurnAway(s, n)) + 1 <= silent[n]
          BY <2>4, <5>2 DEF Covered
        <5>5. /\ IsFiniteSet(ToTurnAway(s, n) \cup {c})
              /\ Cardinality(ToTurnAway(s, n) \cup {c}) <= Cardinality(ToTurnAway(s, n)) + 1
              /\ Cardinality(ToTurnAway(s, n)) \in Nat
              /\ Cardinality(ToTurnAway(s, n) \cup {c}) \in Nat
          <6>. DEFINE T == ToTurnAway(s, n)
          <6>. HIDE DEF T
          <6>1. IsFiniteSet(T)
            BY <5>4 DEF T
          <6>2. /\ IsFiniteSet(T \cup {c}) /\ Cardinality(T) \in Nat
                /\ Cardinality(T \cup {c}) = IF c \in T THEN Cardinality(T) ELSE Cardinality(T) + 1
            BY <6>1, FS_AddElement, FS_CardinalityType
          <6>3. Cardinality(T \cup {c}) \in Nat /\ Cardinality(T \cup {c}) <= Cardinality(T) + 1
            BY <6>2
          <6> QED BY <6>2, <6>3 DEF T
        <5> QED BY <1>0, <1>2, <4>2, <5>3, <5>4, <5>5 DEF Covered
      <4> QED BY <4>3, <4>4
    <3> QED BY <3>4, <3>5, <3>6
  <2>5. ASSUME NEW r \in Server, srv'[r] = "up", NEW n \in Node
        PROVE  Covered(r, n)'
    <3>1. Covered(r, n)
      BY <1>0, <1>2, <2>5
    <3> QED BY <2>3, <2>4, <3>1
  <2> QED BY <1>0, <1>00, <1>2, <2>5
<1>3. ASSUME NEW c \in Client, EndedSilently(c)
      PROVE  SilentCover'
  <2>1. /\ client'[c] = "gone" /\ UNCHANGED <<srv, gNode, inQ, hInputSlot, turnedAway>>
        /\ \A d \in Client \ {c} : client'[d] = client[d]
        /\ silent'[NodeOf[c]] = silent[NodeOf[c]] + 1
        /\ \A n \in Node \ {NodeOf[c]} : silent'[n] = silent[n]
    BY <1>3, EndFacts
  <2>2. ASSUME NEW s \in Server, srv'[s] = "up", NEW n \in Node
        PROVE  Covered(s, n)'
    <3>1. ToTurnAway(s, n)' = ToTurnAway(s, n) /\ (Seated(s, n, Len(inQ[s]))' <=> Seated(s, n, Len(inQ[s])))
      BY <2>1, TurnAwaySame
    <3>2. Covered(s, n)
      BY <1>0, <2>1, <2>2
    <3>3. CASE n = NodeOf[c]
      BY <2>1, <3>1, <3>2, <3>3, CoverSame
    <3>4. CASE n # NodeOf[c]
      <4>1. \A d \in Client : NodeOf[d] = n => (IsIn(d, s)' <=> IsIn(d, s))
        BY <2>1, <3>4 DEF IsIn
      <4>2. Abandoned(s, n)' => Abandoned(s, n)
        BY <3>1, <4>1 DEF Abandoned
      <4> QED BY <2>1, <3>1, <3>2, <3>4, <4>2, CoverSame
    <3> QED BY <3>3, <3>4
  <2>3. \A n \in Node : silent'[n] \in Nat /\ turnedAway'[n] <= silent'[n]
    BY <1>0, <2>1
  <2> QED BY <1>00, <2>2, <2>3
<1>4. ASSUME NEW s \in Server, Receive(s)
      PROVE  SilentCover'
  <2>. DEFINE m == inQ[s][1]
              turns(n) == m.type = "IP_ENTER_GAME" /\ NodeOf[m.from] = n /\ ~gNode[s][n].null
  <2>1. UNCHANGED <<client, silent, hInputSlot>>
    BY <1>4, ReceiveFacts
  <2>2. /\ srv[s] = "up" /\ Len(inQ[s]) \in Nat \ {0} /\ Len(inQ'[s]) = Len(inQ[s]) - 1
        /\ NodeOf[m.from] \in Node
        /\ \A n \in Node : turnedAway'[n] = IF turns(n) THEN turnedAway[n] + 1 ELSE turnedAway[n]
    <3>1. NodeOf[m.from] \in Node
      BY <1>4, ReceiveFirst, NodeType DEF Message
    <3>2. turnedAway' = IF turns(NodeOf[m.from]) THEN [turnedAway EXCEPT ![NodeOf[m.from]] = @ + 1]
                        ELSE turnedAway
      BY <1>4, HandleNode
    <3>3. turnedAway \in [Node -> Nat]
      BY DEF TypeOK
    <3>. HIDE DEF m
    <3>4. \A n \in Node : turnedAway'[n] = IF turns(n) THEN turnedAway[n] + 1 ELSE turnedAway[n]
      BY <3>1, <3>2, <3>3
    <3> QED BY <1>4, <3>1, <3>4, ReceiveFirst, HandleNode DEF m
  <2>3. ASSUME NEW r \in Server, srv'[r] = "up"
        PROVE  r = s
    <3>1. srv[s] = "up"
      BY <1>4 DEF Receive
    <3>2. r # s => srv[r] = "up"
      BY <1>4, <2>3, HandleNode
    <3> QED BY <3>1, <3>2 DEF LockNamesServer, Running
  <2>4. ASSUME NEW n \in Node
        PROVE  /\ turns(n) => m.from \in ToTurnAway(s, n)
               /\ ToTurnAway(s, n)' = IF turns(n) THEN ToTurnAway(s, n) \ {m.from} ELSE ToTurnAway(s, n)
    BY <1>4, ReceiveTurnAway
  <2>5. ASSUME NEW n \in Node
        PROVE  Abandoned(s, n)' <=> Abandoned(s, n)
    <3>1. ASSUME NEW k \in 0 .. Len(inQ[s]) - 1, k + 1 = Len(inQ[s])
          PROVE  SeatAfter(inQ'[s], gNode'[s][n], n, k) <=> Seated(s, n, Len(inQ[s]))
      BY <1>4, <3>1, ReceiveSeat
    <3>2. Len(inQ'[s]) \in 0 .. Len(inQ[s]) - 1 /\ Len(inQ'[s]) + 1 = Len(inQ[s])
      BY <2>2
    <3>3. SeatAfter(inQ'[s], gNode'[s][n], n, Len(inQ'[s])) <=> Seated(s, n, Len(inQ[s]))
      BY <3>1, <3>2
    <3>4. \A c \in Client : IsIn(c, s)' <=> IsIn(c, s)
      BY <2>1 DEF IsIn
    <3>5. Abandoned(s, n)' <=>
             /\ SeatAfter(inQ'[s], gNode'[s][n], n, Len(inQ'[s]))
             /\ \A d \in Client : NodeOf[d] = n => ~IsIn(d, s)'
      BY DEF Abandoned, Seated
    <3> QED BY <3>3, <3>4, <3>5 DEF Abandoned
  <2>6. \A n \in Node : silent'[n] = silent[n] /\ Covered(s, n)
    BY <1>0, <2>1, <2>2
  <2>7. ASSUME NEW n \in Node
        PROVE  turnedAway'[n] <= silent'[n] /\ Covered(s, n)'
    <3>. HIDE DEF m, turns
    <3>1. CASE turns(n)
      <4>. DEFINE T == ToTurnAway(s, n)
      <4>1. /\ IsFiniteSet(T) /\ Cardinality(T) \in Nat
            /\ turnedAway[n] + Cardinality(T) + (IF Abandoned(s, n) THEN 1 ELSE 0) <= silent[n]
        BY <2>6, FS_CardinalityType DEF Covered
      <4>2. /\ ToTurnAway(s, n)' = T \ {m.from} /\ m.from \in T
            /\ turnedAway'[n] = turnedAway[n] + 1
        BY <2>2, <2>4, <3>1
      <4>3. IsFiniteSet(T \ {m.from}) /\ Cardinality(T \ {m.from}) = Cardinality(T) - 1
        BY <4>1, <4>2, FS_RemoveElement
      <4>4. Cardinality(T \ {m.from}) \in Nat
        BY <4>3, FS_CardinalityType
      <4>. HIDE DEF T
      <4> QED BY <1>0, <2>5, <2>6, <4>1, <4>2, <4>3, <4>4 DEF Covered
    <3>2. CASE ~turns(n)
      <4>1. ToTurnAway(s, n)' = ToTurnAway(s, n) /\ turnedAway'[n] = turnedAway[n]
        BY <2>2, <2>4, <3>2
      <4> QED BY <1>0, <2>5, <2>6, <4>1, CoverSame
    <3> QED BY <3>1, <3>2
  <2> QED BY <1>00, <2>3, <2>7
<1>5. ASSUME NEW s \in Server, CreateInput(s)
      PROVE  SilentCover'
  <2>1. /\ srv[s] = "locked"
        /\ \A r \in Server \ {s} : srv'[r] = srv[r]
        /\ UNCHANGED <<inQ, gNode, turnedAway, silent, client, hInputSlot>>
    BY <1>5, CreateFacts
  <2>2. ASSUME NEW n \in Node
        PROVE  Covered(s, n)'
    <3>1. inQ'[s] = <<>> /\ gNode'[s][n].null /\ turnedAway'[n] <= silent'[n]
      BY <1>0, <2>1 DEF Fresh, OnlyUpHasNodes
    <3>2. ToTurnAway(s, n)' = {} /\ ~Abandoned(s, n)'
      BY <3>1 DEF ToTurnAway, Abandoned, Seated, SeatAfter
    <3> QED BY <1>0, <2>1, <3>1, <3>2, FS_EmptySet DEF Covered
  <2>3. ASSUME NEW r \in Server \ {s}, srv'[r] = "up", NEW n \in Node
        PROVE  Covered(r, n)'
    <3>1. ToTurnAway(r, n)' = ToTurnAway(r, n) /\ (Seated(r, n, Len(inQ[r]))' <=> Seated(r, n, Len(inQ[r])))
      BY <2>1, TurnAwaySame
    <3>2. Abandoned(r, n)' => Abandoned(r, n)
      BY <2>1, <3>1 DEF Abandoned, IsIn
    <3>3. Covered(r, n)
      BY <1>0, <2>1, <2>3
    <3> QED BY <2>1, <3>1, <3>2, <3>3, CoverSame
  <2> QED BY <1>0, <1>00, <2>1, <2>2, <2>3
<1>6. ASSUME NEW c \in Client, Enter(c) \/ BeforeExit(c)
      PROVE  SilentCover'
  <2>1. CASE Enter(c)
    <3>. DEFINE type == "IP_ENTER_GAME"
    <3>1. type \in {"IP_ENTER_GAME", "IP_FINISHED"}
      OBVIOUS
    <3> QED BY <1>2, <2>1, <3>1, EnterFacts
  <2>2. CASE BeforeExit(c)
    <3>. DEFINE type == "IP_FINISHED"
    <3>1. type \in {"IP_ENTER_GAME", "IP_FINISHED"}
      OBVIOUS
    <3> QED BY <1>2, <2>2, <3>1, ExitFacts
  <2> QED BY <1>6, <2>1, <2>2
<1> QED BY <1>1, <1>3, <1>4, <1>5, <1>6, StepKinds

-----------------------------------------------------------------------------
(* Who reads what the server writes                                        *)

\* The last thing a node sent leads to the client it sent it for.
LEMMA ReaderStep ==
    ASSUME TypeOK, LifeInv, QueueInv, SilentCover, ReaderIsIt, [Next]_vars
    PROVE  ReaderIsIt'
<1>. USE DEF LifeInv, QueueInv
<1>0. \A n \in Node : silent[n] \in Nat
  BY DEF TypeOK
<1>1. CASE Quiet
  <2>1. ASSUME NEW s \in Server, NEW c \in Client, srv'[s] = "up", IsIn(c, s)', silent'[NodeOf[c]] = 0
        PROVE  srv[s] = "up" /\ gNode'[s] = gNode[s] /\ IsIn(c, s) /\ silent[NodeOf[c]] = 0
    BY <1>0, <1>1, <2>1, NodeType DEF Quiet, IsIn
  <2>2. inQ' = inQ
    BY <1>1 DEF Quiet
  <2> QED BY <2>1, <2>2 DEF ReaderIsIt, IsFrom, Occupied
<1>2. ASSUME NEW c \in Client, NEW type \in {"IP_ENTER_GAME", "IP_FINISHED"},
             client[c] = IF type = "IP_ENTER_GAME" THEN "enter" ELSE "in",
             client'[c] = IF type = "IP_ENTER_GAME" THEN "in" ELSE "leaving",
             \A d \in Client \ {c} : client'[d] = client[d],
             sendInput(c, type), UNCHANGED <<srv, gNode, hInputSlot, silent>>
      PROVE  ReaderIsIt'
  <2>1. PICK s \in Server : s = hInputSlot[c]
    BY <1>2 DEF HasSlot
  <2>2. /\ Len(inQ[s]) \in Nat /\ Len(inQ'[s]) = Len(inQ[s]) + 1
        /\ inQ'[s][Len(inQ[s]) + 1] = [from |-> c, type |-> type]
        /\ \A k \in 1 .. Len(inQ[s]) : inQ'[s][k] = inQ[s][k]
        /\ \A r \in Server \ {s} : inQ'[r] = inQ[r]
    BY <1>2, <2>1, SendLast
  <2>3. ASSUME NEW r \in Server, NEW d \in Client, srv'[r] = "up", IsIn(d, r)', silent'[NodeOf[d]] = 0,
               \A k \in 1 .. Len(inQ'[r]) : NodeOf[inQ'[r][k].from] # NodeOf[d]
        PROVE  gNode'[r][NodeOf[d]] = Occupied(d)
    <3>1. CASE d = c
      <4>1. r = s
        BY <1>2, <2>1, <2>3, <3>1 DEF IsIn
      <4>2. Len(inQ[s]) + 1 \in 1 .. Len(inQ'[s])
        BY <2>2
      <4> QED BY <2>2, <2>3, <3>1, <4>1, <4>2
    <3>2. CASE d # c
      <4>1. srv[r] = "up" /\ IsIn(d, r) /\ silent[NodeOf[d]] = 0
        BY <1>2, <2>3, <3>2 DEF IsIn
      <4>2. \A k \in 1 .. Len(inQ[r]) : ~IsFrom(inQ[r], NodeOf[d], k)
        <5>1. CASE r = s
          <6>1. \A k \in 1 .. Len(inQ[s]) : k \in 1 .. Len(inQ'[s])
            BY <2>2
          <6> QED BY <2>2, <2>3, <5>1, <6>1 DEF IsFrom
        <5>2. CASE r # s
          BY <2>2, <2>3, <5>2 DEF IsFrom
        <5> QED BY <5>1, <5>2
      <4> QED BY <1>2, <4>1, <4>2 DEF ReaderIsIt
    <3> QED BY <3>1, <3>2
  <2> QED BY <2>3 DEF ReaderIsIt, IsFrom, Occupied
<1>3. ASSUME NEW c \in Client, EndedSilently(c)
      PROVE  ReaderIsIt'
  <2>1. /\ client'[c] = "gone" /\ UNCHANGED <<srv, gNode, inQ, hInputSlot>>
        /\ \A d \in Client \ {c} : client'[d] = client[d]
        /\ silent'[NodeOf[c]] = silent[NodeOf[c]] + 1
        /\ \A n \in Node \ {NodeOf[c]} : silent'[n] = silent[n]
    BY <1>3, EndFacts
  <2>2. ASSUME NEW s \in Server, NEW d \in Client, IsIn(d, s)', silent'[NodeOf[d]] = 0
        PROVE  IsIn(d, s) /\ silent[NodeOf[d]] = 0
    BY <1>0, <2>1, <2>2, NodeType DEF IsIn
  <2> QED BY <2>1, <2>2 DEF ReaderIsIt, IsFrom, Occupied
<1>4. ASSUME NEW s \in Server, Receive(s)
      PROVE  ReaderIsIt'
  <2>. DEFINE m == inQ[s][1]
              l == Len(inQ[s])
  <2>1. UNCHANGED <<client, silent, hInputSlot, outputName>>
    BY <1>4, ReceiveFacts
  <2>2. /\ l \in Nat \ {0} /\ Len(inQ'[s]) = l - 1
        /\ \A k \in 1 .. l - 1 : inQ'[s][k] = inQ[s][k + 1]
        /\ \A r \in Server \ {s} : inQ'[r] = inQ[r]
    BY <1>4, ReceiveFirst
  <2>3. /\ srv[s] = "up"
        /\ \A r \in Server \ {s} : gNode'[r] = gNode[r] /\ srv'[r] = srv[r]
        /\ \A n \in Node \ {NodeOf[m.from]} : gNode'[s][n] = gNode[s][n]
    BY <1>4, HandleNode
  <2>4. ASSUME NEW c \in Client, IsIn(c, s)', silent'[NodeOf[c]] = 0,
               \A k \in 1 .. l - 1 : NodeOf[inQ'[s][k].from] # NodeOf[c]
        PROVE  gNode'[s][NodeOf[c]] = Occupied(c)
    <3>. DEFINE n == NodeOf[c]
    <3>1. IsIn(c, s) /\ silent[n] = 0 /\ n \in Node
      BY <2>1, <2>4, NodeType DEF IsIn
    <3>2. ASSUME NEW k \in 2 .. l
          PROVE  ~IsFrom(inQ[s], n, k)
      <4>1. k - 1 \in 1 .. l - 1 /\ (k - 1) + 1 = k
        BY <2>2
      <4>2. inQ'[s][k - 1] = inQ[s][k]
        BY <2>2, <4>1
      <4> QED BY <2>4, <4>1, <4>2 DEF IsFrom
    <3>3. 1 \in 1 .. l /\ 1 + 1 = 2 /\ \A k \in 1 .. l : k = 1 \/ k \in 2 .. l
      BY <2>2
    <3>4. CASE NodeOf[m.from] # n
      <4>1. \A k \in 1 .. l : ~IsFrom(inQ[s], n, k)
        BY <3>2, <3>3, <3>4 DEF IsFrom
      <4> QED BY <2>3, <3>1, <3>4, <4>1 DEF ReaderIsIt
    <3>5. CASE NodeOf[m.from] = n
      <4>1. m = Entering(c)
        BY <3>1, <3>2, <3>3, <3>5 DEF LastIsEnter, IsFrom
      <4>2. gNode[s][n].null
        <5>1. SUFFICES ASSUME ~gNode[s][n].null PROVE FALSE
          OBVIOUS
        <5>2. m.type = "IP_ENTER_GAME" /\ m.from = c
          BY <4>1 DEF Entering
        <5>3. c \in ToTurnAway(s, n)
          BY <1>4, <3>1, <5>1, <5>2, ReceiveTurnAway
        <5>. DEFINE T == ToTurnAway(s, n)
        <5>4. /\ IsFiniteSet(T)
              /\ turnedAway[n] + Cardinality(T) + (IF Abandoned(s, n) THEN 1 ELSE 0) <= 0
          BY <2>3, <3>1 DEF SilentCover
        <5>5. T # {} /\ turnedAway[n] \in Nat
          BY <3>1, <5>3 DEF TypeOK
        <5>. HIDE DEF T
        <5>6. Cardinality(T) \in Nat /\ Cardinality(T) # 0
          BY <5>4, <5>5, FS_CardinalityType, FS_EmptySet
        <5> QED BY <5>4, <5>5, <5>6
      <4>3. HandleEnter(s, n)
        BY <1>4, <4>1, ReceiveFirst DEF Entering
      <4>4. outputName[n] = c /\ client[c] = "in"
        BY <3>1 DEF OwnsOutput, IsIn
      <4>5. gNode' = [gNode EXCEPT ![s][n] = Occupied(c)]
        BY <4>2, <4>3, <4>4 DEF HandleEnter, mq_open, EndedClients
      <4> QED BY <3>1, <4>5 DEF TypeOK
    <3> QED BY <3>4, <3>5
  <2>5. ASSUME NEW r \in Server \ {s}, NEW c \in Client, srv'[r] = "up", IsIn(c, r)', silent'[NodeOf[c]] = 0,
               \A k \in 1 .. Len(inQ'[r]) : NodeOf[inQ'[r][k].from] # NodeOf[c]
        PROVE  gNode'[r][NodeOf[c]] = Occupied(c)
    BY <2>1, <2>2, <2>3, <2>5 DEF ReaderIsIt, IsIn, IsFrom
  <2>6. ASSUME NEW r \in Server, NEW c \in Client, srv'[r] = "up", IsIn(c, r)', silent'[NodeOf[c]] = 0,
               \A k \in 1 .. Len(inQ'[r]) : NodeOf[inQ'[r][k].from] # NodeOf[c]
        PROVE  gNode'[r][NodeOf[c]] = Occupied(c)
    <3>1. CASE r = s
      BY <2>2, <2>4, <2>6, <3>1
    <3>2. CASE r # s
      BY <2>5, <2>6, <3>2
    <3> QED BY <3>1, <3>2
  <2> QED BY <2>6 DEF ReaderIsIt, IsFrom, Occupied
<1>5. ASSUME NEW s \in Server, CreateInput(s)
      PROVE  ReaderIsIt'
  <2>1. /\ srv[s] = "locked"
        /\ \A r \in Server \ {s} : srv'[r] = srv[r]
        /\ UNCHANGED <<inQ, gNode, silent, client, hInputSlot>>
    BY <1>5, CreateFacts
  <2>2. \A c \in Client : hInputSlot[c] # s
    BY <2>1 DEF Fresh
  <2> QED BY <2>1, <2>2 DEF ReaderIsIt, IsIn, IsFrom, Occupied
<1>6. ASSUME NEW c \in Client, Enter(c) \/ BeforeExit(c)
      PROVE  ReaderIsIt'
  <2>1. CASE Enter(c)
    <3>. DEFINE type == "IP_ENTER_GAME"
    <3>1. type \in {"IP_ENTER_GAME", "IP_FINISHED"}
      OBVIOUS
    <3> QED BY <1>2, <2>1, <3>1, EnterFacts
  <2>2. CASE BeforeExit(c)
    <3>. DEFINE type == "IP_FINISHED"
    <3>1. type \in {"IP_ENTER_GAME", "IP_FINISHED"}
      OBVIOUS
    <3> QED BY <1>2, <2>2, <3>1, ExitFacts
  <2> QED BY <1>6, <2>1, <2>2
<1> QED BY <1>1, <1>3, <1>4, <1>5, <1>6, StepKinds

-----------------------------------------------------------------------------

\* At the start nobody has sent anything.
LEMMA GoodbyeInit == Init => GoodbyeInv
<1>1. SUFFICES ASSUME Init PROVE GoodbyeInv
  OBVIOUS
<1>. USE <1>1, NodeType, ServerStartAssumption DEF Init, ServerStartAssumption
<1>2. LifeInv
  BY DEF LifeInv, OneLive, OwnsOutput, HasSlot, Live
<1>3. QueueInv
  BY DEF QueueInv, Fresh, Sent, EntersOnce, LastIsEnter, IsIn
<1>4. InHasSeat /\ ReaderIsIt
  BY DEF InHasSeat, ReaderIsIt, IsIn
<1>5. SilentCover
  BY DEF SilentCover
<1> QED BY <1>2, <1>3, <1>4, <1>5 DEF GoodbyeInv

\* Every state satisfies GoodbyeInv: at any time a client that ended without
\* a goodbye stands behind each client of its node that was, or will be,
\* turned away.
THEOREM GoodbyesCount == Spec => []GoodbyeInv
<1>1. Init => IInv /\ GoodbyeInv
  BY InitIInv, GoodbyeInit
<1>2. ASSUME IInv, GoodbyeInv, [Next]_vars PROVE IInv' /\ GoodbyeInv'
  <2>1. IInv' /\ TypeOK /\ TypeOK'
    BY <1>2, StartInductive DEF IInv
  <2> QED BY <1>2, <2>1, LifeStep, QueueStep, HasSeatStep, CoverStep, ReaderStep DEF GoodbyeInv
<1> QED
  BY <1>1, <1>2, PTL DEF Spec

\* A node is found occupied at most once for each client that ended on it without a
\* goodbye, killed or giving up in beforeExit (handleInput of IP_ENTER_GAME,
\* gamesrv.cpp), for any number of servers, clients and kills and any delay of the
\* messages.
THEOREM GhostTurnedAwayOnce == Spec => []GhostTurnsAwayOnce
<1>1. GoodbyeInv => GhostTurnsAwayOnce
  BY DEF GoodbyeInv, SilentCover, GhostTurnsAwayOnce
<1> QED
  BY <1>1, GoodbyesCount, PTL

\* When a server has read what a node sent whose clients all said goodbye, it writes
\* to the queue that the node's client reads (handleInput, createSlot).
THEOREM AnsweredHeard == Spec => []AnsweredIsHeard
<1>1. ASSUME IInv, GoodbyeInv PROVE AnsweredIsHeard
  <2>1. ASSUME NEW s \in Server
        PROVE  DOMAIN inQ[s] = 1 .. Len(inQ[s])
    <3>1. inQ[s] \in Seq(Message)
      BY <1>1 DEF IInv, TypeOK
    <3> QED BY <3>1
  <2> QED BY <1>1, <2>1 DEF GoodbyeInv, ReaderIsIt, AnsweredIsHeard, Heard, IsIn, IsFrom
<1> QED
  BY <1>1, GoodbyesCount, StartInvariant, PTL
=============================================================================
