--------------------------------- MODULE Lobby ---------------------------------
(***************************************************************************)
(* What the door promises the nodes of a BBS, however its processes and    *)
(* threads bring it about: there is one host at a time, nodes come and go  *)
(* while it is open, and it begins to close only when no node is left, and *)
(* seats nobody from then on.  A host may also die, with whoever it seats. *)
(*                                                                         *)
(* GameServer implements it with one server and its threads; ServerStart   *)
(* implements it with servers that are spawned, killed and replaced.       *)
(***************************************************************************)
CONSTANTS Host, Node, None

VARIABLES
    host,      \* the one that is there, or None
    phase,     \* whether it is open or closing
    seats      \* the nodes it plays with

vars == <<host, phase, seats>>

Init ==
    /\ host \in Host \cup {None}
    /\ phase = IF host = None THEN "none" ELSE "open"
    /\ seats = {}

Open(h) ==
    /\ host = None
    /\ host' = h
    /\ phase' = "open"
    /\ UNCHANGED seats

Sit(n) ==
    /\ phase = "open"
    /\ n \notin seats
    /\ seats' = seats \cup {n}
    /\ UNCHANGED <<host, phase>>

\* The host may notice at once that the last node is gone.
Rise(n) ==
    /\ phase = "open"
    /\ n \in seats
    /\ seats' = seats \ {n}
    /\ phase' = "open" \/ (phase' = "closing" /\ seats' = {})
    /\ UNCHANGED host

BeginToClose ==
    /\ phase = "open"
    /\ seats = {}
    /\ phase' = "closing"
    /\ UNCHANGED <<host, seats>>

Close ==
    /\ phase = "closing"
    /\ host' = None
    /\ phase' = "none"
    /\ UNCHANGED seats

Die ==
    /\ host # None
    /\ host' = None
    /\ phase' = "none"
    /\ seats' = {}

Next ==
    \/ BeginToClose \/ Close \/ Die
    \/ \E h \in Host : Open(h)
    \/ \E n \in Node : Sit(n) \/ Rise(n)

Spec == Init /\ [][Next]_vars
=============================================================================
