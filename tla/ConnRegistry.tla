----------------------------- MODULE ConnRegistry -----------------------------
(***************************************************************************)
(* What a router promises of its connections: the abstract specification   *)
(* that ConnLifecycle implements.                                          *)
(*                                                                         *)
(* A connection is offered, listed once and taken off the list once, the   *)
(* latter only when it is dead.  A directory leads from addresses to       *)
(* connections: an entry is made while a connection is being offered, where*)
(* there is none, and removed only when its connection is no longer open.  *)
(* Who closes, how many at once, and in what order lists, counters and     *)
(* locks are touched, is none of its business.                             *)
(***************************************************************************)
CONSTANTS Conns, Addrs, NoConn

VARIABLES
  phase,     \* of each connection: "new", "offered", "listed" or "gone"
  life,      \* its socket: "none", "open", "closing" or "dead"
  directory  \* address -> connection

vars == <<phase, life, directory>>

Init ==
  /\ phase = [c \in Conns |-> "new"]
  /\ life = [c \in Conns |-> "none"]
  /\ directory = [a \in Addrs |-> NoConn]

\* A peer connects.
Offer(c) ==
  /\ phase[c] = "new" /\ life[c] = "none"
  /\ phase' = [phase EXCEPT ![c] = "offered"]
  /\ life' = [life EXCEPT ![c] = "open"]
  /\ UNCHANGED directory

\* One that gets no id is turned away: it is never listed, and its socket stays open.
TurnAway(c) ==
  /\ phase[c] = "new" /\ life[c] = "none"
  /\ phase' = [phase EXCEPT ![c] = "gone"]
  /\ life' = [life EXCEPT ![c] = "open"]
  /\ UNCHANGED directory

\* Somebody begins to close an open connection.
BeginClose(c) ==
  /\ life[c] = "open"
  /\ life' = [life EXCEPT ![c] = "closing"]
  /\ UNCHANGED <<phase, directory>>

\* The peer goes or the router closes the socket.
Die(c) ==
  /\ life[c] \in {"open", "closing"}
  /\ life' = [life EXCEPT ![c] = "dead"]
  /\ UNCHANGED <<phase, directory>>

\* The connection, which may be dead already, comes on the list ...
List(c) ==
  /\ phase[c] = "offered"
  /\ phase' = [phase EXCEPT ![c] = "listed"]
  /\ UNCHANGED <<life, directory>>

\* ... and off it.
Drop(c) ==
  /\ phase[c] = "listed" /\ life[c] = "dead"
  /\ phase' = [phase EXCEPT ![c] = "gone"]
  /\ UNCHANGED <<life, directory>>

Enter(a, c) ==
  /\ phase[c] = "offered" /\ directory[a] = NoConn
  /\ directory' = [directory EXCEPT ![a] = c]
  /\ UNCHANGED <<phase, life>>

Erase(a) ==
  /\ directory[a] # NoConn /\ life[directory[a]] # "open"
  /\ directory' = [directory EXCEPT ![a] = NoConn]
  /\ UNCHANGED <<phase, life>>

Next ==
  \/ \E c \in Conns : Offer(c) \/ TurnAway(c) \/ BeginClose(c) \/ Die(c) \/ List(c) \/ Drop(c)
  \/ \E a \in Addrs : Erase(a) \/ \E c \in Conns : Enter(a, c)

Spec == Init /\ [][Next]_vars

===============================================================================
