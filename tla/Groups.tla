------------------------------- MODULE Groups -------------------------------
(***************************************************************************)
(* The temporary groups of one router: face/group.go, the group operations *)
(* of face/manager.go, and the part of every close path of face/bucket.go  *)
(* and face/manager.go that takes a connection out of its group.           *)
(*                                                                         *)
(* The processes are the application goroutines, the read loops (named by  *)
(* their connection; the read callback of the application runs in them)    *)
(* and the active check of the bucket.  One action is one critical section *)
(* of the manager's or a group's lock, or one access to a connection.  The *)
(* connections have been accepted already: ConnLifecycle is about that,    *)
(* and about the maps and counters of the buckets.                         *)
(*                                                                         *)
(* A group object is a Go pointer here: CreateGroup makes a new one, and   *)
(* RemoveGroup leaves the old one to whoever still holds it.               *)
(***************************************************************************)
EXTENDS Integers, FiniteSets

CONSTANTS
  Conns,        \* accepted connections
  NoConn,       \* no connection
  GroupIds,     \* ids the application gives its groups
  MaxObjs,      \* bound on the calls of CreateGroup that create
  Callers,      \* application goroutines
  Tickers,      \* the goroutine of the active check, if there is one
  AppOps,       \* what the application goroutines do
  CallbackOps,  \* what the read callback does, with its own connection
  QuitFirst,    \* does a connection quit its group before it joins another?
  Stalls        \* may a peer stop reading, so that writes to it block?

Objs  == 1 .. MaxObjs
NoObj == 0
NoId  == 0
Procs == Callers \cup Conns \cup Tickers
Operations == {"create", "remove", "join", "quit", "clear", "send", "close"}

ASSUME GroupConstants ==
  /\ MaxObjs \in Nat
  /\ GroupIds \subseteq Nat \ {0}
  /\ NoConn \notin Conns
  /\ Callers \cap Conns = {} /\ Tickers \cap (Callers \cup Conns) = {}
  /\ AppOps \subseteq Operations /\ CallbackOps \subseteq Operations
  /\ QuitFirst \in BOOLEAN /\ Stalls \in BOOLEAN

VARIABLES
  groupMap,  \* Manager.groupMap: id -> object
  created,   \* group objects made so far
  gid,       \* Group.groupId of each object
  members,   \* Group.connMap of each object
  locked,    \* the lock of each object, held across a SendMessage
  groupId,   \* WSConn.groupId
  sock,      \* the websocket.Conn as the server sees it
  active,    \* WSConn.ConnIsActive()
  mapped,    \* is the connection in Bucket.connMap?
  pc,        \* where each goroutine is
  held,      \* the group object an application goroutine has a reference to
  target,    \* the connection a close call is about
  path,      \* the close function it is in
  arg,       \* the group id it has read
  obj,       \* the group object it has looked up
  todo,      \* the members a SendMessage has still to visit, or is writing to
  writing,   \* the one its Write is about, which waits while the peer does not read
  got        \* those its message was written to

groupVars == <<groupMap, created, gid, members, locked>>
connVars  == <<groupId, sock, active, mapped>>
callVars  == <<target, path, arg, obj>>
sendVars  == <<todo, writing, got>>
vars == <<groupVars, connVars, pc, held, callVars, sendVars>>

Init ==
  /\ groupMap = [g \in GroupIds |-> NoObj]
  /\ created = 0
  /\ gid = [o \in Objs |-> NoId]
  /\ members = [o \in Objs |-> {}]
  /\ locked = [o \in Objs |-> FALSE]
  /\ groupId = [c \in Conns |-> NoId]
  /\ sock = [c \in Conns |-> "open"]
  /\ active = [c \in Conns |-> FALSE]
  /\ mapped = [c \in Conns |-> TRUE]
  /\ pc = [p \in Procs |-> IF p \in Conns THEN "reading" ELSE "idle"]
  /\ held = [p \in Procs |-> NoObj]
  /\ target = [p \in Procs |-> NoConn]
  /\ path = [p \in Procs |-> "none"]
  /\ arg = [p \in Procs |-> NoId]
  /\ obj = [p \in Procs |-> NoObj]
  /\ todo = [p \in Procs |-> {}]
  /\ writing = [p \in Procs |-> NoConn]
  /\ got = [p \in Procs |-> {}]

-----------------------------------------------------------------------------
(* What the application does, from its own goroutines or from the callback.*)

Up(c) == sock[c] \in {"open", "stalled", "closing"}

Goto(p, at) == pc' = [pc EXCEPT ![p] = at]

\* The application code of goroutine p runs, and does op.
Ready(p) == IF p \in Conns THEN "callback" ELSE "idle"
Does(p, op) ==
  /\ p \notin Tickers /\ pc[p] = Ready(p)
  /\ op \in IF p \in Conns THEN CallbackOps ELSE AppOps

\* Mutant: GetGroup is not called first.
CreateGroupBlind(p, g) ==
  /\ Does(p, "create") /\ created < MaxObjs
  /\ Goto(p, "create")
  /\ arg' = [arg EXCEPT ![p] = g]
  /\ UNCHANGED <<groupVars, connVars, held, target, path, obj, sendVars>>

\* Manager.CreateGroup: first GetGroup.  For an existing group it returns the
\* group with an error ...
CreateGroup(p, g) ==
  /\ Does(p, "create")
  /\ IF groupMap[g] # NoObj
       THEN held' = [held EXCEPT ![p] = groupMap[g]] /\ UNCHANGED <<pc, arg>>
       ELSE /\ created + Cardinality({q \in Procs : pc[q] = "create"}) < MaxObjs
            /\ Goto(p, "create")
            /\ arg' = [arg EXCEPT ![p] = g]
            /\ UNCHANGED held
  /\ UNCHANGED <<groupVars, connVars, target, path, obj, sendVars>>

\* ... and otherwise takes the lock a second time and stores a new one.
InsertGroup(p) ==
  LET o == created + 1 IN
  /\ pc[p] = "create"
  /\ created' = o
  /\ gid' = [gid EXCEPT ![o] = arg[p]]
  /\ groupMap' = [groupMap EXCEPT ![arg[p]] = o]
  /\ held' = [held EXCEPT ![p] = o]
  /\ arg' = [arg EXCEPT ![p] = NoId]
  /\ Goto(p, Ready(p))
  /\ UNCHANGED <<members, locked, connVars, target, path, obj, sendVars>>

\* Manager.RemoveGroup: the members are not told.
RemoveGroup(p, g) ==
  /\ Does(p, "remove") /\ groupMap[g] # NoObj
  /\ groupMap' = [groupMap EXCEPT ![g] = NoObj]
  /\ UNCHANGED <<created, gid, members, locked, connVars, pc, held, callVars, sendVars>>

\* Manager.GetGroup, by an application that is about to use the group.
GetGroup(p, g) ==
  /\ \E op \in {"join", "quit", "clear", "send"} : Does(p, op)
  /\ groupMap[g] # NoObj
  /\ held' = [held EXCEPT ![p] = groupMap[g]]
  /\ UNCHANGED <<groupVars, connVars, pc, callVars, sendVars>>

\* Mutant: the connection is not told its group.
JoinNoId(p, c) ==
  LET o == held[p] IN
  /\ Does(p, "join") /\ o # NoObj
  /\ p \in Conns => c = p
  /\ QuitFirst => \A other \in Objs \ {o} : c \notin members[other]
  /\ ~locked[o]
  /\ members' = [members EXCEPT ![o] = @ \cup {c}]
  /\ UNCHANGED <<groupMap, created, gid, locked, connVars, pc, held, callVars, sendVars>>

\* Group.Join: SetGroupId and the insertion, under the lock of the group.  It does
\* not ask whether the connection is still open, nor whether it is in a group.
Join(p, c) ==
  LET o == held[p] IN
  /\ Does(p, "join") /\ o # NoObj
  /\ p \in Conns => c = p
  /\ QuitFirst => \A other \in Objs \ {o} : c \notin members[other]
  /\ ~locked[o]
  /\ groupId' = [groupId EXCEPT ![c] = gid[o]]
  /\ members' = [members EXCEPT ![o] = @ \cup {c}]
  /\ UNCHANGED <<groupMap, created, gid, locked, sock, active, mapped, pc, held,
                 callVars, sendVars>>

\* Mutant: Quit takes no lock.
QuitUnlocked(p, c) ==
  LET o == held[p] IN
  /\ Does(p, "quit") /\ o # NoObj
  /\ p \in Conns => c = p
  /\ members' = [members EXCEPT ![o] = @ \ {c}]
  /\ UNCHANGED <<groupMap, created, gid, locked, connVars, pc, held, callVars, sendVars>>

\* Group.Quit, called by the application: the group id of the connection stays.
Quit(p, c) ==
  LET o == held[p] IN
  /\ Does(p, "quit") /\ o # NoObj
  /\ p \in Conns => c = p
  /\ ~locked[o]
  /\ members' = [members EXCEPT ![o] = @ \ {c}]
  /\ UNCHANGED <<groupMap, created, gid, locked, connVars, pc, held, callVars, sendVars>>

\* Group.Clear.
Clear(p) ==
  LET o == held[p] IN
  /\ Does(p, "clear") /\ o # NoObj /\ ~locked[o]
  /\ members' = [members EXCEPT ![o] = {}]
  /\ UNCHANGED <<groupMap, created, gid, locked, connVars, pc, held, callVars, sendVars>>

-----------------------------------------------------------------------------
(* Group.SendMessage: one Write per active member, under the group's lock. *)

StartSend(p) ==
  LET o == held[p] IN
  /\ Does(p, "send") /\ o # NoObj /\ ~locked[o]
  /\ locked' = [locked EXCEPT ![o] = TRUE]
  /\ todo' = [todo EXCEPT ![p] = members[o]]
  /\ got' = [got EXCEPT ![p] = {}]
  /\ Goto(p, "send")
  /\ UNCHANGED <<groupMap, created, gid, members, connVars, held, callVars, writing>>

\* The next member, in an order of Go's own: it is passed over unless it is active,
\* and otherwise its Write begins.
SendOne(p, c) ==
  /\ pc[p] = "send" /\ writing[p] = NoConn /\ c \in todo[p]
  /\ IF active[c]
       THEN writing' = [writing EXCEPT ![p] = c] /\ UNCHANGED todo
       ELSE todo' = [todo EXCEPT ![p] = @ \ {c}] /\ UNCHANGED writing
  /\ UNCHANGED <<groupVars, connVars, pc, held, callVars, got>>

\* WSConn.Write has no deadline: it waits for a peer that does not read, whatever
\* becomes of `active` meanwhile.  It returns an error on a socket that is closing
\* or gone, and updates activeTime in any case.
WriteEnd(p, c) ==
  /\ pc[p] = "send" /\ writing[p] = c /\ c \in todo[p]
  /\ sock[c] # "stalled"
  /\ got' = [got EXCEPT ![p] = IF sock[c] = "open" THEN @ \cup {c} ELSE @]
  /\ active' = [active EXCEPT ![c] = TRUE]
  /\ todo' = [todo EXCEPT ![p] = @ \ {c}]
  /\ writing' = [writing EXCEPT ![p] = NoConn]
  /\ UNCHANGED <<groupVars, groupId, sock, mapped, pc, held, callVars>>

\* Mutant: an error path without Unlock.
EndSendLocked(p) ==
  /\ pc[p] = "send" /\ writing[p] = NoConn /\ todo[p] = {}
  /\ Goto(p, Ready(p))
  /\ UNCHANGED <<groupVars, connVars, held, callVars, sendVars>>

EndSend(p) ==
  /\ pc[p] = "send" /\ writing[p] = NoConn /\ todo[p] = {}
  /\ locked' = [locked EXCEPT ![held[p]] = FALSE]
  /\ Goto(p, Ready(p))
  /\ UNCHANGED <<groupMap, created, gid, members, connVars, held, callVars, sendVars>>

-----------------------------------------------------------------------------
(* The peers and the read loops.                                           *)

\* The peer stops reading and the buffers fill up, or it reads again.
Stall(c) ==
  /\ Stalls
  /\ \/ sock[c] = "open" /\ sock' = [sock EXCEPT ![c] = "stalled"]
     \/ sock[c] = "stalled" /\ sock' = [sock EXCEPT ![c] = "open"]
  /\ UNCHANGED <<groupVars, groupId, active, mapped, pc, held, callVars, sendVars>>

PeerGone(c) ==
  /\ Up(c)
  /\ sock' = [sock EXCEPT ![c] = "broken"]
  /\ UNCHANGED <<groupVars, groupId, active, mapped, pc, held, callVars, sendVars>>

\* DefaultHeartBeatRate seconds without a read or a write.
Expire(c) ==
  /\ Tickers # {} /\ active[c]
  /\ active' = [active EXCEPT ![c] = FALSE]
  /\ UNCHANGED <<groupVars, groupId, sock, mapped, pc, held, callVars, sendVars>>

\* WSConn.readOneMessageData: a message is in, and the callback runs ...
ReadMessage(c) ==
  /\ pc[c] = "reading" /\ Up(c)
  /\ Goto(c, "callback")
  /\ UNCHANGED <<groupVars, connVars, held, callVars, sendVars>>

\* ... and only when it has returned the connection counts as active.
EndCallback(c) ==
  /\ pc[c] = "callback"
  /\ Goto(c, "reading")
  /\ active' = [active EXCEPT ![c] = TRUE]
  /\ held' = [held EXCEPT ![c] = NoObj]
  /\ UNCHANGED <<groupVars, groupId, sock, mapped, callVars, sendVars>>

-----------------------------------------------------------------------------
(* The close paths.  path[p] is the function goroutine p is in:            *)
(*   "conn"  Bucket.CloseConn, called by the read loop after an error;     *)
(*   "ids"   Bucket.CloseConnectByIds or, for the ticker, closeConnect;    *)
(*   "msg"   the group part of Manager.CloseWithMessage.                   *)

Begin(p, c, fn, at) ==
  /\ target' = [target EXCEPT ![p] = c]
  /\ path' = [path EXCEPT ![p] = fn]
  /\ Goto(p, at)

Finish(p, at) ==
  /\ target' = [target EXCEPT ![p] = NoConn]
  /\ path' = [path EXCEPT ![p] = "none"]
  /\ arg' = [arg EXCEPT ![p] = NoId]
  /\ obj' = [obj EXCEPT ![p] = NoObj]
  /\ Goto(p, at)

\* Mutant: CloseConn does not call resetConnGroupId.
ReadErrorNoReset(c) ==
  /\ pc[c] = "reading" /\ ~Up(c)
  /\ Begin(c, c, "conn", "drop")
  /\ UNCHANGED <<groupVars, connVars, held, arg, obj, sendVars>>

ReadError(c) ==
  /\ pc[c] = "reading" /\ ~Up(c)
  /\ Begin(c, c, "conn", "check")
  /\ UNCHANGED <<groupVars, connVars, held, arg, obj, sendVars>>

StartCloseConnect(p, c) ==
  /\ Does(p, "close")
  /\ Begin(p, c, "ids", "lookup")
  /\ UNCHANGED <<groupVars, connVars, held, arg, obj, sendVars>>

\* The close frame is out: no further write succeeds.  (While the peer does not read
\* it cannot get out and the call waits here; on a dead socket the call ends here.
\* What the library does of two writes at a time is left to ConnLifecycle.)
StartCloseWithMessage(p, c) ==
  /\ Does(p, "close") /\ sock[c] = "open"
  /\ sock' = [sock EXCEPT ![c] = "closing"]
  /\ Begin(p, c, "msg", IF mapped[c] THEN "check" ELSE "lookup")
  /\ UNCHANGED <<groupVars, groupId, active, mapped, held, arg, obj, sendVars>>

StartCheckActive(t, c) ==
  /\ t \in Tickers /\ pc[t] = "idle" /\ mapped[c] /\ ~active[c]
  /\ Begin(t, c, "ids", "check")
  /\ UNCHANGED <<groupVars, connVars, held, arg, obj, sendVars>>

\* CloseConnectByIds: `conn, ok := f.connMap[connId]`.
LookupConn(p) ==
  /\ pc[p] = "lookup"
  /\ IF mapped[target[p]]
       THEN /\ Begin(p, target[p], "ids", "check")
            /\ UNCHANGED <<arg, obj>>
       ELSE Finish(p, Ready(p))
  /\ UNCHANGED <<groupVars, connVars, held, sendVars>>

\* What follows the group part: CloseConn takes the connection out of the map and
\* closes it, the others close it first; CloseWithMessage goes on to
\* CloseConnectByIds.
AfterGroup(p) ==
  CASE path[p] = "conn" -> "drop" [] path[p] = "ids" -> "shut" [] OTHER -> "lookup"

\* resetConnGroupId: `if conn.GetGroupId() > 0` ...
CheckGroupId(p) ==
  /\ pc[p] = "check"
  /\ Goto(p, IF groupId[target[p]] # NoId THEN "read" ELSE AfterGroup(p))
  /\ UNCHANGED <<groupVars, connVars, held, callVars, sendVars>>

\* ... the argument of GetGroup is read again ...
ReadGroupId(p) ==
  /\ pc[p] = "read"
  /\ arg' = [arg EXCEPT ![p] = groupId[target[p]]]
  /\ Goto(p, "find")
  /\ UNCHANGED <<groupVars, connVars, held, target, path, obj, sendVars>>

\* Only resetConnGroupId resets the group id after Quit.
AfterQuit(p) == IF path[p] = "msg" THEN "lookup" ELSE "reset"

\* Mutant: no way on when the group is not there any more.
FindGroupStuck(p) ==
  /\ pc[p] = "find" /\ arg[p] # NoId /\ groupMap[arg[p]] # NoObj
  /\ obj' = [obj EXCEPT ![p] = groupMap[arg[p]]]
  /\ Goto(p, "quit")
  /\ UNCHANGED <<groupVars, connVars, held, target, path, arg, sendVars>>

\* Mutant: the result of GetGroup is used unchecked.
FindGroupNil(p) ==
  LET o == IF arg[p] = NoId THEN NoObj ELSE groupMap[arg[p]] IN
  /\ pc[p] = "find"
  /\ obj' = [obj EXCEPT ![p] = o]
  /\ Goto(p, "quit")
  /\ UNCHANGED <<groupVars, connVars, held, target, path, arg, sendVars>>

FindGroup(p) ==
  LET o == IF arg[p] = NoId THEN NoObj ELSE groupMap[arg[p]] IN
  /\ pc[p] = "find"
  /\ obj' = [obj EXCEPT ![p] = o]
  /\ Goto(p, IF o # NoObj THEN "quit" ELSE AfterQuit(p))
  /\ UNCHANGED <<groupVars, connVars, held, target, path, arg, sendVars>>

QuitGroup(p) ==
  LET o == obj[p] IN
  /\ pc[p] = "quit" /\ ~locked[o]
  /\ members' = [members EXCEPT ![o] = @ \ {target[p]}]
  /\ Goto(p, AfterQuit(p))
  /\ UNCHANGED <<groupMap, created, gid, locked, connVars, held, callVars, sendVars>>

ResetGroupId(p) ==
  /\ pc[p] = "reset"
  /\ groupId' = [groupId EXCEPT ![target[p]] = NoId]
  /\ Goto(p, AfterGroup(p))
  /\ UNCHANGED <<groupVars, sock, active, mapped, held, callVars, sendVars>>

\* WSConn.Close; the deferred one is the last step of CloseConn.
ShutConn(p) ==
  /\ pc[p] = "shut"
  /\ sock' = [sock EXCEPT ![target[p]] = "closed"]
  /\ IF path[p] = "conn" THEN Finish(p, "done")
                         ELSE Goto(p, "drop") /\ UNCHANGED callVars
  /\ UNCHANGED <<groupVars, groupId, active, mapped, held, sendVars>>

\* delete(f.connMap, connId).
DropConn(p) ==
  /\ pc[p] = "drop"
  /\ mapped' = [mapped EXCEPT ![target[p]] = FALSE]
  /\ IF path[p] = "conn" THEN Goto(p, "shut") /\ UNCHANGED callVars
                         ELSE Finish(p, Ready(p))
  /\ UNCHANGED <<groupVars, groupId, sock, active, held, sendVars>>

-----------------------------------------------------------------------------
CloseStep(p) ==
  \/ LookupConn(p) \/ CheckGroupId(p) \/ ReadGroupId(p) \/ FindGroup(p)
  \/ QuitGroup(p) \/ ResetGroupId(p) \/ ShutConn(p) \/ DropConn(p)

SendStep(p) == EndSend(p) \/ \E c \in Conns : SendOne(p, c) \/ WriteEnd(p, c)

AppStep(p) ==
  \/ \E g \in GroupIds : CreateGroup(p, g) \/ RemoveGroup(p, g) \/ GetGroup(p, g)
  \/ \E c \in Conns : \/ Join(p, c) \/ Quit(p, c)
                      \/ StartCloseConnect(p, c) \/ StartCloseWithMessage(p, c)
  \/ Clear(p) \/ StartSend(p)

Peer(c) == Stall(c) \/ PeerGone(c) \/ Expire(c) \/ ReadMessage(c)

\* Nothing is left to happen once every connection is gone and no call is open.
Finished ==
  /\ \A p \in Procs : pc[p] \in {"idle", "done"}
  /\ UNCHANGED vars

Next ==
  \/ \E p \in Procs : AppStep(p) \/ InsertGroup(p) \/ SendStep(p) \/ CloseStep(p)
  \/ \E c \in Conns : Peer(c) \/ EndCallback(c) \/ ReadError(c)
  \/ \E t \in Tickers, c \in Conns : StartCheckActive(t, c)
  \/ Finished

\* The scheduler runs every goroutine that can run, and the read callback returns.
\* A Go mutex is handed to a goroutine that has waited for a millisecond, so sends
\* that follow each other do not keep a Quit waiting for ever; a write that waits
\* goes on when the peer reads again.  Nothing is assumed of the peers: with Stalls
\* they need neither read nor go away, and without it every peer reads.
Fairness ==
  /\ \A p \in Procs : /\ WF_vars(InsertGroup(p))
                      /\ SF_vars(SendStep(p))
                      /\ WF_vars(CloseStep(p))
                      /\ SF_vars(QuitGroup(p))
  /\ \A c \in Conns : WF_vars(EndCallback(c)) /\ WF_vars(ReadError(c))

Spec     == Init /\ [][Next]_vars
FairSpec == Spec /\ Fairness

-----------------------------------------------------------------------------
\* The state keeps its shape; a read loop never ends a call like an application
\* goroutine does, and whoever quits or looks up a group has a connection for it.
TypeOK ==
  /\ groupMap \in [GroupIds -> Objs \cup {NoObj}]
  /\ created \in 0 .. MaxObjs
  /\ gid \in [Objs -> GroupIds \cup {NoId}]
  /\ members \in [Objs -> SUBSET Conns]
  /\ locked \in [Objs -> BOOLEAN]
  /\ groupId \in [Conns -> GroupIds \cup {NoId}]
  /\ sock \in [Conns -> {"open", "stalled", "closing", "broken", "closed"}]
  /\ active \in [Conns -> BOOLEAN]
  /\ mapped \in [Conns -> BOOLEAN]
  /\ pc \in [Procs -> {"idle", "reading", "callback", "create", "send", "lookup", "check",
                      "read", "find", "quit", "reset", "shut", "drop", "done"}]
  /\ held \in [Procs -> Objs \cup {NoObj}]
  /\ target \in [Procs -> Conns \cup {NoConn}]
  /\ path \in [Procs -> {"none", "conn", "ids", "msg"}]
  /\ arg \in [Procs -> GroupIds \cup {NoId}]
  /\ obj \in [Procs -> Objs \cup {NoObj}]
  /\ todo \in [Procs -> SUBSET Conns]
  /\ writing \in [Procs -> Conns \cup {NoConn}]
  /\ got \in [Procs -> SUBSET Conns]
  /\ \A p \in Procs :
       /\ IF p \in Conns THEN pc[p] # "idle"
                         ELSE pc[p] \notin {"reading", "callback", "done"}
       /\ path[p] # "none" <=> target[p] # NoConn
       /\ pc[p] = "quit" => obj[p] # NoObj

\* The groups the application can get at.
Listed == {groupMap[g] : g \in GroupIds} \ {NoObj}

\* A connection whose read loop has cleaned up is in no group any more: no group
\* keeps the dead alive, nor writes to them.
NoGhost ==
  \A c \in Conns, o \in Listed : pc[c] = "done" => c \notin members[o]

\* A member of a listed group carries the id of that group.  It is all that
\* resetConnGroupId goes by when it looks for the group to quit.
GroupIdRight ==
  \A c \in Conns, o \in Listed : c \in members[o] => groupId[c] = gid[o]

\* As long as nobody closes it, a live connection is in the group it has joined, and
\* GetGroup leads there.  (For applications that neither quit nor remove groups.)
MembershipHeld ==
  \A c \in Conns :
    /\ Up(c) /\ groupId[c] # NoId
    /\ \A p \in Procs : target[p] # c
    => c \in UNION {members[o] : o \in {groupMap[groupId[c]]} \ {NoObj}}

\* A message goes to members only: once Quit has returned, no message to the group
\* arrives any more.
OnlyMembersGet ==
  [][\A p \in Procs : \A c \in got'[p] \ got[p] : c \in members[held[p]]]_vars

\* A connection that is gone gets through its close path: out of its group, out of
\* the bucket, closed.
DeadLeaves == \A c \in Conns : ~Up(c) ~> pc[c] = "done" /\ ~mapped[c]

\* Every call of an application goroutine or of the active check returns.
CallsReturn == \A p \in Callers \cup Tickers : pc[p] # "idle" ~> pc[p] = "idle"

=============================================================================
