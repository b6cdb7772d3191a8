------------------------------ MODULE GroupsProofs ------------------------------
(***************************************************************************)
(* The groups of a router, for any number of connections, groups and       *)
(* goroutines: the lock of a group has one owner, messages go to members,  *)
(* and, for applications that use groups as the one group id of a          *)
(* connection asks for, no dead connection stays in one.                   *)
(***************************************************************************)
EXTENDS Groups, FiniteSetTheorems, TLAPS

Steps == {"idle", "reading", "callback", "create", "send", "lookup", "check",
          "read", "find", "quit", "reset", "shut", "drop", "done"}

GroupShape ==
  /\ groupMap \in [GroupIds -> Objs \cup {NoObj}]
  /\ created \in 0 .. MaxObjs
  /\ gid \in [Objs -> GroupIds \cup {NoId}]
  /\ members \in [Objs -> SUBSET Conns]
  /\ locked \in [Objs -> BOOLEAN]

ConnShape ==
  /\ groupId \in [Conns -> GroupIds \cup {NoId}]
  /\ sock \in [Conns -> {"open", "stalled", "closing", "broken", "closed"}]
  /\ active \in [Conns -> BOOLEAN]
  /\ mapped \in [Conns -> BOOLEAN]

CallShape ==
  /\ pc \in [Procs -> Steps]
  /\ held \in [Procs -> Objs \cup {NoObj}]
  /\ target \in [Procs -> Conns \cup {NoConn}]
  /\ path \in [Procs -> {"none", "conn", "ids", "msg"}]
  /\ arg \in [Procs -> GroupIds \cup {NoId}]
  /\ obj \in [Procs -> Objs \cup {NoObj}]
  /\ todo \in [Procs -> SUBSET Conns]
  /\ writing \in [Procs -> Conns \cup {NoConn}]
  /\ got \in [Procs -> SUBSET Conns]

\* The places of a close call, and what a goroutine has at each place.
Closing == {"lookup", "check", "read", "find", "quit", "reset", "shut", "drop"}

Wired ==
  \A p \in Procs :
    /\ IF p \in Conns THEN pc[p] # "idle" ELSE pc[p] \notin {"reading", "callback", "done"}
    /\ path[p] # "none" <=> target[p] # NoConn
    /\ pc[p] \in Closing <=> path[p] # "none"
    /\ path[p] = "conn" => target[p] = p
    /\ pc[p] = "quit" => obj[p] # NoObj
    /\ pc[p] = "create" => arg[p] # NoId
    /\ pc[p] = "send" => held[p] # NoObj

Shape == GroupShape /\ ConnShape /\ CallShape /\ Wired

\* CreateGroup keeps to the bound also when several goroutines are between its two
\* critical sections.
Creating == {p \in Procs : pc[p] = "create"}

CreatesFit == IsFiniteSet(Creating) /\ created + Cardinality(Creating) <= MaxObjs

-----------------------------------------------------------------------------
LEMMA ShapeIsTypeOK == Shape => TypeOK
BY DEF Shape, GroupShape, ConnShape, CallShape, Wired, TypeOK, Steps

LEMMA ObjsFacts == Objs \subseteq Nat /\ NoObj \notin Objs /\ NoId \notin GroupIds
BY GroupConstants DEF GroupConstants, Objs, NoObj, NoId

LEMMA ProcsApart ==
  /\ \A p \in Callers \cup Tickers : p \notin Conns
  /\ \A p \in Tickers : p \notin Callers
BY GroupConstants DEF GroupConstants

LEMMA ShapeInit == Init => Shape /\ CreatesFit
<1> SUFFICES ASSUME Init PROVE Shape /\ CreatesFit
  OBVIOUS
<1> USE GroupConstants, ObjsFacts DEF GroupConstants, Init
<1>1. GroupShape /\ ConnShape
  BY DEF GroupShape, ConnShape
<1>2. CallShape /\ Wired
  BY DEF CallShape, Wired, Steps, Closing
<1>3. Creating = {}
  BY DEF Creating
<1> QED
  BY <1>1, <1>2, <1>3, FS_EmptySet DEF Shape, CreatesFit

\* With somebody between the two sections there is an object left to make.
LEMMA RoomToCreate ==
  ASSUME CreatesFit, created \in Nat, NEW p \in Procs, pc[p] = "create"
  PROVE  created < MaxObjs /\ Cardinality(Creating) \in Nat
<1>1. Cardinality(Creating) \in Nat /\ Cardinality(Creating) # 0
  BY FS_EmptySet, FS_CardinalityType DEF CreatesFit, Creating
<1> QED
  BY <1>1, GroupConstants DEF CreatesFit, GroupConstants

\* A close call that returns leaves its goroutine as it was before the call.
LEMMA Ended ==
  ASSUME CallShape, Wired, NEW p \in Procs, UNCHANGED <<held, sendVars>>,
         Finish(p, Ready(p)) \/ (p \in Conns /\ Finish(p, "done"))
  PROVE  CallShape' /\ Wired'
<1>1. PICK at \in {Ready(p), "done"} : Finish(p, at) /\ (at = Ready(p) \/ (p \in Conns /\ at = "done"))
  OBVIOUS
<1>2. /\ target' = [target EXCEPT ![p] = NoConn] /\ path' = [path EXCEPT ![p] = "none"]
      /\ arg' = [arg EXCEPT ![p] = NoId] /\ obj' = [obj EXCEPT ![p] = NoObj]
      /\ pc' = [pc EXCEPT ![p] = at]
  BY <1>1 DEF Finish, Goto
<1>3. at \in Steps /\ at \notin Closing \cup {"create", "send"}
      /\ IF p \in Conns THEN at # "idle" ELSE at \notin {"reading", "callback", "done"}
  BY <1>1 DEF Ready, Steps, Closing
<1>4. CallShape'
  BY <1>2, <1>3 DEF CallShape, sendVars
<1>5. Wired'
  BY <1>2, <1>3, GroupConstants DEF CallShape, Wired, Closing, GroupConstants
<1> QED
  BY <1>4, <1>5

\* What each step of a goroutine does, for its own variables: those of the others stay.
LEMMA ShapeStep == Shape /\ CreatesFit /\ [Next]_vars => Shape'
<1> SUFFICES ASSUME Shape, CreatesFit, [Next]_vars PROVE Shape'
  OBVIOUS
<1> USE GroupConstants, ObjsFacts DEF GroupConstants, Shape
<1>1. CASE UNCHANGED vars
  BY <1>1 DEF vars, groupVars, connVars, callVars, sendVars, GroupShape, ConnShape,
       CallShape, Wired
<1>2. ASSUME NEW p \in Procs, NEW g \in GroupIds, CreateGroup(p, g) PROVE Shape'
  BY <1>2 DEF CreateGroup, Does, Ready, Goto, groupVars, connVars, sendVars, GroupShape,
       ConnShape, CallShape, Wired, Steps, Closing
<1>3. ASSUME NEW p \in Procs, InsertGroup(p) PROVE Shape'
  <2>1. created + 1 \in Objs /\ arg[p] \in GroupIds
    BY <1>3, RoomToCreate DEF InsertGroup, Objs, GroupShape, CallShape, Wired
  <2> QED
    BY <1>3, <2>1 DEF InsertGroup, Ready, Goto, connVars, sendVars, GroupShape, ConnShape,
         CallShape, Wired, Steps, Closing, Objs
<1>4. ASSUME NEW p \in Procs, NEW g \in GroupIds, RemoveGroup(p, g) \/ GetGroup(p, g) PROVE Shape'
  BY <1>4 DEF RemoveGroup, GetGroup, Does, Ready, groupVars, connVars, callVars, sendVars,
       GroupShape, ConnShape, CallShape, Wired
<1>5. ASSUME NEW p \in Procs, NEW c \in Conns, Join(p, c) PROVE Shape'
  <2>1. held[p] \in Objs /\ gid[held[p]] \in GroupIds \cup {NoId}
    BY <1>5 DEF Join, GroupShape, CallShape
  <2>2. GroupShape'
    BY <1>5, <2>1 DEF Join, GroupShape
  <2>3. ConnShape'
    BY <1>5, <2>1 DEF Join, ConnShape
  <2> QED
    BY <1>5, <2>2, <2>3 DEF Join, callVars, sendVars, CallShape, Wired
<1>6. ASSUME NEW p \in Procs, NEW c \in Conns, Quit(p, c) PROVE Shape'
  BY <1>6 DEF Quit, connVars, callVars, sendVars, GroupShape, ConnShape, CallShape, Wired
<1>7. ASSUME NEW p \in Procs, Clear(p) PROVE Shape'
  BY <1>7 DEF Clear, connVars, callVars, sendVars, GroupShape, ConnShape, CallShape, Wired
<1>8. ASSUME NEW p \in Procs, StartSend(p) PROVE Shape'
  <2>1. /\ pc[p] = Ready(p) /\ p \notin Tickers /\ held[p] \in Objs
        /\ pc' = [pc EXCEPT ![p] = "send"]
        /\ locked' = [locked EXCEPT ![held[p]] = TRUE]
        /\ todo' = [todo EXCEPT ![p] = members[held[p]]] /\ got' = [got EXCEPT ![p] = {}]
        /\ UNCHANGED <<groupMap, created, gid, members, connVars, held, callVars, writing>>
    BY <1>8 DEF StartSend, Does, Goto, CallShape
  <2>2. GroupShape' /\ ConnShape'
    BY <2>1 DEF connVars, GroupShape, ConnShape
  <2>3. CallShape'
    BY <2>1 DEF callVars, GroupShape, CallShape, Steps
  <2>4. Wired'
    BY <2>1 DEF Ready, callVars, CallShape, Wired, Closing
  <2> QED
    BY <2>2, <2>3, <2>4
<1>9. ASSUME NEW p \in Procs, NEW c \in Conns, SendOne(p, c) \/ WriteEnd(p, c) PROVE Shape'
  <2>1. ConnShape' /\ GroupShape'
    BY <1>9 DEF SendOne, WriteEnd, groupVars, connVars, GroupShape, ConnShape
  <2>2. CallShape' /\ Wired'
    BY <1>9, GroupConstants DEF SendOne, WriteEnd, callVars, CallShape, Wired, GroupConstants
  <2> QED
    BY <2>1, <2>2
<1>10. ASSUME NEW p \in Procs, EndSend(p) PROVE Shape'
  BY <1>10 DEF EndSend, Ready, Goto, connVars, callVars, sendVars, GroupShape, ConnShape,
       CallShape, Wired, Steps, Closing
<1>11. ASSUME NEW c \in Conns, Stall(c) \/ PeerGone(c) \/ Expire(c) PROVE Shape'
  <2>1. ConnShape'
    <3>1. CASE Stall(c)
      BY <3>1 DEF Stall, ConnShape
    <3>2. CASE PeerGone(c)
      BY <3>2 DEF PeerGone, ConnShape
    <3>3. CASE Expire(c)
      BY <3>3 DEF Expire, ConnShape
    <3> QED
      BY <1>11, <3>1, <3>2, <3>3
  <2>2. UNCHANGED <<groupVars, pc, held, callVars, sendVars>>
    BY <1>11 DEF Stall, PeerGone, Expire
  <2> QED
    BY <2>1, <2>2 DEF groupVars, callVars, sendVars, GroupShape, CallShape, Wired
<1>12. ASSUME NEW c \in Conns, ReadMessage(c) \/ EndCallback(c) PROVE Shape'
  <2>1. c \in Procs /\ c \notin Callers \cup Tickers
    BY ProcsApart DEF Procs
  <2>2. CASE ReadMessage(c)
    BY <2>1, <2>2 DEF ReadMessage, Goto, groupVars, connVars, callVars, sendVars, GroupShape,
         ConnShape, CallShape, Wired, Steps, Closing
  <2>3. CASE EndCallback(c)
    <3>1. /\ pc[c] = "callback" /\ pc' = [pc EXCEPT ![c] = "reading"]
          /\ active' = [active EXCEPT ![c] = TRUE] /\ held' = [held EXCEPT ![c] = NoObj]
          /\ UNCHANGED <<groupVars, groupId, sock, mapped, callVars, sendVars>>
      BY <2>3 DEF EndCallback, Goto
    <3>2. GroupShape' /\ ConnShape'
      BY <3>1 DEF groupVars, GroupShape, ConnShape
    <3>3. CallShape'
      BY <2>1, <3>1 DEF callVars, sendVars, CallShape, Steps
    <3>4. Wired'
      BY <2>1, <3>1 DEF callVars, CallShape, Wired, Closing
    <3> QED
      BY <3>2, <3>3, <3>4
  <2> QED
    BY <1>12, <2>2, <2>3
<1>13. ASSUME NEW p \in Procs, NEW c \in Conns,
              StartCloseConnect(p, c) \/ StartCloseWithMessage(p, c)
              \/ (p \in Tickers /\ StartCheckActive(p, c))
       PROVE Shape'
  <2>1. PICK fn \in {"ids", "msg"}, at \in {"lookup", "check"} :
           /\ pc[p] \notin Closing \cup {"done"} /\ pc' = [pc EXCEPT ![p] = at]
           /\ target' = [target EXCEPT ![p] = c] /\ path' = [path EXCEPT ![p] = fn]
           /\ p \in Conns => pc[p] # "idle"
    BY <1>13 DEF StartCloseConnect, StartCloseWithMessage, StartCheckActive, Begin, Does,
         Ready, Goto, Closing
  <2>2. UNCHANGED <<groupVars, groupId, active, mapped, held, arg, obj, sendVars>>
    BY <1>13 DEF StartCloseConnect, StartCloseWithMessage, StartCheckActive, connVars
  <2>3. GroupShape' /\ ConnShape'
    BY <1>13, <2>2 DEF StartCloseConnect, StartCloseWithMessage, StartCheckActive, connVars,
         groupVars, GroupShape, ConnShape
  <2>4. CallShape'
    BY <2>1, <2>2 DEF sendVars, CallShape, Steps
  <2>5. Wired'
    BY <2>1, <2>2 DEF CallShape, Wired, Closing
  <2> QED
    BY <2>3, <2>4, <2>5
<1>14. ASSUME NEW p \in Procs, CloseStep(p) PROVE Shape'
  <2>1. CASE LookupConn(p)
    <3>1. CASE mapped[target[p]]
      <4>1. /\ pc[p] = "lookup" /\ pc' = [pc EXCEPT ![p] = "check"]
            /\ target' = target /\ path' = [path EXCEPT ![p] = "ids"]
            /\ UNCHANGED <<groupVars, connVars, held, sendVars, arg, obj>>
        BY <2>1, <3>1 DEF LookupConn, Begin, Goto, CallShape
      <4>2. GroupShape' /\ ConnShape' /\ CallShape'
        BY <4>1 DEF groupVars, connVars, sendVars, GroupShape, ConnShape, CallShape, Steps
      <4>3. Wired'
        BY <4>1 DEF CallShape, Wired, Closing
      <4> QED
        BY <4>2, <4>3
    <3>2. CASE ~mapped[target[p]]
      <4>1. Finish(p, Ready(p)) /\ UNCHANGED <<groupVars, connVars, held, sendVars>>
        BY <2>1, <3>2 DEF LookupConn, sendVars
      <4>2. CallShape' /\ Wired'
        BY <4>1, Ended
      <4> QED
        BY <4>1, <4>2 DEF groupVars, connVars, GroupShape, ConnShape
    <3> QED
      BY <3>1, <3>2
  <2>2. CASE CheckGroupId(p)
    BY <2>2 DEF CheckGroupId, AfterGroup, Goto, groupVars, connVars, callVars, sendVars,
         GroupShape, ConnShape, CallShape, Wired, Steps, Closing
  <2>3. CASE ReadGroupId(p)
    BY <2>3 DEF ReadGroupId, Goto, groupVars, connVars, sendVars, GroupShape, ConnShape,
         CallShape, Wired, Steps, Closing
  <2>4. CASE FindGroup(p)
    <3>1. PICK o \in Objs \cup {NoObj} :
             /\ pc[p] = "find" /\ obj' = [obj EXCEPT ![p] = o]
             /\ pc' = [pc EXCEPT ![p] = IF o # NoObj THEN "quit" ELSE AfterQuit(p)]
      BY <2>4 DEF FindGroup, Goto, GroupShape, CallShape
    <3>2. UNCHANGED <<groupVars, connVars, held, target, path, arg, sendVars>>
      BY <2>4 DEF FindGroup
    <3>3. GroupShape' /\ ConnShape' /\ CallShape'
      BY <3>1, <3>2 DEF AfterQuit, groupVars, connVars, sendVars, GroupShape, ConnShape,
           CallShape, Steps
    <3>4. Wired'
      BY <3>1, <3>2 DEF AfterQuit, CallShape, Wired, Closing
    <3> QED
      BY <3>3, <3>4
  <2>5. CASE QuitGroup(p)
    <3>1. /\ pc[p] = "quit" /\ obj[p] \in Objs
          /\ members' = [members EXCEPT ![obj[p]] = @ \ {target[p]}]
          /\ pc' = [pc EXCEPT ![p] = AfterQuit(p)]
          /\ UNCHANGED <<groupMap, created, gid, locked, connVars, held, callVars, sendVars>>
      BY <2>5 DEF QuitGroup, Goto, CallShape, Wired
    <3>2. GroupShape' /\ ConnShape' /\ CallShape'
      BY <3>1 DEF AfterQuit, connVars, callVars, sendVars, GroupShape, ConnShape, CallShape,
           Steps
    <3>3. Wired'
      BY <3>1 DEF AfterQuit, callVars, CallShape, Wired, Closing
    <3> QED
      BY <3>2, <3>3
  <2>6. CASE ResetGroupId(p)
    BY <2>6 DEF ResetGroupId, AfterGroup, Goto, groupVars, callVars, sendVars, GroupShape,
         ConnShape, CallShape, Wired, Steps, Closing
  <2>7. CASE ShutConn(p)
    <3>1. GroupShape' /\ ConnShape'
      BY <2>7 DEF ShutConn, groupVars, GroupShape, ConnShape
    <3>2. CASE path[p] = "conn"
      <4>1. Finish(p, "done") /\ UNCHANGED <<held, sendVars>> /\ p \in Conns
        BY <2>7, <3>2 DEF ShutConn, sendVars, CallShape, Wired
      <4> QED
        BY <3>1, <4>1, Ended
    <3>3. CASE path[p] # "conn"
      BY <2>7, <3>1, <3>3 DEF ShutConn, Goto, callVars, sendVars, CallShape, Wired, Steps,
           Closing
    <3> QED
      BY <3>2, <3>3
  <2>8. CASE DropConn(p)
    <3>1. GroupShape' /\ ConnShape'
      BY <2>8 DEF DropConn, groupVars, GroupShape, ConnShape
    <3>2. CASE path[p] # "conn"
      <4>1. Finish(p, Ready(p)) /\ UNCHANGED <<held, sendVars>>
        BY <2>8, <3>2 DEF DropConn, sendVars
      <4> QED
        BY <3>1, <4>1, Ended
    <3>3. CASE path[p] = "conn"
      BY <2>8, <3>1, <3>3 DEF DropConn, Goto, callVars, sendVars, CallShape, Wired, Steps,
           Closing
    <3> QED
      BY <3>2, <3>3
  <2> QED
    BY <1>14, <2>1, <2>2, <2>3, <2>4, <2>5, <2>6, <2>7, <2>8 DEF CloseStep
<1>15. ASSUME NEW p \in Procs, AppStep(p) PROVE Shape'
  <2>1. CASE \E g \in GroupIds : CreateGroup(p, g) \/ RemoveGroup(p, g) \/ GetGroup(p, g)
    BY <2>1, <1>2, <1>4
  <2>2. CASE \E c \in Conns : Join(p, c) \/ Quit(p, c)
    BY <2>2, <1>5, <1>6
  <2>3. CASE \E c \in Conns : StartCloseConnect(p, c) \/ StartCloseWithMessage(p, c)
    BY <2>3, <1>13
  <2>4. CASE Clear(p) \/ StartSend(p)
    BY <2>4, <1>7, <1>8
  <2> QED
    BY <1>15, <2>1, <2>2, <2>3, <2>4 DEF AppStep
<1>16. CASE \E p \in Procs : AppStep(p) \/ InsertGroup(p) \/ SendStep(p) \/ CloseStep(p)
  BY <1>16, <1>3, <1>9, <1>10, <1>14, <1>15 DEF SendStep
<1>17. CASE \E c \in Conns : Peer(c) \/ EndCallback(c)
  BY <1>17, <1>11, <1>12 DEF Peer
<1>18. ASSUME NEW c \in Conns, ReadError(c) PROVE Shape'
  <2>1. c \in Procs
    BY DEF Procs
  <2> QED
    BY <2>1, <1>18 DEF ReadError, Begin, Goto, groupVars, connVars, sendVars, GroupShape,
         ConnShape, CallShape, Wired, Steps, Closing
<1>19. CASE \E c \in Conns : ReadError(c)
  BY <1>19, <1>18
<1>20. CASE \E t \in Tickers, c \in Conns : StartCheckActive(t, c)
  BY <1>20, <1>13 DEF Procs
<1> QED
  BY <1>1, <1>16, <1>17, <1>19, <1>20 DEF Next, Finished

\* The steps, one line for each kind of quantifier.
LEMMA StepCases ==
  ASSUME [Next]_vars
  PROVE
    \/ UNCHANGED vars
    \/ \E p \in Procs, g \in GroupIds : CreateGroup(p, g) \/ RemoveGroup(p, g) \/ GetGroup(p, g)
    \/ \E p \in Procs, c \in Conns : Join(p, c) \/ Quit(p, c) \/ SendOne(p, c) \/ WriteEnd(p, c)
    \/ \E p \in Procs, c \in Conns : StartCloseConnect(p, c) \/ StartCloseWithMessage(p, c)
    \/ \E p \in Procs : InsertGroup(p) \/ Clear(p) \/ StartSend(p) \/ EndSend(p) \/ CloseStep(p)
    \/ \E c \in Conns : Stall(c) \/ PeerGone(c) \/ Expire(c)
    \/ \E c \in Conns : ReadMessage(c) \/ EndCallback(c) \/ ReadError(c)
    \/ \E t \in Tickers, c \in Conns : StartCheckActive(t, c)
<1>1. CASE \E p \in Procs : AppStep(p) \/ InsertGroup(p) \/ SendStep(p) \/ CloseStep(p)
  <2>1. PICK p \in Procs : AppStep(p) \/ InsertGroup(p) \/ SendStep(p) \/ CloseStep(p)
    BY <1>1
  <2>2. CASE AppStep(p)
    BY <2>2 DEF AppStep
  <2>3. CASE SendStep(p)
    BY <2>3 DEF SendStep
  <2> QED
    BY <2>1, <2>2, <2>3
<1>2. CASE \E c \in Conns : Peer(c) \/ EndCallback(c) \/ ReadError(c)
  BY <1>2 DEF Peer
<1> QED
  BY <1>1, <1>2 DEF Next, Finished

\* Only the two halves of CreateGroup have to do with who is between them.
LEMMA OnlyCreators ==
  ASSUME Shape, [Next]_vars
  PROVE  \/ \E p \in Procs, g \in GroupIds : CreateGroup(p, g)
         \/ \E p \in Procs : InsertGroup(p)
         \/ created' = created /\ Creating' = Creating
<1> USE DEF Shape, CallShape, Creating
<1>1. CASE UNCHANGED vars
  BY <1>1 DEF vars, groupVars
<1>2. ASSUME NEW p \in Procs, NEW g \in GroupIds, RemoveGroup(p, g) \/ GetGroup(p, g)
      PROVE  created' = created /\ Creating' = Creating
  BY <1>2 DEF RemoveGroup, GetGroup, groupVars
<1>3. ASSUME NEW p \in Procs, NEW c \in Conns, Join(p, c) \/ Quit(p, c) \/ SendOne(p, c) \/ WriteEnd(p, c)
      PROVE  created' = created /\ Creating' = Creating
  BY <1>3 DEF Join, Quit, SendOne, WriteEnd, groupVars
<1>4. ASSUME NEW p \in Procs, NEW at \in Steps \ {"create"}, pc[p] # "create", pc' = [pc EXCEPT ![p] = at]
      PROVE  Creating' = Creating
  BY <1>4
<1>5. ASSUME NEW p \in Procs, NEW c \in Conns, StartCloseConnect(p, c) \/ StartCloseWithMessage(p, c)
      PROVE  created' = created /\ Creating' = Creating
  <2>1. PICK at \in {"lookup", "check"} : pc[p] = Ready(p) /\ pc' = [pc EXCEPT ![p] = at]
    BY <1>5 DEF StartCloseConnect, StartCloseWithMessage, Begin, Goto, Does
  <2>2. Creating' = Creating
    BY <1>4, <2>1 DEF Ready, Steps
  <2> QED
    BY <1>5, <2>2 DEF StartCloseConnect, StartCloseWithMessage, groupVars
<1>6. ASSUME NEW p \in Procs, Clear(p) \/ StartSend(p) \/ EndSend(p)
      PROVE  created' = created /\ Creating' = Creating
  <2>1. CASE Clear(p)
    BY <2>1 DEF Clear
  <2>2. CASE StartSend(p)
    BY <2>2, <1>4 DEF StartSend, Does, Ready, Goto, Steps
  <2>3. CASE EndSend(p)
    BY <2>3, <1>4 DEF EndSend, Ready, Goto, Steps
  <2> QED
    BY <1>6, <2>1, <2>2, <2>3
<1>7. ASSUME NEW p \in Procs, CloseStep(p)
      PROVE  created' = created /\ Creating' = Creating
  <2>1. PICK at \in Steps \ {"create"} : pc[p] # "create" /\ pc' = [pc EXCEPT ![p] = at]
    <3>1. CASE LookupConn(p)
      BY <3>1 DEF LookupConn, Begin, Finish, Ready, Goto, Steps
    <3>2. CASE CheckGroupId(p) \/ ReadGroupId(p)
      BY <3>2 DEF CheckGroupId, ReadGroupId, AfterGroup, Goto, Steps
    <3>3. CASE FindGroup(p) \/ QuitGroup(p) \/ ResetGroupId(p)
      BY <3>3 DEF FindGroup, QuitGroup, ResetGroupId, AfterQuit, AfterGroup, Goto, Steps
    <3>4. CASE ShutConn(p) \/ DropConn(p)
      BY <3>4 DEF ShutConn, DropConn, Finish, Ready, Goto, Steps
    <3> QED
      BY <1>7, <3>1, <3>2, <3>3, <3>4 DEF CloseStep
  <2>2. created' = created
    BY <1>7 DEF CloseStep, LookupConn, CheckGroupId, ReadGroupId, FindGroup, QuitGroup,
         ResetGroupId, ShutConn, DropConn, groupVars
  <2> QED
    BY <1>4, <2>1, <2>2
<1>8. ASSUME NEW c \in Conns, Stall(c) \/ PeerGone(c) \/ Expire(c)
      PROVE  created' = created /\ Creating' = Creating
  BY <1>8 DEF Stall, PeerGone, Expire, groupVars
<1>9. ASSUME NEW c \in Conns, ReadMessage(c) \/ EndCallback(c) \/ ReadError(c)
      PROVE  created' = created /\ Creating' = Creating
  <2>1. c \in Procs
    BY DEF Procs
  <2>2. PICK at \in Steps \ {"create"} : pc[c] # "create" /\ pc' = [pc EXCEPT ![c] = at]
    BY <1>9 DEF ReadMessage, EndCallback, ReadError, Begin, Goto, Steps
  <2> QED
    BY <1>4, <1>9, <2>1, <2>2 DEF ReadMessage, EndCallback, ReadError, groupVars
<1>10. ASSUME NEW t \in Tickers, NEW c \in Conns, StartCheckActive(t, c)
       PROVE  created' = created /\ Creating' = Creating
  BY <1>4, <1>10 DEF StartCheckActive, Begin, Goto, groupVars, Steps, Procs
<1> QED
  BY StepCases, <1>1, <1>2, <1>3, <1>5, <1>6, <1>7, <1>8, <1>9, <1>10

LEMMA CreatesFitStep == Shape /\ CreatesFit /\ [Next]_vars => CreatesFit'
<1> SUFFICES ASSUME Shape, CreatesFit, [Next]_vars PROVE CreatesFit'
  OBVIOUS
<1> USE GroupConstants DEF GroupConstants
<1>1. created \in Nat /\ Cardinality(Creating) \in Nat /\ IsFiniteSet(Creating)
  BY FS_CardinalityType DEF CreatesFit, Shape, GroupShape
<1>2. ASSUME NEW p \in Procs, NEW g \in GroupIds, CreateGroup(p, g) PROVE CreatesFit'
  <2>1. CASE groupMap[g] # NoObj
    BY <1>2, <2>1 DEF CreateGroup, groupVars, CreatesFit, Creating
  <2>2. CASE groupMap[g] = NoObj
    <3>1. created + Cardinality(Creating) < MaxObjs /\ created' = created /\ pc' = [pc EXCEPT ![p] = "create"]
      BY <1>2, <2>2 DEF CreateGroup, Goto, groupVars, Creating
    <3>2. Creating' = Creating \cup {p}
      BY <3>1 DEF Creating, Shape, CallShape
    <3>3. IsFiniteSet(Creating') /\ Cardinality(Creating') \in {Cardinality(Creating), Cardinality(Creating) + 1}
      BY <1>1, <3>2, FS_AddElement
    <3> QED
      BY <1>1, <3>1, <3>3 DEF CreatesFit
  <2> QED
    BY <2>1, <2>2
<1>3. ASSUME NEW p \in Procs, InsertGroup(p) PROVE CreatesFit'
  <2>1. p \in Creating /\ created' = created + 1 /\ pc' = [pc EXCEPT ![p] = Ready(p)]
    BY <1>3 DEF InsertGroup, Goto, Creating
  <2>2. Creating' = Creating \ {p}
    BY <2>1 DEF Creating, Ready, Shape, CallShape
  <2>3. IsFiniteSet(Creating') /\ Cardinality(Creating') = Cardinality(Creating) - 1
    BY <1>1, <2>1, <2>2, FS_RemoveElement
  <2> QED
    BY <1>1, <2>1, <2>3 DEF CreatesFit
<1>4. CASE created' = created /\ Creating' = Creating
  BY <1>4 DEF CreatesFit
<1> QED
  BY OnlyCreators, <1>2, <1>3, <1>4

LEMMA ShapeAlways == Spec => [](Shape /\ CreatesFit)
<1>1. Shape /\ CreatesFit /\ [Next]_vars => (Shape /\ CreatesFit)'
  BY ShapeStep, CreatesFitStep
<1> QED
  BY ShapeInit, <1>1, PTL DEF Spec

\* However many goroutines create, use and close at once, the state keeps its shape:
\* whoever calls Quit of a group for a connection (face/bucket.go, resetConnGroupId)
\* has the group and the connection, and no CreateGroup goes beyond the objects there are.
THEOREM GroupTyping == Spec => []TypeOK
BY ShapeAlways, ShapeIsTypeOK, PTL

-----------------------------------------------------------------------------
(* Messages go to members.  Whoever is in SendMessage has the lock of its  *)
(* group, alone, and Join, Quit, Clear and the close paths wait for it.    *)

HasLock(p) == locked[held[p]] /\ todo[p] \subseteq members[held[p]]

SendersApart == \A p, q \in Procs : pc[p] = "send" /\ pc[q] = "send" /\ p # q => held[p] # held[q]

Sending == SendersApart /\ \A p \in Procs : pc[p] = "send" => HasLock(p)

\* No step but EndSend gets a lock back, and nobody else changes the group meanwhile.
LEMMA SendingStep == Shape /\ Sending /\ [Next]_vars => Sending'
<1> SUFFICES ASSUME Shape, Sending, [Next]_vars PROVE Sending'
  OBVIOUS
<1> USE DEF Shape, Sending, SendersApart, HasLock
\* A goroutine that goes somewhere else, with all groups left as they are.
<1>1. ASSUME UNCHANGED <<members, locked>>,
             \A q \in Procs : pc'[q] = "send" => pc[q] = "send" /\ held'[q] = held[q] /\ todo'[q] \subseteq todo[q]
      PROVE  Sending'
  BY <1>1
<1>2. CASE UNCHANGED vars
  BY <1>1, <1>2 DEF vars, groupVars, sendVars
<1>3. ASSUME NEW p \in Procs, NEW g \in GroupIds, CreateGroup(p, g) \/ RemoveGroup(p, g) \/ GetGroup(p, g)
      PROVE  Sending'
  <2>1. pc[p] # "send" /\ todo' = todo /\ UNCHANGED <<members, locked>>
    BY <1>3 DEF CreateGroup, RemoveGroup, GetGroup, Does, Ready, groupVars, sendVars
  <2>2. /\ \A q \in Procs \ {p} : pc'[q] = pc[q] /\ held'[q] = held[q]
        /\ pc'[p] # "send"
    BY <1>3 DEF CreateGroup, RemoveGroup, GetGroup, Does, Ready, Goto, CallShape
  <2> QED
    BY <1>1, <2>1, <2>2
<1>4. ASSUME NEW p \in Procs, InsertGroup(p) PROVE Sending'
  <2>1. /\ \A q \in Procs \ {p} : pc'[q] = pc[q] /\ held'[q] = held[q]
        /\ pc'[p] # "send" /\ UNCHANGED <<members, locked, todo>>
    BY <1>4 DEF InsertGroup, Ready, Goto, CallShape, sendVars
  <2> QED
    BY <1>1, <2>1
<1>5. ASSUME NEW p \in Procs, NEW c \in Conns, Join(p, c) \/ Quit(p, c) PROVE Sending'
  <2>1. /\ ~locked[held[p]] /\ UNCHANGED <<pc, held, locked, todo>>
        /\ \A o \in Objs \ {held[p]} : members'[o] = members[o]
    BY <1>5 DEF Join, Quit, callVars, sendVars, GroupShape
  <2>2. \A q \in Procs : pc[q] = "send" => held[q] \in Objs \ {held[p]}
    BY <2>1 DEF CallShape, Wired
  <2> QED
    BY <2>1, <2>2
<1>6. ASSUME NEW p \in Procs, Clear(p) PROVE Sending'
  <2>1. /\ ~locked[held[p]] /\ UNCHANGED <<pc, held, locked, todo>>
        /\ \A o \in Objs \ {held[p]} : members'[o] = members[o]
    BY <1>6 DEF Clear, callVars, sendVars, GroupShape
  <2>2. \A q \in Procs : pc[q] = "send" => held[q] \in Objs \ {held[p]}
    BY <2>1 DEF CallShape, Wired
  <2> QED
    BY <2>1, <2>2
<1>7. ASSUME NEW p \in Procs, StartSend(p) PROVE Sending'
  <2>1. /\ ~locked[held[p]] /\ held[p] \in Objs /\ UNCHANGED <<members, held>>
        /\ locked' = [locked EXCEPT ![held[p]] = TRUE]
        /\ todo' = [todo EXCEPT ![p] = members[held[p]]]
        /\ pc' = [pc EXCEPT ![p] = "send"]
    BY <1>7 DEF StartSend, Goto, CallShape
  <2>2. \A q \in Procs : q # p /\ pc[q] = "send" => held[q] # held[p]
    BY <2>1
  <2>3. SendersApart'
    BY <2>1, <2>2 DEF CallShape
  <2>4. \A q \in Procs : pc'[q] = "send" => HasLock(q)'
    BY <2>1, <2>2 DEF CallShape, GroupShape, Wired
  <2> QED
    BY <2>3, <2>4
<1>8. ASSUME NEW p \in Procs, NEW c \in Conns, SendOne(p, c) \/ WriteEnd(p, c) PROVE Sending'
  <2>1. /\ UNCHANGED <<members, locked, pc, held>>
        /\ todo' = todo \/ todo' = [todo EXCEPT ![p] = @ \ {c}]
    BY <1>8 DEF SendOne, WriteEnd, groupVars
  <2> QED
    BY <1>1, <2>1 DEF CallShape
<1>9. ASSUME NEW p \in Procs, EndSend(p) PROVE Sending'
  <2>1. /\ pc[p] = "send" /\ UNCHANGED <<members, held, todo>>
        /\ locked' = [locked EXCEPT ![held[p]] = FALSE]
        /\ pc' = [pc EXCEPT ![p] = Ready(p)]
    BY <1>9 DEF EndSend, Goto, sendVars
  <2>2. \A q \in Procs : pc'[q] = "send" => q # p /\ pc[q] = "send"
    BY <2>1 DEF Ready, CallShape
  <2>3. \A q \in Procs : pc'[q] = "send" => held[q] \in Objs \ {held[p]} /\ HasLock(q)
    BY <2>1, <2>2 DEF CallShape, Wired
  <2> QED
    BY <2>1, <2>2, <2>3 DEF GroupShape
<1>10. ASSUME NEW p \in Procs, CloseStep(p), ~QuitGroup(p) PROVE Sending'
  <2>1. UNCHANGED <<members, locked, held, todo>>
    BY <1>10 DEF CloseStep, LookupConn, CheckGroupId, ReadGroupId, FindGroup, ResetGroupId,
         ShutConn, DropConn, groupVars, sendVars
  <2>2. pc'[p] # "send" /\ \A q \in Procs \ {p} : pc'[q] = pc[q]
    <3>1. CASE LookupConn(p)
      BY <3>1 DEF LookupConn, Begin, Finish, Ready, Goto, CallShape
    <3>2. CASE CheckGroupId(p) \/ ReadGroupId(p)
      BY <3>2 DEF CheckGroupId, ReadGroupId, AfterGroup, Goto, CallShape
    <3>3. CASE FindGroup(p) \/ ResetGroupId(p)
      BY <3>3 DEF FindGroup, ResetGroupId, AfterQuit, AfterGroup, Goto, CallShape
    <3>4. CASE ShutConn(p) \/ DropConn(p)
      BY <3>4 DEF ShutConn, DropConn, Finish, Ready, Goto, CallShape
    <3> QED
      BY <1>10, <3>1, <3>2, <3>3, <3>4 DEF CloseStep
  <2> QED
    BY <1>1, <2>1, <2>2
<1>11. ASSUME NEW p \in Procs, QuitGroup(p) PROVE Sending'
  <2>1. /\ ~locked[obj[p]] /\ pc[p] # "send" /\ UNCHANGED <<held, locked, todo>>
        /\ \A o \in Objs \ {obj[p]} : members'[o] = members[o]
        /\ \A q \in Procs : pc'[q] = "send" => pc[q] = "send"
    BY <1>11 DEF QuitGroup, AfterQuit, Goto, callVars, sendVars, GroupShape, CallShape
  <2>2. \A q \in Procs : pc'[q] = "send" => pc[q] = "send" /\ held[q] \in Objs \ {obj[p]} /\ HasLock(q)
    BY <2>1 DEF CallShape, Wired
  <2> QED
    BY <2>1, <2>2
<1>12. ASSUME NEW c \in Conns, Stall(c) \/ PeerGone(c) \/ Expire(c) PROVE Sending'
  BY <1>1, <1>12 DEF Stall, PeerGone, Expire, groupVars, sendVars
<1>13. ASSUME NEW c \in Conns, ReadMessage(c) \/ EndCallback(c) \/ ReadError(c) PROVE Sending'
  <2>1. c \in Procs /\ pc[c] # "send" /\ UNCHANGED <<members, locked, todo>>
    BY <1>13 DEF ReadMessage, EndCallback, ReadError, groupVars, sendVars, Procs
  <2>2. /\ \A q \in Procs \ {c} : pc'[q] = pc[q] /\ held'[q] = held[q]
        /\ pc'[c] # "send"
    BY <1>13, <2>1 DEF ReadMessage, EndCallback, ReadError, Begin, Goto, CallShape
  <2> QED
    BY <1>1, <2>1, <2>2
<1>14. ASSUME NEW p \in Procs, NEW c \in Conns,
              StartCloseConnect(p, c) \/ StartCloseWithMessage(p, c) \/ StartCheckActive(p, c)
       PROVE  Sending'
  <2>1. /\ UNCHANGED <<members, locked, held, todo>>
        /\ \A q \in Procs \ {p} : pc'[q] = pc[q]
        /\ pc'[p] # "send"
    BY <1>14 DEF StartCloseConnect, StartCloseWithMessage, StartCheckActive, Begin, Goto,
         groupVars, sendVars, CallShape
  <2> QED
    BY <1>1, <2>1
<1>15. Tickers \subseteq Procs
  BY DEF Procs
<1> QED
  BY StepCases, <1>2, <1>3, <1>4, <1>5, <1>6, <1>7, <1>8, <1>9, <1>10, <1>11, <1>12, <1>13,
       <1>14, <1>15

LEMMA SendingAlways == Spec => []Sending
<1>1. Init => Sending
  BY DEF Init, Sending, SendersApart
<1>2. Shape /\ Sending /\ [Next]_vars => Sending'
  BY SendingStep
<1> QED
  BY <1>1, <1>2, ShapeAlways, PTL DEF Spec

\* Only the end of a Write gets to anybody, to one it has still to write to.
LEMMA GotBySend ==
  ASSUME Shape, [Next]_vars, NEW p \in Procs, NEW c \in got'[p] \ got[p]
  PROVE  pc[p] = "send" /\ c \in todo[p]
<1> USE DEF Shape, CallShape
<1>1. ASSUME NEW q \in Procs, NEW d \in Conns, SendOne(q, d) \/ WriteEnd(q, d)
      PROVE  pc[p] = "send" /\ c \in todo[p]
  BY <1>1 DEF SendOne, WriteEnd
<1>2. ASSUME NEW q \in Procs, StartSend(q)
      PROVE  pc[p] = "send" /\ c \in todo[p]
  BY <1>2 DEF StartSend
<1>3. CASE got' = got
  BY <1>3
<1>4. ASSUME NEW q \in Procs, NEW g \in GroupIds, CreateGroup(q, g) \/ RemoveGroup(q, g) \/ GetGroup(q, g)
      PROVE  got' = got
  BY <1>4 DEF CreateGroup, RemoveGroup, GetGroup, sendVars
<1>5. ASSUME NEW q \in Procs, NEW d \in Conns,
             Join(q, d) \/ Quit(q, d) \/ StartCloseConnect(q, d) \/ StartCloseWithMessage(q, d) \/ StartCheckActive(q, d)
      PROVE  got' = got
  BY <1>5 DEF Join, Quit, StartCloseConnect, StartCloseWithMessage, StartCheckActive, sendVars
<1>6. ASSUME NEW q \in Procs, InsertGroup(q) \/ Clear(q) \/ EndSend(q) PROVE got' = got
  BY <1>6 DEF InsertGroup, Clear, EndSend, sendVars
<1>7. ASSUME NEW q \in Procs, CloseStep(q) PROVE got' = got
  BY <1>7 DEF CloseStep, LookupConn, CheckGroupId, ReadGroupId, FindGroup, QuitGroup,
       ResetGroupId, ShutConn, DropConn, sendVars
<1>8. ASSUME NEW d \in Conns,
             \/ Stall(d) \/ PeerGone(d) \/ Expire(d)
             \/ ReadMessage(d) \/ EndCallback(d) \/ ReadError(d)
      PROVE  got' = got
  BY <1>8 DEF Stall, PeerGone, Expire, ReadMessage, EndCallback, ReadError, sendVars
<1>9. UNCHANGED vars => got' = got
  BY DEF vars, sendVars
<1>10. Tickers \subseteq Procs
  BY DEF Procs
<1> QED
  BY StepCases, <1>1, <1>2, <1>3, <1>4, <1>5, <1>6, <1>7, <1>8, <1>9, <1>10

\* Group.SendMessage (face/group.go) writes to connections that are members at the
\* moment of the write, whatever joins, quits, clears and closes are waiting.
THEOREM MembersOnly == Spec => OnlyMembersGet
<1>1. Shape /\ Sending /\ [Next]_vars => [\A p \in Procs : \A c \in got'[p] \ got[p] : c \in members[held[p]]]_vars
  <2> SUFFICES ASSUME Shape, Sending, [Next]_vars, NEW p \in Procs, NEW c \in got'[p] \ got[p]
               PROVE  c \in members[held[p]]
    OBVIOUS
  <2>1. pc[p] = "send" /\ c \in todo[p]
    BY GotBySend
  <2> QED
    BY <2>1 DEF Sending, HasLock
<1> QED
  BY <1>1, ShapeAlways, SendingAlways, PTL DEF Spec, OnlyMembersGet

-----------------------------------------------------------------------------
(* Objects and their ids.  An object is in the map, or held, only once it  *)
(* is made, and has nobody in it before.                                   *)

Known ==
  /\ \A g \in GroupIds : groupMap[g] # NoObj => groupMap[g] <= created /\ gid[groupMap[g]] = g
  /\ \A p \in Procs : held[p] <= created
  /\ \A o \in Objs : o > created => members[o] = {}

LEMMA KnownInit == Init => Known
BY GroupConstants DEF Init, Known, GroupConstants, NoObj

LEMMA KnownStep == Shape /\ CreatesFit /\ Known /\ [Next]_vars => Known'
<1> SUFFICES ASSUME Shape, CreatesFit, Known, [Next]_vars PROVE Known'
  OBVIOUS
<1> USE GroupConstants, ObjsFacts DEF GroupConstants, Shape, Known
<1>1. created \in Nat
  BY DEF GroupShape
<1>2. CASE UNCHANGED vars
  BY <1>2 DEF vars, groupVars
<1>3. ASSUME NEW p \in Procs, NEW g \in GroupIds, CreateGroup(p, g) PROVE Known'
  <2>1. UNCHANGED groupVars /\ (held' = held \/ (groupMap[g] # NoObj /\ held' = [held EXCEPT ![p] = groupMap[g]]))
    BY <1>3 DEF CreateGroup
  <2> QED
    BY <2>1 DEF groupVars, CallShape
<1>4. ASSUME NEW p \in Procs, NEW g \in GroupIds, GetGroup(p, g) PROVE Known'
  BY <1>4 DEF GetGroup, groupVars, CallShape
<1>5. ASSUME NEW p \in Procs, NEW g \in GroupIds, RemoveGroup(p, g) PROVE Known'
  BY <1>5 DEF RemoveGroup, GroupShape
<1>6. ASSUME NEW p \in Procs, InsertGroup(p) PROVE Known'
  <2>1. /\ created + 1 \in Objs /\ arg[p] \in GroupIds
        /\ created' = created + 1 /\ members' = members
        /\ gid' = [gid EXCEPT ![created + 1] = arg[p]]
        /\ groupMap' = [groupMap EXCEPT ![arg[p]] = created + 1]
        /\ held' = [held EXCEPT ![p] = created + 1]
    BY <1>1, <1>6, RoomToCreate DEF InsertGroup, Objs, CallShape, Wired
  <2>2. \A g \in GroupIds : groupMap'[g] # NoObj => groupMap'[g] <= created' /\ gid'[groupMap'[g]] = g
    <3> SUFFICES ASSUME NEW g \in GroupIds, groupMap'[g] # NoObj
                 PROVE  groupMap'[g] <= created' /\ gid'[groupMap'[g]] = g
      OBVIOUS
    <3>1. CASE g = arg[p]
      BY <2>1, <3>1, <1>1 DEF GroupShape
    <3>2. CASE g # arg[p]
      <4>1. groupMap'[g] = groupMap[g] /\ groupMap[g] \in Objs
        BY <2>1, <3>2 DEF GroupShape
      <4>2. groupMap[g] <= created /\ groupMap[g] \in Nat
        BY <4>1
      <4> QED
        BY <1>1, <2>1, <4>1, <4>2 DEF GroupShape
    <3> QED
      BY <3>1, <3>2
  <2>3. \A q \in Procs : held'[q] <= created'
    <3>1. \A q \in Procs : held[q] \in Nat
      <4> SUFFICES ASSUME NEW q \in Procs PROVE held[q] \in Nat
        OBVIOUS
      <4>1. held[q] \in Objs \/ held[q] = 0
        BY DEF CallShape, NoObj
      <4> QED
        BY <4>1 DEF Objs
    <3>2. \A q \in Procs : held'[q] = held[q] \/ held'[q] = created + 1
      BY <2>1 DEF CallShape
    <3> QED
      BY <1>1, <2>1, <3>1, <3>2
  <2>4. \A o \in Objs : o > created' => members'[o] = {}
    BY <1>1, <2>1
  <2> QED
    BY <2>2, <2>3, <2>4
<1>7. ASSUME NEW p \in Procs, NEW c \in Conns, Join(p, c) PROVE Known'
  <2>1. /\ held[p] \in Objs /\ held[p] <= created
        /\ UNCHANGED <<groupMap, created, gid, held>>
        /\ members' = [members EXCEPT ![held[p]] = @ \cup {c}]
    BY <1>7 DEF Join, CallShape
  <2> QED
    BY <1>1, <2>1 DEF GroupShape
<1>8. ASSUME NEW p \in Procs, NEW c \in Conns, Quit(p, c) \/ SendOne(p, c) \/ WriteEnd(p, c) PROVE Known'
  BY <1>8 DEF Quit, SendOne, WriteEnd, groupVars, GroupShape
<1>9. ASSUME NEW p \in Procs, Clear(p) \/ StartSend(p) \/ EndSend(p) PROVE Known'
  <2>1. /\ UNCHANGED <<groupMap, created, gid, held>>
        /\ members' = members \/ members' = [members EXCEPT ![held[p]] = {}]
    BY <1>9 DEF Clear, StartSend, EndSend
  <2> QED
    BY <2>1 DEF GroupShape
<1>10. ASSUME NEW p \in Procs, CloseStep(p) PROVE Known'
  <2>1. UNCHANGED <<groupMap, created, gid, held>>
    BY <1>10 DEF CloseStep, LookupConn, CheckGroupId, ReadGroupId, FindGroup, QuitGroup,
         ResetGroupId, ShutConn, DropConn, groupVars
  <2>2. members' = members \/ members' = [members EXCEPT ![obj[p]] = @ \ {target[p]}]
    BY <1>10 DEF CloseStep, LookupConn, CheckGroupId, ReadGroupId, FindGroup, QuitGroup,
         ResetGroupId, ShutConn, DropConn, groupVars
  <2> QED
    BY <2>1, <2>2 DEF GroupShape
<1>11. ASSUME NEW c \in Conns, Stall(c) \/ PeerGone(c) \/ Expire(c) PROVE Known'
  <2>1. UNCHANGED <<groupMap, created, gid, members, held>>
    BY <1>11 DEF Stall, PeerGone, Expire, groupVars
  <2> QED
    BY <2>1
<1>12. ASSUME NEW c \in Conns, ReadMessage(c) \/ EndCallback(c) \/ ReadError(c) PROVE Known'
  <2>1. UNCHANGED groupVars /\ (held' = held \/ held' = [held EXCEPT ![c] = NoObj])
    BY <1>12 DEF ReadMessage, EndCallback, ReadError
  <2> QED
    <3>1. \A q \in Procs : held'[q] = held[q] \/ held'[q] = 0
      BY <2>1 DEF CallShape, NoObj
    <3>2. \A q \in Procs : held'[q] <= created
      BY <1>1, <3>1
    <3> QED
      BY <2>1, <3>2 DEF groupVars
<1>13. ASSUME NEW p \in Procs, NEW c \in Conns,
              StartCloseConnect(p, c) \/ StartCloseWithMessage(p, c) \/ StartCheckActive(p, c)
       PROVE  Known'
  BY <1>13 DEF StartCloseConnect, StartCloseWithMessage, StartCheckActive, groupVars
<1>14. Tickers \subseteq Procs
  BY DEF Procs
<1> QED
  BY StepCases, <1>2, <1>3, <1>4, <1>5, <1>6, <1>7, <1>8, <1>9, <1>10, <1>11, <1>12, <1>13,
       <1>14

LEMMA KnownAlways == Spec => []Known
<1>1. Shape /\ CreatesFit /\ Known /\ [Next]_vars => Known'
  BY KnownStep
<1> QED
  BY <1>1, KnownInit, ShapeAlways, PTL DEF Spec

-----------------------------------------------------------------------------
(* What the close path asks of an application: a connection has one group  *)
(* id, which is read twice with no lock, so connections join from their    *)
(* own read callback, quit one group before they join the next, and only   *)
(* the read loops close.  Any number of goroutines may create, remove,     *)
(* clear and send meanwhile.                                               *)

JoinsInCallback ==
  /\ {"join", "close"} \cap AppOps = {} /\ "close" \notin CallbackOps
  /\ Tickers = {}
  /\ QuitFirst

\* Only read loops close, each its own connection.
OnlySelf == \A p \in Procs : path[p] \in {"none", "conn"} /\ pc[p] # "lookup"

\* What holds of a member of a listed group: the close path of c either has not
\* come to the group yet or is about to quit this very object.
Left == {"reset", "drop", "shut", "done"}
Member(c, o) ==
  /\ groupId[c] = gid[o]
  /\ pc[c] \notin Left
  /\ pc[c] = "quit" => obj[c] = o

Belong ==
  /\ \A c \in Conns, o \in Listed : c \in members[o] => Member(c, o)
  /\ \A c \in Conns : pc[c] = "find" => arg[c] = groupId[c]

\* Who closes is the connection itself.
LEMMA SelfOnly ==
  ASSUME Shape, OnlySelf, NEW p \in Procs, pc[p] \in Closing
  PROVE  p \in Conns /\ target[p] = p /\ path[p] = "conn"
BY DEF Shape, CallShape, Wired, OnlySelf

LEMMA OnlySelfStep == JoinsInCallback /\ Shape /\ OnlySelf /\ [Next]_vars => OnlySelf'
<1> SUFFICES ASSUME JoinsInCallback, Shape, OnlySelf, [Next]_vars PROVE OnlySelf'
  OBVIOUS
<1> USE DEF Shape, OnlySelf, CallShape
<1>1. CASE UNCHANGED vars
  BY <1>1 DEF vars, callVars
<1>2. ASSUME NEW p \in Procs, NEW g \in GroupIds, CreateGroup(p, g) \/ RemoveGroup(p, g) \/ GetGroup(p, g)
      PROVE  OnlySelf'
  <2>1. path' = path /\ (pc' = pc \/ pc' = [pc EXCEPT ![p] = "create"])
    BY <1>2 DEF CreateGroup, RemoveGroup, GetGroup, Goto, callVars
  <2> QED
    BY <2>1
<1>3. ASSUME NEW p \in Procs, NEW c \in Conns, Join(p, c) \/ Quit(p, c) \/ SendOne(p, c) \/ WriteEnd(p, c) PROVE OnlySelf'
  BY <1>3 DEF Join, Quit, SendOne, WriteEnd, callVars
<1>4. ASSUME NEW p \in Procs, NEW c \in Conns, StartCloseConnect(p, c) \/ StartCloseWithMessage(p, c) PROVE FALSE
  BY <1>4 DEF StartCloseConnect, StartCloseWithMessage, Does, JoinsInCallback
<1>5. ASSUME NEW p \in Procs, InsertGroup(p) \/ Clear(p) \/ StartSend(p) \/ EndSend(p) PROVE OnlySelf'
  <2>1. path' = path /\ \E at \in {"idle", "callback", "send"} : pc' = pc \/ pc' = [pc EXCEPT ![p] = at]
    BY <1>5 DEF InsertGroup, Clear, StartSend, EndSend, Goto, Ready, callVars
  <2> QED
    BY <2>1
<1>6. ASSUME NEW p \in Procs, CloseStep(p) PROVE OnlySelf'
  <2>1. pc[p] \in Closing \ {"lookup"}
    BY <1>6 DEF CloseStep, LookupConn, CheckGroupId, ReadGroupId, FindGroup, QuitGroup,
         ResetGroupId, ShutConn, DropConn, Closing
  <2>2. path[p] = "conn"
    BY <2>1, SelfOnly
  <2>3. CASE CheckGroupId(p) \/ ReadGroupId(p)
    BY <2>2, <2>3 DEF CheckGroupId, ReadGroupId, AfterGroup, Goto, callVars
  <2>4. CASE FindGroup(p) \/ QuitGroup(p) \/ ResetGroupId(p)
    BY <2>2, <2>4 DEF FindGroup, QuitGroup, ResetGroupId, AfterGroup, AfterQuit, Goto,
         callVars
  <2>5. CASE ShutConn(p)
    BY <2>2, <2>5 DEF ShutConn, Finish, Goto
  <2>6. CASE DropConn(p)
    BY <2>2, <2>6 DEF DropConn, Goto, callVars
  <2>7. CASE LookupConn(p)
    BY <2>1, <2>7 DEF LookupConn
  <2> QED
    BY <1>6, <2>3, <2>4, <2>5, <2>6, <2>7 DEF CloseStep
<1>7. ASSUME NEW c \in Conns, Stall(c) \/ PeerGone(c) \/ Expire(c) PROVE OnlySelf'
  BY <1>7 DEF Stall, PeerGone, Expire, callVars
<1>8. ASSUME NEW c \in Conns, ReadMessage(c) \/ EndCallback(c) \/ ReadError(c) PROVE OnlySelf'
  BY <1>8 DEF ReadMessage, EndCallback, ReadError, Begin, Goto, callVars, Procs
<1>9. Tickers = {}
  BY DEF JoinsInCallback
<1> QED
  BY StepCases, <1>1, <1>2, <1>3, <1>4, <1>5, <1>6, <1>7, <1>8, <1>9

\* The map leads to objects only.
LEMMA ListedAreMade == ASSUME GroupShape PROVE Listed \subseteq Objs
  BY DEF Listed, GroupShape

\* The steps that can disturb Belong are those that list a group, join one, or
\* go on with a close; the others leave it, as they at most take members out.
LEMMA BelongKept ==
  ASSUME Shape, Belong, UNCHANGED <<gid, groupId>>,
         \A g \in GroupIds : groupMap'[g] \in {groupMap[g], NoObj},
         \A o \in Objs : members'[o] \subseteq members[o],
         \A c \in Conns : \/ UNCHANGED <<pc[c], arg[c], obj[c]>>
                          \/ pc'[c] \notin Left \cup {"find", "quit"}
  PROVE  Belong'
<1>1. Listed' \subseteq Listed /\ Listed \subseteq Objs
  BY DEF Listed, Shape, GroupShape
<1>2. ASSUME NEW c \in Conns, NEW o \in Listed', c \in members'[o] PROVE Member(c, o)'
  <2>1. o \in Listed /\ c \in members[o]
    BY <1>1, <1>2
  <2> QED
    BY <2>1 DEF Belong, Member
<1>3. \A c \in Conns : pc'[c] = "find" => arg'[c] = groupId'[c]
  BY DEF Belong
<1> QED
  BY <1>2, <1>3 DEF Belong

LEMMA BelongCallStep ==
  ASSUME JoinsInCallback, Shape, CreatesFit, Known, OnlySelf, Belong, NEW p \in Procs,
         \/ InsertGroup(p) \/ Clear(p) \/ StartSend(p) \/ EndSend(p)
         \/ \E c \in Conns : Join(p, c) \/ Quit(p, c) \/ SendOne(p, c) \/ WriteEnd(p, c)
         \/ \E g \in GroupIds : CreateGroup(p, g) \/ RemoveGroup(p, g) \/ GetGroup(p, g)
  PROVE  Belong'
<1> USE GroupConstants, ObjsFacts DEF GroupConstants, Shape
<1>1. ASSUME NEW g \in GroupIds, CreateGroup(p, g) PROVE Belong'
  <2>1. UNCHANGED <<groupMap, gid, members, groupId>>
    BY <1>1 DEF CreateGroup, groupVars, connVars
  <2>2. \A c \in Conns : UNCHANGED <<pc[c], arg[c], obj[c]>> \/ pc'[c] \notin Left \cup {"find", "quit"}
    <3>1. obj' = obj /\ (UNCHANGED <<pc, arg>> \/ (arg' = [arg EXCEPT ![p] = g] /\ pc' = [pc EXCEPT ![p] = "create"]))
      BY <1>1 DEF CreateGroup, Goto
    <3> QED
      BY <3>1 DEF Left, CallShape, Procs
  <2> QED
    BY <2>1, <2>2, BelongKept
<1>2. ASSUME NEW g \in GroupIds, RemoveGroup(p, g) \/ GetGroup(p, g) PROVE Belong'
  <2>1. UNCHANGED <<gid, members, groupId, pc, arg, obj>>
    BY <1>2 DEF RemoveGroup, GetGroup, groupVars, connVars, callVars
  <2>2. \A h \in GroupIds : groupMap'[h] \in {groupMap[h], NoObj}
    BY <1>2 DEF RemoveGroup, GetGroup, groupVars, GroupShape
  <2> QED
    BY <2>1, <2>2, BelongKept
<1>3. ASSUME NEW c \in Conns, Quit(p, c) \/ SendOne(p, c) \/ WriteEnd(p, c) PROVE Belong'
  <2>1. UNCHANGED <<groupMap, gid, groupId, pc, arg, obj>>
    BY <1>3 DEF Quit, SendOne, WriteEnd, groupVars, connVars, callVars
  <2>2. \A o \in Objs : members'[o] \subseteq members[o]
    BY <1>3 DEF Quit, SendOne, WriteEnd, groupVars, GroupShape
  <2> QED
    BY <2>1, <2>2, BelongKept
<1>4. ASSUME Clear(p) \/ StartSend(p) \/ EndSend(p) PROVE Belong'
  <2>1. UNCHANGED <<groupMap, gid, groupId, arg, obj>>
    BY <1>4 DEF Clear, StartSend, EndSend, connVars, callVars
  <2>2. \A o \in Objs : members'[o] \subseteq members[o]
    BY <1>4 DEF Clear, StartSend, EndSend, GroupShape
  <2>3. \A c \in Conns : pc'[c] = pc[c] \/ pc'[c] \notin Left \cup {"find", "quit"}
    <3>1. \E at \in {"idle", "callback", "send"} : pc' = pc \/ pc' = [pc EXCEPT ![p] = at]
      BY <1>4 DEF Clear, StartSend, EndSend, Goto, Ready
    <3> QED
      BY <3>1 DEF Left, CallShape, Procs
  <2> QED
    BY <2>1, <2>2, <2>3, BelongKept
\* A new object has no members.
<1>5. ASSUME InsertGroup(p) PROVE Belong'
  <2>1. /\ created \in Nat /\ created + 1 \in Objs /\ arg[p] \in GroupIds
        /\ UNCHANGED <<members, groupId, obj>>
        /\ gid' = [gid EXCEPT ![created + 1] = arg[p]]
        /\ groupMap' = [groupMap EXCEPT ![arg[p]] = created + 1]
        /\ arg' = [arg EXCEPT ![p] = NoId]
        /\ pc' = [pc EXCEPT ![p] = Ready(p)]
    BY <1>5, RoomToCreate DEF InsertGroup, Goto, Objs, connVars, GroupShape, CallShape, Wired
  <2>2. members[created + 1] = {}
    BY <2>1 DEF Known
  <2>3. Listed' \subseteq Listed \cup {created + 1} /\ Listed \subseteq Objs
    <3>1. Listed' \subseteq Listed \cup {created + 1}
      BY <2>1 DEF Listed, GroupShape
    <3> QED
      BY <3>1, ListedAreMade
  <2>4. \A c \in Conns : \/ UNCHANGED <<pc[c], arg[c], obj[c]>>
                         \/ pc'[c] \notin Left \cup {"find", "quit"}
    BY <2>1 DEF Ready, Left, CallShape
  <2>5. ASSUME NEW c \in Conns, NEW o \in Listed', c \in members'[o] PROVE Member(c, o)'
    <3>1. o \in Listed /\ o # created + 1 /\ c \in members[o]
      BY <2>1, <2>2, <2>3, <2>5
    <3>2. gid'[o] = gid[o] /\ Member(c, o)
      BY <2>1, <2>3, <3>1 DEF Belong, GroupShape
    <3> QED
      BY <2>1, <2>4, <3>2 DEF Member
  <2>6. \A c \in Conns : pc'[c] = "find" => arg'[c] = groupId'[c]
    BY <2>1, <2>4 DEF Belong
  <2> QED
    BY <2>5, <2>6 DEF Belong
\* Whoever joins has quit every other group, and is in its callback.
<1>6. ASSUME NEW c \in Conns, Join(p, c) PROVE Belong'
  <2>1. /\ pc[p] = Ready(p) /\ p \in Conns /\ c = p
        /\ held[p] \in Objs
        /\ \A other \in Objs \ {held[p]} : c \notin members[other]
        /\ groupId' = [groupId EXCEPT ![c] = gid[held[p]]]
        /\ members' = [members EXCEPT ![held[p]] = @ \cup {c}]
        /\ UNCHANGED <<groupMap, gid, pc, arg, obj>>
    BY <1>6 DEF Join, Does, callVars, JoinsInCallback, CallShape
  <2>2. Listed' = Listed /\ Listed \subseteq Objs
    <3>1. Listed' = Listed
      BY <2>1 DEF Listed
    <3> QED
      BY <3>1, ListedAreMade
  <2>3. ASSUME NEW d \in Conns, NEW o \in Listed', d \in members'[o] PROVE Member(d, o)'
    <3>1. CASE d = c
      <4>1. o = held[p]
        BY <2>1, <2>2, <2>3, <3>1 DEF GroupShape
      <4> QED
        BY <2>1, <3>1, <4>1 DEF Member, Ready, Left, ConnShape
    <3>2. CASE d # c
      BY <2>1, <2>2, <2>3, <3>2 DEF Member, Belong, GroupShape, ConnShape
    <3> QED
      BY <3>1, <3>2
  <2>4. \A d \in Conns : pc'[d] = "find" => arg'[d] = groupId'[d]
    BY <2>1 DEF Belong, Ready, ConnShape
  <2> QED
    BY <2>3, <2>4 DEF Belong
<1> QED
  BY <1>1, <1>2, <1>3, <1>4, <1>5, <1>6

\* The close path of c: a listed group that has c is the one of its group id, which
\* it looks up and quits before it goes on.
LEMMA BelongCloseStep ==
  ASSUME JoinsInCallback, Shape, Known, OnlySelf, Belong, NEW p \in Procs, CloseStep(p)
  PROVE  Belong'
<1> USE GroupConstants, ObjsFacts DEF GroupConstants, Shape
<1>1. pc[p] \in Closing /\ gid' = gid /\ groupMap' = groupMap
  BY DEF CloseStep, LookupConn, CheckGroupId, ReadGroupId, FindGroup, QuitGroup,
       ResetGroupId, ShutConn, DropConn, Closing, groupVars
<1>2. p \in Conns /\ target[p] = p /\ path[p] = "conn" /\ pc[p] # "lookup"
  BY <1>1, SelfOnly DEF OnlySelf
<1>3. Listed' = Listed /\ Listed \subseteq Objs
  <2>1. Listed' = Listed
    BY <1>1 DEF Listed
  <2> QED
    BY <2>1, ListedAreMade
\* A listed object is the one of its id.
<1>4. ASSUME NEW o \in Listed PROVE gid[o] \in GroupIds /\ groupMap[gid[o]] = o
  BY DEF Listed, Known
\* It is enough to look at c itself.
<1>5. ASSUME UNCHANGED groupId, \A o \in Objs : members'[o] \subseteq members[o],
             \A c \in Conns \ {p} : UNCHANGED <<pc[c], arg[c], obj[c]>>,
             \A o \in Listed : p \in members'[o] => pc'[p] \notin Left /\ (pc'[p] = "quit" => obj'[p] = o),
             pc'[p] = "find" => arg'[p] = groupId[p]
      PROVE  Belong'
  BY <1>1, <1>2, <1>3, <1>5 DEF Belong, Member
<1>6. CASE CheckGroupId(p)
  <2>1. /\ UNCHANGED <<groupId, members, arg, obj>>
        /\ pc' = [pc EXCEPT ![p] = IF groupId[p] # NoId THEN "read" ELSE "drop"]
    BY <1>2, <1>6 DEF CheckGroupId, AfterGroup, Goto, groupVars, connVars, callVars
  <2>2. pc'[p] \in {"read", "drop"} /\ \A c \in Conns \ {p} : pc'[c] = pc[c]
    BY <2>1 DEF CallShape
  <2>3. \A o \in Listed : p \in members'[o] => pc'[p] = "read"
    BY <2>1, <1>2, <1>4 DEF Belong, Member, CallShape
  <2> QED
    BY <1>5, <2>1, <2>2, <2>3 DEF Left
<1>7. CASE ReadGroupId(p)
  <2>1. /\ UNCHANGED <<groupId, members, obj>> /\ pc' = [pc EXCEPT ![p] = "find"]
        /\ arg' = [arg EXCEPT ![p] = groupId[p]]
    BY <1>2, <1>7 DEF ReadGroupId, Goto, groupVars, connVars
  <2> QED
    BY <1>5, <2>1 DEF Left, CallShape
<1>8. CASE FindGroup(p)
  <2> DEFINE o == IF arg[p] = NoId THEN NoObj ELSE groupMap[arg[p]]
  <2>1. /\ pc[p] = "find" /\ UNCHANGED <<groupId, members, arg>>
        /\ obj' = [obj EXCEPT ![p] = o]
        /\ pc' = [pc EXCEPT ![p] = IF o # NoObj THEN "quit" ELSE "reset"]
    BY <1>2, <1>8 DEF FindGroup, AfterQuit, Goto, groupVars, connVars
  <2>2. ASSUME NEW x \in Listed, p \in members[x] PROVE x = o
    BY <1>2, <1>4, <2>1, <2>2 DEF Belong, Member
  <2>3. NoObj \notin Listed
    BY DEF Listed
  <2> QED
    BY <1>3, <1>5, <2>1, <2>2, <2>3 DEF Left, CallShape
<1>9. CASE QuitGroup(p)
  <2>1. /\ pc[p] = "quit" /\ obj[p] \in Objs /\ UNCHANGED <<groupId, arg, obj>>
        /\ members' = [members EXCEPT ![obj[p]] = @ \ {p}]
        /\ pc' = [pc EXCEPT ![p] = "reset"]
    BY <1>2, <1>9 DEF QuitGroup, AfterQuit, Goto, connVars, callVars, CallShape, Wired
  <2>2. \A x \in Listed : p \notin members'[x]
    BY <1>2, <1>3, <2>1 DEF Belong, Member, GroupShape
  <2> QED
    BY <1>5, <2>1, <2>2 DEF GroupShape, CallShape
<1>10. CASE ResetGroupId(p)
  <2>1. /\ pc[p] = "reset" /\ UNCHANGED <<members, arg, obj>>
        /\ groupId' = [groupId EXCEPT ![p] = NoId]
        /\ pc' = [pc EXCEPT ![p] = "drop"]
    BY <1>2, <1>10 DEF ResetGroupId, AfterGroup, Goto, groupVars, callVars
  <2>2. \A x \in Listed : p \notin members[x]
    BY <1>2, <2>1 DEF Belong, Member, Left
  <2>3. ASSUME NEW c \in Conns, NEW o \in Listed, c \in members[o] PROVE Member(c, o)'
    <3>1. c # p /\ Member(c, o)
      BY <2>2, <2>3 DEF Belong
    <3> QED
      BY <1>1, <2>1, <3>1 DEF Member, CallShape, ConnShape
  <2>4. \A c \in Conns : pc'[c] = "find" => c # p /\ pc[c] = "find"
    BY <1>2, <2>1 DEF CallShape
  <2>5. \A c \in Conns : pc'[c] = "find" => arg'[c] = groupId'[c]
    BY <1>2, <2>1, <2>4 DEF Belong, ConnShape
  <2> QED
    BY <1>3, <2>1, <2>3, <2>5 DEF Belong
<1>11. CASE ShutConn(p) \/ DropConn(p)
  <2>1. pc[p] \in Left /\ UNCHANGED <<groupId, members>>
    BY <1>11 DEF ShutConn, DropConn, groupVars, Left
  <2>2. pc'[p] \in Left /\ \A c \in Conns \ {p} : UNCHANGED <<pc[c], arg[c], obj[c]>>
    <3>1. CASE ShutConn(p)
      BY <1>2, <3>1 DEF ShutConn, Finish, Goto, Left, CallShape, Procs
    <3>2. CASE DropConn(p)
      BY <1>2, <3>2 DEF DropConn, Goto, callVars, Left, CallShape, Procs
    <3> QED
      BY <1>11, <3>1, <3>2
  <2>3. \A x \in Listed : p \notin members[x]
    BY <1>2, <2>1 DEF Belong, Member
  <2> QED
    BY <1>5, <2>1, <2>2, <2>3 DEF Left
<1>12. ~LookupConn(p)
  BY <1>2 DEF LookupConn
<1> QED
  BY <1>6, <1>7, <1>8, <1>9, <1>10, <1>11, <1>12 DEF CloseStep

LEMMA BelongStep ==
  JoinsInCallback /\ Shape /\ CreatesFit /\ Known /\ OnlySelf /\ Belong /\ [Next]_vars => Belong'
<1> SUFFICES ASSUME JoinsInCallback, Shape, CreatesFit, Known, OnlySelf, Belong, [Next]_vars PROVE Belong'
  OBVIOUS
<1>1. CASE UNCHANGED vars
  BY <1>1 DEF vars, groupVars, connVars, callVars, Belong, Member, Listed
<1>2. ASSUME NEW p \in Procs, NEW c \in Conns, StartCloseConnect(p, c) \/ StartCloseWithMessage(p, c) PROVE FALSE
  BY <1>2 DEF StartCloseConnect, StartCloseWithMessage, Does, JoinsInCallback
<1>3. ASSUME NEW c \in Conns, Stall(c) \/ PeerGone(c) \/ Expire(c) PROVE Belong'
  <2>1. UNCHANGED <<groupMap, gid, members, groupId, pc, arg, obj>>
    BY <1>3 DEF Stall, PeerGone, Expire, groupVars, callVars
  <2> QED
    BY <2>1 DEF Belong, Member, Listed
<1>4. ASSUME NEW c \in Conns, ReadMessage(c) \/ EndCallback(c) \/ ReadError(c) PROVE Belong'
  <2>1. UNCHANGED <<groupMap, gid, members, groupId, arg, obj>>
    BY <1>4 DEF ReadMessage, EndCallback, ReadError, groupVars, connVars, callVars
  <2>2. \A d \in Conns : pc'[d] = pc[d] \/ pc'[d] \notin Left \cup {"find", "quit"}
    <3>1. \E at \in {"callback", "reading", "check"} : pc' = [pc EXCEPT ![c] = at]
      BY <1>4 DEF ReadMessage, EndCallback, ReadError, Begin, Goto
    <3> QED
      BY <3>1 DEF Left, Shape, CallShape
  <2> QED
    BY <2>1, <2>2, BelongKept
<1>5. Tickers = {}
  BY DEF JoinsInCallback
<1> QED
  BY StepCases, BelongCallStep, BelongCloseStep, <1>1, <1>2, <1>3, <1>4, <1>5

LEMMA BelongAlways == ASSUME JoinsInCallback PROVE Spec => [](OnlySelf /\ Belong)
<1>1. Init => OnlySelf /\ Belong
  BY GroupConstants DEF Init, OnlySelf, Belong, Member, Listed, GroupConstants, Procs
<1>2. Shape /\ CreatesFit /\ Known /\ OnlySelf /\ Belong /\ [Next]_vars => (OnlySelf /\ Belong)'
  BY JoinsInCallback, OnlySelfStep, BelongStep
<1> QED
  BY <1>1, <1>2, ShapeAlways, KnownAlways, PTL DEF Spec

\* resetConnGroupId (face/bucket.go) finds the group of a connection by the id that
\* Join has stored: with joins from the callback it is always the right one ...
THEOREM GroupIdFinds == ASSUME JoinsInCallback PROVE Spec => []GroupIdRight
<1>1. Belong => GroupIdRight
  BY DEF Belong, Member, GroupIdRight
<1> QED
  BY <1>1, BelongAlways, PTL

\* ... so that no group keeps a connection whose read loop has ended.
THEOREM NoDeadMembers == ASSUME JoinsInCallback PROVE Spec => []NoGhost
<1>1. Belong => NoGhost
  BY DEF Belong, Member, Left, NoGhost
<1> QED
  BY <1>1, BelongAlways, PTL

-----------------------------------------------------------------------------
(* Applications that neither remove groups nor take members out of them,   *)
(* and create groups from one goroutine: only a close ends a membership.   *)
(* Connections join from anywhere, anybody closes, and the active check    *)
(* runs.                                                                   *)

KeepsGroups ==
  /\ {"remove", "quit", "clear"} \cap (AppOps \cup CallbackOps) = {}
  /\ "create" \notin CallbackOps
  /\ \A p, q \in Callers : p = q

\* Nothing replaces a group in the map: the one creator has seen that there is none.
Kept ==
  /\ \A o \in Objs : o <= created => gid[o] \in GroupIds /\ groupMap[gid[o]] = o
  /\ \A p \in Procs : pc[p] = "create" => p \in Callers /\ groupMap[arg[p]] = NoObj

\* A close call that is about to end, or that a read error has begun, is about a
\* connection that is down; and no connection leaves the bucket before it is down.
Closes ==
  /\ \A p \in Procs : pc[p] = "drop" \/ path[p] = "conn" => ~Up(target[p])
  /\ \A c \in Conns : Up(c) => mapped[c]

Alone(c) == \A p \in Procs : target[p] # c
InGroup(c) == groupMap[groupId[c]] # NoObj /\ c \in members[groupMap[groupId[c]]]
Holding == \A c \in Conns : Up(c) /\ groupId[c] # NoId /\ Alone(c) => InGroup(c)

LEMMA KeptStep == KeepsGroups /\ Shape /\ CreatesFit /\ Kept /\ [Next]_vars => Kept'
<1> SUFFICES ASSUME KeepsGroups, Shape, CreatesFit, Kept, [Next]_vars PROVE Kept'
  OBVIOUS
<1> USE GroupConstants, ObjsFacts DEF GroupConstants, Shape, CallShape, Kept
<1>1. created \in Nat
  BY DEF GroupShape
<1>2. ASSUME NEW p \in Procs, NEW g \in GroupIds, CreateGroup(p, g) PROVE Kept'
  <2>1. UNCHANGED groupVars /\ p \in Callers
    BY <1>2 DEF CreateGroup, Does, KeepsGroups, Procs
  <2>2. \/ pc' = pc /\ arg' = arg
        \/ groupMap[g] = NoObj /\ pc' = [pc EXCEPT ![p] = "create"] /\ arg' = [arg EXCEPT ![p] = g]
    BY <1>2 DEF CreateGroup, Goto
  <2> QED
    BY <2>1, <2>2 DEF groupVars
<1>3. ASSUME NEW p \in Procs, InsertGroup(p) PROVE Kept'
  <2>1. /\ pc[p] = "create" /\ created + 1 \in Objs /\ arg[p] \in GroupIds
        /\ created' = created + 1 /\ gid' = [gid EXCEPT ![created + 1] = arg[p]]
        /\ groupMap' = [groupMap EXCEPT ![arg[p]] = created + 1]
        /\ pc' = [pc EXCEPT ![p] = Ready(p)]
    BY <1>1, <1>3, RoomToCreate DEF InsertGroup, Goto, Objs, Wired
  <2>2. \A q \in Procs : pc'[q] # "create"
    BY <2>1 DEF KeepsGroups, Ready
  <2>3. ASSUME NEW o \in Objs, o <= created' PROVE gid'[o] \in GroupIds /\ groupMap'[gid'[o]] = o
    <3>1. CASE o = created + 1
      BY <2>1, <3>1 DEF GroupShape
    <3>2. CASE o # created + 1
      <4>1. o <= created /\ o # 0
        BY <1>1, <2>1, <2>3, <3>2 DEF NoObj
      <4>2. gid[o] \in GroupIds /\ groupMap[gid[o]] = o /\ gid[o] # arg[p]
        BY <2>1, <4>1 DEF NoObj
      <4> QED
        BY <2>1, <3>2, <4>2 DEF GroupShape
    <3> QED
      BY <3>1, <3>2
  <2> QED
    BY <2>2, <2>3
\* No other step creates or lists anything.
<1>4. ASSUME UNCHANGED <<groupMap, created, gid>>,
             \A q \in Procs : pc'[q] = "create" => pc[q] = "create" /\ arg'[q] = arg[q]
      PROVE  Kept'
  BY <1>4
<1>5. CASE UNCHANGED vars
  BY <1>4, <1>5 DEF vars, groupVars, callVars
<1>6. ASSUME NEW p \in Procs, NEW g \in GroupIds, GetGroup(p, g) PROVE Kept'
  BY <1>4, <1>6 DEF GetGroup, groupVars, callVars
<1>7. ASSUME NEW p \in Procs, NEW g \in GroupIds, RemoveGroup(p, g) PROVE FALSE
  BY <1>7 DEF RemoveGroup, Does, KeepsGroups
<1>8. ASSUME NEW p \in Procs, NEW c \in Conns, Join(p, c) \/ Quit(p, c) \/ SendOne(p, c) \/ WriteEnd(p, c) PROVE Kept'
  BY <1>4, <1>8 DEF Join, Quit, SendOne, WriteEnd, groupVars, callVars
<1>9. ASSUME NEW p \in Procs, NEW c \in Conns,
             StartCloseConnect(p, c) \/ StartCloseWithMessage(p, c) \/ StartCheckActive(p, c)
      PROVE  Kept'
  <2>1. /\ UNCHANGED groupVars /\ arg' = arg
        /\ pc' = [pc EXCEPT ![p] = "lookup"] \/ pc' = [pc EXCEPT ![p] = "check"]
    BY <1>9 DEF StartCloseConnect, StartCloseWithMessage, StartCheckActive, Begin, Goto
  <2> QED
    BY <1>4, <2>1 DEF groupVars
<1>10. ASSUME NEW p \in Procs, Clear(p) \/ StartSend(p) \/ EndSend(p) PROVE Kept'
  <2>1. /\ UNCHANGED <<groupMap, created, gid, arg>>
        /\ \E at \in {"idle", "callback", "send"} : pc' = pc \/ pc' = [pc EXCEPT ![p] = at]
    BY <1>10 DEF Clear, StartSend, EndSend, Goto, Ready, callVars
  <2> QED
    BY <1>4, <2>1
<1>11. ASSUME NEW p \in Procs, CloseStep(p) PROVE Kept'
  <2>1. UNCHANGED <<groupMap, created, gid>>
    BY <1>11 DEF CloseStep, LookupConn, CheckGroupId, ReadGroupId, FindGroup, QuitGroup,
         ResetGroupId, ShutConn, DropConn, groupVars
  <2>2. pc'[p] # "create" /\ \A q \in Procs \ {p} : pc'[q] = pc[q] /\ arg'[q] = arg[q]
    <3>1. CASE LookupConn(p)
      BY <3>1 DEF LookupConn, Begin, Finish, Ready, Goto
    <3>2. CASE CheckGroupId(p) \/ ReadGroupId(p)
      BY <3>2 DEF CheckGroupId, ReadGroupId, AfterGroup, Goto, callVars
    <3>3. CASE FindGroup(p) \/ QuitGroup(p) \/ ResetGroupId(p)
      BY <3>3 DEF FindGroup, QuitGroup, ResetGroupId, AfterQuit, AfterGroup, Goto, callVars
    <3>4. CASE ShutConn(p)
      BY <3>4 DEF ShutConn, Finish, Goto, callVars
    <3>5. CASE DropConn(p)
      BY <3>5 DEF DropConn, Finish, Ready, Goto, callVars
    <3> QED
      BY <1>11, <3>1, <3>2, <3>3, <3>4, <3>5 DEF CloseStep
  <2> QED
    BY <1>4, <2>1, <2>2
<1>12. ASSUME NEW c \in Conns, Stall(c) \/ PeerGone(c) \/ Expire(c) PROVE Kept'
  <2>1. UNCHANGED <<groupMap, created, gid, pc, arg>>
    BY <1>12 DEF Stall, PeerGone, Expire, groupVars, callVars
  <2> QED
    BY <1>4, <2>1
<1>13. ASSUME NEW c \in Conns, ReadMessage(c) \/ EndCallback(c) \/ ReadError(c) PROVE Kept'
  <2>1. UNCHANGED <<groupMap, created, gid, arg>>
    BY <1>13 DEF ReadMessage, EndCallback, ReadError, groupVars, callVars
  <2>2. \E at \in {"callback", "reading", "check"} : pc' = [pc EXCEPT ![c] = at]
    BY <1>13 DEF ReadMessage, EndCallback, ReadError, Begin, Goto
  <2> QED
    BY <1>4, <2>1, <2>2
<1>14. Tickers \subseteq Procs
  BY DEF Procs
<1> QED
  BY StepCases, <1>2, <1>3, <1>5, <1>6, <1>7, <1>8, <1>9, <1>10, <1>11, <1>12, <1>13, <1>14

\* A connection that is down stays down, and only the end of a close call unmaps it.
LEMMA Downward ==
  ASSUME Shape, [Next]_vars
  PROVE  /\ \A c \in Conns : Up(c)' => Up(c)
         /\ mapped' = mapped \/ \E p \in Procs : DropConn(p)
<1> USE DEF Shape, ConnShape, Up
<1>1. ASSUME sock' = sock /\ mapped' = mapped
      PROVE  /\ \A c \in Conns : Up(c)' => Up(c)
             /\ mapped' = mapped \/ \E p \in Procs : DropConn(p)
  BY <1>1
<1>2. ASSUME NEW p \in Procs, NEW g \in GroupIds, CreateGroup(p, g) \/ RemoveGroup(p, g) \/ GetGroup(p, g)
      PROVE  sock' = sock /\ mapped' = mapped
  BY <1>2 DEF CreateGroup, RemoveGroup, GetGroup, connVars
<1>3. ASSUME NEW p \in Procs, NEW c \in Conns,
             \/ Join(p, c) \/ Quit(p, c) \/ SendOne(p, c) \/ WriteEnd(p, c)
             \/ StartCloseConnect(p, c) \/ StartCheckActive(p, c)
      PROVE  sock' = sock /\ mapped' = mapped
  BY <1>3 DEF Join, Quit, SendOne, WriteEnd, StartCloseConnect, StartCheckActive, connVars
<1>4. ASSUME NEW p \in Procs, NEW c \in Conns, StartCloseWithMessage(p, c)
      PROVE  mapped' = mapped /\ \A d \in Conns : Up(d)' => Up(d)
  BY <1>4 DEF StartCloseWithMessage
<1>5. ASSUME NEW p \in Procs, InsertGroup(p) \/ Clear(p) \/ StartSend(p) \/ EndSend(p)
      PROVE  sock' = sock /\ mapped' = mapped
  BY <1>5 DEF InsertGroup, Clear, StartSend, EndSend, connVars
<1>6. ASSUME NEW p \in Procs, CloseStep(p), ~ShutConn(p), ~DropConn(p)
      PROVE  sock' = sock /\ mapped' = mapped
  BY <1>6 DEF CloseStep, LookupConn, CheckGroupId, ReadGroupId, FindGroup, QuitGroup,
       ResetGroupId, connVars
<1>7. ASSUME NEW p \in Procs, ShutConn(p)
      PROVE  mapped' = mapped /\ \A d \in Conns : Up(d)' => Up(d)
  BY <1>7 DEF ShutConn
<1>8. ASSUME NEW p \in Procs, DropConn(p) PROVE sock' = sock
  BY <1>8 DEF DropConn
<1>9. ASSUME NEW c \in Conns, Stall(c) \/ PeerGone(c) \/ Expire(c)
      PROVE  mapped' = mapped /\ \A d \in Conns : Up(d)' => Up(d)
  BY <1>9 DEF Stall, PeerGone, Expire
<1>10. ASSUME NEW c \in Conns, ReadMessage(c) \/ EndCallback(c) \/ ReadError(c)
       PROVE  sock' = sock /\ mapped' = mapped
  BY <1>10 DEF ReadMessage, EndCallback, ReadError, connVars
<1>11. UNCHANGED vars => sock' = sock /\ mapped' = mapped
  BY DEF vars, connVars
<1>12. Tickers \subseteq Procs
  BY DEF Procs
<1> QED
  BY StepCases, <1>1, <1>2, <1>3, <1>4, <1>5, <1>6, <1>7, <1>8, <1>9, <1>10, <1>11, <1>12

LEMMA ClosesStep == Shape /\ Closes /\ [Next]_vars => Closes'
<1> SUFFICES ASSUME Shape, Closes, [Next]_vars PROVE Closes'
  OBVIOUS
<1> USE DEF Shape, CallShape
<1>1. ASSUME NEW p \in Procs, pc[p] = "drop" \/ path[p] = "conn" PROVE target[p] \in Conns /\ ~Up(target[p])
  BY <1>1 DEF Wired, Closing, Closes
\* The connections of calls that go on are down already.
<1>2. ASSUME \A q \in Procs : (pc'[q] = "drop" \/ path'[q] = "conn")
               => \/ (pc[q] = "drop" \/ path[q] = "conn") /\ target'[q] = target[q]
                  \/ \E c \in Conns : target'[q] = c /\ ~Up(c)'
      PROVE  Closes'
  <2>1. \A q \in Procs : pc'[q] = "drop" \/ path'[q] = "conn" => ~Up(target[q])'
    <3> SUFFICES ASSUME NEW q \in Procs, pc'[q] = "drop" \/ path'[q] = "conn"
                 PROVE  ~Up(target[q])'
      OBVIOUS
    <3>1. PICK c \in Conns : target'[q] = c /\ ~Up(c)'
      BY <1>1, <1>2, Downward
    <3> QED
      BY <3>1 DEF Up
  <2>2. ASSUME NEW c \in Conns, Up(c)' PROVE mapped'[c]
    <3>1. Up(c) /\ mapped[c]
      BY <2>2, Downward DEF Closes
    <3>2. ASSUME NEW p \in Procs, DropConn(p) PROVE mapped'[c]
      <4>1. target[p] # c /\ mapped' = [mapped EXCEPT ![target[p]] = FALSE]
        BY <3>1, <3>2, <1>1 DEF DropConn
      <4> QED
        BY <3>1, <4>1 DEF ConnShape
    <3> QED
      BY <3>1, <3>2, Downward
  <2> QED
    BY <2>1, <2>2 DEF Closes
<1>3. CASE UNCHANGED vars
  BY <1>2, <1>3 DEF vars, callVars
<1>4. ASSUME NEW p \in Procs, NEW g \in GroupIds, CreateGroup(p, g) \/ RemoveGroup(p, g) \/ GetGroup(p, g) PROVE Closes'
  <2>1. UNCHANGED <<path, target>> /\ (pc' = pc \/ pc' = [pc EXCEPT ![p] = "create"])
    BY <1>4 DEF CreateGroup, RemoveGroup, GetGroup, Goto, callVars
  <2> QED
    BY <1>2, <2>1
<1>5. ASSUME NEW p \in Procs, NEW c \in Conns, Join(p, c) \/ Quit(p, c) \/ SendOne(p, c) \/ WriteEnd(p, c) PROVE Closes'
  BY <1>2, <1>5 DEF Join, Quit, SendOne, WriteEnd, callVars
<1>6. ASSUME NEW p \in Procs, NEW c \in Conns,
             StartCloseConnect(p, c) \/ StartCloseWithMessage(p, c) \/ StartCheckActive(p, c)
      PROVE  Closes'
  <2>1. \E fn \in {"ids", "msg"}, at \in {"lookup", "check"} :
          pc' = [pc EXCEPT ![p] = at] /\ target' = [target EXCEPT ![p] = c] /\ path' = [path EXCEPT ![p] = fn]
    BY <1>6 DEF StartCloseConnect, StartCloseWithMessage, StartCheckActive, Begin, Goto
  <2> QED
    BY <1>2, <2>1
<1>7. ASSUME NEW p \in Procs, InsertGroup(p) \/ Clear(p) \/ StartSend(p) \/ EndSend(p) PROVE Closes'
  <2>1. /\ UNCHANGED <<path, target>>
        /\ \E at \in {"idle", "callback", "send"} : pc' = pc \/ pc' = [pc EXCEPT ![p] = at]
    BY <1>7 DEF InsertGroup, Clear, StartSend, EndSend, Goto, Ready, callVars
  <2> QED
    BY <1>2, <2>1
<1>8. ASSUME NEW c \in Conns, Stall(c) \/ PeerGone(c) \/ Expire(c) PROVE Closes'
  BY <1>2, <1>8 DEF Stall, PeerGone, Expire, callVars
<1>9. ASSUME NEW c \in Conns, ReadMessage(c) \/ EndCallback(c) PROVE Closes'
  <2>1. UNCHANGED <<path, target>> /\ \E at \in {"callback", "reading"} : pc' = [pc EXCEPT ![c] = at]
    BY <1>9 DEF ReadMessage, EndCallback, Goto, callVars
  <2> QED
    BY <1>2, <2>1
<1>10. ASSUME NEW c \in Conns, ReadError(c) PROVE Closes'
  <2>1. /\ ~Up(c) /\ pc' = [pc EXCEPT ![c] = "check"]
        /\ target' = [target EXCEPT ![c] = c] /\ path' = [path EXCEPT ![c] = "conn"]
    BY <1>10 DEF ReadError, Begin, Goto
  <2>2. ~Up(c)'
    BY <2>1, Downward
  <2> QED
    BY <1>2, <2>1, <2>2
<1>11. ASSUME NEW p \in Procs, CloseStep(p) PROVE Closes'
  <2>0. ASSUME \A q \in Procs \ {p} : UNCHANGED <<pc[q], path[q], target[q]>>,
               (pc'[p] = "drop" \/ path'[p] = "conn")
                  => \/ (pc[p] = "drop" \/ path[p] = "conn") /\ target'[p] = target[p]
                     \/ \E c \in Conns : target'[p] = c /\ ~Up(c)'
        PROVE  Closes'
    BY <1>2, <2>0
  <2>1. CASE LookupConn(p)
    <3>1. CASE mapped[target[p]]
      BY <2>0, <2>1, <3>1 DEF LookupConn, Begin, Goto
    <3>2. CASE ~mapped[target[p]]
      BY <2>0, <2>1, <3>2 DEF LookupConn, Finish, Ready, Goto
    <3> QED
      BY <3>1, <3>2
  <2>2. CASE CheckGroupId(p) \/ ReadGroupId(p)
    BY <2>0, <2>2 DEF CheckGroupId, ReadGroupId, AfterGroup, Goto, callVars
  <2>3. CASE FindGroup(p) \/ QuitGroup(p) \/ ResetGroupId(p)
    BY <2>0, <2>3 DEF FindGroup, QuitGroup, ResetGroupId, AfterQuit, AfterGroup, Goto,
         callVars
  <2>4. CASE ShutConn(p)
    <3>1. CASE path[p] = "conn"
      BY <2>0, <2>4, <3>1 DEF ShutConn, Finish, Goto
    <3>2. CASE path[p] # "conn"
      <4>1. /\ UNCHANGED callVars /\ pc' = [pc EXCEPT ![p] = "drop"]
            /\ sock' = [sock EXCEPT ![target[p]] = "closed"] /\ target[p] \in Conns
        BY <2>4, <3>2 DEF ShutConn, Goto, Wired, Closing
      <4>2. \E c \in Conns : target'[p] = c /\ ~Up(c)'
        BY <4>1 DEF callVars, Up, ConnShape
      <4> QED
        BY <2>0, <4>1, <4>2 DEF callVars
    <3> QED
      BY <3>1, <3>2
  <2>5. CASE DropConn(p)
    <3>1. CASE path[p] = "conn"
      BY <2>0, <2>5, <3>1 DEF DropConn, Goto, callVars
    <3>2. CASE path[p] # "conn"
      BY <2>0, <2>5, <3>2 DEF DropConn, Finish, Ready, Goto
    <3> QED
      BY <3>1, <3>2
  <2> QED
    BY <1>11, <2>1, <2>2, <2>3, <2>4, <2>5 DEF CloseStep
<1>12. Tickers \subseteq Procs
  BY DEF Procs
<1> QED
  BY StepCases, <1>3, <1>4, <1>5, <1>6, <1>7, <1>8, <1>9, <1>10, <1>11, <1>12

LEMMA HoldingStep ==
  KeepsGroups /\ Shape /\ CreatesFit /\ Known /\ Kept /\ Closes /\ Holding /\ [Next]_vars => Holding'
<1> SUFFICES ASSUME KeepsGroups, Shape, CreatesFit, Known, Kept, Closes, Holding, [Next]_vars PROVE Holding'
  OBVIOUS
<1> USE GroupConstants, ObjsFacts DEF GroupConstants, Shape, CallShape
<1>1. created \in Nat
  BY DEF GroupShape
\* A close call that ends leaves its connection down; any other keeps it its target.
<1>2. ASSUME NEW p \in Procs, CloseStep(p), NEW c \in Conns, target[p] = c
      PROVE  \/ target' = target
             \/ (~Up(c) \/ ~Up(c)') /\ target' = [target EXCEPT ![p] = NoConn]
  <2>1. CASE LookupConn(p)
    BY <1>2, <2>1 DEF LookupConn, Begin, Finish, Closes
  <2>2. CASE CheckGroupId(p) \/ ReadGroupId(p) \/ FindGroup(p) \/ QuitGroup(p) \/ ResetGroupId(p)
    BY <2>2 DEF CheckGroupId, ReadGroupId, FindGroup, QuitGroup, ResetGroupId, callVars
  <2>3. CASE ShutConn(p)
    BY <1>2, <2>3 DEF ShutConn, Finish, callVars, Up, ConnShape
  <2>4. CASE DropConn(p)
    <3>1. ~Up(c)
      BY <1>2, <2>4 DEF DropConn, Closes
    <3> QED
      BY <2>4, <3>1 DEF DropConn, Finish, callVars
  <2> QED
    BY <1>2, <2>1, <2>2, <2>3, <2>4 DEF CloseStep
\* Steps that touch no group, and end no call about a live connection.
<1>3. ASSUME UNCHANGED <<groupMap, groupId, members>>,
             \A c \in Conns, q \in Procs : target[q] = c => target'[q] = c \/ ~Up(c)'
      PROVE  Holding'
  <2> SUFFICES ASSUME NEW c \in Conns, Up(c)', groupId'[c] # NoId, Alone(c)' PROVE InGroup(c)'
    BY DEF Holding
  <2>1. Up(c) /\ Alone(c) /\ groupId[c] # NoId
    BY <1>3, Downward DEF Alone
  <2> QED
    BY <1>3, <2>1 DEF Holding, InGroup
<1>4. CASE UNCHANGED vars
  BY <1>3, <1>4 DEF vars, groupVars, connVars, callVars
<1>5. ASSUME NEW p \in Procs, NEW g \in GroupIds, CreateGroup(p, g) \/ GetGroup(p, g) PROVE Holding'
  BY <1>3, <1>5 DEF CreateGroup, GetGroup, groupVars, connVars, callVars
<1>6. ASSUME NEW p \in Procs, NEW g \in GroupIds, RemoveGroup(p, g) PROVE FALSE
  BY <1>6 DEF RemoveGroup, Does, KeepsGroups
<1>7. ASSUME NEW p \in Procs, NEW c \in Conns, SendOne(p, c) \/ WriteEnd(p, c) PROVE Holding'
  BY <1>3, <1>7 DEF SendOne, WriteEnd, groupVars, connVars, callVars
<1>8. ASSUME NEW p \in Procs, NEW c \in Conns, Quit(p, c) PROVE FALSE
  BY <1>8 DEF Quit, Does, KeepsGroups
<1>9. ASSUME NEW p \in Procs, Clear(p) PROVE FALSE
  BY <1>9 DEF Clear, Does, KeepsGroups
<1>10. ASSUME NEW p \in Procs, StartSend(p) \/ EndSend(p) PROVE Holding'
  BY <1>3, <1>10 DEF StartSend, EndSend, connVars, callVars
<1>11. ASSUME NEW p \in Procs, NEW c \in Conns, Join(p, c) PROVE Holding'
  <2>1. /\ held[p] \in Objs /\ held[p] <= created
        /\ groupId' = [groupId EXCEPT ![c] = gid[held[p]]]
        /\ members' = [members EXCEPT ![held[p]] = @ \cup {c}]
        /\ UNCHANGED <<groupMap, gid, sock, target>>
    BY <1>11 DEF Join, callVars, Known
  <2>2. gid[held[p]] \in GroupIds /\ groupMap[gid[held[p]]] = held[p]
    BY <2>1 DEF Kept
  <2> SUFFICES ASSUME NEW d \in Conns, Up(d)', groupId'[d] # NoId, Alone(d)' PROVE InGroup(d)'
    BY DEF Holding
  <2>3. CASE d = c
    BY <2>1, <2>2, <2>3 DEF InGroup, GroupShape, ConnShape
  <2>4. CASE d # c
    <3>1. groupId'[d] = groupId[d] /\ InGroup(d)
      BY <2>1, <2>4 DEF Holding, Up, Alone, ConnShape
    <3> QED
      BY <2>1, <3>1 DEF InGroup, GroupShape, ConnShape
  <2> QED
    BY <2>3, <2>4
\* The creator has seen that there is no group of this id, so nobody is in one.
<1>12. ASSUME NEW p \in Procs, InsertGroup(p) PROVE Holding'
  <2>1. /\ groupMap[arg[p]] = NoObj /\ arg[p] \in GroupIds
        /\ groupMap' = [groupMap EXCEPT ![arg[p]] = created + 1]
        /\ UNCHANGED <<members, groupId, sock, target>>
    BY <1>12 DEF InsertGroup, Kept, connVars, Wired
  <2> SUFFICES ASSUME NEW d \in Conns, Up(d)', groupId'[d] # NoId, Alone(d)' PROVE InGroup(d)'
    BY DEF Holding
  <2>2. InGroup(d) /\ groupId[d] # NoId /\ groupId[d] \in GroupIds
    BY <2>1 DEF Holding, Up, Alone, ConnShape
  <2>3. groupId[d] # arg[p]
    BY <2>1, <2>2 DEF InGroup
  <2> QED
    BY <2>1, <2>2, <2>3 DEF InGroup, GroupShape
<1>13. ASSUME NEW p \in Procs, CloseStep(p) PROVE Holding'
  <2>1. target[p] \in Conns
    <3>1. pc[p] \in Closing
      BY <1>13 DEF CloseStep, LookupConn, CheckGroupId, ReadGroupId, FindGroup, QuitGroup,
           ResetGroupId, ShutConn, DropConn, Closing
    <3> QED
      BY <3>1 DEF Wired
  <2>2. CASE ResetGroupId(p)
    <3>1. /\ groupId' = [groupId EXCEPT ![target[p]] = NoId]
          /\ UNCHANGED <<groupMap, members, sock, target>>
      BY <2>2 DEF ResetGroupId, groupVars, callVars
    <3> QED
      BY <3>1 DEF Holding, InGroup, Up, Alone, ConnShape
  <2>3. CASE QuitGroup(p)
    <3>1. /\ members' = [members EXCEPT ![obj[p]] = @ \ {target[p]}]
          /\ UNCHANGED <<groupMap, groupId, sock, target>>
      BY <2>3 DEF QuitGroup, connVars, callVars
    <3> SUFFICES ASSUME NEW d \in Conns, Up(d)', groupId'[d] # NoId, Alone(d)' PROVE InGroup(d)'
      BY DEF Holding
    <3>2. d # target[p] /\ InGroup(d)
      BY <3>1 DEF Holding, Up, Alone
    <3> QED
      BY <3>1, <3>2 DEF InGroup, GroupShape, ConnShape
  <2>4. CASE ~ResetGroupId(p) /\ ~QuitGroup(p)
    <3>1. UNCHANGED <<groupMap, groupId, members>>
      BY <1>13, <2>4 DEF CloseStep, LookupConn, CheckGroupId, ReadGroupId, FindGroup,
           ShutConn, DropConn, groupVars, connVars
    <3>2. ASSUME NEW c \in Conns, NEW q \in Procs, target[q] = c PROVE target'[q] = c \/ ~Up(c)'
      BY <1>2, <1>13, <2>1, <3>2, Downward
    <3> QED
      BY <1>3, <3>1, <3>2
  <2> QED
    BY <2>2, <2>3, <2>4
<1>14. ASSUME NEW c \in Conns, Stall(c) \/ PeerGone(c) \/ Expire(c) \/ ReadMessage(c) \/ EndCallback(c) PROVE Holding'
  BY <1>3, <1>14 DEF Stall, PeerGone, Expire, ReadMessage, EndCallback, groupVars, connVars,
       callVars
\* The goroutine of a close call that begins was in none before.
<1>15. ASSUME NEW p \in Procs, NEW c \in Conns, pc[p] \notin Closing, target' = [target EXCEPT ![p] = c],
              UNCHANGED <<groupMap, groupId, members>>
       PROVE  Holding'
  BY <1>3, <1>15 DEF Wired
<1>16. ASSUME NEW c \in Conns, ReadError(c) PROVE Holding'
  BY <1>15, <1>16 DEF ReadError, Begin, groupVars, connVars, Closing, Procs
<1>17. ASSUME NEW p \in Procs, NEW c \in Conns,
              StartCloseConnect(p, c) \/ StartCloseWithMessage(p, c) \/ StartCheckActive(p, c)
       PROVE  Holding'
  BY <1>15, <1>17 DEF StartCloseConnect, StartCloseWithMessage, StartCheckActive, Does,
       Ready, Begin, groupVars, connVars, Closing
<1>18. Tickers \subseteq Procs
  BY DEF Procs
<1> QED
  BY StepCases, <1>4, <1>5, <1>6, <1>7, <1>8, <1>9, <1>10, <1>11, <1>12, <1>13, <1>14, <1>16,
       <1>17, <1>18

\* A live connection that nobody closes is in the group it has joined, and GetGroup
\* (face/manager.go) leads there, as long as one goroutine creates the groups.
THEOREM StaysMember == ASSUME KeepsGroups PROVE Spec => []MembershipHeld
<1>1. Init => Kept /\ Closes /\ Holding
  BY GroupConstants DEF Init, Kept, Closes, Holding, Up, GroupConstants, Objs, Procs
<1>2. Shape /\ CreatesFit /\ Known /\ (Kept /\ Closes /\ Holding) /\ [Next]_vars => (Kept /\ Closes /\ Holding)'
  BY KeepsGroups, KeptStep, ClosesStep, HoldingStep
<1>3. Shape /\ Holding => MembershipHeld
  BY ObjsFacts DEF Shape, GroupShape, ConnShape, Holding, Alone, InGroup, MembershipHeld
<1> QED
  BY <1>1, <1>2, <1>3, ShapeAlways, KnownAlways, PTL DEF Spec
=============================================================================
