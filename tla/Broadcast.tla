----------------------------- MODULE Broadcast -----------------------------
(***************************************************************************)
(* Sending in one router: Manager.SendMessage to all buckets, the filters  *)
(* and the write loop of face/bucket.go, WSConn.Write and the attributes   *)
(* of a connection that the filters read (face/conn.go).                   *)
(*                                                                         *)
(* A bucket holds its lock while it writes to its connections, one after   *)
(* the other.  AddConnect and CloseConn wait for the same lock; a direct   *)
(* WSConn.Write and the active check do not.  The processes are goroutines *)
(* of the application, the accepting and the reading goroutine of each     *)
(* connection, and the active check of each bucket.  Messages have no      *)
(* content.  The remote table and the close calls of the application are   *)
(* the subject of ConnLifecycle, the groups of Groups; the counter of a    *)
(* bucket is here because the active check empties the bucket by it.       *)
(***************************************************************************)
EXTENDS Integers, FiniteSets

CONSTANTS
  Conns, Buckets,  \* connections and buckets
  BucketOf,        \* the bucket of each connection: connId % buckets
  Callers,         \* goroutines of the application
  Paras,           \* the messages they send: see ParaType
  Owners, Tags,    \* owner ids and tags (0 is no owner)
  Props,           \* pairs of a property and its value
  AppOps,          \* what they do
  TypeSet,         \* has Router.SetMessageType reached the buckets?
  Stalls,          \* may the host of a peer vanish?
  CheckActive      \* is there an active check?

\* define.SendMsgPara, without the group id.  No ids, no tags ... are the empty set.
ParaType == [ids : SUBSET Conns, receivers : SUBSET Owners, tags : SUBSET Tags,
             props : SUBSET Props]
NoPara == [ids |-> {}, receivers |-> {}, tags |-> {}, props |-> {}]

ASSUME BroadcastConstants ==
  /\ BucketOf \in [Conns -> Buckets]
  /\ Paras \subseteq ParaType
  /\ Owners \subseteq Nat
  /\ AppOps \subseteq {"send", "write", "tags", "props", "owner"}
  /\ Props \subseteq [key : STRING, value : STRING]
  /\ TypeSet \in BOOLEAN /\ Stalls \in BOOLEAN /\ CheckActive \in BOOLEAN
  /\ Conns # {} /\ IsFiniteSet(Conns) /\ Buckets # {}

VARIABLES
  sock,      \* the websocket.Conn as the server sees it
  accepting, \* connections on their way through Manager.Accept, up to the lock
  adding,    \* those AddConnect has inserted and not yet counted
  reader,    \* the read loop of each connection
  check,     \* what the active check has still to do with a connection it closes
  mapped,    \* those in the connMap of their bucket
  connCount, \* Bucket.connCount
  old,       \* what a pass of the active check has left of a map it has replaced
  kept,      \* what the loop of a sender has of such a map
  lost,      \* history: those that freeRunMemory took out of their bucket
  active,    \* those for which WSConn.ConnIsActive() is true
  owner, tags, props, \* WSConn.ownerId, tagMap, propMap
  locked,    \* buckets whose lock is held
  pc,        \* where each application goroutine is
  para,      \* what it sends
  buckets,   \* the buckets it has still to visit
  bucket,    \* the one it is in, a set of one, or none
  todo,      \* the connections of that it has still to look at
  conn,      \* the one it is at, a set of one, or none
  must,      \* those it must reach: open and fit for the message ever since it began
  may,       \* those that have been fit for the message since it began
  got        \* those it has reached

connVars == <<sock, accepting, adding, reader, check, mapped, active>>
freeVars == <<connCount, old, kept, lost>>
attrVars == <<owner, tags, props>>
sendVars == <<para, buckets, bucket, todo, conn>>
history  == <<must, may, got>>
vars == <<connVars, freeVars, attrVars, locked, pc, sendVars, history>>

Init ==
  /\ sock = [c \in Conns |-> "none"]
  /\ reader = [c \in Conns |-> "none"]
  /\ check = [c \in Conns |-> "no"]
  /\ accepting = {} /\ adding = {} /\ mapped = {} /\ active = {} /\ locked = {}
  /\ connCount = [b \in Buckets |-> 0]
  /\ old = {} /\ lost = {} /\ kept = [p \in Callers |-> {}]
  /\ owner = [c \in Conns |-> 0]
  /\ tags = [c \in Conns |-> {}]
  /\ props = [c \in Conns |-> {}]
  /\ pc = [p \in Callers |-> "idle"]
  /\ para = [p \in Callers |-> NoPara]
  /\ buckets = [p \in Callers |-> {}]
  /\ bucket = [p \in Callers |-> {}]
  /\ todo = [p \in Callers |-> {}]
  /\ conn = [p \in Callers |-> {}]
  /\ must = [p \in Callers |-> {}]
  /\ may = [p \in Callers |-> {}]
  /\ got = [p \in Callers |-> {}]

-----------------------------------------------------------------------------
(* Which connections a message is for.                                     *)

\* Mutant: a message for receivers falls through to the other filters.
PassesThrough(m, c) ==
  \/ owner[c] \in m.receivers
  \/ m.tags # {} /\ tags[c] \cap m.tags # {}
  \/ m.tags = {} /\ m.props # {} /\ props[c] \cap m.props # {}
  \/ m.tags = {} /\ m.props = {}

\* Bucket.checkSendCondition: the first filter that is given decides.
Passes(m, c) ==
  \/ m.receivers # {} /\ owner[c] > 0 /\ owner[c] \in m.receivers
  \/ m.receivers = {} /\ m.tags # {} /\ tags[c] \cap m.tags # {}
  \/ m.receivers = {} /\ m.tags = {} /\ m.props # {} /\ props[c] \cap m.props # {}
  \/ m.receivers = {} /\ m.tags = {} /\ m.props = {}

\* What the caller asks for, in the words of define.SendMsgPara: ids come first, and
\* exclude the filters.  A connection without an owner is for no receiver.  o, t and ps
\* are the attributes of all connections.
FitGiven(m, c, o, t, ps) ==
  IF m.ids # {} THEN c \in m.ids
  ELSE CASE m.receivers # {} -> o[c] > 0 /\ o[c] \in m.receivers
         [] m.receivers = {} /\ m.tags # {} -> t[c] \cap m.tags # {}
         [] m.receivers = {} /\ m.tags = {} -> m.props # {} => ps[c] \cap m.props # {}

Fit(m, c) == FitGiven(m, c, owner, tags, props)

Sending(p) == pc[p] \in {"pick", "lock", "loop", "tags", "props", "write", "writing"}

\* The histories after a step that changes a connection.
Track ==
  LET FitNow(p, c) == FitGiven(para[p], c, owner', tags', props') IN
  /\ must' = [p \in Callers |-> {c \in must[p] : sock'[c] = "open" /\ FitNow(p, c)}]
  /\ may' = [p \in Callers |-> may[p] \cup {c \in Conns : Sending(p) /\ FitNow(p, c)}]

\* The goroutines that write to a connection (nothing is written of a message whose type
\* the websocket does not know), and those that hold the lock of one of
\* its attribute maps to change it.
Writers(c) == {p \in Callers : conn[p] = {c} /\ \/ pc[p] = "direct"
                                                \/ pc[p] = "writing" /\ TypeSet}
Changing(c, map) == {p \in Callers : pc[p] = map /\ conn[p] = {c}}

Crashed == \E p \in Callers : pc[p] \in {"concurrent write", "concurrent map"}

Goto(p, at) == pc' = [pc EXCEPT ![p] = at]

-----------------------------------------------------------------------------
(* Manager.SendMessage without a group id.                                 *)

StartSend(p, m) ==
  /\ "send" \in AppOps /\ pc[p] = "idle"
  /\ Goto(p, "pick")
  /\ para' = [para EXCEPT ![p] = m]
  /\ buckets' = [buckets EXCEPT ![p] = Buckets]
  /\ must' = [must EXCEPT ![p] = {c \in mapped : sock[c] = "open" /\ Fit(m, c)}]
  /\ may' = [may EXCEPT ![p] = {c \in Conns : Fit(m, c)}]
  /\ UNCHANGED <<connVars, freeVars, attrVars, locked, bucket, todo, conn, got>>

\* The next bucket, in the order of a Go map ...
PickBucket(p, b) ==
  /\ pc[p] = "pick" /\ b \in buckets[p]
  /\ Goto(p, "lock")
  /\ buckets' = [buckets EXCEPT ![p] = @ \ {b}]
  /\ bucket' = [bucket EXCEPT ![p] = {b}]
  /\ UNCHANGED <<connVars, freeVars, attrVars, locked, para, todo, conn, history>>

\* ... its lock, and the connections to visit: all of them, or the given ids.
Lock(p, b) ==
  /\ pc[p] = "lock" /\ bucket[p] = {b} /\ b \notin locked
  /\ locked' = locked \cup {b}
  /\ Goto(p, "loop")
  /\ todo' = [todo EXCEPT ![p] = {c \in mapped : BucketOf[c] = b /\
                                    (para[p].ids # {} => c \in para[p].ids)}]
  /\ UNCHANGED <<connVars, freeVars, attrVars, para, buckets, bucket, conn, history>>

\* What the loop may still come to: not what the active check has deleted meanwhile,
\* but a range over connMap goes on in the map that freeRunMemory has replaced.
Ahead(p) == todo[p] \cap (mapped \cup kept[p])

\* One connection of the loop: an id or an owner is looked at at once, a map of
\* attributes is fetched first.
Visit(p, c) ==
  LET m == para[p]
      Filters(first) == m.ids = {} /\ m.receivers = {} /\ first
      Step(at) == Goto(p, at) /\ conn' = [conn EXCEPT ![p] = {c}] /\ UNCHANGED todo
  IN
  /\ pc[p] = "loop" /\ c \in Ahead(p)
  /\ \/ /\ Filters(m.tags # {}) /\ Changing(c, "mark tags") = {}
        /\ Step("tags")
     \/ /\ Filters(m.tags = {} /\ m.props # {}) /\ Changing(c, "set props") = {}
        /\ Step("props")
     \/ /\ m.ids # {} \/ m.receivers # {} \/ (m.tags = {} /\ m.props = {})
        /\ m.ids # {} \/ Passes(m, c)
        /\ Step("write")
     \/ /\ m.ids = {} /\ m.receivers # {} /\ ~Passes(m, c)
        /\ todo' = [todo EXCEPT ![p] = @ \ {c}]
        /\ UNCHANGED <<pc, conn>>
  /\ UNCHANGED <<connVars, freeVars, attrVars, locked, para, buckets, bucket, history>>

\* The map GetTags or GetAllProp has returned is the live one, and is read outside its
\* lock.  Close replaces the map, so that of a closed connection may be either.
ReadAttrs(p, c) ==
  /\ pc[p] \in {"tags", "props"} /\ conn[p] = {c}
  /\ \/ /\ Changing(c, IF pc[p] = "tags" THEN "mark tags" ELSE "set props") # {}
        /\ Goto(p, "concurrent map")
        /\ UNCHANGED <<todo, conn>>
     \/ /\ Changing(c, IF pc[p] = "tags" THEN "mark tags" ELSE "set props") = {}
        /\ Passes(para[p], c) \/ (sock[c] = "closed" /\ c \in may[p])
        /\ Goto(p, "write")
        /\ UNCHANGED <<todo, conn>>
     \/ /\ Changing(c, IF pc[p] = "tags" THEN "mark tags" ELSE "set props") = {}
        /\ ~Passes(para[p], c)
        /\ Goto(p, "loop")
        /\ todo' = [todo EXCEPT ![p] = @ \ {c}]
        /\ conn' = [conn EXCEPT ![p] = {}]
  /\ UNCHANGED <<connVars, freeVars, attrVars, locked, para, buckets, bucket, history>>

\* WSConn.Write.  The websocket.Conn has one writer at a time and panics otherwise.
StartWrite(p, c) ==
  /\ pc[p] = "write" /\ conn[p] = {c}
  /\ Goto(p, IF Writers(c) = {} \/ ~TypeSet THEN "writing" ELSE "concurrent write")
  /\ UNCHANGED <<connVars, freeVars, attrVars, locked, sendVars, history>>

\* Mutant: an error ends the loop.
EndWriteReturns(p, c) ==
  /\ pc[p] = "writing" /\ conn[p] = {c} /\ (TypeSet => sock[c] # "stalled")
  /\ active' = active \cup {c}
  /\ got' = IF sock[c] = "open" /\ TypeSet THEN [got EXCEPT ![p] = @ \cup {c}] ELSE got
  /\ Goto(p, "loop")
  /\ todo' = [todo EXCEPT ![p] = IF sock[c] = "open" THEN @ \ {c} ELSE {}]
  /\ conn' = [conn EXCEPT ![p] = {}]
  /\ UNCHANGED <<sock, accepting, adding, reader, check, mapped, freeVars, attrVars,
                 locked, para, buckets, bucket, must, may>>

\* It returns once the message is in the buffer of the socket, or with an error: at
\* once for an unknown message type, and when the socket is closed.  Either way
\* activeTime is now, and an error is only logged.
EndWrite(p, c) ==
  /\ pc[p] = "writing" /\ conn[p] = {c} /\ (TypeSet => sock[c] # "stalled")
  /\ active' = active \cup {c}
  /\ got' = IF sock[c] = "open" /\ TypeSet THEN [got EXCEPT ![p] = @ \cup {c}] ELSE got
  /\ Goto(p, "loop")
  /\ todo' = [todo EXCEPT ![p] = @ \ {c}]
  /\ conn' = [conn EXCEPT ![p] = {}]
  /\ UNCHANGED <<sock, accepting, adding, reader, check, mapped, freeVars, attrVars,
                 locked, para, buckets, bucket, must, may>>

\* Mutant: the lock of a bucket that had nothing to send is kept.
UnlockKept(p, b) ==
  /\ pc[p] = "loop" /\ bucket[p] = {b} /\ Ahead(p) = {}
  /\ locked' = IF got[p] = {} THEN locked ELSE locked \ {b}
  /\ bucket' = [bucket EXCEPT ![p] = {}]
  /\ todo' = [todo EXCEPT ![p] = {}]
  /\ kept' = [kept EXCEPT ![p] = {}]
  /\ IF buckets[p] # {}
       THEN Goto(p, "pick") /\ UNCHANGED <<para, history>>
       ELSE /\ Goto(p, "idle")
            /\ para' = [para EXCEPT ![p] = NoPara]
            /\ must' = [must EXCEPT ![p] = {}]
            /\ may' = [may EXCEPT ![p] = {}]
            /\ got' = [got EXCEPT ![p] = {}]
  /\ UNCHANGED <<connVars, connCount, old, lost, attrVars, buckets, conn>>

\* Mutant: the call ends with a bucket in which nobody was reached.
UnlockEnds(p, b) ==
  /\ pc[p] = "loop" /\ bucket[p] = {b} /\ Ahead(p) = {}
  /\ locked' = locked \ {b}
  /\ bucket' = [bucket EXCEPT ![p] = {}]
  /\ todo' = [todo EXCEPT ![p] = {}]
  /\ kept' = [kept EXCEPT ![p] = {}]
  /\ IF buckets[p] # {} /\ got[p] # {}
       THEN Goto(p, "pick") /\ UNCHANGED <<para, history>>
       ELSE /\ Goto(p, "idle")
            /\ para' = [para EXCEPT ![p] = NoPara]
            /\ must' = [must EXCEPT ![p] = {}]
            /\ may' = [may EXCEPT ![p] = {}]
            /\ got' = [got EXCEPT ![p] = {}]
  /\ UNCHANGED <<connVars, connCount, old, lost, attrVars, buckets, conn>>

\* The end of the loop over one bucket, and after the last of SendMessage.
Unlock(p, b) ==
  /\ pc[p] = "loop" /\ bucket[p] = {b} /\ Ahead(p) = {}
  /\ locked' = locked \ {b}
  /\ bucket' = [bucket EXCEPT ![p] = {}]
  /\ todo' = [todo EXCEPT ![p] = {}]
  /\ kept' = [kept EXCEPT ![p] = {}]
  /\ IF buckets[p] # {}
       THEN Goto(p, "pick") /\ UNCHANGED <<para, history>>
       ELSE /\ Goto(p, "idle")
            /\ para' = [para EXCEPT ![p] = NoPara]
            /\ must' = [must EXCEPT ![p] = {}]
            /\ may' = [may EXCEPT ![p] = {}]
            /\ got' = [got EXCEPT ![p] = {}]
  /\ UNCHANGED <<connVars, connCount, old, lost, attrVars, buckets, conn>>

-----------------------------------------------------------------------------
(* WSConn.Write and the attributes, called by the application.             *)

DirectWrite(p, c) ==
  /\ "write" \in AppOps /\ pc[p] = "idle" /\ sock[c] # "none"
  /\ Goto(p, IF Writers(c) = {} THEN "direct" ELSE "concurrent write")
  /\ conn' = [conn EXCEPT ![p] = {c}]
  /\ UNCHANGED <<connVars, freeVars, attrVars, locked, para, buckets, bucket, todo, history>>

DirectWriteEnds(p, c) ==
  /\ pc[p] = "direct" /\ conn[p] = {c} /\ sock[c] # "stalled"
  /\ active' = active \cup {c}
  /\ Goto(p, "idle")
  /\ conn' = [conn EXCEPT ![p] = {}]
  /\ UNCHANGED <<sock, accepting, adding, reader, check, mapped, freeVars, attrVars, locked, para,
                 buckets, bucket, todo, history>>

\* SetOwnerId is a plain assignment.
SetOwnerId(p, c, o) ==
  /\ "owner" \in AppOps /\ pc[p] = "idle" /\ sock[c] # "none" /\ o > 0 /\ owner[c] # o
  /\ owner' = [owner EXCEPT ![c] = o]
  /\ UNCHANGED <<connVars, freeVars, tags, props, locked, pc, sendVars, got>>
  /\ Track

\* MarkTags, RemoveTags, SetProp and DelProp write to a map under the lock of that map.
StartChange(p, c, op, at) ==
  /\ op \in AppOps /\ pc[p] = "idle" /\ sock[c] # "none" /\ Changing(c, at) = {}
  /\ Goto(p, at)
  /\ conn' = [conn EXCEPT ![p] = {c}]
  /\ UNCHANGED <<connVars, freeVars, attrVars, locked, para, buckets, bucket, todo, history>>

StartMarkTags(p, c) == StartChange(p, c, "tags", "mark tags")
StartSetProp(p, c)  == StartChange(p, c, "props", "set props")

EndChange(p) ==
  /\ Goto(p, "idle")
  /\ conn' = [conn EXCEPT ![p] = {}]
  /\ UNCHANGED <<connVars, freeVars, owner, locked, para, buckets, bucket, todo, got>>
  /\ Track

MarkTags(p, c, t) ==
  /\ pc[p] = "mark tags" /\ conn[p] = {c}
  /\ tags' = [tags EXCEPT ![c] = @ \cup {t}]
  /\ UNCHANGED props
  /\ EndChange(p)

RemoveTags(p, c, t) ==
  /\ pc[p] = "mark tags" /\ conn[p] = {c}
  /\ tags' = [tags EXCEPT ![c] = @ \ {t}]
  /\ UNCHANGED props
  /\ EndChange(p)

SetProp(p, c, kv) ==
  /\ pc[p] = "set props" /\ conn[p] = {c}
  /\ props' = [props EXCEPT ![c] = {x \in @ : x.key # kv.key} \cup {kv}]
  /\ UNCHANGED tags
  /\ EndChange(p)

DelProp(p, c, kv) ==
  /\ pc[p] = "set props" /\ conn[p] = {c}
  /\ props' = [props EXCEPT ![c] = {x \in @ : x.key # kv.key}]
  /\ UNCHANGED tags
  /\ EndChange(p)

-----------------------------------------------------------------------------
(* The connections.                                                        *)

Connect(c) ==
  /\ sock[c] = "none"
  /\ sock' = [sock EXCEPT ![c] = "open"]
  /\ accepting' = accepting \cup {c}
  /\ reader' = [reader EXCEPT ![c] = "reading"]
  /\ UNCHANGED <<adding, check, mapped, active, freeVars, attrVars, locked, pc, sendVars,
                 history>>

\* Bucket.AddConnect inserts under the lock.  The read loop runs already ...
AddConnect(c) ==
  /\ c \in accepting /\ BucketOf[c] \notin locked
  /\ locked' = locked \cup {BucketOf[c]}
  /\ mapped' = mapped \cup {c}
  /\ accepting' = accepting \ {c}
  /\ adding' = adding \cup {c}
  /\ UNCHANGED <<sock, reader, check, active, freeVars, attrVars, pc, sendVars, history>>

\* ... and then it counts.
AddConnectCount(c) ==
  /\ c \in adding
  /\ connCount' = [connCount EXCEPT ![BucketOf[c]] = @ + 1]
  /\ locked' = locked \ {BucketOf[c]}
  /\ adding' = adding \ {c}
  /\ UNCHANGED <<sock, accepting, reader, check, mapped, active, old, kept, lost, attrVars,
                 pc, sendVars, history>>

\* WSConn.readOneMessageData: the read callback has returned.
ReadMessage(c) ==
  /\ reader[c] = "reading" /\ sock[c] = "open"
  /\ active' = active \cup {c}
  /\ UNCHANGED <<sock, accepting, adding, reader, check, mapped, freeVars, attrVars,
                 locked, pc, sendVars, history>>

\* The peer closes, or the network reports it gone.
PeerGone(c) ==
  /\ sock[c] \in {"open", "stalled"}
  /\ sock' = [sock EXCEPT ![c] = "gone"]
  /\ UNCHANGED <<accepting, adding, reader, check, mapped, active, freeVars, attrVars,
                 locked, pc, sendVars, got>>
  /\ Track

\* The host of the peer vanishes without a word, and the buffer of the socket is full.
Stall(c) ==
  /\ Stalls /\ sock[c] = "open"
  /\ sock' = [sock EXCEPT ![c] = "stalled"]
  /\ UNCHANGED <<accepting, adding, reader, check, mapped, active, freeVars, attrVars,
                 locked, pc, sendVars, got>>
  /\ Track

\* The heart beat rate passes since activeTime.
Expire(c) ==
  /\ c \in active
  /\ active' = active \ {c}
  /\ UNCHANGED <<sock, accepting, adding, reader, check, mapped, freeVars, attrVars,
                 locked, pc, sendVars, history>>

\* WSConn.Close: the socket, and new maps of attributes.
CloseSocket(c) ==
  /\ Changing(c, "mark tags") = {} /\ Changing(c, "set props") = {}
  /\ sock' = [sock EXCEPT ![c] = "closed"]
  /\ tags' = [tags EXCEPT ![c] = {}]
  /\ props' = [props EXCEPT ![c] = {}]
  /\ UNCHANGED <<owner, locked, pc, sendVars, got>>
  /\ Track

\* A read fails: Bucket.CloseConn takes the connection out of the map, stores the length
\* of the map as the count (a step of the active check between the two has the effect
\* it would have had before them) ...
CloseConn(c) ==
  LET b == BucketOf[c] IN
  /\ reader[c] = "reading" /\ sock[c] \in {"gone", "closed"}
  /\ b \notin locked
  /\ mapped' = mapped \ {c}
  /\ connCount' = [connCount EXCEPT ![b] = Cardinality({d \in mapped' : BucketOf[d] = b})]
  /\ reader' = [reader EXCEPT ![c] = "unmapped"]
  /\ UNCHANGED <<sock, accepting, adding, check, active, old, kept, lost, attrVars, locked, pc,
                 sendVars, history>>

\* ... and closes it after the unlock.
CloseConnSocket(c) ==
  /\ reader[c] = "unmapped"
  /\ reader' = [reader EXCEPT ![c] = "done"]
  /\ CloseSocket(c)
  /\ UNCHANGED <<accepting, adding, check, mapped, active, freeVars>>

-----------------------------------------------------------------------------
(* The active check: Bucket.cbForCheckActiveConn and closeConnect, which   *)
(* take no lock.  It looks at one connection of a bucket at a time.        *)

InBucketOf(c) == {d \in Conns : BucketOf[d] = BucketOf[c]}

Goes(c, at) == check' = [check EXCEPT ![c] = at]

\* Mutant: the active check takes the lock of its bucket.
TickCloseLocked(c) ==
  /\ CheckActive /\ c \in (mapped \cup old) \ active
  /\ \A d \in InBucketOf(c) : check[d] = "no"
  /\ BucketOf[c] \notin locked
  /\ Goes(c, "delete")
  /\ CloseSocket(c)
  /\ old' = IF c \in old THEN old \ {c} ELSE old \ InBucketOf(c)
  /\ UNCHANGED <<accepting, adding, reader, mapped, active, connCount, kept, lost>>

\* An inactive connection of the map, or of the replaced map that the pass under way
\* still ranges over, is closed ...
TickClose(c) ==
  /\ CheckActive /\ c \in (mapped \cup old) \ active
  /\ \A d \in InBucketOf(c) : check[d] = "no"
  /\ Goes(c, "delete")
  /\ CloseSocket(c)
  /\ old' = IF c \in old THEN old \ {c} ELSE old \ InBucketOf(c)
  /\ UNCHANGED <<accepting, adding, reader, mapped, active, connCount, kept, lost>>

\* ... deleted ...
TickDelete(c) ==
  /\ check[c] = "delete"
  /\ mapped' = mapped \ {c}
  /\ Goes(c, "count")
  /\ UNCHANGED <<sock, accepting, adding, reader, active, freeVars, attrVars, locked, pc,
                 sendVars, history>>

\* ... and counted down;
TickCount(c) ==
  /\ check[c] = "count"
  /\ connCount' = [connCount EXCEPT ![BucketOf[c]] = @ - 1]
  /\ Goes(c, "free")
  /\ UNCHANGED <<sock, accepting, adding, reader, mapped, active, old, kept, lost, attrVars,
                 locked, pc, sendVars, history>>

\* `if f.connCount <= 0 { f.freeRunMemory() }` replaces the map by an empty one, whoever is
\* in it.  Those in the loop over the old one go on there: the pass under way, which
\* may have passed any part of it, and senders, unless they look up ids.
TickFree(c) ==
  LET here == mapped \cap InBucketOf(c) IN
  /\ check[c] = "free"
  /\ Goes(c, "no")
  /\ IF connCount[BucketOf[c]] <= 0
       THEN /\ mapped' = mapped \ here
            /\ lost' = lost \cup here
            /\ \E left \in SUBSET here : old' = old \cup left
            /\ kept' = [p \in Callers |->
                 IF bucket[p] = {BucketOf[c]} /\ pc[p] # "lock" /\ para[p].ids = {}
                   THEN kept[p] \cup here ELSE kept[p]]
       ELSE UNCHANGED <<mapped, lost, old, kept>>
  /\ UNCHANGED <<sock, accepting, adding, reader, active, connCount, attrVars, locked, pc,
                 sendVars, history>>

-----------------------------------------------------------------------------
SendStep(p) ==
  \/ \E b \in Buckets : PickBucket(p, b) \/ Lock(p, b) \/ Unlock(p, b)
  \/ \E c \in Conns : Visit(p, c) \/ ReadAttrs(p, c) \/ StartWrite(p, c) \/ EndWrite(p, c)

ChangeStep(p, c) ==
  \/ \E t \in Tags : MarkTags(p, c, t) \/ RemoveTags(p, c, t)
  \/ \E kv \in Props : SetProp(p, c, kv) \/ DelProp(p, c, kv)

CallerStep(p) ==
  \/ \E m \in Paras : StartSend(p, m)
  \/ SendStep(p)
  \/ \E c \in Conns :
       \/ DirectWrite(p, c) \/ DirectWriteEnds(p, c)
       \/ \E o \in Owners : SetOwnerId(p, c, o)
       \/ StartMarkTags(p, c) \/ StartSetProp(p, c)
       \/ ChangeStep(p, c)

ConnStep(c) ==
  \/ AddConnect(c) \/ AddConnectCount(c)
  \/ ReadMessage(c) \/ CloseConn(c) \/ CloseConnSocket(c)
  \/ TickClose(c) \/ TickDelete(c) \/ TickCount(c) \/ TickFree(c)

Environment(c) == Connect(c) \/ PeerGone(c) \/ Stall(c) \/ Expire(c)

\* A panic that nothing recovers, and a concurrent use of a map, end the program.
Next ==
  /\ ~Crashed
  /\ \/ \E p \in Callers : CallerStep(p)
     \/ \E c \in Conns : ConnStep(c) \/ Environment(c)

Spec == Init /\ [][Next]_vars

\* The scheduler runs every goroutine, a sync.Mutex starves nobody, time passes, and the
\* active check comes back to what is in the map (what was in a replaced one it may have
\* passed for good).
Fairness ==
  /\ \A p \in Callers : WF_vars(~Crashed /\ \E c \in Conns : ChangeStep(p, c))
  /\ \A p \in Callers, b \in Buckets : SF_vars(~Crashed /\ Lock(p, b))
  /\ \A p \in Callers : WF_vars(~Crashed /\ SendStep(p))
  /\ \A p \in Callers : WF_vars(~Crashed /\ \E c \in Conns : DirectWriteEnds(p, c))
  /\ \A c \in Conns :
       /\ SF_vars(~Crashed /\ AddConnect(c))
       /\ SF_vars(~Crashed /\ CloseConn(c))
       /\ WF_vars(~Crashed /\ CloseConnSocket(c))
       /\ WF_vars(~Crashed /\ Expire(c))
       /\ SF_vars(~Crashed /\ c \in mapped /\ TickClose(c))
       /\ WF_vars(~Crashed /\ (AddConnectCount(c) \/ TickDelete(c) \/ TickCount(c) \/ TickFree(c)))

LiveSpec == Spec /\ Fairness

-----------------------------------------------------------------------------
(* Properties.                                                             *)

\* The shape of the state.  A lock is held by a goroutine that is in the loop of its bucket,
\* or in AddConnect.
TypeOK ==
  /\ sock \in [Conns -> {"none", "open", "stalled", "gone", "closed"}]
  /\ reader \in [Conns -> {"none", "reading", "unmapped", "done"}]
  /\ check \in [Conns -> {"no", "delete", "count", "free"}]
  /\ accepting \subseteq Conns /\ adding \subseteq Conns /\ mapped \subseteq Conns
  /\ active \subseteq Conns
  /\ connCount \in [Buckets -> Int]
  /\ old \subseteq Conns /\ lost \subseteq Conns /\ kept \in [Callers -> SUBSET Conns]
  /\ owner \in [Conns -> Owners \cup {0}]
  /\ tags \in [Conns -> SUBSET Tags] /\ props \in [Conns -> SUBSET Props]
  /\ pc \in [Callers -> {"idle", "pick", "lock", "loop", "tags", "props", "write",
                         "writing", "direct", "mark tags", "set props",
                         "concurrent write", "concurrent map"}]
  /\ para \in [Callers -> Paras \cup {NoPara}]
  /\ buckets \in [Callers -> SUBSET Buckets] /\ bucket \in [Callers -> SUBSET Buckets]
  /\ todo \in [Callers -> SUBSET Conns] /\ conn \in [Callers -> SUBSET Conns]
  /\ must \in [Callers -> SUBSET Conns] /\ may \in [Callers -> SUBSET Conns]
  /\ got \in [Callers -> SUBSET Conns]
  /\ locked \subseteq Buckets
  /\ \A b \in locked :
       \/ \E c \in adding : BucketOf[c] = b
       \/ \E p \in Callers :
            bucket[p] = {b} /\ pc[p] \in {"loop", "tags", "props", "write", "writing",
                                         "concurrent write", "concurrent map"}

\* When SendMessage returns it has written its message to every connection that was in
\* its bucket when it began and that has been open and fit for the message ever since:
\* the errors of other connections and buckets and connections that come and go do not
\* hide one.  The active check does: freeRunMemory takes open connections out of
\* their bucket, and only those are excepted.
Delivered ==
  [][\A p \in Callers :
       Sending(p) /\ ~Sending(p)' /\ ~Crashed' => must[p] \subseteq got[p] \cup lost]_vars

\* A message reaches no connection that has not matched its ids or its filter at some
\* time during the call.
OnlyFit == \A p \in Callers : got[p] \subseteq may[p]

\* A sender waits for a vanished host that nobody will close: it was taken out of its
\* bucket by freeRunMemory, and the active check does not come to it any more.
Abandoned == \E p \in Callers : \E c \in lost : conn[p] = {c} /\ sock[c] = "stalled"

\* SendMessage returns, even when a host vanishes in the middle of a write: the active
\* check closes that connection without waiting for the lock that the sender holds,
\* unless it has lost it.
SendsReturn == \A p \in Callers : Sending(p) ~> ~Sending(p) \/ Abandoned

\* Accept gets the lock of its bucket although senders keep it while they write, to hosts
\* that have vanished too.
AcceptReturns == \A c \in Conns : c \in accepting ~> c \notin accepting \cup adding \/ Abandoned

\* "write message with locker": no connection has two writers at a time.
NoWritePanic == \A p \in Callers : pc[p] # "concurrent write"

\* "mark with locker", "get with locker": no attribute map is read while it is written.
NoMapFault == \A p \in Callers : pc[p] # "concurrent map"
=============================================================================
