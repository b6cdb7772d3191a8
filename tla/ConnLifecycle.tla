---------------------------- MODULE ConnLifecycle ----------------------------
(***************************************************************************)
(* The life of the websocket connections of one router: face/router.go,    *)
(* face/manager.go, face/bucket.go, face/conn.go and face/remote.go.       *)
(*                                                                         *)
(* Every goroutine that touches a connection is a process here:            *)
(*   - Router.Entry, one per upgraded request        (entry[c]);           *)
(*   - WSConn.readClientDataProcess, one per connection     (reader[c]);   *)
(*   - the time.AfterFunc goroutine of Entry, one per connection (pc[c]);  *)
(*   - the application goroutines that close connections  (pc[p]);         *)
(*   - the active check ticker, one per bucket            (tick[b]).       *)
(* One action is one access to the shared state: the maps of the buckets,  *)
(* their counters and locks, the remote address map and the sockets.       *)
(*                                                                         *)
(* A connection is named by its connect id.  GenConnId counts upwards, so  *)
(* the id is unique; a custom cbForGenConnId is assumed to be so too.      *)
(* Message contents, tags and properties are left to Broadcast: no guard   *)
(* of the code modelled here reads them.  So are the groups: the           *)
(* connections here are in no group (GetGroupId() is 0), so that           *)
(* resetConnGroupId and CloseWithMessage return from it at once; that both *)
(* wait for the lock of a group otherwise is the subject of Groups.        *)
(***************************************************************************)
EXTENDS Integers, FiniteSets

CONSTANTS
  MaxConns,         \* bound on the number of connections accepted
  Buckets,          \* RouterCfg.Buckets
  Addrs,            \* remote addresses of the peers
  NoAddr,           \* the empty string of WSConn.remoteAddr
  AddrReuse,        \* may a peer come back from the address of a dead socket?
  Callers,          \* application goroutines that close connections
  CheckActive,      \* RouterCfg.CheckActiveRate > 0: buckets run a ticker
  Writes,           \* does the application send messages through the buckets?
  Stalls,           \* may a peer stop reading, so that writes to it block?
  IdResults,        \* what cbForGenConnId may give: an "id", or "none" (<= 0)
  ConnectedResults, \* what cbForConnected may do: "ok" or "error"
  ReadResults       \* what cbForReadMessage may do: "ok" or "panic"

Conns     == 1 .. MaxConns
NoConn    == 0                      \* the zero of a Go map lookup that fails
BucketIds == 0 .. (Buckets - 1)
Procs     == Callers \cup Conns     \* goroutine c is the AfterFunc of c

ASSUME ConstantsAssumption ==
  /\ MaxConns \in Nat \ {0} /\ Buckets \in Nat \ {0}
  /\ NoAddr \notin Addrs
  /\ AddrReuse \in BOOLEAN /\ CheckActive \in BOOLEAN
  /\ Writes \in BOOLEAN /\ Stalls \in BOOLEAN
  /\ IdResults \in SUBSET {"id", "none"}
  /\ Callers \cap (Conns \cup {NoConn}) = {}
  /\ ConnectedResults \in SUBSET {"ok", "error"}
  /\ ReadResults \in SUBSET {"ok", "panic"}

VARIABLES
  connectId,     \* Manager.connectId; it numbers an upgrade that got no id as well
  sock,          \* the websocket.Conn of each connection, as the server sees it
  addr,          \* its RemoteAddr()
  stalled,       \* open connections whose peer does not read: a write blocks
  act,           \* WSConn.activeTime: "new" is zero, "recent" under 120 seconds
  entry,         \* where Router.Entry is
  reader,        \* where readClientDataProcess is
  locked,        \* the lock of each bucket
  connMap,       \* Bucket.connMap
  connRemoteMap, \* Bucket.connRemoteMap
  connCount,     \* Bucket.connCount
  sending,       \* the connection that a send of the bucket is writing to
  remote,        \* Remote.remoteAddrMap
  pc,            \* where a closing goroutine is
  target,        \* the connect id it closes
  ws,            \* the websocket it was given (CloseWithMessage only)
  found,         \* did CloseConnectByIds return its address?
  tick,          \* where the active check of a bucket is
  tickConn,      \* the connection it looks at
  tickTodo,      \* the entries its range loop has not produced yet
  detached,      \* does the loop range over a map that was replaced?
  crashed        \* the Go runtime has stopped the program

envVars  == <<connectId, sock, addr, stalled, act>>
mapVars  == <<connMap, connRemoteMap, connCount, locked, sending>>
callVars == <<pc, target, ws, found>>
tickVars == <<tick, tickConn, tickTodo, detached>>
vars == <<envVars, entry, reader, mapVars, remote, callVars, tickVars, crashed>>

-----------------------------------------------------------------------------
(* The state shared by the goroutines.                                     *)

BucketOf(c) == c % Buckets

\* The peer has not gone and the server has not closed the socket.
Up(c) == sock[c] \in {"open", "closing"}

\* WSConn.remoteAddr: empty until Accept has called SetRemoteAddr.
RemoteAddrOf(c) == IF entry[c] \in {"none", "spawned"} THEN NoAddr ELSE addr[c]

\* delete(m, a) on an address map, which the code guards against an empty a.
WithoutAddr(m, a) == IF a = NoAddr THEN m ELSE [m EXCEPT ![a] = NoConn]

\* delete(f.connRemoteMap, remoteAddr) and delete(f.connMap, connId).
DropFromBucket(c) ==
  LET b == BucketOf(c) IN
  /\ connMap' = [connMap EXCEPT ![b] = @ \ {c}]
  /\ connRemoteMap' = [connRemoteMap EXCEPT ![b] = WithoutAddr(@, RemoteAddrOf(c))]

\* Reads and writes of the socket fail from now on, those too that are under way.
EndSocket(c, as) ==
  /\ sock' = [sock EXCEPT ![c] = as]
  /\ stalled' = stalled \ {c}

\* websocket.Conn.Close.
CloseSocket(c) == EndSocket(c, "closed")

\* activeTime = now.  Only the active check reads it, so only then it is kept.
Touch(c) == act' = [act EXCEPT ![c] = IF CheckActive THEN "recent" ELSE @]

\* Remote.DelRemote.
DelRemote(a) == remote' = WithoutAddr(remote, a)

Init ==
  /\ connectId = 0
  /\ sock = [c \in Conns |-> "none"]
  /\ addr = [c \in Conns |-> NoAddr]
  /\ stalled = {}
  /\ act = [c \in Conns |-> "new"]
  /\ entry = [c \in Conns |-> "none"]
  /\ reader = [c \in Conns |-> "none"]
  /\ locked = [b \in BucketIds |-> FALSE]
  /\ connMap = [b \in BucketIds |-> {}]
  /\ connRemoteMap = [b \in BucketIds |-> [a \in Addrs |-> NoConn]]
  /\ connCount = [b \in BucketIds |-> 0]
  /\ sending = [b \in BucketIds |-> NoConn]
  /\ remote = [a \in Addrs |-> NoConn]
  /\ pc = [p \in Procs |-> IF p \in Callers THEN "idle" ELSE "unarmed"]
  /\ target = [p \in Procs |-> NoConn]
  /\ ws = [p \in Procs |-> NoConn]
  /\ found = [p \in Procs |-> FALSE]
  /\ tick = [b \in BucketIds |-> "idle"]
  /\ tickConn = [b \in BucketIds |-> NoConn]
  /\ tickTodo = [b \in BucketIds |-> {}]
  /\ detached = [b \in BucketIds |-> FALSE]
  /\ crashed = FALSE

-----------------------------------------------------------------------------
(* The peers: connecting, going away, staying silent.                      *)

\* An address is free once no socket the server still reads from has it.
AddrFree(a) == \A d \in Conns : addr[d] = a => AddrReuse /\ ~Up(d)

\* Router.Entry up to `go this.readClientDataProcess()`: Upgrade, GenConnId,
\* GetBucket, NewWSConn.  The reader runs from here on.
Upgrade(c, a) ==
  /\ c = connectId + 1 /\ "id" \in IdResults
  /\ AddrFree(a)
  /\ connectId' = c
  /\ sock' = [sock EXCEPT ![c] = "open"]
  /\ addr' = [addr EXCEPT ![c] = a]
  /\ entry' = [entry EXCEPT ![c] = "spawned"]
  /\ reader' = [reader EXCEPT ![c] = "reading"]
  /\ UNCHANGED <<stalled, act, mapVars, remote, callVars, tickVars, crashed>>

\* newConnId <= 0: Entry aborts the request and returns.  The websocket stays open, and
\* nobody reads it or has it in a map.
UpgradeAborted(c, a) ==
  /\ c = connectId + 1 /\ "none" \in IdResults
  /\ AddrFree(a)
  /\ connectId' = c
  /\ sock' = [sock EXCEPT ![c] = "open"]
  /\ addr' = [addr EXCEPT ![c] = a]
  /\ entry' = [entry EXCEPT ![c] = "aborted"]
  /\ UNCHANGED <<stalled, act, reader, mapVars, remote, callVars, tickVars, crashed>>

\* The peer disconnects or the network fails.
PeerGone(c) ==
  /\ Up(c)
  /\ EndSocket(c, "broken")
  /\ UNCHANGED <<connectId, addr, act, entry, reader, mapVars, remote,
                 callVars, tickVars, crashed>>

\* The peer stops reading, its network does not tell, and the buffers fill up ...
Stall(c) ==
  /\ Stalls /\ sock[c] = "open" /\ c \notin stalled
  /\ stalled' = stalled \cup {c}
  /\ UNCHANGED <<connectId, sock, addr, act, entry, reader, mapVars, remote, callVars,
                 tickVars, crashed>>

\* ... and reads again.
Resume(c) ==
  /\ c \in stalled
  /\ stalled' = stalled \ {c}
  /\ UNCHANGED <<connectId, sock, addr, act, entry, reader, mapVars, remote, callVars,
                 tickVars, crashed>>

\* DefaultHeartBeatRate seconds pass without a read or a write.
Expire(c) ==
  /\ CheckActive /\ sock[c] # "none" /\ act[c] # "stale"
  /\ act' = [act EXCEPT ![c] = "stale"]
  /\ UNCHANGED <<connectId, sock, addr, stalled, entry, reader, mapVars, remote,
                 callVars, tickVars, crashed>>

-----------------------------------------------------------------------------
(* Manager.Accept, after NewWSConn, and the end of Router.Entry.           *)

SetRemoteAddr(c) ==
  /\ entry[c] = "spawned"
  /\ entry' = [entry EXCEPT ![c] = "addressed"]
  /\ UNCHANGED <<envVars, reader, mapVars, remote, callVars, tickVars, crashed>>

\* Mutant: Accept does not register the address.
AddRemoteForgotten(c) ==
  /\ entry[c] = "addressed"
  /\ entry' = [entry EXCEPT ![c] = "listed"]
  /\ UNCHANGED <<envVars, reader, mapVars, remote, callVars, tickVars, crashed>>

AddRemote(c) ==
  /\ entry[c] = "addressed"
  /\ entry' = [entry EXCEPT ![c] = "listed"]
  /\ remote' = [remote EXCEPT ![addr[c]] = c]
  /\ UNCHANGED <<envVars, reader, mapVars, callVars, tickVars, crashed>>

\* Bucket.AddConnect takes the lock and writes both maps; a range loop over the map may
\* produce an entry that is inserted meanwhile, or not ...
AddConnectMaps(c) ==
  LET b == BucketOf(c) IN
  /\ entry[c] = "listed" /\ ~locked[b]
  /\ entry' = [entry EXCEPT ![c] = "mapped"]
  /\ locked' = [locked EXCEPT ![b] = TRUE]
  /\ connMap' = [connMap EXCEPT ![b] = @ \cup {c}]
  /\ connRemoteMap' = [connRemoteMap EXCEPT ![b] = [@ EXCEPT ![addr[c]] = c]]
  /\ \/ UNCHANGED tickTodo
     \/ /\ tick[b] # "idle" /\ ~detached[b]
        /\ tickTodo' = [tickTodo EXCEPT ![b] = @ \cup {c}]
  /\ UNCHANGED <<envVars, reader, connCount, sending, remote, callVars, tick, tickConn,
                 detached, crashed>>

\* ... counts and unlocks; Entry then arms the timer and returns.
AddConnectCount(c) ==
  LET b == BucketOf(c) IN
  /\ entry[c] = "mapped"
  /\ entry' = [entry EXCEPT ![c] = "done"]
  /\ connCount' = [connCount EXCEPT ![b] = @ + 1]
  /\ locked' = [locked EXCEPT ![b] = FALSE]
  /\ pc' = [pc EXCEPT ![c] = "armed"]
  /\ UNCHANGED <<envVars, reader, connMap, connRemoteMap, sending, remote, target, ws,
                 found, tickVars, crashed>>

-----------------------------------------------------------------------------
(* WSConn.readOneMessageData, called in a loop by readClientDataProcess.   *)

\* A message arrives and the read callback runs; a panic of the callback is
\* recovered and ends the loop.  activeTime is updated by a defer.
ReadMessage(c) ==
  /\ reader[c] = "reading" /\ Up(c)
  /\ \E r \in ReadResults :
       reader' = [reader EXCEPT ![c] = IF r = "ok" THEN "reading" ELSE "panicked"]
  /\ Touch(c)
  /\ UNCHANGED <<connectId, sock, addr, stalled, entry, mapVars, remote, callVars,
                 tickVars, crashed>>

\* Mutant: a read that times out counts as a failed one.
ReadTimesOut(c) == sock[c] # "none"

\* Read returns an error once the peer is gone or the server closed the socket.
ReadFails(c) == sock[c] \in {"broken", "closed"}

ReadError(c) ==
  /\ reader[c] = "reading" /\ ReadFails(c)
  /\ reader' = [reader EXCEPT ![c] = "failed"]
  /\ UNCHANGED <<envVars, entry, mapVars, remote, callVars, tickVars, crashed>>

\* Mutant: the read loop forgets the address map.
ReaderKeepsRemote(c) ==
  /\ reader[c] = "failed"
  /\ reader' = [reader EXCEPT ![c] = "unlisted"]
  /\ UNCHANGED <<envVars, entry, mapVars, remote, callVars, tickVars, crashed>>

ReaderDelRemote(c) ==
  /\ reader[c] = "failed"
  /\ reader' = [reader EXCEPT ![c] = "unlisted"]
  /\ DelRemote(RemoteAddrOf(c))
  /\ UNCHANGED <<envVars, entry, mapVars, callVars, tickVars, crashed>>

\* The closed callback of the application runs.
ReaderClosedCB(c) ==
  /\ reader[c] = "unlisted"
  /\ reader' = [reader EXCEPT ![c] = "told"]
  /\ UNCHANGED <<envVars, entry, mapVars, remote, callVars, tickVars, crashed>>

\* Bucket.CloseConn: lock and delete ...
CloseConnMaps(c) ==
  LET b == BucketOf(c) IN
  /\ reader[c] = "told" /\ ~locked[b]
  /\ reader' = [reader EXCEPT ![c] = "unmapped"]
  /\ locked' = [locked EXCEPT ![b] = TRUE]
  /\ DropFromBucket(c)
  /\ UNCHANGED <<envVars, entry, connCount, sending, remote, callVars, tickVars,
                 crashed>>

\* Mutant: no Unlock after the count.
CloseConnKeepsLock(c) ==
  LET b == BucketOf(c) IN
  /\ reader[c] = "unmapped"
  /\ reader' = [reader EXCEPT ![c] = "counted"]
  /\ connCount' = [connCount EXCEPT ![b] = Cardinality(connMap[b])]
  /\ UNCHANGED <<envVars, entry, connMap, connRemoteMap, locked, sending, remote,
                 callVars, tickVars, crashed>>

\* ... store the length of the map as the new count and unlock.  The length is
\* read and stored in one step: a count that came out too high by an unlocked
\* delete in between would only keep freeRunMemory from running.
CloseConnCount(c) ==
  LET b == BucketOf(c) IN
  /\ reader[c] = "unmapped"
  /\ reader' = [reader EXCEPT ![c] = "counted"]
  /\ connCount' = [connCount EXCEPT ![b] = Cardinality(connMap[b])]
  /\ locked' = [locked EXCEPT ![b] = FALSE]
  /\ UNCHANGED <<envVars, entry, connMap, connRemoteMap, sending, remote, callVars,
                 tickVars, crashed>>

\* The deferred conn.Close() of CloseConn runs last.
CloseConnSocket(c) ==
  /\ reader[c] = "counted"
  /\ reader' = [reader EXCEPT ![c] = "done"]
  /\ CloseSocket(c)
  /\ UNCHANGED <<connectId, addr, act, entry, mapVars, remote, callVars,
                 tickVars, crashed>>

-----------------------------------------------------------------------------
(* Manager.CloseConnect and Manager.CloseWithMessage.                      *)

Goto(p, at) == pc' = [pc EXCEPT ![p] = at]

\* Mutant: every call ends like one of the application.
ReturnIdle(p) ==
  /\ Goto(p, "idle")
  /\ target' = [target EXCEPT ![p] = NoConn]
  /\ ws' = [ws EXCEPT ![p] = NoConn]
  /\ found' = [found EXCEPT ![p] = FALSE]

\* Where the goroutine goes when the call returns: an application goroutine is
\* free again, the timer of Entry calls cbForClosed.  The locals of the call go.
Return(p) ==
  /\ Goto(p, IF p \in Callers THEN "idle" ELSE "refused")
  /\ target' = [target EXCEPT ![p] = NoConn]
  /\ ws' = [ws EXCEPT ![p] = NoConn]
  /\ found' = [found EXCEPT ![p] = FALSE]

StartCloseConnect(p, id) ==
  /\ p \in Callers /\ pc[p] = "idle" /\ id <= connectId
  /\ Goto(p, "find")
  /\ target' = [target EXCEPT ![p] = id]
  /\ UNCHANGED <<envVars, entry, reader, mapVars, remote, ws, found, tickVars, crashed>>

StartCloseWithMessage(p, c) ==
  /\ p \in Callers /\ pc[p] = "idle" /\ ~(entry[c] \in {"none", "aborted"})
  /\ Goto(p, "write")
  /\ ws' = [ws EXCEPT ![p] = c]
  /\ UNCHANGED <<envVars, entry, reader, mapVars, remote, target, found, tickVars,
                 crashed>>

\* WSConn.Close, called by the application on the connection it holds, or the end of its
\* CloseWithMessage, which closes the socket whatever became of the close frame.
AppClose(p, c) ==
  /\ p \in Callers /\ pc[p] = "idle" /\ Up(c) /\ entry[c] # "aborted"
  /\ CloseSocket(c)
  /\ UNCHANGED <<connectId, addr, act, entry, reader, mapVars, remote,
                 callVars, tickVars, crashed>>

\* A tenth of a second after Entry: cbForConnected; an error of the callback
\* makes the timer call CloseWithMessage.
Connected(c) ==
  /\ pc[c] = "armed"
  /\ \/ "ok" \in ConnectedResults /\ Goto(c, "done") /\ UNCHANGED ws
     \/ "error" \in ConnectedResults /\ Goto(c, "write") /\ ws' = [ws EXCEPT ![c] = c]
  /\ UNCHANGED <<envVars, entry, reader, mapVars, remote, target, found, tickVars,
                 crashed>>

\* The close frame, written with no deadline: the call waits until the peer reads.  Once
\* the frame is out, gorilla refuses every further write.
WriteClose(p) ==
  /\ pc[p] = "write" /\ ws[p] \notin stalled
  /\ \/ /\ sock[ws[p]] = "open"
        /\ sock' = [sock EXCEPT ![ws[p]] = "closing"]
        /\ Goto(p, "lookup")
        /\ UNCHANGED <<target, ws, found>>
     \/ /\ sock[ws[p]] # "open"
        /\ Return(p)
        /\ UNCHANGED sock
  /\ UNCHANGED <<connectId, addr, stalled, act, entry, reader, mapVars, remote,
                 tickVars, crashed>>

\* getConnIdByRemoteAddr.
LookupRemote(p) ==
  LET id == remote[addr[ws[p]]] IN
  /\ pc[p] = "lookup"
  /\ \/ id = NoConn /\ Return(p)
     \/ /\ id # NoConn
        /\ Goto(p, "find")
        /\ target' = [target EXCEPT ![p] = id]
        /\ UNCHANGED <<ws, found>>
  /\ UNCHANGED <<envVars, entry, reader, mapVars, remote, tickVars, crashed>>

-----------------------------------------------------------------------------
(* Bucket.CloseConnectByIds, which takes no lock, and DelRemote after it.  *)

\* Mutant: an id that is not in the bucket counts as closed.
FindConnAlways(p) ==
  LET there == target[p] \in connMap[BucketOf(target[p])] IN
  /\ pc[p] = "find"
  /\ found' = [found EXCEPT ![p] = TRUE]
  /\ Goto(p, IF there THEN "close" ELSE "check")
  /\ UNCHANGED <<envVars, entry, reader, mapVars, remote, target, ws, tickVars,
                 crashed>>

\* Mutant: the connection is deleted without being closed first.
FindConnSkipsClose(p) ==
  LET there == target[p] \in connMap[BucketOf(target[p])] IN
  /\ pc[p] = "find"
  /\ found' = [found EXCEPT ![p] = there]
  /\ Goto(p, IF there THEN "delete" ELSE "check")
  /\ UNCHANGED <<envVars, entry, reader, mapVars, remote, target, ws, tickVars,
                 crashed>>

FindConn(p) ==
  LET there == target[p] \in connMap[BucketOf(target[p])] IN
  /\ pc[p] = "find"
  /\ found' = [found EXCEPT ![p] = there]
  /\ Goto(p, IF there THEN "close" ELSE "check")
  /\ UNCHANGED <<envVars, entry, reader, mapVars, remote, target, ws, tickVars,
                 crashed>>

\* Mutant: the connection is found and deleted, but not closed.
CloseFoundForgotten(p) ==
  /\ pc[p] = "close"
  /\ Goto(p, "delete")
  /\ UNCHANGED <<envVars, entry, reader, mapVars, remote, target, ws, found, tickVars,
                 crashed>>

CloseFound(p) ==
  /\ pc[p] = "close"
  /\ Goto(p, "delete")
  /\ CloseSocket(target[p])
  /\ UNCHANGED <<connectId, addr, act, entry, reader, mapVars, remote,
                 target, ws, found, tickVars, crashed>>

DeleteFound(p) ==
  /\ pc[p] = "delete"
  /\ Goto(p, "count")
  /\ DropFromBucket(target[p])
  /\ UNCHANGED <<envVars, entry, reader, connCount, locked, sending, remote, target,
                 ws, found, tickVars, crashed>>

CountFound(p) ==
  LET b == BucketOf(target[p]) IN
  /\ pc[p] = "count"
  /\ connCount' = [connCount EXCEPT ![b] = @ - 1]
  /\ Goto(p, "check")
  /\ UNCHANGED <<envVars, entry, reader, connMap, connRemoteMap, locked, sending,
                 remote, target, ws, found, tickVars, crashed>>

\* if f.connCount <= 0 ...
CheckCount(p) ==
  /\ pc[p] = "check"
  /\ Goto(p, IF connCount[BucketOf(target[p])] <= 0 THEN "reset" ELSE "unlist")
  /\ UNCHANGED <<envVars, entry, reader, mapVars, remote, target, ws, found, tickVars,
                 crashed>>

\* ... atomic.StoreInt64(&f.connCount, 0).
ResetCount(p) ==
  /\ pc[p] = "reset"
  /\ connCount' = [connCount EXCEPT ![BucketOf(target[p])] = 0]
  /\ Goto(p, "unlist")
  /\ UNCHANGED <<envVars, entry, reader, connMap, connRemoteMap, locked, sending,
                 remote, target, ws, found, tickVars, crashed>>

\* CloseWithMessage deletes the address of the socket it was given, CloseConnect the
\* one CloseConnectByIds returned, if any.
Unlist(p) ==
  /\ pc[p] = "unlist"
  /\ DelRemote(CASE ws[p] # NoConn -> addr[ws[p]]
                 [] found[p] /\ ws[p] = NoConn -> addr[target[p]]
                 [] OTHER -> NoAddr)
  /\ Return(p)
  /\ UNCHANGED <<envVars, entry, reader, mapVars, tickVars, crashed>>

\* The timer of a refused connection calls cbForClosed and ends.
TimerClosedCB(c) ==
  /\ pc[c] = "refused"
  /\ Goto(c, "done")
  /\ UNCHANGED <<envVars, entry, reader, mapVars, remote, target, ws, found, tickVars,
                 crashed>>

-----------------------------------------------------------------------------
(* Bucket.sendMessageByConnIds and the loop of Bucket.SendMessage keep the *)
(* lock of the bucket over all their writes.  Whom they write to is the    *)
(* subject of Broadcast.                                                   *)

\* The lock is taken and the first write begins.
WriteBegin(c) ==
  LET b == BucketOf(c) IN
  /\ Writes /\ c \in connMap[b] /\ ~locked[b]
  /\ locked' = [locked EXCEPT ![b] = TRUE]
  /\ sending' = [sending EXCEPT ![b] = c]
  /\ UNCHANGED <<envVars, entry, reader, connMap, connRemoteMap, connCount, remote,
                 callVars, tickVars, crashed>>

\* A write has no deadline.  activeTime is updated by a defer when it returns, with or
\* without an error.
WriteOver(b) ==
  /\ sending[b] # NoConn /\ sending[b] \notin stalled
  /\ Touch(sending[b])

\* The next connection; that a call comes to each of them once, and that a loop over a map
\* that was replaced meanwhile goes on with the old one, is left to Broadcast ...
WriteNext(b, c) ==
  /\ WriteOver(b)
  /\ c \in connMap[b] /\ c # sending[b]
  /\ sending' = [sending EXCEPT ![b] = c]
  /\ UNCHANGED <<connectId, sock, addr, stalled, entry, reader, connMap, connRemoteMap,
                 connCount, locked, remote, callVars, tickVars, crashed>>

\* ... or the end.
WriteEnd(b) ==
  /\ WriteOver(b)
  /\ locked' = [locked EXCEPT ![b] = FALSE]
  /\ sending' = [sending EXCEPT ![b] = NoConn]
  /\ UNCHANGED <<connectId, sock, addr, stalled, entry, reader, connMap, connRemoteMap,
                 connCount, remote, callVars, tickVars, crashed>>

\* NoConn stands for the send of the bucket here.
Writers(c) ==
  {p \in Procs : pc[p] = "write" /\ ws[p] = c}
    \cup (IF sending[BucketOf(c)] = c THEN {NoConn} ELSE {})

\* Two writes to an open websocket overlap: gorilla panics with "concurrent write to
\* websocket connection", and no goroutine that closes or sends recovers.
WriteFault(c) ==
  /\ sock[c] = "open"
  /\ \E p, q \in Writers(c) : p # q
  /\ crashed' = TRUE
  /\ UNCHANGED <<envVars, entry, reader, mapVars, remote, callVars, tickVars>>

-----------------------------------------------------------------------------
(* Bucket.cbForCheckActiveConn and closeConnect, run by the ticker.        *)

\* Mutant: any use, however long ago, makes a connection active.
ConnWasActive(c) == act[c] # "new"

\* activeTime is zero until the first read or write, so a new connection is not
\* active either.
ConnIsActive(c) == act[c] = "recent"

\* What the range loop may still produce: Go skips entries deleted meanwhile, but
\* a map that freeRunMemory replaced is no longer deleted from.
Remaining(b) == IF detached[b] THEN tickTodo[b] ELSE tickTodo[b] \cap connMap[b]

TickStart(b) ==
  /\ CheckActive /\ tick[b] = "idle"
  /\ tick' = [tick EXCEPT ![b] = "scan"]
  /\ tickTodo' = [tickTodo EXCEPT ![b] = connMap[b]]
  /\ detached' = [detached EXCEPT ![b] = FALSE]
  /\ UNCHANGED <<envVars, entry, reader, mapVars, remote, callVars, tickConn, crashed>>

TickNext(b) ==
  /\ tick[b] = "scan"
  /\ \E c \in Remaining(b) :
       /\ tickTodo' = [tickTodo EXCEPT ![b] = @ \ {c}]
       /\ tickConn' = [tickConn EXCEPT ![b] = c]
       /\ tick' = [tick EXCEPT ![b] = IF ConnIsActive(c) THEN "scan" ELSE "close"]
  /\ UNCHANGED <<envVars, entry, reader, mapVars, remote, callVars, detached, crashed>>

TickEnd(b) ==
  /\ tick[b] = "scan" /\ Remaining(b) = {}
  /\ tick' = [tick EXCEPT ![b] = "idle"]
  /\ tickTodo' = [tickTodo EXCEPT ![b] = {}]
  /\ tickConn' = [tickConn EXCEPT ![b] = NoConn]
  /\ UNCHANGED <<envVars, entry, reader, mapVars, remote, callVars, detached, crashed>>

TickClose(b) ==
  /\ tick[b] = "close"
  /\ tick' = [tick EXCEPT ![b] = "delete"]
  /\ CloseSocket(tickConn[b])
  /\ UNCHANGED <<connectId, addr, act, entry, reader, mapVars, remote,
                 callVars, tickConn, tickTodo, detached, crashed>>

TickDelete(b) ==
  /\ tick[b] = "delete"
  /\ tick' = [tick EXCEPT ![b] = "count"]
  /\ DropFromBucket(tickConn[b])
  /\ UNCHANGED <<envVars, entry, reader, connCount, locked, sending, remote, callVars,
                 tickConn, tickTodo, detached, crashed>>

TickCount(b) ==
  /\ tick[b] = "count"
  /\ tick' = [tick EXCEPT ![b] = "check"]
  /\ connCount' = [connCount EXCEPT ![b] = @ - 1]
  /\ UNCHANGED <<envVars, entry, reader, connMap, connRemoteMap, locked, sending,
                 remote, callVars, tickConn, tickTodo, detached, crashed>>

\* Bucket.freeRunMemory replaces both maps by empty ones; a loop over connMap keeps
\* the old one.
FreeRunMemory(b) ==
  /\ connMap' = [connMap EXCEPT ![b] = {}]
  /\ connRemoteMap' = [connRemoteMap EXCEPT ![b] = [a \in Addrs |-> NoConn]]
  /\ tickTodo' = [tickTodo EXCEPT ![b] = Remaining(b)]
  /\ detached' = [detached EXCEPT ![b] = TRUE]

\* if f.connCount <= 0 { f.freeRunMemory() }
TickFree(b) ==
  /\ tick[b] = "check"
  /\ tick' = [tick EXCEPT ![b] = "scan"]
  /\ IF connCount[b] <= 0
       THEN FreeRunMemory(b)
       ELSE UNCHANGED <<connMap, connRemoteMap, tickTodo, detached>>
  /\ UNCHANGED <<envVars, entry, reader, connCount, locked, sending, remote, callVars,
                 tickConn, crashed>>

-----------------------------------------------------------------------------
(* The Go runtime stops the program when it sees an access to a map while  *)
(* another goroutine writes it.  Two accesses may overlap when both are    *)
(* next and no common lock keeps them apart.                               *)

LockedWrite(b) ==
  /\ ~locked[b]
  /\ \E c \in Conns : BucketOf(c) = b /\ (entry[c] = "listed" \/ reader[c] = "told")

\* NoConn stands for the ticker of the bucket in these sets of goroutines.
UnlockedWriters(b) ==
  {p \in Procs : pc[p] = "delete" /\ BucketOf(target[p]) = b}
    \cup (IF tick[b] = "delete" THEN {NoConn} ELSE {})

UnlockedReaders(b) ==
  {p \in Procs : pc[p] = "find" /\ BucketOf(target[p]) = b}
    \cup (IF tick[b] = "scan" /\ ~detached[b] THEN {NoConn} ELSE {})

\* The runtime does not check an empty map.
MapConflict(b) ==
  LET W == UnlockedWriters(b)
      U == W \cup UnlockedReaders(b)
  IN /\ connMap[b] # {}
     /\ \/ LockedWrite(b) /\ U # {}
        \/ W # {} /\ sending[b] # NoConn           \* the loop of a send,
        \/ W # {} /\ Writes /\ ~locked[b]         \* or its beginning
        \/ \E w \in W : U \ {w} # {}

MapFault(b) ==
  /\ MapConflict(b)
  /\ crashed' = TRUE
  /\ UNCHANGED <<envVars, entry, reader, mapVars, remote, callVars, tickVars>>

-----------------------------------------------------------------------------
EntryStep(c) ==
  SetRemoteAddr(c) \/ AddRemote(c) \/ AddConnectMaps(c) \/ AddConnectCount(c)

ReaderStep(c) ==
  \/ ReadError(c) \/ ReaderDelRemote(c) \/ ReaderClosedCB(c)
  \/ CloseConnMaps(c) \/ CloseConnCount(c) \/ CloseConnSocket(c)

CloserStep(p) ==
  \/ WriteClose(p) \/ LookupRemote(p)
  \/ FindConn(p) \/ CloseFound(p) \/ DeleteFound(p) \/ CountFound(p)
  \/ CheckCount(p) \/ ResetCount(p) \/ Unlist(p)

SendStep(b) == WriteEnd(b) \/ \E c \in Conns : WriteNext(b, c)

TimerStep(c) == Connected(c) \/ TimerClosedCB(c)

TickStep(b) ==
  \/ TickStart(b) \/ TickNext(b) \/ TickEnd(b)
  \/ TickClose(b) \/ TickDelete(b) \/ TickCount(b) \/ TickFree(b)

Outside ==
  \/ \E c \in Conns, a \in Addrs : Upgrade(c, a) \/ UpgradeAborted(c, a)
  \/ \E c \in Conns : \/ PeerGone(c) \/ Stall(c) \/ Resume(c) \/ Expire(c)
                      \/ ReadMessage(c) \/ WriteBegin(c)
  \/ \E p \in Callers, c \in Conns :
       StartCloseConnect(p, c) \/ StartCloseWithMessage(p, c) \/ AppClose(p, c)

\* Nothing is left to happen once every connection of the bound has come and gone.
Finished ==
  /\ \/ crashed
     \/ /\ connectId = MaxConns
        /\ \A c \in Conns : \/ entry[c] = "aborted"
                            \/ reader[c] \in {"done", "panicked"} /\ pc[c] = "done"
  /\ UNCHANGED vars

Next ==
  \/ ~crashed /\ Outside
  \/ \E c \in Conns : ~crashed /\ (EntryStep(c) \/ ReaderStep(c) \/ TimerStep(c))
  \/ \E p \in Procs : ~crashed /\ CloserStep(p)
  \/ \E b \in BucketIds : ~crashed /\ (SendStep(b) \/ TickStep(b) \/ MapFault(b))
  \/ \E c \in Conns : ~crashed /\ WriteFault(c)
  \/ Finished

\* The Go scheduler runs every goroutine that can run, and the clock runs: a socket that
\* is read no more becomes silent.  A Go mutex lets no waiter starve, so whoever wants
\* the lock of a bucket gets it although sends take it again and again.  A send comes to
\* an end.  Nothing is assumed of the peers and of the application.
Fairness ==
  /\ \A c \in Conns : /\ WF_vars(~crashed /\ EntryStep(c))
                      /\ SF_vars(~crashed /\ AddConnectMaps(c))
                      /\ WF_vars(~crashed /\ ReaderStep(c))
                      /\ SF_vars(~crashed /\ CloseConnMaps(c))
                      /\ WF_vars(~crashed /\ TimerStep(c))
  /\ \A p \in Procs : WF_vars(~crashed /\ CloserStep(p))
  /\ \A b \in BucketIds : /\ WF_vars(~crashed /\ WriteEnd(b))
                          /\ WF_vars(~crashed /\ TickStep(b))
  /\ \A c \in Conns : WF_vars(~crashed /\ ReadFails(c) /\ Expire(c))

Spec     == Init /\ [][Next]_vars
FairSpec == Spec /\ Fairness

-----------------------------------------------------------------------------
\* The state keeps its shape; timers never wait for a call like the application's
\* goroutines do, and those never end like a timer.
EnvTypeOK ==
  /\ connectId \in 0 .. MaxConns
  /\ sock \in [Conns -> {"none", "open", "closing", "broken", "closed"}]
  /\ addr \in [Conns -> Addrs \cup {NoAddr}]
  /\ stalled \subseteq Conns
  /\ act \in [Conns -> {"new", "recent", "stale"}]
  /\ crashed \in BOOLEAN

ConnTypeOK ==
  /\ entry \in [Conns -> {"none", "spawned", "addressed", "listed", "mapped", "done",
                         "aborted"}]
  /\ reader \in [Conns -> {"none", "reading", "panicked", "failed", "unlisted",
                          "told", "unmapped", "counted", "done"}]

MapTypeOK ==
  /\ locked \in [BucketIds -> BOOLEAN]
  /\ connMap \in [BucketIds -> SUBSET Conns]
  /\ connRemoteMap \in [BucketIds -> [Addrs -> Conns \cup {NoConn}]]
  /\ connCount \in [BucketIds -> Int]
  /\ sending \in [BucketIds -> Conns \cup {NoConn}]
  /\ remote \in [Addrs -> Conns \cup {NoConn}]

Calling == {"write", "lookup", "find", "close", "delete", "count", "check", "reset",
            "unlist"}

CallTypeOK ==
  /\ pc \in [Procs -> Calling \cup {"idle", "unarmed", "armed", "refused", "done"}]
  /\ \A p \in Callers : pc[p] \in Calling \cup {"idle"}
  /\ \A c \in Conns : pc[c] # "idle"
  /\ target \in [Procs -> Conns \cup {NoConn}]
  /\ ws \in [Procs -> Conns \cup {NoConn}]
  /\ found \in [Procs -> BOOLEAN]

TickTypeOK ==
  /\ tick \in [BucketIds -> {"idle", "scan", "close", "delete", "count", "check"}]
  /\ tickConn \in [BucketIds -> Conns \cup {NoConn}]
  /\ tickTodo \in [BucketIds -> SUBSET Conns]
  /\ detached \in [BucketIds -> BOOLEAN]

TypeOK == EnvTypeOK /\ ConnTypeOK /\ MapTypeOK /\ CallTypeOK /\ TickTypeOK

\* What the typing, LiveInBucket and LiveListed rest on.
\* GenConnId hands out the next id, and nothing refers to an id before that.
FreshIds ==
  \A c \in Conns : /\ c <= connectId <=> entry[c] # "none"
                   /\ sock[c] = "none" <=> entry[c] = "none"

Known(c) == c = NoConn \/ entry[c] # "none"

NoDangling ==
  /\ \A p \in Procs : Known(ws[p]) /\ Known(target[p])
  /\ \A a \in Addrs : Known(remote[a])
  /\ \A b \in BucketIds : /\ Known(tickConn[b])
                          /\ \A c \in connMap[b] \cup tickTodo[b] : Known(c)

\* A goroutine in a call has the connection the step it is at needs; the timer of a
\* connection is armed at the end of its Entry.
Closing == {"close", "delete", "count", "check", "reset"}

Wired ==
  /\ \A c \in Conns : entry[c] # "none" => addr[c] \in Addrs
  /\ \A c \in Conns : pc[c] # "unarmed" => entry[c] = "done"
  /\ \A p \in Procs :
       /\ pc[p] \in {"idle", "unarmed", "armed"} => ws[p] = NoConn
       /\ pc[p] \in {"write", "lookup"} => ws[p] # NoConn
       /\ pc[p] \in Closing \cup {"find"} => target[p] # NoConn
       /\ pc[p] = "unlist" /\ found[p] => target[p] # NoConn

\* CloseConnectByIds deletes only what it has closed, and CloseWithMessage leaves
\* no socket as it found it: both write to the socket before they touch a map.
ClosersClosed ==
  \A p \in Procs :
    /\ pc[p] \in {"delete", "count"} => sock[target[p]] = "closed"
    /\ pc[p] \in {"check", "reset", "unlist"} /\ found[p] => sock[target[p]] = "closed"
    /\ pc[p] \in Closing \cup {"lookup", "find", "unlist"} /\ ws[p] # NoConn
         => ~(sock[ws[p]] \in {"none", "open"})

\* The read loop takes a connection out of the maps only when it cannot be read.
ReaderClosed ==
  \A c \in Conns :
    reader[c] \in {"failed", "unlisted", "told", "unmapped", "counted"} => ReadFails(c)

\* A connection is in its bucket from AddConnect on ...
MappedInBucket ==
  \A c \in Conns :
    entry[c] \in {"mapped", "done"} /\ Up(c) => c \in connMap[BucketOf(c)]

\* ... and in the address map from AddRemote on; no two peers share an address.
OwnAddress ==
  \A c, d \in Conns : addr[c] = addr[d] /\ addr[c] # NoAddr => c = d

ListedByAddr ==
  \A c \in Conns :
    entry[c] \in {"listed", "mapped", "done"} /\ sock[c] = "open" => remote[addr[c]] = c

\* A router without a CheckActiveRate starts no ticker.
NoTicker == \A b \in BucketIds : tick[b] = "idle"

Inv == TypeOK /\ FreshIds /\ NoDangling /\ Wired /\ ClosersClosed /\ ReaderClosed
BucketInv  == Inv /\ NoTicker /\ MappedInBucket
AddressInv == Inv /\ OwnAddress /\ ListedByAddr

\* A connection that Router.Entry has accepted stays in its bucket as long as its
\* socket is up, whatever is closed around it: broadcasts and GetConn reach it.
LiveInBucket ==
  \A c \in Conns : entry[c] = "done" /\ Up(c) => c \in connMap[BucketOf(c)]

\* The remote address map leads to every accepted connection that no one has begun
\* to close, so that CloseWithMessage can find it.
LiveListed ==
  \A c \in Conns : entry[c] = "done" /\ sock[c] = "open" => remote[addr[c]] = c

\* When cbForConnected fails, Entry has closed the connection before it tells the
\* application so.
RefusedIsClosed ==
  \A c \in Conns : pc[c] = "refused" => ~Up(c)

\* While no one holds the lock of a bucket its counter is the size of its map.
CountExact ==
  \A b \in BucketIds : ~locked[b] => connCount[b] = Cardinality(connMap[b])

\* A connection whose read loop has ended, and that Entry has accepted, is no
\* longer registered.
NoZombie ==
  \A c \in Conns : entry[c] = "done" /\ reader[c] = "done"
                     => c \notin connMap[BucketOf(c)]

\* The program is never stopped by the Go runtime.
NoMapFault == ~crashed

\* The active check closes only connections that were silent for a heart beat.
ClosesOnlySilent ==
  [][\A b \in BucketIds :
       tick[b] = "scan" /\ tick'[b] = "close" => act[tickConn'[b]] = "stale"]_vars

\* From some time on every peer reads what is written to it.
PeersRead == <>[](stalled = {})

\* A connection that dies after it was accepted is taken out of the bucket and out of
\* the address map and the application is told, unless the program itself stops, or a
\* send keeps the lock of the bucket because it writes to a peer that does not read.
DeadIsCleaned ==
  PeersRead =>
    \A c \in Conns :
      entry[c] = "done" /\ reader[c] = "reading" /\ ReadFails(c)
        ~> \/ crashed
           \/ /\ reader[c] = "done" /\ c \notin connMap[BucketOf(c)]
              /\ remote[addr[c]] # c

\* The active check frees the entries of dead connections in the end, those too
\* that no read loop looks after any more ...
Reclaimed(c) ==
  entry[c] = "done" /\ ReadFails(c) ~> crashed \/ c \notin connMap[BucketOf(c)]

\* ... whatever else is sent and blocked, once nothing is sent to them any more: a write
\* that fails counts as activity.  The check waits for no lock.
DeadIsReclaimed ==
  \A c \in Conns : <>[](sending[BucketOf(c)] # c) => Reclaimed(c)

\* ... and even if messages are sent to them on and on.
WrittenIsReclaimed == \A c \in Conns : Reclaimed(c)

\* Every close call returns; every upgraded connection with an id is added to its bucket
\* and its connected callback runs, whoever closes, sends and checks meanwhile, provided
\* that the peers read: CloseWithMessage writes to a peer without a deadline, and a send
\* that waits for a peer has the lock of the bucket, which CloseConn needs, and AddConnect.
CallsReturn ==
  PeersRead =>
    /\ \A p \in Callers : pc[p] # "idle" ~> crashed \/ pc[p] = "idle"
    /\ \A c \in Conns : entry[c] \notin {"none", "aborted"} ~> crashed \/ pc[c] = "done"

=============================================================================
