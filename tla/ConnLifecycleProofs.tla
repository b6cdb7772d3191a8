------------------------- MODULE ConnLifecycleProofs -------------------------
(***************************************************************************)
(* Proofs about ConnLifecycle for every number of connections, buckets,    *)
(* addresses and application goroutines.                                   *)
(***************************************************************************)
EXTENDS ConnLifecycle, FiniteSetTheorems, TLAPS

\* GetBucket always finds a bucket: the connect id modulo the number of buckets.
LEMMA BucketInRange ==
  ASSUME NEW c \in Conns \cup {NoConn} PROVE BucketOf(c) \in BucketIds
  BY ConstantsAssumption DEF BucketOf, BucketIds, Conns, NoConn

\* CloseConn stores a number: the map of a bucket is finite.
LEMMA BucketSizeIsInt == ASSUME NEW S \in SUBSET Conns PROVE Cardinality(S) \in Int
<1>1. IsFiniteSet(Conns)
  BY FS_Interval, ConstantsAssumption DEF Conns
<1>2. IsFiniteSet(S)
  BY <1>1, FS_Subset
<1> QED
  BY <1>2, FS_CardinalityType

\* Application goroutines are no timers, and NoConn is neither.
LEMMA ProcsApart ==
  Callers \cap Conns = {} /\ NoConn \notin Conns /\ NoConn \notin Procs
  BY ConstantsAssumption DEF Conns, NoConn, Procs

\* The maps start empty and the timers unarmed.
LEMMA TypeInit == Init => TypeOK
<1> SUFFICES ASSUME Init PROVE TypeOK
  OBVIOUS
<1>1. EnvTypeOK
  <2>1. connectId \in 0 .. MaxConns
    BY ConstantsAssumption DEF Init
  <2> QED
    BY <2>1 DEF Init, EnvTypeOK
<1>5. ConnTypeOK
  BY DEF Init, ConnTypeOK
<1>2. MapTypeOK
  BY DEF Init, MapTypeOK
<1>3. CallTypeOK
  <2>1. \A p \in Procs : pc[p] \in {"idle", "unarmed"}
    BY DEF Init
  <2>2. \A p \in Callers : pc[p] = "idle"
    BY DEF Init, Procs
  <2>3. \A c \in Conns : pc[c] # "idle"
    BY ConstantsAssumption DEF Init, Procs
  <2> QED
    BY <2>1, <2>2, <2>3 DEF Init, CallTypeOK, Calling
<1>4. TickTypeOK
  BY DEF Init, TickTypeOK
<1> QED
  BY <1>1, <1>2, <1>3, <1>4, <1>5 DEF TypeOK

\* A goroutine in a call goes on to another step of the call ...
LEMMA GotoType ==
  ASSUME CallTypeOK, NEW p \in Procs, NEW at \in Calling, Goto(p, at),
         target' \in [Procs -> Conns \cup {NoConn}],
         ws' \in [Procs -> Conns \cup {NoConn}],
         found' \in [Procs -> BOOLEAN]
  PROVE  CallTypeOK'
<1>1. pc' \in [Procs -> Calling \cup {"idle", "unarmed", "armed", "refused", "done"}]
  BY DEF Goto, CallTypeOK
<1>2. \A q \in Callers : pc'[q] \in Calling \cup {"idle"}
  BY DEF Goto, CallTypeOK, Procs
<1>3. \A c \in Conns : pc'[c] # "idle"
  BY DEF Goto, CallTypeOK, Procs, Calling
<1> QED
  BY <1>1, <1>2, <1>3 DEF CallTypeOK

\* ... and ends it as an application goroutine or as a timer ends.
LEMMA ReturnType ==
  ASSUME CallTypeOK, NEW p \in Procs, Return(p)
  PROVE  CallTypeOK'
<1>1. pc' \in [Procs -> Calling \cup {"idle", "unarmed", "armed", "refused", "done"}]
  BY DEF Return, Goto, CallTypeOK
<1>2. \A q \in Callers : pc'[q] \in Calling \cup {"idle"}
  BY DEF Return, Goto, CallTypeOK, Procs
<1>3. \A c \in Conns : pc'[c] # "idle"
  BY ProcsApart DEF Return, Goto, CallTypeOK, Procs, Calling
<1> QED
  BY <1>1, <1>2, <1>3 DEF CallTypeOK, Return

\* Every step of every goroutine keeps the shape of the state.
LEMMA TypeStep == TypeOK /\ NoDangling /\ Wired /\ [Next]_vars => TypeOK'
<1> SUFFICES ASSUME TypeOK, NoDangling, Wired, [Next]_vars PROVE TypeOK'
  OBVIOUS
<1> USE DEF TypeOK, EnvTypeOK, ConnTypeOK, MapTypeOK, CallTypeOK, TickTypeOK, Calling,
           vars, envVars, mapVars, callVars, tickVars
<1>1. ASSUME NEW c \in Conns, NEW a \in Addrs, Upgrade(c, a) PROVE TypeOK'
  <2>1. EnvTypeOK'
    <3>1. connectId' \in 0 .. MaxConns
      BY <1>1, ConstantsAssumption DEF Upgrade, Conns
    <3> QED
      BY <1>1, <3>1 DEF Upgrade
  <2> QED
    BY <1>1, <2>1 DEF Upgrade
<1>39. ASSUME NEW c \in Conns, NEW a \in Addrs, UpgradeAborted(c, a) PROVE TypeOK'
  <2>1. connectId' \in 0 .. MaxConns
    BY <1>39, ConstantsAssumption DEF UpgradeAborted, Conns
  <2> QED
    BY <1>39, <2>1 DEF UpgradeAborted
<1>2. ASSUME NEW c \in Conns, PeerGone(c) \/ Stall(c) \/ Resume(c) PROVE TypeOK'
  BY <1>2 DEF PeerGone, EndSocket, Stall, Resume
<1>3. ASSUME NEW c \in Conns, Expire(c) PROVE TypeOK'
  BY <1>3 DEF Expire
<1>4. ASSUME NEW c \in Conns, SetRemoteAddr(c) PROVE TypeOK'
  BY <1>4 DEF SetRemoteAddr
<1>5. ASSUME NEW c \in Conns, AddRemote(c) PROVE TypeOK'
  BY <1>5 DEF AddRemote
<1>6. ASSUME NEW c \in Conns, AddConnectMaps(c) PROVE TypeOK'
  <2>1. MapTypeOK'
    <3>1. BucketOf(c) \in BucketIds
      BY BucketInRange
    <3>2. connMap' \in [BucketIds -> SUBSET Conns]
      BY <1>6, <3>1 DEF AddConnectMaps
    <3>3. connRemoteMap' \in [BucketIds -> [Addrs -> Conns \cup {NoConn}]]
      BY <1>6, <3>1 DEF AddConnectMaps
    <3> QED
      BY <1>6, <3>2, <3>3 DEF AddConnectMaps
  <2>2. TickTypeOK'
    BY <1>6 DEF AddConnectMaps
  <2> QED
    BY <1>6, <2>1, <2>2 DEF AddConnectMaps
<1>7. ASSUME NEW c \in Conns, AddConnectCount(c) PROVE TypeOK'
  <2>1. MapTypeOK'
    BY <1>7, BucketInRange DEF AddConnectCount
  <2>2. CallTypeOK'
    BY <1>7, ProcsApart DEF AddConnectCount, Procs
  <2> QED
    BY <1>7, <2>1, <2>2 DEF AddConnectCount
<1>8. ASSUME NEW c \in Conns, ReadMessage(c) PROVE TypeOK'
  BY <1>8 DEF ReadMessage, Touch
<1>9. ASSUME NEW c \in Conns, ReadError(c) PROVE TypeOK'
  BY <1>9 DEF ReadError
<1>10. ASSUME NEW c \in Conns, ReaderDelRemote(c) PROVE TypeOK'
  BY <1>10 DEF ReaderDelRemote, DelRemote, WithoutAddr
<1>11. ASSUME NEW c \in Conns, ReaderClosedCB(c) PROVE TypeOK'
  BY <1>11 DEF ReaderClosedCB
<1>12. ASSUME NEW c \in Conns, CloseConnMaps(c) PROVE TypeOK'
  BY <1>12 DEF CloseConnMaps, DropFromBucket, WithoutAddr
<1>13. ASSUME NEW c \in Conns, CloseConnCount(c) PROVE TypeOK'
  <2>1. MapTypeOK'
    <3>1. Cardinality(connMap[BucketOf(c)]) \in Int
      BY BucketInRange, BucketSizeIsInt
    <3> QED
      BY <1>13, <3>1 DEF CloseConnCount
  <2> QED
    BY <1>13, <2>1 DEF CloseConnCount
<1>14. ASSUME NEW c \in Conns, CloseConnSocket(c) PROVE TypeOK'
  BY <1>14 DEF CloseConnSocket, CloseSocket, EndSocket
<1>15. ASSUME NEW p \in Callers, NEW c \in Conns, StartCloseConnect(p, c) PROVE TypeOK'
  BY <1>15 DEF StartCloseConnect, Goto, Procs
<1>16. ASSUME NEW p \in Callers, NEW c \in Conns, StartCloseWithMessage(p, c) PROVE TypeOK'
  BY <1>16 DEF StartCloseWithMessage, Goto, Procs
<1>17. ASSUME NEW p \in Callers, NEW c \in Conns, AppClose(p, c) PROVE TypeOK'
  BY <1>17 DEF AppClose, CloseSocket, EndSocket
<1>18. ASSUME NEW c \in Conns, Connected(c) PROVE TypeOK'
  <2>1. CASE Goto(c, "done") /\ UNCHANGED ws
    BY <1>18, <2>1, ProcsApart DEF Connected, Goto, Procs
  <2>2. CASE Goto(c, "write") /\ ws' = [ws EXCEPT ![c] = c]
    BY <1>18, <2>2, ProcsApart DEF Connected, Goto, Procs
  <2> QED
    BY <1>18, <2>1, <2>2 DEF Connected
<1>19. ASSUME NEW p \in Procs, WriteClose(p) PROVE TypeOK'
  <2>3. sock' \in [Conns -> {"none", "open", "closing", "broken", "closed"}]
    <3>1. CASE sock' = [sock EXCEPT ![ws[p]] = "closing"]
      BY <3>1
    <3>2. CASE UNCHANGED sock
      BY <3>2
    <3> QED
      BY <1>19, <3>1, <3>2 DEF WriteClose
  <2>1. CASE Goto(p, "lookup") /\ UNCHANGED <<target, ws, found>>
    <3>1. CallTypeOK'
      BY <2>1, GotoType
    <3> QED
      BY <1>19, <2>3, <3>1 DEF WriteClose
  <2>2. CASE Return(p)
    <3>1. CallTypeOK'
      BY <2>2, ReturnType
    <3> QED
      BY <1>19, <2>3, <3>1 DEF WriteClose
  <2> QED
    BY <1>19, <2>1, <2>2 DEF WriteClose
<1>20. ASSUME NEW p \in Procs, LookupRemote(p) PROVE TypeOK'
  <2>1. remote[addr[ws[p]]] \in Conns \cup {NoConn}
    BY <1>20 DEF LookupRemote, NoDangling, Known, Wired
  <2>2. CallTypeOK'
    <3>1. CASE Return(p)
      BY <3>1, ReturnType
    <3>2. CASE /\ Goto(p, "find") /\ UNCHANGED <<ws, found>>
               /\ target' = [target EXCEPT ![p] = remote[addr[ws[p]]]]
      BY <2>1, <3>2, GotoType
    <3> QED
      BY <1>20, <3>1, <3>2 DEF LookupRemote
  <2> QED
    BY <1>20, <2>2 DEF LookupRemote
<1>21. ASSUME NEW p \in Procs, FindConn(p) PROVE TypeOK'
  <2>1. found' \in [Procs -> BOOLEAN]
    <3>1. (target[p] \in connMap[BucketOf(target[p])]) \in BOOLEAN
      OBVIOUS
    <3> QED
      BY <1>21, <3>1 DEF FindConn
  <2>2. CallTypeOK'
    BY <1>21, <2>1, GotoType DEF FindConn
  <2> QED
    BY <1>21, <2>2 DEF FindConn
<1>22. ASSUME NEW p \in Procs, CloseFound(p) PROVE TypeOK'
  <2>1. CallTypeOK'
    BY <1>22, GotoType DEF CloseFound
  <2> QED
    BY <1>22, <2>1 DEF CloseFound, CloseSocket, EndSocket
<1>23. ASSUME NEW p \in Procs, DeleteFound(p) PROVE TypeOK'
  <2>1. CallTypeOK'
    BY <1>23, GotoType DEF DeleteFound
  <2>2. MapTypeOK'
    BY <1>23 DEF DeleteFound, DropFromBucket, WithoutAddr
  <2> QED
    BY <1>23, <2>1, <2>2 DEF DeleteFound
<1>24. ASSUME NEW p \in Procs, CountFound(p) PROVE TypeOK'
  <2>1. BucketOf(target[p]) \in BucketIds
    BY BucketInRange
  <2>2. connCount' \in [BucketIds -> Int]
    BY <1>24, <2>1 DEF CountFound
  <2>3. CallTypeOK'
    BY <1>24, GotoType DEF CountFound
  <2> QED
    BY <1>24, <2>2, <2>3 DEF CountFound
<1>25. ASSUME NEW p \in Procs, CheckCount(p) PROVE TypeOK'
  <2>1. CallTypeOK'
    BY <1>25, GotoType DEF CheckCount
  <2> QED
    BY <1>25, <2>1 DEF CheckCount
<1>26. ASSUME NEW p \in Procs, ResetCount(p) PROVE TypeOK'
  <2>1. BucketOf(target[p]) \in BucketIds
    BY BucketInRange
  <2>2. connCount' \in [BucketIds -> Int]
    BY <1>26, <2>1 DEF ResetCount
  <2>3. CallTypeOK'
    BY <1>26, GotoType DEF ResetCount
  <2> QED
    BY <1>26, <2>2, <2>3 DEF ResetCount
<1>27. ASSUME NEW p \in Procs, Unlist(p) PROVE TypeOK'
  <2>1. CallTypeOK'
    BY <1>27, ReturnType DEF Unlist
  <2>2. MapTypeOK'
    BY <1>27 DEF Unlist, DelRemote, WithoutAddr
  <2> QED
    BY <1>27, <2>1, <2>2 DEF Unlist
<1>28. ASSUME NEW c \in Conns, TimerClosedCB(c) PROVE TypeOK'
  BY <1>28, ProcsApart DEF TimerClosedCB, Goto, Procs
<1>29. ASSUME NEW c \in Conns, WriteBegin(c) PROVE TypeOK'
  BY <1>29, BucketInRange DEF WriteBegin
<1>40. ASSUME NEW b \in BucketIds, SendStep(b) PROVE TypeOK'
  <2>1. act' \in [Conns -> {"new", "recent", "stale"}]
    <3>1. WriteOver(b)
      BY <1>40 DEF SendStep, WriteNext, WriteEnd
    <3>2. CASE act' = [act EXCEPT ![sending[b]] = "recent"]
      BY <3>2
    <3>3. CASE act' = [act EXCEPT ![sending[b]] = act[sending[b]]]
      BY <3>3
    <3> QED
      BY <3>1, <3>2, <3>3 DEF WriteOver, Touch
  <2>2. CASE WriteEnd(b)
    BY <2>1, <2>2 DEF WriteEnd
  <2>3. CASE \E c \in Conns : WriteNext(b, c)
    BY <2>1, <2>3 DEF WriteNext
  <2> QED
    BY <1>40, <2>2, <2>3 DEF SendStep
<1>30. ASSUME NEW b \in BucketIds, TickStart(b) PROVE TypeOK'
  BY <1>30 DEF TickStart
<1>31. ASSUME NEW b \in BucketIds, TickNext(b) PROVE TypeOK'
  BY <1>31 DEF TickNext, Remaining
<1>32. ASSUME NEW b \in BucketIds, TickEnd(b) PROVE TypeOK'
  BY <1>32 DEF TickEnd
<1>33. ASSUME NEW b \in BucketIds, TickClose(b) PROVE TypeOK'
  BY <1>33 DEF TickClose, CloseSocket, EndSocket
<1>34. ASSUME NEW b \in BucketIds, TickDelete(b) PROVE TypeOK'
  BY <1>34 DEF TickDelete, DropFromBucket, WithoutAddr
<1>35. ASSUME NEW b \in BucketIds, TickCount(b) PROVE TypeOK'
  BY <1>35 DEF TickCount
<1>36. ASSUME NEW b \in BucketIds, TickFree(b) PROVE TypeOK'
  <2>1. connMap' \in [BucketIds -> SUBSET Conns]
    BY <1>36 DEF TickFree, FreeRunMemory
  <2>2. connRemoteMap' \in [BucketIds -> [Addrs -> Conns \cup {NoConn}]]
    <3>1. CASE connRemoteMap' = [connRemoteMap EXCEPT ![b] = [a \in Addrs |-> NoConn]]
      BY <3>1
    <3>2. CASE UNCHANGED connRemoteMap
      BY <3>2
    <3> QED
      BY <1>36, <3>1, <3>2 DEF TickFree, FreeRunMemory
  <2>3. tickTodo' \in [BucketIds -> SUBSET Conns]
    <3>1. CASE tickTodo' = [tickTodo EXCEPT ![b] = Remaining(b)]
      BY <3>1 DEF Remaining
    <3>2. CASE UNCHANGED tickTodo
      BY <3>2
    <3> QED
      BY <1>36, <3>1, <3>2 DEF TickFree, FreeRunMemory
  <2>4. detached' \in [BucketIds -> BOOLEAN]
    BY <1>36 DEF TickFree, FreeRunMemory
  <2> QED
    BY <1>36, <2>1, <2>2, <2>3, <2>4 DEF TickFree, FreeRunMemory
<1>37. ASSUME NEW b \in BucketIds, MapFault(b) PROVE TypeOK'
  BY <1>37 DEF MapFault
<1>41. ASSUME NEW c \in Conns, WriteFault(c) PROVE TypeOK'
  BY <1>41 DEF WriteFault
<1>38. CASE UNCHANGED vars
  BY <1>38
<1> QED
  BY <1>1, <1>2, <1>3, <1>4, <1>5, <1>6, <1>7, <1>8, <1>9, <1>10, <1>11,
     <1>12, <1>13, <1>14, <1>15, <1>16, <1>17, <1>18, <1>19, <1>20, <1>21, <1>22,
     <1>23, <1>24, <1>25, <1>26, <1>27, <1>28, <1>29, <1>30, <1>31, <1>32, <1>33,
     <1>34, <1>35, <1>36, <1>37, <1>38, <1>39, <1>40, <1>41
  DEF Next, Outside, EntryStep, ReaderStep, CloserStep, TimerStep, TickStep, Finished

-----------------------------------------------------------------------------
(* Which steps touch which variable.                                       *)

\* A socket changes when the peer comes or goes, and where the server closes it.
LEMMA SockFrame ==
  ASSUME [Next]_vars
  PROVE  \/ UNCHANGED sock
         \/ \E c \in Conns, a \in Addrs : Upgrade(c, a) \/ UpgradeAborted(c, a)
         \/ \E c \in Conns : PeerGone(c) \/ CloseConnSocket(c)
         \/ \E p \in Callers, c \in Conns : AppClose(p, c)
         \/ \E p \in Procs : WriteClose(p) \/ CloseFound(p)
         \/ \E b \in BucketIds : TickClose(b)
  BY DEF Next, vars, envVars, Outside, EntryStep, ReaderStep, CloserStep, TimerStep,
         TickStep, Finished, Expire, ReadMessage, UpgradeAborted, Stall, Resume,
         WriteBegin, SendStep, WriteNext, WriteEnd, WriteOver, WriteFault,
         StartCloseConnect, StartCloseWithMessage, SetRemoteAddr, AddRemote,
         AddConnectMaps, AddConnectCount, ReadError, ReaderDelRemote, ReaderClosedCB,
         CloseConnMaps, CloseConnCount, LookupRemote, FindConn, DeleteFound, CountFound,
         CheckCount, ResetCount, Unlist, Connected, TimerClosedCB, TickStart, TickNext,
         TickEnd, TickDelete, TickCount, TickFree, FreeRunMemory, MapFault

\* Only Router.Entry moves entry, and only Upgrade makes a connection.
LEMMA EntryFrame ==
  ASSUME [Next]_vars
  PROVE  \/ UNCHANGED <<entry, addr, connectId>>
         \/ \E c \in Conns, a \in Addrs : Upgrade(c, a) \/ UpgradeAborted(c, a)
         \/ \E c \in Conns : UNCHANGED <<addr, connectId>> /\ EntryStep(c)
  BY DEF Next, EntryStep, vars, envVars, mapVars, callVars, tickVars, Outside,
         ReaderStep, CloserStep, TimerStep, TickStep, Finished, PeerGone, Expire,
         SetRemoteAddr, AddRemote, AddConnectMaps, AddConnectCount, ReadMessage,
         ReadError, ReaderDelRemote, ReaderClosedCB, CloseConnMaps, CloseConnCount,
         CloseConnSocket, StartCloseConnect, StartCloseWithMessage, AppClose, Connected,
         WriteClose, LookupRemote, FindConn, CloseFound, DeleteFound, CountFound,
         CheckCount, ResetCount, Unlist, TimerClosedCB, UpgradeAborted, Stall, Resume,
         WriteBegin, SendStep, WriteNext, WriteEnd, WriteOver, WriteFault, TickStart,
         TickNext, TickEnd, TickClose, TickDelete, TickCount, TickFree, FreeRunMemory,
         MapFault

\* The calls move by their own steps, and a timer is armed by Entry.
LEMMA CallFrame ==
  ASSUME [Next]_vars
  PROVE  \/ UNCHANGED callVars
         \/ \E c \in Conns : AddConnectCount(c) \/ TimerStep(c)
         \/ \E p \in Callers, c \in Conns : StartCloseConnect(p, c) \/ StartCloseWithMessage(p, c)
         \/ \E p \in Procs : CloserStep(p)
  BY DEF Next, vars, envVars, mapVars, callVars, tickVars, Outside, EntryStep,
         ReaderStep, TickStep, Finished, Upgrade, PeerGone, Expire, SetRemoteAddr,
         AddRemote, AddConnectMaps, ReadMessage, ReadError, ReaderDelRemote,
         ReaderClosedCB, CloseConnMaps, CloseConnCount, CloseConnSocket, AppClose,
         UpgradeAborted, Stall, Resume, WriteBegin, SendStep, WriteNext, WriteEnd,
         WriteOver, WriteFault, TickStart, TickNext, TickEnd, TickClose, TickDelete,
         TickCount, TickFree, FreeRunMemory, MapFault

\* Only Upgrade and the read loop itself move a reader.
LEMMA ReaderFrame ==
  ASSUME [Next]_vars
  PROVE  \/ UNCHANGED reader
         \/ \E c \in Conns, a \in Addrs : Upgrade(c, a)
         \/ \E c \in Conns : ReadMessage(c) \/ ReaderStep(c)
  BY DEF Next, vars, envVars, mapVars, callVars, tickVars, Outside, EntryStep,
         CloserStep, TimerStep, TickStep, Finished, PeerGone, Expire, SetRemoteAddr,
         AddRemote, AddConnectMaps, AddConnectCount, StartCloseConnect,
         StartCloseWithMessage, AppClose, Connected, WriteClose, LookupRemote, FindConn,
         CloseFound, DeleteFound, CountFound, CheckCount, ResetCount, Unlist,
         TimerClosedCB, UpgradeAborted, Stall, Resume, WriteBegin, SendStep, WriteNext,
         WriteEnd, WriteOver, WriteFault, TickStart, TickNext, TickEnd, TickClose,
         TickDelete, TickCount, TickFree, FreeRunMemory, MapFault

\* The map of a bucket changes where connections are added and deleted.
LEMMA MapFrame ==
  ASSUME [Next]_vars
  PROVE  \/ UNCHANGED connMap
         \/ \E c \in Conns : AddConnectMaps(c) \/ CloseConnMaps(c)
         \/ \E p \in Procs : DeleteFound(p)
         \/ \E b \in BucketIds : TickDelete(b) \/ TickFree(b)
  BY DEF Next, vars, envVars, mapVars, callVars, tickVars, Outside, EntryStep,
         ReaderStep, CloserStep, TimerStep, TickStep, Finished, Upgrade, PeerGone,
         Expire, SetRemoteAddr, AddRemote, AddConnectCount, ReadMessage, ReadError,
         ReaderDelRemote, ReaderClosedCB, CloseConnCount, CloseConnSocket,
         StartCloseConnect, StartCloseWithMessage, AppClose, Connected, WriteClose,
         LookupRemote, FindConn, CloseFound, CountFound, CheckCount, ResetCount, Unlist,
         TimerClosedCB, UpgradeAborted, Stall, Resume, WriteBegin, SendStep, WriteNext,
         WriteEnd, WriteOver, WriteFault, TickStart, TickNext, TickEnd, TickClose,
         TickCount, MapFault

\* The address map changes by AddRemote and by the two kinds of DelRemote.
LEMMA RemoteFrame ==
  ASSUME [Next]_vars
  PROVE  \/ UNCHANGED remote
         \/ \E c \in Conns : AddRemote(c) \/ ReaderDelRemote(c)
         \/ \E p \in Procs : Unlist(p)
  BY DEF Next, vars, envVars, mapVars, callVars, tickVars, Outside, EntryStep,
         ReaderStep, CloserStep, TimerStep, TickStep, Finished, Upgrade, PeerGone,
         Expire, SetRemoteAddr, AddConnectMaps, AddConnectCount, ReadMessage, ReadError,
         ReaderClosedCB, CloseConnMaps, CloseConnCount, CloseConnSocket,
         StartCloseConnect, StartCloseWithMessage, AppClose, Connected, WriteClose,
         LookupRemote, FindConn, CloseFound, DeleteFound, CountFound, CheckCount,
         ResetCount, TimerClosedCB, UpgradeAborted, Stall, Resume, WriteBegin, SendStep,
         WriteNext, WriteEnd, WriteOver, WriteFault, TickStart, TickNext, TickEnd,
         TickClose, TickDelete, TickCount, TickFree, FreeRunMemory, MapFault

\* A ticker moves by its own steps; AddConnect may add to what it has left to do.
LEMMA TickFrame ==
  ASSUME [Next]_vars
  PROVE  \/ UNCHANGED tickVars
         \/ \E b \in BucketIds : TickStep(b)
         \/ \E c \in Conns : AddConnectMaps(c)
  BY DEF Next, vars, envVars, mapVars, callVars, tickVars, Outside, EntryStep,
         ReaderStep, CloserStep, TimerStep, Finished, Upgrade, PeerGone, Expire,
         SetRemoteAddr, AddRemote, AddConnectMaps, AddConnectCount, ReadMessage,
         ReadError, ReaderDelRemote, ReaderClosedCB, CloseConnMaps, CloseConnCount,
         CloseConnSocket, StartCloseConnect, StartCloseWithMessage, AppClose, Connected,
         WriteClose, LookupRemote, FindConn, CloseFound, DeleteFound, CountFound,
         CheckCount, ResetCount, Unlist, TimerClosedCB, UpgradeAborted, Stall, Resume,
         WriteBegin, SendStep, WriteNext, WriteEnd, WriteOver, WriteFault, MapFault

-----------------------------------------------------------------------------
(* What one step does to a socket and to an entry.                         *)

\* A socket that was closed or written to is never as it was before, and one that
\* cannot be read is never read again: this side does not reconnect.
LEMMA SockStep ==
  ASSUME TypeOK, FreshIds, [Next]_vars, NEW c \in Conns
  PROVE  /\ sock[c] = "closed" => sock'[c] = "closed"
         /\ ReadFails(c) => ReadFails(c)'
         /\ sock[c] \notin {"none", "open"} => sock'[c] \notin {"none", "open"}
         /\ entry[c] # "none" /\ Up(c)' => Up(c)
         /\ entry[c] # "none" /\ sock'[c] = "open" => sock[c] = "open"
<1> USE DEF TypeOK, EnvTypeOK, ConnTypeOK, ReadFails, Up
<1>1. CASE UNCHANGED sock
  BY <1>1
<1>2. ASSUME NEW d \in Conns, NEW a \in Addrs, Upgrade(d, a) \/ UpgradeAborted(d, a)
      PROVE  sock' = [sock EXCEPT ![d] = "open"] /\ sock[d] = "none" /\ entry[d] = "none"
  BY <1>2 DEF Upgrade, UpgradeAborted, FreshIds, Conns
<1>3. ASSUME NEW d \in Conns, PeerGone(d)
      PROVE  sock' = [sock EXCEPT ![d] = "broken"] /\ Up(d)
  BY <1>3 DEF PeerGone, EndSocket
<1>4. ASSUME NEW p \in Procs, WriteClose(p)
      PROVE  UNCHANGED sock \/ (sock[ws[p]] = "open" /\ sock' = [sock EXCEPT ![ws[p]] = "closing"])
  BY <1>4 DEF WriteClose
<1>5. ASSUME NEW d \in Conns, CloseConnSocket(d) \/ (\E p \in Callers : AppClose(p, d))
      PROVE  sock' = [sock EXCEPT ![d] = "closed"]
  BY <1>5 DEF CloseConnSocket, AppClose, CloseSocket, EndSocket
<1>6. ASSUME NEW p \in Procs, CloseFound(p)
      PROVE  sock' = [sock EXCEPT ![target[p]] = "closed"]
  BY <1>6 DEF CloseFound, CloseSocket, EndSocket
<1>7. ASSUME NEW b \in BucketIds, TickClose(b)
      PROVE  sock' = [sock EXCEPT ![tickConn[b]] = "closed"]
  BY <1>7 DEF TickClose, CloseSocket, EndSocket
<1> QED
  BY <1>1, <1>2, <1>3, <1>4, <1>5, <1>6, <1>7, SockFrame

\* Entry never goes back, and a connection keeps its address.
LEMMA EntryStepOn ==
  ASSUME TypeOK, FreshIds, [Next]_vars, NEW c \in Conns
  PROVE  /\ entry[c] # "none" => entry'[c] # "none" /\ addr'[c] = addr[c]
         /\ entry[c] \in {"done", "aborted"} => entry'[c] = entry[c]
         /\ entry[c] = "none" /\ entry'[c] # "none" => addr'[c] \in Addrs
<1> USE DEF TypeOK, EnvTypeOK, ConnTypeOK
<1>1. CASE UNCHANGED <<entry, addr, connectId>>
  BY <1>1
<1>2. ASSUME NEW d \in Conns, NEW a \in Addrs, Upgrade(d, a) \/ UpgradeAborted(d, a)
      PROVE  /\ entry[d] = "none"
             /\ \E s \in {"spawned", "aborted"} : entry' = [entry EXCEPT ![d] = s]
             /\ addr' = [addr EXCEPT ![d] = a]
  BY <1>2 DEF Upgrade, UpgradeAborted, FreshIds, Conns
<1>3. ASSUME NEW d \in Conns, EntryStep(d)
      PROVE  /\ entry[d] \notin {"none", "done", "aborted"}
             /\ \E s \in {"addressed", "listed", "mapped", "done"} :
                  entry' = [entry EXCEPT ![d] = s]
  BY <1>3 DEF EntryStep, SetRemoteAddr, AddRemote, AddConnectMaps, AddConnectCount
<1> QED
  BY <1>1, <1>2, <1>3, EntryFrame

-----------------------------------------------------------------------------
(* The parts of the invariant, one lemma each.                             *)

\* Ids are handed out in order, and a connection has a socket from then on.
LEMMA FreshStep ==
  ASSUME TypeOK, FreshIds, NoDangling, Wired, ReaderClosed, [Next]_vars
  PROVE  FreshIds'
<1> USE DEF TypeOK, EnvTypeOK, ConnTypeOK, CallTypeOK, TickTypeOK
<1> SUFFICES ASSUME NEW c \in Conns
             PROVE  /\ c <= connectId' <=> entry'[c] # "none"
                    /\ sock'[c] = "none" <=> entry'[c] = "none"
  BY DEF FreshIds
<1>1. ASSUME NEW d \in Conns, NEW a \in Addrs, Upgrade(d, a) \/ UpgradeAborted(d, a)
      PROVE  /\ d = connectId + 1 /\ connectId' = d
             /\ \E s \in {"spawned", "aborted"} : entry' = [entry EXCEPT ![d] = s]
             /\ sock' = [sock EXCEPT ![d] = "open"]
  BY <1>1 DEF Upgrade, UpgradeAborted
<1>2. CASE \E d \in Conns, a \in Addrs : Upgrade(d, a) \/ UpgradeAborted(d, a)
  <2> PICK d \in Conns, a \in Addrs : Upgrade(d, a) \/ UpgradeAborted(d, a)
    BY <1>2
  <2>1. c <= connectId' <=> c <= connectId \/ c = d
    BY <1>1 DEF Conns
  <2>2. entry'[c] # "none" <=> entry[c] # "none" \/ c = d
    BY <1>1
  <2>3. sock'[c] = "none" <=> sock[c] = "none" /\ c # d
    BY <1>1
  <2> QED
    BY <2>1, <2>2, <2>3 DEF FreshIds
<1>3. CASE ~\E d \in Conns, a \in Addrs : Upgrade(d, a) \/ UpgradeAborted(d, a)
  <2>1. connectId' = connectId /\ (entry'[c] = "none" <=> entry[c] = "none")
    <3>1. ASSUME NEW d \in Conns, EntryStep(d)
          PROVE  /\ entry[d] # "none"
                 /\ \E s \in {"addressed", "listed", "mapped", "done"} :
                      entry' = [entry EXCEPT ![d] = s]
      BY <3>1 DEF EntryStep, SetRemoteAddr, AddRemote, AddConnectMaps, AddConnectCount
    <3> QED
      BY <1>3, <3>1, EntryFrame
  <2>2. sock'[c] = "none" <=> sock[c] = "none"
    <3>1. ASSUME NEW d \in Conns, PeerGone(d)
          PROVE  sock' = [sock EXCEPT ![d] = "broken"] /\ sock[d] # "none"
      BY <3>1 DEF PeerGone, EndSocket, Up
    <3>2. ASSUME NEW d \in Conns, CloseConnSocket(d)
          PROVE  sock' = [sock EXCEPT ![d] = "closed"] /\ sock[d] # "none"
      BY <3>2 DEF CloseConnSocket, CloseSocket, EndSocket, ReaderClosed, ReadFails
    <3>3. ASSUME NEW p \in Callers, NEW d \in Conns, AppClose(p, d)
          PROVE  sock' = [sock EXCEPT ![d] = "closed"] /\ sock[d] # "none"
      BY <3>3 DEF AppClose, CloseSocket, EndSocket, Up
    <3>4. ASSUME NEW p \in Procs, WriteClose(p)
          PROVE  UNCHANGED sock
                 \/ (sock[ws[p]] = "open" /\ sock' = [sock EXCEPT ![ws[p]] = "closing"])
      BY <3>4 DEF WriteClose
    <3>5. ASSUME NEW p \in Procs, CloseFound(p)
          PROVE  sock' = [sock EXCEPT ![target[p]] = "closed"] /\ sock[target[p]] # "none"
      BY <3>5 DEF CloseFound, CloseSocket, EndSocket, Wired, NoDangling, Known, FreshIds, Closing
    <3>6. ASSUME NEW b \in BucketIds, TickClose(b), c = tickConn[b]
          PROVE  sock' = [sock EXCEPT ![c] = "closed"] /\ sock[c] # "none"
      BY <3>6, ProcsApart DEF TickClose, CloseSocket, EndSocket, NoDangling, Known, FreshIds
    <3>7. ASSUME NEW b \in BucketIds, TickClose(b), c # tickConn[b]
          PROVE  sock'[c] = sock[c]
      BY <3>7 DEF TickClose, CloseSocket, EndSocket
    <3> QED
      BY <1>3, <3>1, <3>2, <3>3, <3>4, <3>5, <3>6, <3>7, SockFrame
  <2> QED
    BY <2>1, <2>2 DEF FreshIds
<1> QED
  BY <1>2, <1>3

\* No map, call or ticker refers to a connection before it exists.
LEMMA DanglingStep ==
  ASSUME TypeOK, FreshIds, NoDangling, Wired, [Next]_vars
  PROVE  NoDangling'
<1> USE DEF TypeOK, EnvTypeOK, ConnTypeOK, MapTypeOK, CallTypeOK, TickTypeOK
<1>1. ASSUME NEW c \in Conns \cup {NoConn}, Known(c) PROVE Known(c)'
  BY <1>1, EntryStepOn DEF Known
<1>2. ASSUME NEW p \in Procs PROVE Known(ws[p])' /\ Known(target[p])'
  <2>1. Known(ws[p]) /\ Known(target[p]) /\ Known(NoConn)
    BY DEF NoDangling, Known
  <2>2. CASE UNCHANGED callVars
    BY <1>1, <2>1, <2>2 DEF callVars
  <2>3. ASSUME NEW c \in Conns, AddConnectCount(c) \/ TimerClosedCB(c)
        PROVE  UNCHANGED <<ws, target>>
    BY <2>3 DEF AddConnectCount, TimerClosedCB
  <2>4. ASSUME NEW c \in Conns, Connected(c)
        PROVE  target' = target /\ ws'[p] \in {ws[p], c} /\ Known(c)
    <3>1. entry[c] # "none"
      BY <2>4 DEF Connected, Wired
    <3>2. UNCHANGED ws \/ ws' = [ws EXCEPT ![c] = c]
      BY <2>4 DEF Connected
    <3> QED
      BY <2>4, <3>1, <3>2 DEF Connected, Known
  <2>5. ASSUME NEW q \in Callers, NEW c \in Conns, StartCloseConnect(q, c)
        PROVE  ws' = ws /\ target'[p] \in {target[p], c} /\ Known(c)
    BY <2>5 DEF StartCloseConnect, FreshIds, Known, Procs
  <2>6. ASSUME NEW q \in Callers, NEW c \in Conns, StartCloseWithMessage(q, c)
        PROVE  target' = target /\ ws'[p] \in {ws[p], c} /\ Known(c)
    BY <2>6 DEF StartCloseWithMessage, Known, Procs
  <2>7. ASSUME NEW q \in Procs, CloserStep(q)
        PROVE  /\ ws'[p] \in {ws[p], NoConn}
               /\ \/ target'[p] \in {target[p], NoConn}
                  \/ \E a \in Addrs : target'[p] = remote[a]
    <3>1. CASE LookupRemote(q)
      <4>1. addr[ws[q]] \in Addrs
        BY <3>1 DEF LookupRemote, Wired, NoDangling, Known
      <4> QED
        BY <3>1, <4>1 DEF LookupRemote, Return
    <3>2. CASE ~LookupRemote(q)
      BY <2>7, <3>2 DEF CloserStep, WriteClose, FindConn, CloseFound, DeleteFound,
           CountFound, CheckCount, ResetCount, Unlist, Return
    <3> QED
      BY <3>1, <3>2
  <2>8. \A a \in Addrs : Known(remote[a])
    BY DEF NoDangling
  <2>9. Known(ws'[p]) /\ Known(target'[p])
    BY <2>1, <2>2, <2>3, <2>4, <2>5, <2>6, <2>7, <2>8, CallFrame DEF TimerStep, callVars
  <2>10. ws'[p] \in Conns \cup {NoConn} /\ target'[p] \in Conns \cup {NoConn}
    BY TypeStep DEF vars
  <2> QED
    BY <1>1, <2>9, <2>10 DEF Known
<1>3. ASSUME NEW a \in Addrs PROVE Known(remote[a])'
  <2>1. Known(remote[a]) /\ Known(NoConn)
    BY DEF NoDangling, Known
  <2>2. ASSUME NEW c \in Conns, AddRemote(c)
        PROVE  Known(remote'[a])
    <3>1. remote'[a] = remote[a] \/ remote'[a] = c
      BY <2>2 DEF AddRemote
    <3> QED
      BY <2>1, <2>2, <3>1 DEF AddRemote, Known
  <2>3. ASSUME NEW c \in Conns, ReaderDelRemote(c)
        PROVE  Known(remote'[a])
    BY <2>1, <2>3 DEF ReaderDelRemote, DelRemote, WithoutAddr
  <2>4. ASSUME NEW p \in Procs, Unlist(p)
        PROVE  Known(remote'[a])
    BY <2>1, <2>4 DEF Unlist, DelRemote, WithoutAddr
  <2>5. Known(remote'[a])
    <3>1. CASE UNCHANGED remote
      BY <2>1, <3>1
    <3> QED
      BY <2>2, <2>3, <2>4, <3>1, RemoteFrame
  <2>6. remote'[a] \in Conns \cup {NoConn}
    BY TypeStep
  <2> QED
    BY <1>1, <2>5, <2>6 DEF Known
<1>4. ASSUME NEW b \in BucketIds, NEW c \in connMap'[b] PROVE Known(c)'
  <2>1. \A d \in connMap[b] : Known(d)
    BY DEF NoDangling
  <2>2. ASSUME NEW d \in Conns, AddConnectMaps(d)
        PROVE  connMap'[b] \subseteq connMap[b] \cup {d} /\ Known(d)
    BY <2>2 DEF AddConnectMaps, Known
  <2>3. ASSUME NEW d \in Conns, CloseConnMaps(d) PROVE connMap'[b] \subseteq connMap[b]
    BY <2>3 DEF CloseConnMaps, DropFromBucket
  <2>4. ASSUME NEW p \in Procs, DeleteFound(p) PROVE connMap'[b] \subseteq connMap[b]
    BY <2>4 DEF DeleteFound, DropFromBucket
  <2>5. ASSUME NEW d \in BucketIds, TickDelete(d) PROVE connMap'[b] \subseteq connMap[b]
    BY <2>5 DEF TickDelete, DropFromBucket
  <2>6. ASSUME NEW d \in BucketIds, TickFree(d) PROVE connMap'[b] \subseteq connMap[b]
    <3>1. connMap' = [connMap EXCEPT ![d] = {}] \/ UNCHANGED connMap
      BY <2>6 DEF TickFree, FreeRunMemory
    <3> QED
      BY <3>1
  <2>7. Known(c)
    BY <2>1, <2>2, <2>3, <2>4, <2>5, <2>6, MapFrame
  <2>8. c \in Conns
    BY TypeStep
  <2> QED
    BY <1>1, <2>7, <2>8 DEF Known
<1>5. ASSUME NEW b \in BucketIds
      PROVE  Known(tickConn[b])' /\ \A c \in tickTodo'[b] : Known(c)'
  <2>1. Known(tickConn[b]) /\ (\A c \in tickTodo[b] \cup connMap[b] : Known(c)) /\ Known(NoConn)
    BY DEF NoDangling, Known
  <2>2. ASSUME NEW d \in BucketIds, TickStep(d)
        PROVE  /\ tickTodo'[b] \subseteq tickTodo[b] \cup connMap[b]
               /\ tickConn'[b] \in {tickConn[b], NoConn} \cup tickTodo[b]
    <3>1. CASE TickStart(d)
      BY <3>1 DEF TickStart
    <3>5. CASE TickEnd(d)
      <4>1. tickTodo'[b] \in {tickTodo[b], {}} /\ tickConn'[b] \in {tickConn[b], NoConn}
        BY <3>5 DEF TickEnd
      <4> QED
        BY <4>1
    <3>2. CASE TickNext(d)
      BY <3>2 DEF TickNext, Remaining
    <3>3. CASE TickClose(d) \/ TickDelete(d) \/ TickCount(d)
      BY <3>3 DEF TickClose, TickDelete, TickCount
    <3>4. CASE TickFree(d)
      <4>1. ASSUME UNCHANGED tickTodo PROVE tickTodo'[b] \subseteq tickTodo[b]
        BY <4>1
      <4>2. ASSUME tickTodo' = [tickTodo EXCEPT ![d] = Remaining(d)]
            PROVE  tickTodo'[b] \subseteq tickTodo[b]
        BY <4>2 DEF Remaining
      <4>3. tickTodo'[b] \subseteq tickTodo[b]
        BY <3>4, <4>1, <4>2 DEF TickFree, FreeRunMemory
      <4> QED
        BY <3>4, <4>3 DEF TickFree, FreeRunMemory
    <3> QED
      BY <2>2, <3>1, <3>2, <3>3, <3>4, <3>5 DEF TickStep
  <2>3. Known(tickConn'[b]) /\ \A c \in tickTodo'[b] : Known(c)
    <3>1. CASE UNCHANGED tickVars
      BY <2>1, <3>1 DEF tickVars
    <3>2. ASSUME NEW d \in Conns, AddConnectMaps(d)
          PROVE  tickTodo'[b] \subseteq tickTodo[b] \cup {d} /\ tickConn' = tickConn /\ Known(d)
      <4>1. UNCHANGED tickTodo \/ \E e \in BucketIds : tickTodo' = [tickTodo EXCEPT ![e] = @ \cup {d}]
        BY <3>2, BucketInRange DEF AddConnectMaps
      <4>2. tickTodo'[b] \subseteq tickTodo[b] \cup {d}
        BY <4>1
      <4> QED
        BY <3>2, <4>2 DEF AddConnectMaps, Known
    <3>3. CASE \E d \in BucketIds : TickStep(d)
      BY <2>1, <2>2, <3>3
    <3>4. CASE \E d \in Conns : AddConnectMaps(d)
      BY <2>1, <3>2, <3>4
    <3> QED
      BY <3>1, <3>3, <3>4, TickFrame
  <2>4. tickConn'[b] \in Conns \cup {NoConn} /\ tickTodo'[b] \subseteq Conns
    BY TypeStep
  <2>5. Known(tickConn[b])'
    BY <1>1, <2>3, <2>4 DEF Known
  <2>6. ASSUME NEW c \in tickTodo'[b] PROVE Known(c)'
    BY <1>1, <2>3, <2>4, <2>6 DEF Known
  <2> QED
    BY <2>5, <2>6
<1> QED
  BY <1>2, <1>3, <1>4, <1>5 DEF NoDangling

\* The call of a goroutine is as it was.
Same(p) ==
  /\ pc'[p] = pc[p] /\ ws'[p] = ws[p]
  /\ target'[p] = target[p] /\ found'[p] = found[p]

\* What a step does to the call of one goroutine.
LEMMA CallStep ==
  ASSUME TypeOK, Wired, [Next]_vars, NEW p \in Procs
  PROVE  \/ Same(p)
         \/ /\ pc[p] = "unarmed" /\ pc'[p] = "armed" /\ entry'[p] = "done"
            /\ ws'[p] = ws[p] /\ target'[p] = target[p]
         \/ /\ pc[p] \in {"idle", "armed"} /\ pc'[p] = "write" /\ ws'[p] # NoConn
         \/ /\ pc[p] = "idle" /\ pc'[p] = "find"
            /\ ws'[p] = ws[p] /\ target'[p] # NoConn
         \/ pc[p] \in {"armed", "refused"} /\ pc'[p] = "done"
         \/ CloserStep(p)
<1> USE ProcsApart DEF Same, TypeOK, CallTypeOK, ConnTypeOK
<1>1. CASE UNCHANGED callVars
  BY <1>1 DEF callVars
<1>2. ASSUME NEW c \in Conns, AddConnectCount(c), pc[c] = "unarmed"
      PROVE  \/ p = c /\ pc'[p] = "armed" /\ entry'[p] = "done"
             \/ p # c /\ pc'[p] = pc[p]
  BY <1>2 DEF AddConnectCount, Procs
<1>3. ASSUME NEW c \in Conns, AddConnectCount(c)
      PROVE  pc[c] = "unarmed" /\ UNCHANGED <<ws, target, found>>
  BY <1>3 DEF AddConnectCount, Wired
<1>4. ASSUME NEW c \in Conns, Connected(c), p = c
      PROVE  pc[p] = "armed" /\ (pc'[p] = "done" \/ (pc'[p] = "write" /\ ws'[p] # NoConn))
  BY <1>4 DEF Connected, Goto, Procs
<1>5. ASSUME NEW c \in Conns, Connected(c), p # c
      PROVE  Same(p)
  BY <1>5 DEF Connected, Goto
<1>6. ASSUME NEW c \in Conns, TimerClosedCB(c)
      PROVE  \/ p = c /\ pc[p] = "refused" /\ pc'[p] = "done"
             \/ Same(p)
  BY <1>6 DEF TimerClosedCB, Goto, Procs
<1>7. ASSUME NEW q \in Callers, NEW c \in Conns, StartCloseConnect(q, c)
      PROVE  \/ /\ pc[p] = "idle" /\ pc'[p] = "find" /\ ws'[p] = ws[p]
                /\ target'[p] # NoConn
             \/ Same(p)
  BY <1>7 DEF StartCloseConnect, Goto
<1>8. ASSUME NEW q \in Callers, NEW c \in Conns, StartCloseWithMessage(q, c)
      PROVE  \/ pc[p] = "idle" /\ pc'[p] = "write" /\ ws'[p] # NoConn
             \/ Same(p)
  BY <1>8 DEF StartCloseWithMessage, Goto
<1>9. ASSUME NEW q \in Procs, CloserStep(q), p # q
      PROVE  Same(p)
  BY <1>9 DEF CloserStep, WriteClose, LookupRemote, FindConn, CloseFound, DeleteFound,
     CountFound, CheckCount, ResetCount, Unlist, Goto, Return
<1> QED
  BY <1>1, <1>2, <1>3, <1>4, <1>5, <1>6, <1>7, <1>8, <1>9, CallFrame DEF TimerStep

\* The calls keep what their next steps use, and a timer waits for its Entry.
LEMMA WiredStep ==
  ASSUME TypeOK, FreshIds, NoDangling, Wired, [Next]_vars
  PROVE  Wired'
<1> USE DEF TypeOK, EnvTypeOK, ConnTypeOK, CallTypeOK
<1>1. ASSUME NEW c \in Conns, entry'[c] # "none" PROVE addr'[c] \in Addrs
  BY <1>1, EntryStepOn DEF Wired
<1>2. ASSUME NEW p \in Procs
      PROVE  /\ p \in Conns /\ pc'[p] # "unarmed" => entry'[p] = "done"
             /\ pc'[p] \in {"idle", "unarmed", "armed"} => ws'[p] = NoConn
             /\ pc'[p] \in {"write", "lookup"} => ws'[p] # NoConn
             /\ pc'[p] \in Closing \cup {"find"} => target'[p] # NoConn
             /\ pc'[p] = "unlist" /\ found'[p] => target'[p] # NoConn
  <2> USE DEF Wired, Closing
  <2>1. CASE CloserStep(p)
    <3>1. pc[p] # "unarmed" /\ (p \in Conns => entry'[p] = "done")
      BY <2>1, EntryStepOn DEF CloserStep, WriteClose, LookupRemote, FindConn, CloseFound,
         DeleteFound, CountFound, CheckCount, ResetCount, Unlist
    <3>2. CASE WriteClose(p) \/ LookupRemote(p)
      BY <3>1, <3>2 DEF WriteClose, LookupRemote, Goto, Return
    <3>3. CASE FindConn(p) \/ Unlist(p)
      BY <3>1, <3>3 DEF FindConn, Unlist, Goto, Return
    <3>4. CASE CloseFound(p) \/ DeleteFound(p) \/ CountFound(p) \/ CheckCount(p)
               \/ ResetCount(p)
      BY <3>1, <3>4 DEF CloseFound, DeleteFound, CountFound, CheckCount, ResetCount, Goto
    <3> QED
      BY <2>1, <3>2, <3>3, <3>4 DEF CloserStep
  <2>2. CASE ~CloserStep(p)
    BY <2>2, CallStep, EntryStepOn, ProcsApart DEF Procs, Same
  <2> QED
    BY <2>1, <2>2
<1> QED
  BY <1>1, <1>2 DEF Wired, Procs

\* CloseConnectByIds deletes what it has closed; CloseWithMessage has written first.
LEMMA ClosersStep ==
  ASSUME Inv, [Next]_vars
  PROVE  ClosersClosed'
<1> USE DEF Inv, TypeOK, EnvTypeOK, CallTypeOK
<1> SUFFICES ASSUME NEW p \in Procs
             PROVE  /\ pc'[p] \in {"delete", "count"} => sock'[target'[p]] = "closed"
                    /\ pc'[p] \in {"check", "reset", "unlist"} /\ found'[p]
                         => sock'[target'[p]] = "closed"
                    /\ pc'[p] \in Closing \cup {"lookup", "find", "unlist"} /\ ws'[p] # NoConn
                         => ~(sock'[ws'[p]] \in {"none", "open"})
  BY DEF ClosersClosed
<1> USE DEF ClosersClosed, Closing
<1>1. CASE CloserStep(p)
  <2>1. CASE WriteClose(p)
    <3>1. ws[p] \in Conns
      BY <2>1 DEF WriteClose, Wired
    <3> QED
      BY <2>1, <3>1 DEF WriteClose, Goto, Return
  <2>2. CASE LookupRemote(p)
    BY <2>2 DEF LookupRemote, Goto, Return, envVars
  <2>3. CASE FindConn(p)
    BY <2>3 DEF FindConn, Goto, Return, envVars
  <2>4. CASE CloseFound(p)
    <3>1. target[p] \in Conns
      BY <2>4 DEF CloseFound, Wired
    <3> QED
      BY <2>4, <3>1 DEF CloseFound, CloseSocket, EndSocket, Goto
  <2>5. CASE DeleteFound(p) \/ CountFound(p) \/ CheckCount(p) \/ ResetCount(p)
    BY <2>5 DEF DeleteFound, CountFound, CheckCount, ResetCount, Goto, envVars
  <2>6. CASE Unlist(p)
    BY <2>6 DEF Unlist, Goto, Return
  <2> QED
    BY <1>1, <2>1, <2>2, <2>3, <2>4, <2>5, <2>6 DEF CloserStep
<1>2. CASE ~CloserStep(p)
  <2>1. CASE Same(p)
    BY <2>1, SockStep DEF Wired, Same
  <2> QED
    BY <1>2, <2>1, CallStep DEF Wired
<1> QED
  BY <1>1, <1>2

\* The read loop is past its error only on a socket that cannot be read.
LEMMA ReaderStepClosed ==
  ASSUME Inv, [Next]_vars
  PROVE  ReaderClosed'
<1> USE DEF Inv, TypeOK, EnvTypeOK, ConnTypeOK
<1> SUFFICES ASSUME NEW c \in Conns,
                    reader'[c] \in {"failed", "unlisted", "told", "unmapped", "counted"}
             PROVE  ReadFails(c)'
  BY DEF ReaderClosed
<1>1. reader[c] \in {"failed", "unlisted", "told", "unmapped", "counted"} \/ ReadFails(c)
  <2>1. ASSUME NEW d \in Conns, NEW a \in Addrs, Upgrade(d, a)
        PROVE  reader' = [reader EXCEPT ![d] = "reading"]
    BY <2>1 DEF Upgrade
  <2>2. ASSUME NEW d \in Conns, ReadMessage(d)
        PROVE  \/ reader' = [reader EXCEPT ![d] = "reading"]
               \/ reader' = [reader EXCEPT ![d] = "panicked"]
    BY <2>2 DEF ReadMessage
  <2>3. ASSUME NEW d \in Conns, ReadError(d)
        PROVE  reader' = [reader EXCEPT ![d] = "failed"] /\ ReadFails(d)
    BY <2>3 DEF ReadError
  <2>4. ASSUME NEW d \in Conns, ReaderStep(d), ~ReadError(d)
        PROVE  /\ reader[d] \in {"failed", "unlisted", "told", "unmapped", "counted"}
               /\ \A e \in Conns : e # d => reader'[e] = reader[e]
    BY <2>4 DEF ReaderStep, ReaderDelRemote, ReaderClosedCB, CloseConnMaps,
       CloseConnCount, CloseConnSocket
  <2> QED
    BY <2>1, <2>2, <2>3, <2>4, ReaderFrame
<1> QED
  BY <1>1, SockStep DEF ReaderClosed

-----------------------------------------------------------------------------
(* The theorems.                                                           *)

LEMMA InvInit == Init => Inv
<1> SUFFICES ASSUME Init PROVE Inv
  OBVIOUS
<1>1. TypeOK
  BY TypeInit
<1>2. FreshIds /\ ReaderClosed
  BY ConstantsAssumption DEF Init, FreshIds, ReaderClosed, Conns
<1>3. NoDangling
  BY DEF Init, NoDangling, Known
<1>4. Wired /\ ClosersClosed
  <2>1. \A p \in Procs : pc[p] \in {"idle", "unarmed"} /\ ws[p] = NoConn
    BY DEF Init
  <2>2. \A c \in Conns : pc[c] = "unarmed" /\ entry[c] = "none"
    BY ProcsApart DEF Init, Procs
  <2> QED
    BY <2>1, <2>2 DEF Wired, ClosersClosed, Closing
<1> QED
  BY <1>1, <1>2, <1>3, <1>4 DEF Inv

LEMMA InvStep == Inv /\ [Next]_vars => Inv'
  BY TypeStep, FreshStep, DanglingStep, WiredStep, ClosersStep, ReaderStepClosed DEF Inv

\* The state keeps its shape: whatever is connected, refused and closed, and by
\* however many goroutines at a time, no map, call or ticker holds a nil connection.
THEOREM Typing == Spec => []TypeOK
<1>1. Inv => TypeOK
  BY DEF Inv
<1> QED
  BY InvInit, InvStep, <1>1, PTL DEF Spec

-----------------------------------------------------------------------------
(* A router without a ticker keeps its live connections in their buckets.  *)

LEMMA NoTickerStep ==
  ASSUME ~CheckActive, NoTicker, TypeOK, [Next]_vars
  PROVE  NoTicker'
<1>1. ASSUME NEW b \in BucketIds, TickStep(b) PROVE FALSE
  BY <1>1 DEF TickStep, TickStart, TickNext, TickEnd, TickClose, TickDelete, TickCount,
              TickFree, FreeRunMemory, NoTicker
<1>2. ASSUME NEW c \in Conns, AddConnectMaps(c) PROVE UNCHANGED tick
  BY <1>2 DEF AddConnectMaps
<1> QED
  BY <1>1, <1>2, TickFrame DEF NoTicker, tickVars

\* Every delete is of a connection whose socket is down, and an accepted connection
\* is added before its Entry is done.
LEMMA MappedStep ==
  ASSUME ~CheckActive, BucketInv, [Next]_vars
  PROVE  MappedInBucket'
<1> USE DEF BucketInv, Inv, TypeOK, EnvTypeOK, ConnTypeOK, MapTypeOK, CallTypeOK
<1> SUFFICES ASSUME NEW c \in Conns, entry'[c] \in {"mapped", "done"}, Up(c)'
             PROVE  c \in connMap'[BucketOf(c)]
  BY DEF MappedInBucket, BucketOf
<1>1. BucketOf(c) \in BucketIds
  BY BucketInRange
<1>2. CASE AddConnectMaps(c)
  BY <1>1, <1>2 DEF AddConnectMaps
<1>3. CASE ~AddConnectMaps(c)
  <2>1. entry[c] \in {"mapped", "done"} /\ Up(c)
    <3>1. ASSUME NEW d \in Conns, NEW a \in Addrs, Upgrade(d, a) \/ UpgradeAborted(d, a)
          PROVE  \E s \in {"spawned", "aborted"} : entry' = [entry EXCEPT ![d] = s]
      BY <3>1 DEF Upgrade, UpgradeAborted
    <3>2. ASSUME NEW d \in Conns, EntryStep(d), d # c PROVE entry'[c] = entry[c]
      BY <3>2 DEF EntryStep, SetRemoteAddr, AddRemote, AddConnectMaps, AddConnectCount
    <3>3. ASSUME EntryStep(c) PROVE entry[c] = "mapped" \/ entry'[c] \in {"addressed", "listed"}
      BY <1>3, <3>3 DEF EntryStep, SetRemoteAddr, AddRemote, AddConnectCount
    <3>4. entry[c] \in {"mapped", "done"}
      BY <3>1, <3>2, <3>3, EntryFrame
    <3> QED
      BY <3>4, SockStep
  <2>2. c \in connMap[BucketOf(c)]
    BY <2>1 DEF MappedInBucket
  <2>3. ASSUME NEW d \in Conns, AddConnectMaps(d) PROVE c \in connMap'[BucketOf(c)]
    BY <1>1, <2>2, <2>3 DEF AddConnectMaps
  <2>4. ASSUME NEW d \in Conns, CloseConnMaps(d) PROVE c \in connMap'[BucketOf(c)]
    <3>1. d # c
      BY <2>1, <2>4 DEF CloseConnMaps, ReaderClosed, ReadFails, Up
    <3> QED
      BY <1>1, <2>2, <2>4, <3>1 DEF CloseConnMaps, DropFromBucket
  <2>5. ASSUME NEW p \in Procs, DeleteFound(p) PROVE c \in connMap'[BucketOf(c)]
    <3>1. target[p] # c
      BY <2>1, <2>5 DEF DeleteFound, ClosersClosed, Closing, Up
    <3> QED
      BY <1>1, <2>2, <2>5, <3>1 DEF DeleteFound, DropFromBucket
  <2>6. ASSUME NEW b \in BucketIds, TickDelete(b) \/ TickFree(b) PROVE FALSE
    BY <2>6 DEF TickDelete, TickFree, FreeRunMemory, NoTicker
  <2> QED
    BY <2>2, <2>3, <2>4, <2>5, <2>6, MapFrame
<1> QED
  BY <1>2, <1>3

\* Without the active check, what is deleted from a bucket has been closed before, and no
\* number of closers, timers and read loops disturbs this: BucketInv is inductive.
THEOREM DeletedIsClosed ==
  ASSUME ~CheckActive PROVE Spec => []BucketInv
<1>1. Init => BucketInv
  <2>1. ASSUME Init PROVE NoTicker /\ MappedInBucket
    BY <2>1 DEF Init, NoTicker, MappedInBucket
  <2> QED
    BY <2>1, InvInit DEF BucketInv
<1>2. BucketInv /\ [Next]_vars => BucketInv'
  BY InvStep, NoTickerStep, MappedStep DEF BucketInv, Inv
<1> QED
  BY <1>1, <1>2, PTL DEF Spec

\* So no goroutine and no order of goroutines takes a live connection out of its bucket:
\* with the active check, freeRunMemory does.
THEOREM LiveStaysInBucket ==
  ASSUME ~CheckActive PROVE Spec => []LiveInBucket
<1>1. BucketInv => LiveInBucket
  BY DEF BucketInv, MappedInBucket, LiveInBucket
<1> QED
  BY <1>1, DeletedIsClosed, PTL

-----------------------------------------------------------------------------
(* Peers that keep their addresses apart are found by their address.       *)

LEMMA AddressStep ==
  ASSUME ~AddrReuse, AddressInv, [Next]_vars
  PROVE  OwnAddress'
<1> USE DEF AddressInv, Inv, TypeOK, EnvTypeOK
<1>1. ASSUME NEW c \in Conns, NEW a \in Addrs, Upgrade(c, a) \/ UpgradeAborted(c, a)
      PROVE  OwnAddress'
  <2>1. addr' = [addr EXCEPT ![c] = a] /\ \A d \in Conns : addr[d] # a
    BY <1>1 DEF Upgrade, UpgradeAborted, AddrFree
  <2> QED
    BY <2>1 DEF OwnAddress
<1>2. CASE UNCHANGED addr
  BY <1>2 DEF OwnAddress
<1> QED
  BY <1>1, <1>2, EntryFrame

\* DelRemote is called for sockets that are closed or closing, each with the one
\* address that is its own.
LEMMA ListedStep ==
  ASSUME ~AddrReuse, AddressInv, [Next]_vars
  PROVE  ListedByAddr'
<1> USE DEF AddressInv, Inv, TypeOK, EnvTypeOK, ConnTypeOK, MapTypeOK, CallTypeOK
<1> SUFFICES ASSUME NEW c \in Conns, entry'[c] \in {"listed", "mapped", "done"},
                    sock'[c] = "open"
             PROVE  remote'[addr'[c]] = c
  BY DEF ListedByAddr
<1>1. CASE AddRemote(c)
  BY <1>1 DEF AddRemote, envVars, Wired
<1>2. CASE ~AddRemote(c)
  <2>1. entry[c] \in {"listed", "mapped", "done"}
    <3>1. ASSUME NEW d \in Conns, NEW a \in Addrs, Upgrade(d, a) \/ UpgradeAborted(d, a)
          PROVE  \E s \in {"spawned", "aborted"} : entry' = [entry EXCEPT ![d] = s]
      BY <3>1 DEF Upgrade, UpgradeAborted
    <3>2. ASSUME NEW d \in Conns, EntryStep(d), d # c PROVE entry'[c] = entry[c]
      BY <3>2 DEF EntryStep, SetRemoteAddr, AddRemote, AddConnectMaps, AddConnectCount
    <3>3. ASSUME EntryStep(c)
          PROVE  entry[c] \in {"listed", "mapped"} \/ entry'[c] = "addressed"
      BY <1>2, <3>3 DEF EntryStep, SetRemoteAddr, AddConnectMaps, AddConnectCount
    <3> QED
      BY <3>1, <3>2, <3>3, EntryFrame
  <2>2. sock[c] = "open" /\ addr'[c] = addr[c] /\ addr[c] \in Addrs
    BY <2>1, SockStep, EntryStepOn DEF Wired
  <2>3. remote[addr[c]] = c /\ \A d \in Conns : addr[d] = addr[c] => d = c
    BY <2>1, <2>2, ConstantsAssumption DEF ListedByAddr, OwnAddress
  <2>4. ASSUME NEW d \in Conns, AddRemote(d) PROVE remote'[addr[c]] = c
    BY <2>2, <2>3, <2>4 DEF AddRemote
  <2>5. ASSUME NEW d \in Conns, ReaderDelRemote(d) PROVE remote'[addr[c]] = c
    <3>1. d # c
      BY <2>2, <2>5 DEF ReaderDelRemote, ReaderClosed, ReadFails
    <3> QED
      BY <2>2, <2>3, <2>5, <3>1, ConstantsAssumption
         DEF ReaderDelRemote, DelRemote, WithoutAddr, RemoteAddrOf
  <2>6. ASSUME NEW p \in Procs, Unlist(p) PROVE remote'[addr[c]] = c
    <3>1. CASE ws[p] # NoConn
      <4>1. ws[p] \in Conns /\ ws[p] # c
        BY <2>2, <2>6, <3>1 DEF Unlist, ClosersClosed, Closing
      <4>2. addr[ws[p]] # addr[c]
        BY <2>3, <4>1
      <4> QED
        BY <2>2, <2>3, <2>6, <3>1, <4>2 DEF Unlist, DelRemote, WithoutAddr
    <3>2. CASE ws[p] = NoConn /\ found[p]
      <4>1. target[p] \in Conns /\ target[p] # c
        BY <2>2, <2>6, <3>2 DEF Unlist, Wired, ClosersClosed
      <4>2. addr[target[p]] # addr[c]
        BY <2>3, <4>1
      <4> QED
        BY <2>2, <2>3, <2>6, <3>2, <4>2 DEF Unlist, DelRemote, WithoutAddr
    <3>3. CASE ws[p] = NoConn /\ ~found[p]
      BY <2>2, <2>3, <2>6, <3>3 DEF Unlist, DelRemote, WithoutAddr
    <3> QED
      BY <3>1, <3>2, <3>3
  <2> QED
    BY <2>2, <2>3, <2>4, <2>5, <2>6, RemoteFrame
<1> QED
  BY <1>1, <1>2

\* As long as no peer comes back from the address of a dead one, DelRemote is only called
\* for the one connection that has the address, and after its socket was written to or
\* failed: AddressInv is inductive.
THEOREM OwnAddressIsListed ==
  ASSUME ~AddrReuse PROVE Spec => []AddressInv
<1>1. Init => AddressInv
  <2>1. ASSUME Init PROVE OwnAddress /\ ListedByAddr
    BY <2>1 DEF Init, OwnAddress, ListedByAddr
  <2> QED
    BY <2>1, InvInit DEF AddressInv
<1>2. AddressInv /\ [Next]_vars => AddressInv'
  BY InvStep, AddressStep, ListedStep DEF AddressInv
<1> QED
  BY <1>1, <1>2, PTL DEF Spec

\* So CloseWithMessage finds every accepted connection that no one has begun to close.
THEOREM LiveStaysListed ==
  ASSUME ~AddrReuse PROVE Spec => []LiveListed
<1>1. AddressInv => LiveListed
  BY DEF AddressInv, ListedByAddr, LiveListed
<1> QED
  BY <1>1, OwnAddressIsListed, PTL

=============================================================================
