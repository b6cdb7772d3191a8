------------------------------ MODULE WSClientProofs ------------------------------
(***************************************************************************)
(* One client, for any number of application goroutines and dials: every   *)
(* completed dial has its read loop, and a client that was closed stays    *)
(* closed unless a dial overlapped the close.                              *)
(***************************************************************************)
EXTENDS WSClient, FiniteSetTheorems, TLAPS

Places == {"idle", "callback", "none", "send", "write", "writing", "dial", "busy",
           "claim", "again", "connect", "store", "spawn", "close", "forget", "flag",
           "loop", "deref", "read", "done"}

Fields ==
  /\ conn \in Dials \cup {NoSock}
  /\ forceClosed \in BOOLEAN /\ isConnecting \in BOOLEAN /\ autoConn \in BOOLEAN
  /\ locked \in BOOLEAN /\ empty \in BOOLEAN /\ overlapped \in BOOLEAN /\ crashed \in BOOLEAN

Sockets ==
  /\ sock \in [Dials -> {"none", "open", "broken", "closed"}]
  /\ dials \in Dials
  /\ failed \in [Dials -> 0 .. MaxReadErrors]

Calls ==
  /\ pc \in [Procs -> Places]
  /\ using \in [Procs -> Dials \cup {NoSock}]
  /\ back \in [Procs -> {"none", "idle", "callback", "done"}]

\* Whoever has dialled and not yet started the read loop of the new socket.
Dialled(p) == pc[p] \in {"store", "spawn"}

Wired ==
  /\ \A p \in Procs : pc[p] \in {"writing", "store", "spawn", "read"} => using[p] # NoSock
  /\ \A p \in Procs : Dialling(p) => back[p] # "none"
  /\ \A p \in Procs : Dialled(p) => using[p] <= dials
  /\ \A p, q \in Procs : Dialled(p) /\ Dialled(q) /\ p # q => using[p] # using[q]

Started == \A d \in Dials :
  pc[d] = "none" <=> d > dials \/ \E p \in Procs : Dialled(p) /\ using[p] = d

Shape == Fields /\ Sockets /\ Calls /\ Wired /\ Started

-----------------------------------------------------------------------------
LEMMA DialsFacts == Dials \subseteq Nat /\ 1 \in Dials /\ NoSock \notin Dials /\ Dials \subseteq Procs
BY ClientConstants DEF ClientConstants, Dials, NoSock, Procs

LEMMA ShapeIsTypeOK == Shape => TypeOK
BY DEF Shape, Fields, Sockets, Calls, Wired, Started, Dialled, TypeOK, Places

LEMMA ShapeInit == Init => Shape
<1> SUFFICES ASSUME Init PROVE Shape
  OBVIOUS
<1> USE ClientConstants, DialsFacts DEF ClientConstants, Init
<1>1. Fields /\ Sockets
  <2>1. Fields
    BY DEF Fields
  <2>2. 0 \in 0 .. MaxReadErrors
    OBVIOUS
  <2> QED
    BY <2>1, <2>2 DEF Sockets
<1>2. Calls
  BY DEF Calls, Places
<1>3. Wired
  BY DEF Wired, Dialled, Dialling
<1>4. Started
  <2> SUFFICES ASSUME NEW d \in Dials
               PROVE  pc[d] = "none" <=> d > dials \/ \E p \in Procs : Dialled(p) /\ using[p] = d
    BY DEF Started
  <2>1. d \in Nat /\ d # 0 /\ d \notin Callers
    BY DEF NoSock
  <2>2. pc[d] = "none" <=> d # 1
    BY <2>1
  <2>3. d > dials <=> d # 1
    BY <2>1
  <2>4. \A p \in Procs : ~Dialled(p)
    BY DEF Dialled
  <2> QED
    BY <2>2, <2>3, <2>4
<1> QED
  BY <1>1, <1>2, <1>3, <1>4 DEF Shape

\* A goroutine that neither dials nor starts a loop goes from one place to another.
Others(p) == \A q \in Procs \ {p} : pc'[q] = pc[q] /\ using'[q] = using[q] /\ back'[q] = back[q]

LEMMA Moved ==
  ASSUME Calls, Wired, Started, NEW p \in Procs, Others(p), dials' = dials,
         pc[p] \notin {"none", "store", "spawn"}, pc'[p] \notin {"none", "store", "spawn"},
         pc'[p] \in {"writing", "read"} => using'[p] # NoSock,
         pc'[p] \in {"dial", "busy", "claim", "again", "connect"} => back'[p] # "none"
  PROVE  Wired' /\ Started'
<1>1. \A q \in Procs : Dialled(q)' <=> Dialled(q)
  BY DEF Others, Dialled
<1>2. \A q \in Procs : Dialled(q) => using'[q] = using[q]
  BY DEF Others, Dialled
<1>3. Wired'
  BY <1>1, <1>2 DEF Others, Wired, Dialling
<1>4. Started'
  BY <1>1, <1>2, DialsFacts DEF Others, Started
<1> QED
  BY <1>3, <1>4

\* The same when only the place changes.
LEMMA Went ==
  ASSUME Calls, Wired, Started, NEW p \in Procs, NEW at \in Places \ {"none", "store", "spawn"},
         pc[p] \notin {"none", "store", "spawn"}, Goto(p, at), UNCHANGED <<using, back, dials>>,
         at \in {"writing", "read"} => using[p] # NoSock,
         at \in {"dial", "busy", "claim", "again", "connect"} => back[p] # "none"
  PROVE  Calls' /\ Wired' /\ Started'
<1>1. Calls' /\ pc'[p] = at /\ Others(p)
  BY DEF Calls, Goto, Others
<1> QED
  BY <1>1, Moved

LEMMA Stayed ==
  ASSUME Calls, Wired, Started, UNCHANGED <<pc, using, back, dials>>
  PROVE  Calls' /\ Wired' /\ Started'
BY DEF Calls, Wired, Started, Dialled, Dialling

-----------------------------------------------------------------------------
LEMMA AppShape ==
  ASSUME Shape, NEW p \in Procs, AppStep(p)
  PROVE  Shape'
<1> USE DEF Shape
<1>1. pc[p] = Ready(p) /\ Ready(p) \in {"idle", "callback"}
  BY DEF AppStep, StartSend, StartClose, SetAutoConnect, DialServer, Does, Ready
<1>2. Fields' /\ Sockets'
  BY DEF AppStep, StartSend, StartClose, SetAutoConnect, DialServer, flags, socks, ghosts,
       Fields, Sockets
<1>3. CASE StartSend(p)
  BY <1>1, <1>2, <1>3, Went DEF StartSend, socks, Places
<1>4. CASE StartClose(p)
  BY <1>1, <1>2, <1>4, Went DEF StartClose, socks, Places
<1>5. ASSUME Goto(p, "dial"), back' = [back EXCEPT ![p] = Ready(p)], UNCHANGED <<using, dials>> PROVE Shape'
  <2>1. Calls' /\ pc'[p] = "dial" /\ back'[p] = Ready(p) /\ Others(p)
    BY <1>1, <1>5 DEF Goto, Calls, Places, Others
  <2> QED
    BY <1>1, <1>2, <1>5, <2>1, Moved
<1>6. CASE SetAutoConnect(p)
  BY <1>2, <1>5, <1>6, Stayed DEF SetAutoConnect, socks
<1>7. CASE DialServer(p)
  BY <1>5, <1>7 DEF DialServer, socks
<1> QED
  BY <1>3, <1>4, <1>6, <1>7 DEF AppStep

LEMMA SendShape ==
  ASSUME Shape, NEW p \in Procs, SendCheck(p) \/ Write(p) \/ WriteDone(p)
  PROVE  Shape'
<1> USE DEF Shape
<1>1. Ready(p) \in {"idle", "callback"} /\ pc[p] \in {"send", "write", "writing"}
  BY DEF SendCheck, Write, WriteDone, Ready
<1>2. Fields' /\ Sockets'
  BY DEF SendCheck, Write, WriteDone, Panic, flags, socks, ghosts, Fields, Sockets
<1>4. CASE SendCheck(p)
  <2>1. CASE Goto(p, "write") /\ back' = back
    BY <1>1, <1>2, <1>4, <2>1, Went DEF SendCheck, socks, Places
  <2>2. CASE Goto(p, Ready(p)) /\ back' = back
    BY <1>1, <1>2, <1>4, <2>2, Went DEF SendCheck, socks, Places
  <2>3. CASE Goto(p, "dial") /\ back' = [back EXCEPT ![p] = Ready(p)]
    <3>1. using' = using /\ dials' = dials
      BY <1>4 DEF SendCheck, socks
    <3>2. Calls' /\ pc'[p] = "dial" /\ back'[p] = Ready(p) /\ Others(p)
      BY <1>1, <2>3, <3>1 DEF Goto, Calls, Places, Others
    <3> QED
      BY <1>1, <1>2, <3>1, <3>2, Moved
  <2> QED
    BY <1>4, <2>1, <2>2, <2>3 DEF SendCheck
<1>5. CASE Write(p)
  <2>1. CASE Panic(p) /\ using' = using
    <3>1. CASE UNCHANGED pc
      BY <1>2, <1>5, <2>1, <3>1, Stayed DEF Write, socks
    <3>2. CASE Goto(p, "done")
      BY <1>1, <1>2, <1>5, <2>1, <3>2, Went DEF Write, socks, Places
    <3> QED
      BY <2>1, <3>1, <3>2 DEF Panic
  <2>2. CASE conn # NoSock /\ Goto(p, "writing") /\ using' = [using EXCEPT ![p] = conn]
    <3>1. back' = back /\ dials' = dials /\ conn \in Dials
      BY <1>5, <2>2 DEF Write, socks, Fields
    <3>2. Calls' /\ pc'[p] = "writing" /\ using'[p] = conn /\ Others(p)
      BY <2>2, <3>1 DEF Goto, Calls, Places, Others
    <3> QED
      BY <1>1, <1>2, <2>2, <3>1, <3>2, Moved
  <2> QED
    BY <1>5, <2>1, <2>2 DEF Write
<1>6. CASE WriteDone(p)
  <2>1. Goto(p, Ready(p)) /\ using' = [using EXCEPT ![p] = NoSock] /\ back' = back /\ dials' = dials
    BY <1>6 DEF WriteDone, socks
  <2>2. Calls' /\ pc'[p] = Ready(p) /\ Others(p)
    BY <1>1, <2>1 DEF Goto, Calls, Places, Others
  <2> QED
    BY <1>1, <1>2, <2>1, <2>2, Moved
<1> QED
  BY <1>4, <1>5, <1>6

LEMMA CloseShape ==
  ASSUME Shape, NEW p \in Procs, CloseSocket(p) \/ CloseForget(p) \/ CloseFlag(p)
  PROVE  Shape'
<1> USE DEF Shape
<1>1. Ready(p) \in {"idle", "callback"} /\ pc[p] \in {"close", "forget", "flag"} /\ UNCHANGED <<using, back, dials>>
  BY DEF CloseSocket, CloseForget, CloseFlag, Ready, socks
<1>2. Fields' /\ Sockets'
  BY DEF CloseSocket, CloseForget, CloseFlag, flags, socks, ghosts, Fields, Sockets
<1>3. \E at \in {"forget", "flag", "idle", "callback"} : Goto(p, at)
  BY <1>1 DEF CloseSocket, CloseForget, CloseFlag
<1> QED
  BY <1>1, <1>2, <1>3, Went DEF Places

LEMMA LoopShape ==
  ASSUME Shape, NEW d \in Dials, LoopStep(d) \/ Message(d) \/ CallbackDone(d)
  PROVE  Shape'
<1> USE ClientConstants, DialsFacts DEF Shape, ClientConstants
<1>1. d \in Procs /\ d \notin Callers /\ pc[d] \in {"loop", "deref", "read", "callback"}
  BY DEF LoopStep, LoopCheck, LoopRead, LoopError, Message, CallbackDone, Procs
<1>3. ASSUME LoopCheck(d) PROVE Shape'
  <2>1. Fields' /\ Sockets'
    BY <1>3 DEF LoopCheck, flags, socks, ghosts, Fields, Sockets
  <2>2. \E at \in {"done", "deref"} : Goto(d, at)
    BY <1>3 DEF LoopCheck
  <2> QED
    BY <1>1, <1>3, <2>1, <2>2, Went DEF LoopCheck, socks, Places
<1>4. ASSUME LoopRead(d) PROVE Shape'
  <2>1. Fields' /\ Sockets'
    BY <1>4 DEF LoopRead, Panic, flags, socks, ghosts, Fields, Sockets
  <2>2. CASE conn = NoSock
    BY <1>1, <1>4, <2>1, <2>2, Went DEF LoopRead, Panic, socks, Places
  <2>3. CASE conn # NoSock
    <3>1. Goto(d, "read") /\ using' = [using EXCEPT ![d] = conn] /\ back' = back /\ dials' = dials
      BY <1>4, <2>3 DEF LoopRead, socks
    <3>2. Calls' /\ pc'[d] = "read" /\ using'[d] = conn /\ Others(d)
      BY <1>1, <3>1 DEF Goto, Calls, Fields, Places, Others
    <3> QED
      BY <1>1, <2>1, <2>3, <3>1, <3>2, Moved
  <2> QED
    BY <2>2, <2>3
<1>5. ASSUME Message(d) PROVE Shape'
  <2>1. Fields' /\ Sockets'
    BY <1>5 DEF Message, flags, socks, ghosts, Fields, Sockets
  <2> QED
    BY <1>1, <1>5, <2>1, Went DEF Message, socks, Places
<1>6. ASSUME CallbackDone(d) PROVE Shape'
  <2>1. Fields' /\ Sockets'
    BY <1>6 DEF CallbackDone, flags, socks, ghosts, Fields, Sockets
  <2>2. Goto(d, "loop") /\ using' = [using EXCEPT ![d] = NoSock] /\ back' = back /\ dials' = dials
    BY <1>6 DEF CallbackDone, socks
  <2>3. Calls' /\ pc'[d] = "loop" /\ Others(d)
    BY <1>1, <2>2 DEF Goto, Calls, Places, Others
  <2> QED
    BY <1>1, <2>1, <2>2, <2>3, Moved
<1>7. ASSUME LoopError(d) PROVE Shape'
  <2>1. using[d] \in Dials
    BY <1>1, <1>7 DEF LoopError, Calls, Wired
  <2>2. Fields'
    BY <1>7 DEF LoopError, flags, Fields
  <2>3. Sockets'
    <3>1. failed' = failed \/ failed' = [failed EXCEPT ![using[d]] = IF @ < MaxReadErrors THEN @ + 1 ELSE @]
      BY <1>7 DEF LoopError
    <3>2. \A n \in 0 .. MaxReadErrors : (IF n < MaxReadErrors THEN n + 1 ELSE n) \in 0 .. MaxReadErrors
      OBVIOUS
    <3> QED
      BY <1>7, <2>1, <3>1, <3>2 DEF LoopError, Sockets
  <2>4. UNCHANGED <<using, dials>>
    BY <1>7 DEF LoopError
  <2>5. CASE Goto(d, "dial") /\ back' = [back EXCEPT ![d] = "done"]
    <3>1. Calls' /\ pc'[d] = "dial" /\ back'[d] = "done" /\ Others(d)
      BY <1>1, <2>4, <2>5 DEF Goto, Calls, Places, Others
    <3> QED
      BY <1>1, <2>2, <2>3, <2>4, <3>1, Moved
  <2>6. CASE (Goto(d, "done") \/ Goto(d, "callback")) /\ back' = back
    BY <1>1, <2>2, <2>3, <2>4, <2>6, Went DEF Places
  <2> QED
    BY <1>7, <2>5, <2>6 DEF LoopError
<1> QED
  BY <1>3, <1>4, <1>5, <1>6, <1>7 DEF LoopStep

LEMMA DialShape ==
  ASSUME Shape, NEW p \in Procs, DialStep(p)
  PROVE  Shape'
<1> USE ClientConstants, DialsFacts DEF Shape, ClientConstants
<1>1. back[p] \in {"idle", "callback", "done"} /\ Dialling(p)
  BY DEF DialStep, DialCheck, DialBusy, DialClaim, DialAgain, DialContext, DialStore, DialSpawn,
       Dialling, Wired, Calls
<1>2. Fields'
  BY DEF DialStep, DialCheck, DialBusy, DialClaim, DialAgain, DialContext, DialStore, DialSpawn, flags,
       socks, ghosts, Fields, Calls
\* The steps before there is a new socket.
<1>3. ASSUME Sockets', UNCHANGED <<using, back, dials>>, pc[p] \in {"dial", "busy", "claim", "again", "connect"},
             \E at \in {"busy", "claim", "again", "connect", back[p]} : Goto(p, at)
      PROVE  Shape'
  BY <1>1, <1>2, <1>3, Went DEF Places
<1>4. CASE DialCheck(p) \/ DialBusy(p)
  BY <1>3, <1>4 DEF DialCheck, DialBusy, socks, Sockets
<1>5. CASE DialClaim(p) \/ DialAgain(p)
  BY <1>3, <1>5 DEF DialClaim, DialAgain, socks, Sockets
<1>6. CASE DialContext(p)
  <2>1. CASE Goto(p, back[p]) /\ UNCHANGED <<dials, sock, using>>
    BY <1>3, <1>6, <2>1 DEF DialContext, Sockets
  <2>2. CASE dials < MaxDials /\ Goto(p, "store")
    <3>1. /\ pc[p] = "connect" /\ dials' = dials + 1 /\ failed' = failed /\ back' = back
          /\ sock' = [sock EXCEPT ![dials + 1] = "open"]
          /\ using' = [using EXCEPT ![p] = dials + 1]
          /\ pc' = [pc EXCEPT ![p] = "store"]
      BY <1>1, <1>6, <2>2 DEF DialContext, Goto, Calls
    <3>2. dials \in Nat /\ dials + 1 \in Dials /\ dials + 1 # NoSock
      BY <2>2 DEF Sockets, Dials, NoSock
    <3>3. Sockets' /\ Calls'
      BY <3>1, <3>2 DEF Sockets, Calls, Places
    <3>4. ASSUME NEW q \in Procs
          PROVE  /\ q # p => (Dialled(q)' <=> Dialled(q)) /\ using'[q] = using[q]
                 /\ q = p => Dialled(q)' /\ ~Dialled(q) /\ using'[q] = dials + 1
                 /\ Dialled(q) => using[q] <= dials /\ using[q] \in Nat
      BY <3>1, <3>2 DEF Calls, Dialled, Wired, NoSock
    <3>5. \A q \in Procs : Dialled(q)' => using'[q] <= dials'
      BY <3>1, <3>2, <3>4
    <3>6. \A q, r \in Procs : Dialled(q)' /\ Dialled(r)' /\ q # r => using'[q] # using'[r]
      <4> SUFFICES ASSUME NEW q \in Procs, NEW r \in Procs, Dialled(q)', Dialled(r)', q # r
                   PROVE  using'[q] # using'[r]
        OBVIOUS
      <4>1. CASE q # p /\ r # p
        BY <3>4, <4>1 DEF Wired
      <4>2. CASE q = p \/ r = p
        BY <3>2, <3>4, <4>2
      <4> QED
        BY <4>1, <4>2
    <3>7. Wired'
      BY <3>1, <3>2, <3>5, <3>6 DEF Calls, Wired, Dialling
    <3>8. ASSUME NEW d \in Dials
          PROVE  pc'[d] = "none" <=> d > dials' \/ \E q \in Procs : Dialled(q)' /\ using'[q] = d
      <4>1. pc'[d] = "none" <=> pc[d] = "none"
        BY <3>1 DEF Calls
      <4>2. pc[d] = "none" <=> d > dials \/ \E q \in Procs : Dialled(q) /\ using[q] = d
        BY DEF Started
      <4>3. d > dials <=> d > dials' \/ d = dials + 1
        BY <3>1, <3>2
      <4>4. (\E q \in Procs : Dialled(q)' /\ using'[q] = d)
              <=> d = dials + 1 \/ \E q \in Procs : Dialled(q) /\ using[q] = d
        BY <3>4
      <4> QED
        BY <4>1, <4>2, <4>3, <4>4
    <3> QED
      BY <1>2, <3>3, <3>7, <3>8 DEF Started
  <2> QED
    BY <1>6, <2>1, <2>2 DEF DialContext
<1>7. CASE DialStore(p)
  <2>1. pc[p] = "store" /\ pc' = [pc EXCEPT ![p] = "spawn"] /\ UNCHANGED <<using, back, dials, sock, failed>>
    BY <1>7 DEF DialStore, Goto, socks
  <2>2. Sockets' /\ Calls'
    BY <2>1 DEF Sockets, Calls, Places
  <2>3. \A q \in Procs : Dialled(q)' <=> Dialled(q)
    BY <2>1 DEF Calls, Dialled
  <2>4. Wired'
    BY <1>1, <2>1, <2>3 DEF Calls, Wired, Dialling
  <2>5. Started'
    BY <2>1, <2>3 DEF Calls, Started
  <2> QED
    BY <1>2, <2>2, <2>4, <2>5
<1>8. CASE DialSpawn(p)
  <2> DEFINE u == using[p]
  <2>1. /\ pc[p] = "spawn" /\ UNCHANGED <<back, dials, sock, failed>>
        /\ pc' = [pc EXCEPT ![p] = back[p], ![u] = "loop"]
        /\ using' = [using EXCEPT ![p] = NoSock]
    BY <1>8 DEF DialSpawn, socks
  <2>2. u \in Dials /\ u \in Procs /\ Dialled(p) /\ u <= dials
    BY <2>1 DEF Calls, Wired, Dialled
  <2>3. pc[u] = "none" /\ u # p
    BY <2>1, <2>2 DEF Started
  <2>4. pc'[p] = back[p] /\ pc'[u] = "loop" /\ \A q \in Procs \ {p, u} : pc'[q] = pc[q]
    BY <2>1, <2>2, <2>3 DEF Calls
  <2>5. Sockets' /\ Calls'
    BY <1>1, <2>1, <2>2 DEF Sockets, Calls, Places
  <2>6. ASSUME NEW q \in Procs
        PROVE  /\ Dialled(q)' <=> Dialled(q) /\ q # p
               /\ q # p => using'[q] = using[q]
    <3>1. CASE q = p
      BY <1>1, <2>4, <3>1 DEF Dialled
    <3>2. CASE q = u
      BY <2>1, <2>3, <2>4, <3>2 DEF Dialled, Calls
    <3>3. CASE q # p /\ q # u
      BY <2>1, <2>4, <3>3 DEF Dialled, Calls
    <3> QED
      BY <3>1, <3>2, <3>3
  <2>7. Wired'
    <3>1. \A q \in Procs : pc'[q] \in {"writing", "store", "spawn", "read"} => pc'[q] = pc[q] /\ q # p
      BY <1>1, <2>3, <2>4
    <3>2. \A q \in Procs : Dialling(q)' => Dialling(q)
      BY <1>1, <2>3, <2>4 DEF Dialling
    <3> QED
      BY <2>1, <2>6, <3>1, <3>2 DEF Wired
  <2>8. ASSUME NEW d \in Dials
        PROVE  pc'[d] = "none" <=> d > dials' \/ \E q \in Procs : Dialled(q)' /\ using'[q] = d
    <3>1. CASE d = u
      <4>1. pc'[d] # "none" /\ ~(d > dials')
        BY <2>1, <2>2, <2>4, <3>1 DEF Sockets
      <4>2. \A q \in Procs : Dialled(q)' => using'[q] # u
        BY <2>2, <2>6 DEF Wired
      <4> QED
        BY <3>1, <4>1, <4>2
    <3>2. CASE d # u
      <4>1. pc'[d] = "none" <=> pc[d] = "none"
        BY <1>1, <2>1, <2>4, <3>2
      <4>2. (\E q \in Procs : Dialled(q)' /\ using'[q] = d) <=> \E q \in Procs : Dialled(q) /\ using[q] = d
        BY <2>6, <3>2
      <4> QED
        BY <2>1, <4>1, <4>2 DEF Started
    <3> QED
      BY <3>1, <3>2
  <2> QED
    BY <1>2, <2>5, <2>7, <2>8 DEF Started
<1> QED
  BY <1>4, <1>5, <1>6, <1>7, <1>8 DEF DialStep

\* The steps, by the part of the program that makes them.
LEMMA StepCases ==
  ASSUME [Next]_vars
  PROVE
    \/ UNCHANGED vars
    \/ \E p \in Procs : AppStep(p) \/ DialStep(p)
    \/ \E p \in Procs : SendCheck(p) \/ Write(p) \/ WriteDone(p)
    \/ \E p \in Procs : CloseSocket(p) \/ CloseForget(p) \/ CloseFlag(p)
    \/ \E d \in Dials : LoopStep(d) \/ Message(d) \/ CallbackDone(d)
    \/ \E d \in Dials : ServerGone(d)
BY DEF Next, CallStep, Finished

LEMMA ShapeStep == Shape /\ [Next]_vars => Shape'
<1> SUFFICES ASSUME Shape, [Next]_vars PROVE Shape'
  OBVIOUS
<1>1. CASE UNCHANGED vars
  BY <1>1, Stayed DEF vars, flags, socks, calls, ghosts, Shape, Fields, Sockets
<1>2. ASSUME NEW d \in Dials, ServerGone(d) PROVE Shape'
  BY <1>2, Stayed DEF ServerGone, flags, calls, ghosts, Shape, Fields, Sockets
<1> QED
  BY StepCases, AppShape, SendShape, CloseShape, DialShape, LoopShape, <1>1, <1>2

LEMMA ShapeAlways == Spec => []Shape
BY ShapeInit, ShapeStep, PTL DEF Spec

\* However many goroutines dial at once (client.go, dialServer), every dial that has
\* succeeded has one read loop or somebody who is about to start it, and nobody
\* writes to or reads from a socket that was never dialled.
THEOREM ClientTyping == Spec => []TypeOK
BY ShapeAlways, ShapeIsTypeOK, PTL

-----------------------------------------------------------------------------
(* Closed for good.  As long as no dial has come past the check of         *)
(* isConnecting next to another one, and none has overlapped a close(),    *)
(* the field does what a lock would do.                                    *)

\* One goroutine at a time is past the check, while there is no connection.
Connecting(p) == pc[p] \in {"claim", "again", "connect", "store", "spawn"}
OneConnects ==
  /\ \A p \in Procs : Connecting(p) /\ pc[p] # "claim" => isConnecting
  /\ \A p, q \in Procs : Connecting(p) /\ Connecting(q) => p = q
  /\ \A p \in Procs : Connecting(p) /\ pc[p] # "spawn" => conn = NoSock

\* A socket is open only as the connection, or on its way to become it.
NoneLost == \A d \in Dials : sock[d] = "open" => d = conn \/ \E p \in Procs : pc[p] = "store" /\ using[p] = d

\* close() has the lock, alone, and forgets a connection only when it is closed.
OneCloses ==
  /\ \A p \in Procs : pc[p] \in {"forget", "flag"} => locked
  /\ \A p, q \in Procs : pc[p] \in {"forget", "flag"} /\ pc[q] \in {"forget", "flag"} => p = q
  /\ \A p \in Procs : pc[p] = "forget" => conn # NoSock /\ sock[conn] # "open"

Shut == forceClosed =>
  conn = NoSock /\ \A p \in Procs : pc[p] \notin {"busy", "claim", "again", "connect", "store", "spawn"}

Guarded == ~overlapped => OneConnects /\ NoneLost /\ OneCloses /\ Shut

\* The places where a goroutine is in dialServer, past its first check, or in close().
Critical == {"busy", "claim", "again", "connect", "store", "spawn", "forget", "flag"}

LEMMA GuardedKept ==
  ASSUME Guarded, UNCHANGED <<conn, forceClosed, isConnecting, locked, sock, overlapped>>,
         \A p \in Procs : pc'[p] \in Critical \/ pc[p] \in Critical => pc'[p] = pc[p] /\ using'[p] = using[p]
  PROVE  Guarded'
<1> SUFFICES ASSUME ~overlapped PROVE (OneConnects /\ NoneLost /\ OneCloses /\ Shut)'
  BY DEF Guarded
<1>1. OneConnects /\ NoneLost /\ OneCloses /\ Shut
  BY DEF Guarded
<1>2. OneConnects'
  BY <1>1 DEF OneConnects, Connecting, Critical
<1>3. NoneLost'
  BY <1>1 DEF NoneLost, Critical
<1>4. OneCloses'
  BY <1>1 DEF OneCloses, Critical
<1>5. Shut'
  BY <1>1 DEF Shut, Critical
<1> QED
  BY <1>2, <1>3, <1>4, <1>5

LEMMA GuardedOthers ==
  ASSUME Shape, Guarded, NEW p \in Procs,
         \/ AppStep(p) \/ SendCheck(p) \/ Write(p) \/ WriteDone(p)
         \/ p \in Dials /\ (LoopStep(p) \/ Message(p) \/ CallbackDone(p))
  PROVE  Guarded'
<1>1. UNCHANGED <<conn, forceClosed, isConnecting, locked, sock, overlapped>>
  BY DEF AppStep, StartSend, StartClose, SetAutoConnect, DialServer, SendCheck, Write,
       WriteDone,
         LoopStep, LoopCheck, LoopRead, LoopError, Message, CallbackDone, flags, socks, ghosts
<1>2. pc[p] \notin Critical
  BY DEF AppStep, StartSend, StartClose, SetAutoConnect, DialServer, Does, Ready, SendCheck,
       Write, WriteDone,
         LoopStep, LoopCheck, LoopRead, LoopError, Message, CallbackDone, Critical
<1>3. pc' = pc \/ \E at \in Places \ Critical : pc' = [pc EXCEPT ![p] = at]
  <2>1. CASE AppStep(p)
    BY <2>1 DEF AppStep, StartSend, StartClose, SetAutoConnect, DialServer, Goto, Places,
         Critical
  <2>2. CASE SendCheck(p)
    BY <2>2 DEF SendCheck, Goto, Ready, Places, Critical
  <2>3. CASE Write(p) \/ WriteDone(p)
    BY <2>3 DEF Write, WriteDone, Panic, Goto, Ready, Places, Critical
  <2>4. CASE LoopCheck(p) \/ LoopRead(p) \/ Message(p) \/ CallbackDone(p)
    BY <2>4 DEF LoopCheck, LoopRead, Message, CallbackDone, Panic, Goto, Places, Critical
  <2>5. CASE LoopError(p)
    BY <2>5 DEF LoopError, Goto, Places, Critical
  <2> QED
    BY <2>1, <2>2, <2>3, <2>4, <2>5 DEF LoopStep
<1>4. \A q \in Procs \ {p} : pc'[q] = pc[q]
  BY <1>3 DEF Shape, Calls
<1>5. pc'[p] \notin Critical
  BY <1>2, <1>3 DEF Shape, Calls
<1>6. \A q \in Procs \ {p} : using'[q] = using[q]
  BY DEF AppStep, StartSend, StartClose, SetAutoConnect, DialServer, SendCheck, Write,
       WriteDone,
         LoopStep, LoopCheck, LoopRead, LoopError, Message, CallbackDone, Shape, Calls
<1> QED
  BY <1>1, <1>2, <1>4, <1>5, <1>6, GuardedKept

LEMMA GuardedDial ==
  ASSUME Shape, Guarded, NEW p \in Procs, DialStep(p)
  PROVE  Guarded'
<1> USE DialsFacts DEF Shape, Calls
<1>0. overlapped => overlapped'
  BY DEF DialStep, DialCheck, DialBusy, DialClaim, DialAgain, DialContext, DialStore, DialSpawn, ghosts
<1> SUFFICES ASSUME ~overlapped' PROVE (OneConnects /\ NoneLost /\ OneCloses /\ Shut)'
  BY DEF Guarded
<1>1. OneConnects /\ NoneLost /\ OneCloses /\ Shut
  BY <1>0 DEF Guarded
<1>2. back[p] \in {"idle", "callback", "done"} /\ Dialling(p)
  BY DEF DialStep, DialCheck, DialBusy, DialClaim, DialAgain, DialContext, DialStore, DialSpawn,
       Dialling, Wired
\* A goroutine that dials is not in close().
<1>3. ASSUME UNCHANGED <<locked, sock>>, \A q \in Procs : pc'[q] \in {"forget", "flag"} => pc'[q] = pc[q],
             conn' = conn \/ conn = NoSock
      PROVE  OneCloses'
  BY <1>1, <1>3 DEF OneCloses
<1>4. CASE DialCheck(p)
  <2>1. /\ pc[p] = "dial" /\ UNCHANGED <<conn, forceClosed, isConnecting, locked, sock, using>>
        /\ pc' = [pc EXCEPT ![p] = IF conn # NoSock \/ forceClosed THEN back[p] ELSE "busy"]
    BY <1>4 DEF DialCheck, Goto, flags, socks
  <2>2. OneConnects'
    BY <1>1, <1>2, <2>1 DEF OneConnects, Connecting
  <2>3. NoneLost'
    BY <1>1, <2>1 DEF NoneLost
  <2>4. OneCloses'
    BY <1>2, <1>3, <2>1
  <2>5. Shut'
    BY <1>1, <1>2, <2>1 DEF Shut
  <2> QED
    BY <2>2, <2>3, <2>4, <2>5
\* It comes past the check with nobody between that and the flag, or it overlaps.
<1>5. CASE DialBusy(p)
  <2>1. /\ pc[p] = "busy" /\ UNCHANGED <<conn, forceClosed, isConnecting, locked, sock, using>>
        /\ \/ pc' = [pc EXCEPT ![p] = back[p]]
           \/ /\ pc' = [pc EXCEPT ![p] = "claim"]
              /\ ~isConnecting /\ conn = NoSock /\ \A q \in Procs : pc[q] # "claim"
    BY <1>5 DEF DialBusy, Goto, flags, socks
  <2>2. ASSUME pc' = [pc EXCEPT ![p] = back[p]] PROVE OneConnects'
    BY <1>1, <1>2, <2>1, <2>2 DEF OneConnects, Connecting
  <2>3. ASSUME pc' = [pc EXCEPT ![p] = "claim"], ~isConnecting, conn = NoSock,
               \A q \in Procs : pc[q] # "claim"
        PROVE  OneConnects'
    <3>1. \A q \in Procs : ~Connecting(q)
      BY <1>1, <2>3 DEF OneConnects
    <3> QED
      BY <2>1, <2>3, <3>1 DEF OneConnects, Connecting
  <2>4. OneConnects'
    BY <1>2, <2>1, <2>2, <2>3
  <2>5. NoneLost'
    BY <1>1, <1>2, <2>1 DEF NoneLost
  <2>6. OneCloses'
    BY <1>2, <1>3, <2>1
  <2>7. Shut'
    BY <1>1, <1>2, <2>1 DEF Shut
  <2> QED
    BY <2>4, <2>5, <2>6, <2>7
\* The two stores of the flag.
<1>6. CASE DialClaim(p) \/ DialAgain(p)
  <2>1. /\ pc[p] \in {"claim", "again"} /\ UNCHANGED <<conn, forceClosed, locked, sock, using>>
        /\ isConnecting' = TRUE
        /\ \E at \in {"again", "connect"} : pc' = [pc EXCEPT ![p] = at]
    BY <1>6 DEF DialClaim, DialAgain, Goto, socks
  <2>2. conn = NoSock /\ \A q \in Procs \ {p} : ~Connecting(q)
    BY <1>1, <2>1 DEF OneConnects, Connecting
  <2>3. OneConnects'
    BY <2>1, <2>2 DEF OneConnects, Connecting
  <2>4. NoneLost'
    BY <1>1, <2>1 DEF NoneLost
  <2>5. OneCloses'
    BY <1>3, <2>1
  <2>6. Shut'
    BY <1>1, <2>1 DEF Shut
  <2> QED
    BY <2>3, <2>4, <2>5, <2>6
<1>7. CASE DialContext(p)
  <2>1. /\ pc[p] = "connect" /\ UNCHANGED <<conn, forceClosed, locked>> /\ conn = NoSock
        /\ \A q \in Procs \ {p} : ~Connecting(q)
    BY <1>1, <1>7 DEF DialContext, OneConnects, Connecting
  <2>2. CASE Goto(p, back[p]) /\ UNCHANGED <<dials, sock, using>>
    <3>1. pc' = [pc EXCEPT ![p] = back[p]]
      BY <2>2 DEF Goto
    <3>2. OneConnects'
      BY <1>2, <2>1, <3>1 DEF OneConnects, Connecting
    <3>3. NoneLost'
      BY <1>1, <2>1, <2>2, <3>1 DEF NoneLost
    <3>4. OneCloses'
      BY <1>2, <1>3, <2>1, <2>2, <3>1
    <3>5. Shut'
      BY <1>1, <1>2, <2>1, <3>1 DEF Shut
    <3> QED
      BY <3>2, <3>3, <3>4, <3>5
  <2>3. CASE dials < MaxDials /\ isConnecting' = isConnecting /\ Goto(p, "store")
    <3>1. /\ pc' = [pc EXCEPT ![p] = "store"] /\ using' = [using EXCEPT ![p] = dials + 1]
          /\ sock' = [sock EXCEPT ![dials + 1] = "open"]
      BY <1>2, <1>7, <2>1, <2>3 DEF DialContext, Goto
    <3>2. OneConnects'
      BY <1>1, <2>1, <2>3, <3>1 DEF OneConnects, Connecting
    <3>3. NoneLost'
      <4> SUFFICES ASSUME NEW d \in Dials, sock'[d] = "open"
                   PROVE  d = conn' \/ \E q \in Procs : pc'[q] = "store" /\ using'[q] = d
        BY DEF NoneLost
      <4>1. CASE d = dials + 1
        BY <3>1, <4>1
      <4>2. CASE d # dials + 1
        <5>1. sock[d] = "open"
          BY <3>1, <4>2 DEF Sockets
        <5>2. \A q \in Procs : pc[q] # "store"
          BY <2>1 DEF Connecting
        <5>3. d = conn
          BY <1>1, <5>1, <5>2 DEF NoneLost
        <5> QED
          BY <2>1, <5>3
      <4> QED
        BY <4>1, <4>2
    <3>4. OneCloses'
      BY <1>1, <2>1, <3>1 DEF OneCloses
    <3>5. Shut'
      BY <1>1, <2>1, <3>1 DEF Shut
    <3> QED
      BY <3>2, <3>3, <3>4, <3>5
  <2> QED
    BY <1>7, <2>2, <2>3 DEF DialContext
<1>8. CASE DialStore(p)
  <2>1. /\ pc[p] = "store" /\ UNCHANGED <<forceClosed, isConnecting, locked, sock, using>>
        /\ conn = NoSock /\ conn' = using[p] /\ pc' = [pc EXCEPT ![p] = "spawn"]
        /\ \A q \in Procs \ {p} : ~Connecting(q)
    BY <1>1, <1>8 DEF DialStore, Goto, flags, socks, OneConnects, Connecting
  <2>2. OneConnects'
    BY <1>1, <2>1 DEF OneConnects, Connecting
  <2>3. NoneLost'
    <3> SUFFICES ASSUME NEW d \in Dials, sock'[d] = "open" PROVE d = conn'
      BY DEF NoneLost
    <3>1. PICK q \in Procs : pc[q] = "store" /\ using[q] = d
      BY <1>1, <2>1 DEF NoneLost
    <3> QED
      BY <2>1, <3>1 DEF Connecting
  <2>4. OneCloses'
    BY <1>3, <2>1
  <2>5. Shut'
    BY <1>1, <2>1 DEF Shut
  <2> QED
    BY <2>2, <2>3, <2>4, <2>5
<1>9. CASE DialSpawn(p)
  <2>1. /\ pc[p] = "spawn" /\ UNCHANGED <<conn, forceClosed, locked, sock>>
        /\ pc' = [pc EXCEPT ![p] = back[p], ![using[p]] = "loop"]
        /\ using' = [using EXCEPT ![p] = NoSock]
        /\ \A q \in Procs \ {p} : ~Connecting(q)
    BY <1>1, <1>9 DEF DialSpawn, socks, OneConnects, Connecting
  <2>2. using[p] \in Dials
    BY <2>1 DEF Wired
  <2>3. ASSUME NEW q \in Procs
        PROVE  pc'[q] \in Critical => q # p /\ pc'[q] = pc[q] /\ using'[q] = using[q]
    BY <1>2, <2>1, <2>2 DEF Critical
  <2>4. \A q \in Procs : pc[q] # "store"
    BY <2>1 DEF Connecting
  <2>5. OneConnects'
    BY <2>1, <2>3 DEF OneConnects, Connecting, Critical
  <2>6. NoneLost'
    BY <1>1, <2>1, <2>4 DEF NoneLost
  <2>7. OneCloses'
    BY <1>3, <2>1, <2>3 DEF Critical
  <2>8. Shut'
    BY <1>1, <2>1, <2>3 DEF Shut, Critical
  <2> QED
    BY <2>5, <2>6, <2>7, <2>8
<1> QED
  BY <1>4, <1>5, <1>6, <1>7, <1>8, <1>9 DEF DialStep

LEMMA GuardedClose ==
  ASSUME Shape, Guarded, NEW p \in Procs, CloseSocket(p) \/ CloseForget(p) \/ CloseFlag(p)
  PROVE  Guarded'
<1> USE DialsFacts DEF Shape, Calls
<1>0. overlapped => overlapped'
  BY DEF CloseSocket, CloseForget, CloseFlag, ghosts
<1> SUFFICES ASSUME ~overlapped' PROVE (OneConnects /\ NoneLost /\ OneCloses /\ Shut)'
  BY DEF Guarded
<1>1. OneConnects /\ NoneLost /\ OneCloses /\ Shut
  BY <1>0 DEF Guarded
<1>2. CASE CloseSocket(p)
  <2>1. /\ pc[p] = "close" /\ ~locked /\ locked' = TRUE
        /\ UNCHANGED <<conn, forceClosed, isConnecting, using>>
        /\ \/ conn # NoSock /\ sock' = [sock EXCEPT ![conn] = "closed"] /\ pc' = [pc EXCEPT ![p] = "forget"]
           \/ conn = NoSock /\ pc' = [pc EXCEPT ![p] = "flag"] /\ sock' = sock
    BY <1>2 DEF CloseSocket, Goto, flags
  <2>2. \A q \in Procs : pc[q] \notin {"forget", "flag"}
    BY <1>1, <2>1 DEF OneCloses
  <2>3. \A q \in Procs \ {p} : pc'[q] = pc[q]
    BY <2>1
  <2>4. pc'[p] \in {"forget", "flag"} /\ (pc'[p] = "forget" => conn # NoSock)
    BY <2>1
  <2>5. OneConnects'
    BY <1>1, <2>1, <2>3, <2>4 DEF OneConnects, Connecting
  <2>6. \A d \in Dials : sock'[d] = "open" => sock[d] = "open"
    BY <2>1 DEF Sockets
  <2>7. NoneLost'
    BY <1>1, <2>1, <2>3, <2>6 DEF NoneLost
  <2>8. pc'[p] = "forget" => sock'[conn] # "open"
    BY <2>1 DEF Fields, Sockets
  <2>9. OneCloses'
    BY <2>1, <2>2, <2>3, <2>4, <2>8 DEF OneCloses
  <2>10. Shut'
    BY <1>1, <2>1, <2>3, <2>4 DEF Shut
  <2> QED
    BY <2>5, <2>7, <2>9, <2>10
<1>3. CASE CloseForget(p)
  <2>1. /\ pc[p] = "forget" /\ conn' = NoSock /\ sock[conn] # "open" /\ pc' = [pc EXCEPT ![p] = "flag"]
        /\ UNCHANGED <<forceClosed, isConnecting, locked, sock, using>>
        /\ \A q \in Procs \ {p} : pc[q] \notin {"forget", "flag"}
    BY <1>1, <1>3 DEF CloseForget, Goto, flags, socks, OneCloses
  <2>2. OneConnects'
    BY <1>1, <2>1 DEF OneConnects, Connecting
  <2>3. NoneLost'
    BY <1>1, <2>1 DEF NoneLost
  <2>4. OneCloses'
    BY <1>1, <2>1 DEF OneCloses
  <2>5. Shut'
    BY <1>1, <2>1 DEF Shut
  <2> QED
    BY <2>2, <2>3, <2>4, <2>5
\* Nobody is in dialServer when the flag is set, or the two overlap.
<1>4. CASE CloseFlag(p)
  <2>1. /\ pc[p] = "flag" /\ pc' = [pc EXCEPT ![p] = Ready(p)]
        /\ UNCHANGED <<conn, isConnecting, sock, using>>
        /\ conn = NoSock /\ \A q \in Procs : ~Dialling(q)
        /\ \A q \in Procs \ {p} : pc[q] \notin {"forget", "flag"}
    BY <1>1, <1>4 DEF CloseFlag, Goto, socks, OneCloses
  <2>2. \A q \in Procs : pc'[q] \notin Critical
    BY <2>1 DEF Ready, Dialling, Critical
  <2>3. OneConnects' /\ OneCloses' /\ Shut'
    BY <2>1, <2>2 DEF OneConnects, Connecting, OneCloses, Shut, Critical
  <2>4. NoneLost'
    BY <1>1, <2>1 DEF NoneLost, Dialling
  <2> QED
    BY <2>3, <2>4
<1> QED
  BY <1>2, <1>3, <1>4

LEMMA GuardedStep == Shape /\ Guarded /\ [Next]_vars => Guarded'
<1> SUFFICES ASSUME Shape, Guarded, [Next]_vars PROVE Guarded'
  OBVIOUS
<1>1. CASE UNCHANGED vars
  BY <1>1, GuardedKept DEF vars, flags, socks, calls, ghosts
<1>2. ASSUME NEW d \in Dials, ServerGone(d) PROVE Guarded'
  <2>1. /\ UNCHANGED <<conn, forceClosed, isConnecting, locked, pc, using, overlapped>>
        /\ sock' = [sock EXCEPT ![d] = "broken"]
    BY <1>2 DEF ServerGone, flags, calls, ghosts
  <2>2. \A e \in Dials : sock'[e] = "open" => sock[e] = "open"
    BY <2>1 DEF Shape, Sockets
  <2> SUFFICES ASSUME ~overlapped PROVE (OneConnects /\ NoneLost /\ OneCloses /\ Shut)'
    BY <2>1 DEF Guarded
  <2>3. OneConnects /\ NoneLost /\ OneCloses /\ Shut
    BY DEF Guarded
  <2>4. OneConnects' /\ Shut'
    BY <2>1, <2>3 DEF OneConnects, Connecting, Shut
  <2>5. NoneLost'
    BY <2>1, <2>2, <2>3 DEF NoneLost
  <2>6. OneCloses'
    BY <2>1, <2>2, <2>3 DEF OneCloses, Shape, Fields
  <2> QED
    BY <2>4, <2>5, <2>6
<1> QED
  BY StepCases, GuardedOthers, GuardedDial, GuardedClose, DialsFacts, <1>1, <1>2

LEMMA GuardedInit == Init => Guarded
BY ClientConstants, DialsFacts
DEF ClientConstants, Init, Guarded, OneConnects, Connecting, NoneLost, OneCloses, Shut

\* A client that close() (client.go) has closed has no connection and no open socket
\* once no dial is under way, whatever other goroutines and read loops do, unless
\* a dial overlapped another one or the close.
THEOREM StaysClosedForGood == Spec => []ClosedForGood
<1>1. Shape /\ Guarded => ClosedForGood
  BY DialsFacts DEF Guarded, NoneLost, Shut, ClosedForGood, StaysClosed, Dialling
<1> QED
  BY <1>1, ShapeAlways, GuardedInit, GuardedStep, PTL DEF Spec

\* As long as no two goroutines have stood between the check of isConnecting (client.go:431)
\* and its store, and no dial has overlapped a close() or found a connection, one goroutine
\* at a time connects, whatever path it takes out of dialServer.
THEOREM OneConnectsAtATime == Spec => []OneDialByFlag
<1>1. ASSUME Shape, Guarded, ~overlapped PROVE OneDial
  <2> DEFINE S == {p \in Procs : pc[p] \in {"again", "connect", "store", "spawn"}}
  <2>1. \A p, q \in S : p = q
    BY <1>1 DEF Guarded, OneConnects, Connecting
  <2>2. S = {} \/ \E p \in S : S = {p}
    BY <2>1
  <2>3. Cardinality(S) <= 1
    <3>1. CASE S = {}
      BY <3>1, FS_EmptySet
    <3>2. CASE \E p \in S : S = {p}
      <4>1. PICK p : S = {p}
        BY <3>2
      <4>2. Cardinality({p}) = 1
        BY FS_Singleton
      <4> QED
        BY <4>1, <4>2
    <3> QED
      BY <2>2, <3>1, <3>2
  <2> QED
    BY <2>3 DEF OneDial
<1> QED
  BY <1>1, ShapeAlways, GuardedInit, GuardedStep, PTL DEF Spec, OneDialByFlag

=============================================================================
