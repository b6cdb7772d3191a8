--------------------------- MODULE RouterQuitProofs ---------------------------
(***************************************************************************)
(* What Router.Quit leaves behind, for any number of connections, buckets, *)
(* addresses and closing goroutines, with or without an active check.      *)
(*                                                                         *)
(* The argument: a goroutine that adds a connection to a bucket or to the  *)
(* address map is between GetBucket and AddConnect.  Those that are there  *)
(* when their bucket is emptied are late, so are those that get there      *)
(* before it is deleted from the map, and no other gets there afterwards,  *)
(* because GetBucket does not find the bucket any more.                    *)
(***************************************************************************)
EXTENDS RouterQuit, ConnLifecycleProofs

\* Maps are maps.
Shape ==
  /\ DOMAIN connMap = BucketIds /\ DOMAIN remote = Addrs /\ DOMAIN entry = Conns
  /\ connMap = [b \in BucketIds |-> connMap[b]]
  /\ remote = [a \in Addrs |-> remote[a]]
  /\ entry = [c \in Conns |-> entry[c]]

\* Bucket b was emptied by Quit.
Emptied(b) == b \notin bucketMap \/ (quit = "delete" /\ b = quitBucket)

\* An emptied bucket has, and gets, late connections only.
EmptiedForLate ==
  \A b \in BucketIds : Emptied(b) =>
    /\ connMap[b] \subseteq late
    /\ \A c \in Conns : BucketOf(c) = b /\ InAccept(c) => c \in late

QuitOrder ==
  /\ bucketMap \subseteq BucketIds
  /\ quit \in {"cleanup", "done"} => bucketMap = {}

AddressesOfLate == quit = "done" => \A a \in Addrs : remote[a] \in late \cup {NoConn}

QuitInv == Shape /\ QuitOrder /\ EmptiedForLate /\ AddressesOfLate

\* What the goroutines other than Quit may do to the maps: delete, and add a connection
\* that is in its Accept, where nobody else comes in.
Disturbs ==
  /\ Shape'
  /\ \A b \in BucketIds :
       connMap'[b] \subseteq connMap[b] \cup {c \in Conns : BucketOf(c) = b /\ InAccept(c)}
  /\ \A c \in Conns : InAccept(c)' => InAccept(c)
  /\ \A a \in Addrs : remote'[a] \in {remote[a], NoConn} \cup {c \in Conns : InAccept(c)}

-----------------------------------------------------------------------------
LEMMA SlotInRange == ASSUME NEW c \in Conns PROVE BucketOf(c) \in BucketIds
  BY ConstantsAssumption DEF BucketOf, BucketIds, Conns

\* Steps that touch none of the three maps.
LEMMA DisturbsNothing ==
  ASSUME Shape, UNCHANGED <<connMap, entry, remote>> PROVE Disturbs
  BY DEF Disturbs, Shape, InAccept

LEMMA DisturbsByDrop ==
  ASSUME Shape, NEW c, DropFromBucket(c), UNCHANGED <<entry, remote>> PROVE Disturbs
<1>1. connMap' = [connMap EXCEPT ![BucketOf(c)] = @ \ {c}]
  BY DEF DropFromBucket
<1>2. Shape' /\ \A b \in BucketIds : connMap'[b] \subseteq connMap[b]
  BY <1>1 DEF Shape
<1> QED
  BY <1>2 DEF Disturbs, InAccept

LEMMA DisturbsByDelRemote ==
  ASSUME Shape, NEW a, DelRemote(a), UNCHANGED <<entry, connMap>> PROVE Disturbs
<1>1. remote' = remote \/ remote' = [remote EXCEPT ![a] = NoConn]
  BY DEF DelRemote, WithoutAddr
<1>2. Shape' /\ \A d \in Addrs : remote'[d] \in {remote[d], NoConn}
  BY <1>1 DEF Shape
<1> QED
  BY <1>2 DEF Disturbs, InAccept

\* Accept goes on.
LEMMA DisturbsByEntry ==
  ASSUME Shape, NEW c \in Conns, EntryStep(c) PROVE Disturbs
<1>1. CASE SetRemoteAddr(c)
  BY <1>1 DEF SetRemoteAddr, mapVars, Disturbs, Shape, InAccept
<1>2. CASE AddRemote(c)
  <2>1. /\ InAccept(c)
        /\ entry' = [entry EXCEPT ![c] = "listed"]
        /\ remote' = [remote EXCEPT ![addr[c]] = c]
        /\ connMap' = connMap
    BY <1>2 DEF AddRemote, mapVars, InAccept
  <2>2. Shape'
    BY <2>1 DEF Shape
  <2>3. \A a \in Addrs : remote'[a] \in {remote[a], c}
    BY <2>1 DEF Shape
  <2>4. \A d \in Conns : InAccept(d)' => InAccept(d)
    BY <2>1 DEF Shape, InAccept
  <2> QED
    BY <2>1, <2>2, <2>3, <2>4 DEF Disturbs
<1>3. CASE AddConnectMaps(c)
  <2>1. /\ InAccept(c)
        /\ entry' = [entry EXCEPT ![c] = "mapped"]
        /\ connMap' = [connMap EXCEPT ![BucketOf(c)] = @ \cup {c}]
        /\ remote' = remote
    BY <1>3 DEF AddConnectMaps, InAccept
  <2>2. Shape'
    BY <2>1 DEF Shape
  <2>3. \A b \in BucketIds :
          connMap'[b] = IF b = BucketOf(c) THEN connMap[b] \cup {c} ELSE connMap[b]
    BY <2>1, SlotInRange DEF Shape
  <2>4. \A d \in Conns : InAccept(d)' => InAccept(d)
    BY <2>1 DEF Shape, InAccept
  <2> QED
    BY <2>1, <2>2, <2>3, <2>4 DEF Disturbs
<1>4. CASE AddConnectCount(c)
  BY <1>4 DEF AddConnectCount, Disturbs, Shape, InAccept
<1> QED
  BY <1>1, <1>2, <1>3, <1>4 DEF EntryStep

LEMMA DisturbsByReader ==
  ASSUME Shape, NEW c \in Conns, ReaderStep(c) PROVE Disturbs
<1>1. CASE ReaderDelRemote(c)
  BY <1>1, DisturbsByDelRemote DEF ReaderDelRemote, mapVars
<1>2. CASE CloseConnMaps(c)
  BY <1>2, DisturbsByDrop DEF CloseConnMaps
<1>3. CASE ~ReaderDelRemote(c) /\ ~CloseConnMaps(c)
  BY <1>3, DisturbsNothing
     DEF ReaderStep, ReadError, ReaderClosedCB, CloseConnCount, CloseConnSocket, mapVars
<1> QED
  BY <1>1, <1>2, <1>3

LEMMA DisturbsByCloser ==
  ASSUME Shape, NEW p \in Procs, CloserStep(p) PROVE Disturbs
<1>1. CASE DeleteFound(p)
  BY <1>1, DisturbsByDrop DEF DeleteFound
<1>2. CASE Unlist(p)
  BY <1>2, DisturbsByDelRemote DEF Unlist, mapVars
<1>3. CASE ~DeleteFound(p) /\ ~Unlist(p)
  BY <1>3, DisturbsNothing
     DEF CloserStep, WriteClose, LookupRemote, FindConn, CloseFound, CountFound,
         CheckCount, ResetCount, mapVars
<1> QED
  BY <1>1, <1>2, <1>3

LEMMA DisturbsByTick ==
  ASSUME Shape, NEW b \in BucketIds, TickStep(b) PROVE Disturbs
<1>1. CASE TickDelete(b)
  BY <1>1, DisturbsByDrop DEF TickDelete
<1>2. CASE TickFree(b)
  <2>1. /\ UNCHANGED <<entry, remote>>
        /\ UNCHANGED connMap \/ connMap' = [connMap EXCEPT ![b] = {}]
    BY <1>2 DEF TickFree, FreeRunMemory
  <2>2. Shape' /\ \A d \in BucketIds : connMap'[d] \subseteq connMap[d]
    BY <2>1 DEF Shape
  <2> QED
    BY <2>1, <2>2 DEF Disturbs, InAccept
<1>3. CASE ~TickDelete(b) /\ ~TickFree(b)
  BY <1>3, DisturbsNothing
     DEF TickStep, TickStart, TickNext, TickEnd, TickClose, TickCount, mapVars
<1> QED
  BY <1>1, <1>2, <1>3

\* A connection that finds no bucket is not in Accept: it is in no map.
LEMMA DisturbsByLost ==
  ASSUME Shape, NEW c \in Conns, NEW a \in Addrs, UpgradeLost(c, a) PROVE Disturbs
<1>1. entry' = [entry EXCEPT ![c] = "done"] /\ UNCHANGED <<connMap, remote>>
  BY DEF UpgradeLost, mapVars
<1> QED
  BY <1>1 DEF Disturbs, Shape, InAccept

LEMMA OthersDisturb ==
  ASSUME Shape, Others PROVE Disturbs /\ UNCHANGED quitVars
<1>1. UNCHANGED quitVars
  BY DEF Others, UpgradeLost
<1>2. ASSUME NEW c \in Conns,
             \/ PeerGone(c) \/ Stall(c) \/ Resume(c) \/ Expire(c) \/ ReadMessage(c)
             \/ WriteBegin(c) \/ WriteFault(c) \/ TimerStep(c)
      PROVE  Disturbs
  BY <1>2, DisturbsNothing
     DEF PeerGone, Stall, Resume, Expire, ReadMessage, WriteBegin, WriteFault, TimerStep,
         Connected, TimerClosedCB, mapVars
<1>3. ASSUME NEW p \in Callers, NEW c \in Conns,
             StartCloseFound(p, c) \/ StartCloseWithMessage(p, c) \/ AppClose(p, c)
      PROVE  Disturbs
  BY <1>3, DisturbsNothing
     DEF StartCloseFound, StartCloseConnect, StartCloseWithMessage, AppClose, mapVars
<1>4. ASSUME NEW p \in Procs, CloserFound(p) \/ CloserLost(p) PROVE Disturbs
  BY <1>4, DisturbsByCloser, DisturbsNothing DEF CloserFound, CloserLost, mapVars
<1>5. ASSUME NEW b \in BucketIds, SendStep(b) \/ TickRuns(b) \/ MapFault(b)
      PROVE  Disturbs
  BY <1>5, DisturbsByTick, DisturbsNothing
     DEF SendStep, WriteNext, WriteEnd, TickRuns, MapFault, mapVars
<1>6. ASSUME BucketFault PROVE Disturbs
  BY <1>6, DisturbsNothing DEF BucketFault, mapVars
<1>7. ASSUME NEW c \in Conns, NEW a \in Addrs, UpgradeAborted(c, a) PROVE Disturbs
  <2>1. entry' = [entry EXCEPT ![c] = "aborted"] /\ UNCHANGED <<connMap, remote>>
    BY <1>7 DEF UpgradeAborted, mapVars
  <2> QED
    BY <2>1 DEF Disturbs, Shape, InAccept
<1> QED
  BY <1>1, <1>2, <1>3, <1>4, <1>5, <1>6, <1>7, DisturbsByLost, DisturbsByEntry,
     DisturbsByReader
     DEF Others

-----------------------------------------------------------------------------
LEMMA QuitInvInit == QuitInit => QuitInv
BY DEF QuitInit, Init, QuitInv, Shape, QuitOrder, EmptiedForLate, Emptied, AddressesOfLate

LEMMA QuitInvStep == QuitInv /\ [QuitNext]_allVars => QuitInv'
<1> SUFFICES ASSUME QuitInv, [QuitNext]_allVars PROVE QuitInv'
  OBVIOUS
<1> USE DEF QuitInv
<1>1. ASSUME Disturbs, UNCHANGED quitVars PROVE QuitInv'
  <2>1. Shape' /\ QuitOrder'
    BY <1>1 DEF Disturbs, QuitOrder, quitVars
  <2>2. EmptiedForLate'
    BY <1>1 DEF Disturbs, EmptiedForLate, Emptied, quitVars
  <2>3. AddressesOfLate'
    <3> SUFFICES ASSUME quit = "done", NEW a \in Addrs PROVE remote'[a] \in late \cup {NoConn}
      BY <1>1 DEF AddressesOfLate, quitVars
    <3>1. \A c \in Conns : InAccept(c) => c \in late
      BY SlotInRange DEF EmptiedForLate, Emptied, QuitOrder
    <3> QED
      BY <1>1, <3>1 DEF Disturbs, AddressesOfLate
  <2> QED
    BY <2>1, <2>2, <2>3
<1>2. CASE UNCHANGED allVars
  <2>1. UNCHANGED <<connMap, entry, remote>> /\ UNCHANGED quitVars
    BY <1>2 DEF allVars, vars, mapVars
  <2> QED
    BY <1>1, <2>1, DisturbsNothing
<1>3. CASE Others
  BY <1>1, <1>3, OthersDisturb
<1>4. ASSUME NEW c \in Conns, NEW a \in Addrs, UpgradeFound(c, a) PROVE QuitInv'
  <2>1. /\ BucketOf(c) \in bucketMap /\ late \subseteq late'
        /\ quit = "delete" /\ quitBucket = BucketOf(c) => c \in late'
        /\ UNCHANGED <<bucketMap, quit, quitBucket, connMap, remote>>
        /\ entry' = [entry EXCEPT ![c] = "spawned"]
    BY <1>4 DEF UpgradeFound, Upgrade, mapVars
  <2>2. \A d \in Conns : d # c /\ InAccept(d)' => InAccept(d)
    BY <2>1 DEF Shape, InAccept
  <2>3. Shape' /\ QuitOrder' /\ AddressesOfLate'
    BY <2>1 DEF Shape, QuitOrder, AddressesOfLate
  <2>4. EmptiedForLate'
    BY <2>1, <2>2 DEF EmptiedForLate, Emptied
  <2> QED
    BY <2>3, <2>4
<1>5. CASE StartQuit
  BY <1>5 DEF StartQuit, vars, mapVars, Shape, QuitOrder, EmptiedForLate, Emptied, InAccept,
              AddressesOfLate
<1>6. ASSUME NEW b \in BucketIds, QuitTicker(b) PROVE QuitInv'
  BY <1>6 DEF QuitTicker, vars, mapVars, Shape, QuitOrder, EmptiedForLate, Emptied, InAccept,
              AddressesOfLate
<1>7. CASE QuitFree
  <2>1. /\ quit = "free" /\ quit' = "delete" /\ UNCHANGED <<bucketMap, quitBucket, entry, remote>>
        /\ connMap' = [connMap EXCEPT ![quitBucket] = {}]
        /\ late' = late \cup {c \in Conns : BucketOf(c) = quitBucket /\ InAccept(c)}
    BY <1>7 DEF QuitFree, FreeRunMemory
  <2>2. Shape' /\ QuitOrder' /\ AddressesOfLate'
    BY <2>1 DEF Shape, QuitOrder, AddressesOfLate
  <2>3. ASSUME NEW b \in BucketIds, Emptied(b)'
        PROVE  /\ connMap'[b] \subseteq late'
               /\ \A c \in Conns : BucketOf(c) = b /\ InAccept(c)' => c \in late'
    <3>1. CASE b = quitBucket
      BY <2>1, <3>1 DEF Shape, InAccept
    <3>2. CASE b # quitBucket
      BY <2>1, <2>3, <3>2 DEF Shape, Emptied, EmptiedForLate, InAccept
    <3> QED
      BY <3>1, <3>2
  <2> QED
    BY <2>2, <2>3 DEF EmptiedForLate, BucketOf
<1>8. CASE QuitDelete
  <2>1. /\ quit = "delete" /\ bucketMap' = bucketMap \ {quitBucket}
        /\ quit' = IF bucketMap' = {} THEN "cleanup" ELSE "range"
        /\ UNCHANGED <<connMap, entry, remote, late>>
    BY <1>8 DEF QuitDelete, vars, mapVars
  <2>2. Shape' /\ QuitOrder' /\ AddressesOfLate'
    BY <2>1 DEF Shape, QuitOrder, AddressesOfLate
  <2>3. EmptiedForLate'
    BY <2>1 DEF EmptiedForLate, Emptied, InAccept
  <2> QED
    BY <2>2, <2>3
<1>9. CASE Cleanup
  <2>1. /\ quit = "cleanup" /\ quit' = "done" /\ UNCHANGED <<bucketMap, quitBucket, late>>
        /\ UNCHANGED <<connMap, entry>> /\ remote' = [a \in Addrs |-> NoConn]
    BY <1>9 DEF Cleanup, mapVars
  <2>2. Shape' /\ QuitOrder' /\ AddressesOfLate'
    BY <2>1 DEF Shape, QuitOrder, AddressesOfLate
  <2>3. EmptiedForLate'
    BY <2>1 DEF EmptiedForLate, Emptied, InAccept
  <2> QED
    BY <2>2, <2>3
<1> QED
  BY <1>2, <1>3, <1>4, <1>5, <1>6, <1>7, <1>8, <1>9 DEF QuitNext, QuitStep, QuitFinished

\* Whatever runs next to Quit, the buckets and the address map it leaves behind refer to
\* no connection but those that got their bucket before Quit deleted it from the map, and
\* were not through with it when Quit emptied it, or got it after that.
THEOREM QuitLeavesOnlyLate == QuitSpec => []OnlyLateRemain
<1>1. QuitInv => OnlyLateRemain
  BY DEF QuitInv, QuitOrder, EmptiedForLate, Emptied, AddressesOfLate, OnlyLateRemain
<1> QED
  BY QuitInvInit, QuitInvStep, <1>1, PTL DEF QuitSpec

-----------------------------------------------------------------------------
(* The typing.  Most steps are steps of ConnLifecycle, where Inv is        *)
(* inductive; the others only forget things, or add a connection that      *)
(* nobody refers to yet.                                                   *)

QuitTyping ==
  /\ bucketMap \subseteq BucketIds /\ stopped \subseteq BucketIds /\ late \subseteq Conns
  /\ quit \in {"idle", "range", "free", "delete", "cleanup", "done"}
  /\ quitBucket \in BucketIds
  /\ quit \in {"free", "delete"} => quitBucket \in bucketMap \cap stopped
  /\ quit \in {"cleanup", "done"} <=> bucketMap = {}
  /\ BucketIds \ bucketMap \subseteq stopped

\* A step of the router that Quit does not change.
LEMMA StepsOfRouter ==
  ASSUME ~crashed,
         \/ \E c \in Conns, a \in Addrs : UpgradeFound(c, a) \/ UpgradeAborted(c, a)
         \/ \E c \in Conns : \/ PeerGone(c) \/ Stall(c) \/ Resume(c) \/ Expire(c)
                             \/ ReadMessage(c) \/ WriteBegin(c) \/ WriteFault(c)
                             \/ EntryStep(c) \/ ReaderStep(c) \/ TimerStep(c)
         \/ \E p \in Callers, c \in Conns :
              StartCloseFound(p, c) \/ StartCloseWithMessage(p, c) \/ AppClose(p, c)
         \/ \E p \in Procs : CloserFound(p)
         \/ \E b \in BucketIds : SendStep(b) \/ TickRuns(b) \/ MapFault(b)
  PROVE  Next
BY DEF UpgradeFound, StartCloseFound, CloserFound, TickRuns, Next, Outside

LEMMA LostKeepsInv ==
  ASSUME Inv, NEW c \in Conns, NEW a \in Addrs, UpgradeLost(c, a)
  PROVE  Inv'
<1> USE DEF Inv, TypeOK, EnvTypeOK, ConnTypeOK, MapTypeOK, CallTypeOK, TickTypeOK
<1>1. /\ connectId' = connectId + 1 /\ c = connectId + 1
      /\ sock' = [sock EXCEPT ![c] = "open"] /\ addr' = [addr EXCEPT ![c] = a]
      /\ entry' = [entry EXCEPT ![c] = "done"] /\ pc' = [pc EXCEPT ![c] = "armed"]
      /\ UNCHANGED <<stalled, act, reader, connMap, connRemoteMap, connCount, locked,
                     sending, remote, target, ws, found, tick, tickConn, tickTodo,
                     detached, crashed>>
  BY DEF UpgradeLost, mapVars, tickVars
<1>2. entry[c] = "none" /\ sock[c] = "none" /\ pc[c] = "unarmed" /\ ws[c] = NoConn
  <2>1. entry[c] = "none" /\ sock[c] = "none"
    BY <1>1 DEF FreshIds
  <2>2. c \in Procs
    BY DEF Procs
  <2> QED
    BY <2>1, <2>2 DEF Wired
<1>3. TypeOK'
  <2>1. connectId' \in 0 .. MaxConns
    BY <1>1, ConstantsAssumption DEF Conns
  <2>2. CallTypeOK'
    <3>1. c \notin Callers
      BY ProcsApart
    <3> QED
      BY <1>1, <3>1 DEF Procs, Calling
  <2> QED
    BY <1>1, <2>1, <2>2
<1>4. FreshIds'
  BY <1>1, <1>2 DEF FreshIds, Conns
<1>5. NoDangling'
  <2>1. \A d : Known(d) => Known(d)'
    BY <1>1, <1>2 DEF Known
  <2> QED
    BY <1>1, <2>1 DEF NoDangling
<1>6. Wired'
  BY <1>1, <1>2, ProcsApart DEF Wired, Closing, Procs
<1>7. ClosersClosed'
  BY <1>1, <1>2 DEF ClosersClosed, Closing
<1>8. ReaderClosed'
  <2>1. reader[c] \notin {"failed", "unlisted", "told", "unmapped", "counted"}
    BY <1>2 DEF ReaderClosed, ReadFails
  <2> QED
    BY <1>1, <2>1 DEF ReaderClosed, ReadFails
<1> QED
  BY <1>3, <1>4, <1>5, <1>6, <1>7, <1>8

LEMMA CloserLostKeepsInv ==
  ASSUME Inv, NEW p \in Procs, CloserLost(p)
  PROVE  Inv'
<1> USE DEF Inv
<1>1. /\ pc[p] = "lookup" /\ Return(p)
      /\ UNCHANGED <<envVars, entry, reader, mapVars, remote, tickVars, crashed>>
  BY DEF CloserLost
<1>2. TypeOK'
  BY <1>1, ReturnType DEF TypeOK, EnvTypeOK, ConnTypeOK, MapTypeOK, TickTypeOK, envVars,
                          mapVars, tickVars
<1>3. FreshIds' /\ ReaderClosed'
  BY <1>1 DEF FreshIds, ReaderClosed, ReadFails, envVars
<1>4. NoDangling'
  BY <1>1 DEF NoDangling, Known, Return, mapVars, tickVars, TypeOK, CallTypeOK
<1>5. Wired' /\ ClosersClosed'
  BY <1>1 DEF Wired, ClosersClosed, Closing, Return, Goto, envVars, TypeOK, CallTypeOK
<1> QED
  BY <1>2, <1>3, <1>4, <1>5

\* What Quit does to the maps, and a crash.
LEMMA ForgettingKeepsInv ==
  ASSUME Inv, connMap' \in [BucketIds -> SUBSET Conns],
         connRemoteMap' \in [BucketIds -> [Addrs -> Conns \cup {NoConn}]],
         remote' \in [Addrs -> Conns \cup {NoConn}],
         detached' \in [BucketIds -> BOOLEAN], crashed' \in BOOLEAN,
         \A b \in BucketIds : connMap'[b] \subseteq connMap[b],
         \A a \in Addrs : remote'[a] \in {remote[a], NoConn},
         tickTodo' \in [BucketIds -> SUBSET Conns],
         \A b \in BucketIds : tickTodo'[b] \subseteq tickTodo[b] \cup connMap[b],
         UNCHANGED <<envVars, entry, reader, connCount, locked, sending, callVars, tick,
                     tickConn>>
  PROVE  Inv'
<1> USE DEF Inv
<1>1. TypeOK'
  BY DEF TypeOK, EnvTypeOK, ConnTypeOK, MapTypeOK, CallTypeOK, TickTypeOK, envVars, callVars
<1>2. FreshIds' /\ ReaderClosed' /\ Wired' /\ ClosersClosed'
  BY DEF FreshIds, ReaderClosed, ReadFails, Wired, ClosersClosed, envVars, callVars
<1>3. NoDangling'
  BY DEF NoDangling, Known, callVars
<1> QED
  BY <1>1, <1>2, <1>3

LEMMA InvStepQuit == Inv /\ QuitTyping /\ [QuitNext]_allVars => Inv'
<1> SUFFICES ASSUME Inv, QuitTyping, [QuitNext]_allVars PROVE Inv'
  OBVIOUS
<1>1. CASE UNCHANGED vars
  BY <1>1, InvStep
<1>2. CASE ~crashed /\ Next
  BY <1>2, InvStep
<1>3. CASE QuitFree
  <2>1. /\ detached' \in [BucketIds -> BOOLEAN]
        /\ connMap' \in [BucketIds -> SUBSET Conns]
        /\ connRemoteMap' \in [BucketIds -> [Addrs -> Conns \cup {NoConn}]]
        /\ \A b \in BucketIds : connMap'[b] \subseteq connMap[b]
    BY <1>3 DEF QuitFree, FreeRunMemory, Inv, TypeOK, MapTypeOK, TickTypeOK
  <2>2. /\ tickTodo' \in [BucketIds -> SUBSET Conns]
        /\ \A b \in BucketIds : tickTodo'[b] \subseteq tickTodo[b] \cup connMap[b]
    BY <1>3 DEF QuitFree, FreeRunMemory, Remaining, Inv, TypeOK, MapTypeOK, TickTypeOK
  <2>3. UNCHANGED <<envVars, entry, reader, connCount, locked, sending, remote, callVars,
                    tick, tickConn, crashed>>
    BY <1>3 DEF QuitFree
  <2> QED
    BY <2>1, <2>2, <2>3, ForgettingKeepsInv DEF Inv, TypeOK, EnvTypeOK, MapTypeOK
<1>4. CASE Cleanup \/ BucketFault
  <2>1. /\ remote' \in [Addrs -> Conns \cup {NoConn}] /\ crashed' \in BOOLEAN
        /\ \A a \in Addrs : remote'[a] \in {remote[a], NoConn}
        /\ UNCHANGED <<envVars, entry, reader, mapVars, callVars, tickVars>>
    BY <1>4 DEF Cleanup, BucketFault, Inv, TypeOK, EnvTypeOK, MapTypeOK
  <2> QED
    BY <2>1, ForgettingKeepsInv DEF mapVars, tickVars, Inv, TypeOK, MapTypeOK, TickTypeOK
<1>5. CASE StartQuit \/ QuitDelete \/ \E b \in BucketIds : QuitTicker(b)
  BY <1>1, <1>5 DEF StartQuit, QuitDelete, QuitTicker
<1>6. CASE Others /\ ~crashed
  <2>1. CASE \E c \in Conns, a \in Addrs : UpgradeLost(c, a)
    BY <2>1, LostKeepsInv
  <2>2. CASE \E p \in Procs : CloserLost(p)
    BY <2>2, CloserLostKeepsInv
  <2>3. CASE BucketFault
    BY <1>4, <2>3
  <2> QED
    BY <1>2, <1>6, <2>1, <2>2, <2>3, StepsOfRouter DEF Others
<1>7. CASE ~crashed /\ \E c \in Conns, a \in Addrs : UpgradeFound(c, a)
  BY <1>2, <1>7, StepsOfRouter
<1> QED
  BY <1>1, <1>3, <1>4, <1>5, <1>6, <1>7 DEF QuitNext, QuitStep, QuitFinished, allVars

LEMMA QuitTypingStep == QuitTyping /\ [QuitNext]_allVars => QuitTyping'
<1> SUFFICES ASSUME QuitTyping, [QuitNext]_allVars PROVE QuitTyping'
  OBVIOUS
<1> USE DEF QuitTyping
<1>1. CASE UNCHANGED quitVars
  BY <1>1 DEF quitVars
<1>2. ASSUME NEW c \in Conns, NEW a \in Addrs, UpgradeFound(c, a) PROVE QuitTyping'
  BY <1>2 DEF UpgradeFound
<1>3. CASE StartQuit
  BY <1>3 DEF StartQuit
<1>4. ASSUME NEW b \in BucketIds, QuitTicker(b) PROVE QuitTyping'
  BY <1>4 DEF QuitTicker
<1>5. CASE QuitFree
  BY <1>5 DEF QuitFree
<1>6. CASE QuitDelete
  BY <1>6 DEF QuitDelete
<1>7. CASE Cleanup
  BY <1>7 DEF Cleanup
<1> QED
  BY <1>1, <1>2, <1>3, <1>4, <1>5, <1>6, <1>7
  DEF QuitNext, QuitStep, QuitFinished, Others, UpgradeLost, allVars

\* The router keeps its shape while Quit takes it apart next to goroutines that go on using
\* it, and Quit is done with one bucket before it takes the next.
THEOREM QuitKeepsShape == QuitSpec => []QuitTypeOK
<1>1. QuitInit => Inv /\ QuitTyping
  <2>1. 0 \in BucketIds
    BY ConstantsAssumption DEF BucketIds
  <2> QED
    BY <2>1, InvInit DEF QuitInit, QuitTyping
<1>2. Inv /\ QuitTyping => QuitTypeOK
  BY DEF Inv, QuitTyping, QuitTypeOK
<1> QED
  BY <1>1, <1>2, InvStepQuit, QuitTypingStep, PTL DEF QuitSpec

===============================================================================
