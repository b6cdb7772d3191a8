------------------------- MODULE ConnRefinementProofs -------------------------
(***************************************************************************)
(* ConnLifecycle implements ConnRegistry, for any number of connections,   *)
(* buckets, addresses and callers, in a router without an active check     *)
(* whose peers do not reuse addresses.                                     *)
(*                                                                         *)
(* Every step either leaves the abstract state as it is or is one abstract *)
(* action.  That the guards of the abstract actions hold rests on the      *)
(* invariants of ConnLifecycleProofs and on one more, RemoteOwn.           *)
(***************************************************************************)
EXTENDS ConnRefinement, ConnLifecycleProofs

\* An entry of the address map is for a connection that has that address, and whose
\* Accept has made the entry.
RemoteOwn ==
  \A a \in Addrs : remote[a] # NoConn =>
    addr[remote[a]] = a /\ entry[remote[a]] \in {"listed", "mapped", "done"}

RefInv == BucketInv /\ AddressInv /\ RemoteOwn

-----------------------------------------------------------------------------
\* Accept adds an address once, and an entry keeps its connection.
LEMMA RemoteOwnStep ==
  ASSUME AddressInv, RemoteOwn, [Next]_vars
  PROVE  RemoteOwn'
<1> USE DEF AddressInv, Inv, TypeOK, EnvTypeOK, ConnTypeOK, MapTypeOK, CallTypeOK
<1> SUFFICES ASSUME NEW a \in Addrs, remote'[a] # NoConn
             PROVE  /\ addr'[remote'[a]] = a
                    /\ entry'[remote'[a]] \in {"listed", "mapped", "done"}
  BY DEF RemoteOwn
<1>1. ASSUME NEW c \in Conns, AddRemote(c), remote'[a] # remote[a]
      PROVE  remote'[a] = c /\ addr'[c] = a /\ entry'[c] = "listed"
  BY <1>1 DEF AddRemote, envVars, Wired
<1>2. CASE remote'[a] = remote[a]
  <2>1. remote[a] \in Conns /\ addr[remote[a]] = a
        /\ entry[remote[a]] \in {"listed", "mapped", "done"}
    BY <1>2 DEF RemoteOwn
  <2>2. ASSUME NEW c \in Conns, NEW x \in Addrs,
               Upgrade(c, x) \/ UpgradeAborted(c, x), c = remote[a]
        PROVE  FALSE
    BY <2>1, <2>2, FreshIds DEF Upgrade, UpgradeAborted, FreshIds
  <2>3. ASSUME NEW c \in Conns, EntryStep(c)
        PROVE  entry'[remote[a]] \in {"listed", "mapped", "done"}
    BY <2>1, <2>3 DEF EntryStep, SetRemoteAddr, AddRemote, AddConnectMaps, AddConnectCount
  <2>4. ASSUME NEW c \in Conns, NEW x \in Addrs, Upgrade(c, x) \/ UpgradeAborted(c, x)
        PROVE  \E s \in {"spawned", "aborted"} : entry' = [entry EXCEPT ![c] = s]
    BY <2>4 DEF Upgrade, UpgradeAborted
  <2>5. entry'[remote[a]] \in {"listed", "mapped", "done"}
    BY <2>1, <2>2, <2>3, <2>4, EntryFrame
  <2>6. addr'[remote[a]] = addr[remote[a]]
    BY <2>1, EntryStepOn
  <2> QED
    BY <1>2, <2>1, <2>5, <2>6
<1>3. ASSUME NEW c \in Conns, ReaderDelRemote(c) PROVE remote'[a] \in {remote[a], NoConn}
  BY <1>3 DEF ReaderDelRemote, DelRemote, WithoutAddr
<1>4. ASSUME NEW p \in Procs, Unlist(p) PROVE remote'[a] \in {remote[a], NoConn}
  BY <1>4 DEF Unlist, DelRemote, WithoutAddr
<1> QED
  BY <1>1, <1>2, <1>3, <1>4, RemoteFrame

LEMMA RefInvInit == Init => RefInv
<1> SUFFICES ASSUME Init PROVE RefInv
  OBVIOUS
<1>1. NoTicker /\ MappedInBucket /\ OwnAddress /\ ListedByAddr /\ RemoteOwn
  BY DEF Init, NoTicker, MappedInBucket, OwnAddress, ListedByAddr, RemoteOwn
<1> QED
  BY <1>1, InvInit DEF RefInv, BucketInv, AddressInv

LEMMA RefInvStep ==
  ASSUME ~CheckActive, ~AddrReuse, RefInv, [Next]_vars
  PROVE  RefInv'
BY InvStep, NoTickerStep, MappedStep, AddressStep, ListedStep, RemoteOwnStep
   DEF RefInv, BucketInv, AddressInv, Inv

-----------------------------------------------------------------------------
(* The abstract state.                                                     *)

LEMMA AbstractInit == Init => Registry!Init
BY DEF Init, Registry!Init, PhaseMap, LifeMap, Phase, Life, ReadFails

\* Closing a socket, by whoever does it, is an abstract Die or changes nothing.
LEMMA AbstractDie ==
  ASSUME RefInv, NEW c \in Conns, NEW s \in {"broken", "closed"},
         entry[c] # "none", sock' = [sock EXCEPT ![c] = s],
         UNCHANGED <<entry, connMap, remote>>
  PROVE  [Registry!Next]_(Registry!vars)
<1> USE DEF RefInv, BucketInv, Inv, TypeOK, EnvTypeOK, ConnTypeOK
<1>1. PhaseMap' = PhaseMap
  BY DEF PhaseMap, Phase, BucketOf
<1>2. sock[c] # "none"
  BY DEF FreshIds
<1>3. CASE Up(c)
  <2>1. LifeMap[c] \in {"open", "closing"} /\ LifeMap' = [LifeMap EXCEPT ![c] = "dead"]
    BY <1>3 DEF LifeMap, Life, ReadFails, Up
  <2>2. Registry!Die(c)
    BY <1>1, <2>1 DEF Registry!Die
  <2> QED
    BY <2>2 DEF Registry!Next
<1>4. CASE ~Up(c)
  <2>1. LifeMap' = LifeMap
    BY <1>2, <1>4 DEF LifeMap, Life, ReadFails, Up
  <2> QED
    BY <1>1, <2>1 DEF Registry!vars
<1> QED
  BY <1>3, <1>4

\* Deleting a dead connection from the maps of its bucket is an abstract Drop, or
\* changes nothing.
LEMMA AbstractDrop ==
  ASSUME RefInv, NEW c \in Conns, ReadFails(c), DropFromBucket(c),
         UNCHANGED <<entry, sock, remote>>
  PROVE  [Registry!Next]_(Registry!vars)
<1> USE DEF RefInv, BucketInv, Inv, TypeOK, EnvTypeOK, ConnTypeOK, MapTypeOK
<1>1. LifeMap' = LifeMap /\ LifeMap[c] = "dead"
  BY DEF LifeMap, Life, ReadFails
<1>2. BucketOf(c) \in BucketIds
  BY BucketInRange
<1>3. \A d \in Conns : d # c => Phase(d)' = Phase(d)
  BY <1>2, BucketInRange DEF Phase, DropFromBucket, BucketOf
<1>4. CASE Phase(c) = "listed"
  <2>1. Phase(c)' = "gone"
    BY <1>2, <1>4 DEF Phase, DropFromBucket, BucketOf
  <2>2. PhaseMap[c] = "listed" /\ PhaseMap' = [PhaseMap EXCEPT ![c] = "gone"]
    BY <1>3, <1>4, <2>1 DEF PhaseMap
  <2>3. Registry!Drop(c)
    BY <1>1, <2>2 DEF Registry!Drop
  <2> QED
    BY <2>3 DEF Registry!Next
<1>5. CASE Phase(c) # "listed"
  <2>1. Phase(c)' = Phase(c)
    BY <1>2, <1>5 DEF Phase, DropFromBucket, BucketOf
  <2>2. PhaseMap' = PhaseMap
    BY <1>3, <2>1 DEF PhaseMap
  <2> QED
    BY <1>1, <2>2 DEF Registry!vars
<1> QED
  BY <1>4, <1>5

\* A step that leaves sockets, buckets and addresses alone changes nothing, unless it
\* moves an Entry to another phase.
LEMMA AbstractSame ==
  ASSUME UNCHANGED <<sock, connMap, remote>>, \A c \in Conns : Phase(c)' = Phase(c)
  PROVE  UNCHANGED Registry!vars
BY DEF Registry!vars, PhaseMap, LifeMap, Life, ReadFails

-----------------------------------------------------------------------------
(* The steps that are no stutter.                                          *)

\* A peer that connects is offered.
LEMMA AbstractOffer ==
  ASSUME RefInv, NEW c \in Conns, NEW a \in Addrs, Upgrade(c, a)
  PROVE  Registry!Offer(c)
<1> USE DEF RefInv, BucketInv, Inv, TypeOK, EnvTypeOK, ConnTypeOK
<1>1. entry[c] = "none" /\ sock[c] = "none"
  BY DEF Upgrade, FreshIds, Conns
<1>2. /\ entry' = [entry EXCEPT ![c] = "spawned"]
      /\ sock' = [sock EXCEPT ![c] = "open"]
      /\ UNCHANGED <<connMap, remote>>
  BY DEF Upgrade, mapVars
<1>3. PhaseMap[c] = "new" /\ PhaseMap' = [PhaseMap EXCEPT ![c] = "offered"]
  <2>1. \A d \in Conns : d # c => Phase(d)' = Phase(d)
    BY <1>2 DEF Phase, BucketOf
  <2>2. Phase(c) = "new" /\ Phase(c)' = "offered"
    BY <1>1, <1>2 DEF Phase
  <2> QED
    BY <2>1, <2>2 DEF PhaseMap
<1>4. LifeMap[c] = "none" /\ LifeMap' = [LifeMap EXCEPT ![c] = "open"]
  BY <1>1, <1>2 DEF LifeMap, Life, ReadFails
<1> QED
  BY <1>2, <1>3, <1>4 DEF Registry!Offer

\* One that gets no id is turned away.
LEMMA AbstractTurnAway ==
  ASSUME RefInv, NEW c \in Conns, NEW a \in Addrs, UpgradeAborted(c, a)
  PROVE  Registry!TurnAway(c)
<1> USE DEF RefInv, BucketInv, Inv, TypeOK, EnvTypeOK, ConnTypeOK
<1>1. entry[c] = "none" /\ sock[c] = "none"
  BY DEF UpgradeAborted, FreshIds, Conns
<1>2. /\ entry' = [entry EXCEPT ![c] = "aborted"]
      /\ sock' = [sock EXCEPT ![c] = "open"]
      /\ UNCHANGED <<connMap, remote>>
  BY DEF UpgradeAborted, mapVars
<1>3. PhaseMap[c] = "new" /\ PhaseMap' = [PhaseMap EXCEPT ![c] = "gone"]
  <2>1. \A d \in Conns : d # c => Phase(d)' = Phase(d)
    BY <1>2 DEF Phase, BucketOf
  <2>2. Phase(c) = "new" /\ Phase(c)' = "gone"
    BY <1>1, <1>2 DEF Phase
  <2> QED
    BY <2>1, <2>2 DEF PhaseMap
<1>4. LifeMap[c] = "none" /\ LifeMap' = [LifeMap EXCEPT ![c] = "open"]
  BY <1>1, <1>2 DEF LifeMap, Life, ReadFails
<1> QED
  BY <1>2, <1>3, <1>4 DEF Registry!TurnAway

\* The close frame of CloseWithMessage begins to close an open connection.
LEMMA AbstractBegin ==
  ASSUME RefInv, NEW p \in Procs, WriteClose(p)
  PROVE  [Registry!Next]_(Registry!vars)
<1> USE DEF RefInv, BucketInv, Inv, TypeOK, EnvTypeOK, ConnTypeOK
<1>1. PhaseMap' = PhaseMap /\ UNCHANGED remote
  BY DEF WriteClose, PhaseMap, Phase, BucketOf, mapVars
<1>2. CASE UNCHANGED sock
  BY <1>1, <1>2 DEF Registry!vars, LifeMap, Life, ReadFails
<1>3. CASE sock[ws[p]] = "open" /\ sock' = [sock EXCEPT ![ws[p]] = "closing"]
  <2>1. ws[p] \in Conns
    BY DEF WriteClose, Wired, CallTypeOK
  <2>2. LifeMap[ws[p]] = "open" /\ LifeMap' = [LifeMap EXCEPT ![ws[p]] = "closing"]
    BY <1>3, <2>1 DEF LifeMap, Life, ReadFails
  <2>3. Registry!BeginClose(ws[p])
    BY <1>1, <2>2 DEF Registry!BeginClose
  <2> QED
    BY <2>1, <2>3 DEF Registry!Next
<1> QED
  BY <1>2, <1>3 DEF WriteClose

\* AddConnect puts the connection on the list.
LEMMA AbstractList ==
  ASSUME RefInv, NEW c \in Conns, AddConnectMaps(c)
  PROVE  Registry!List(c)
<1> USE DEF RefInv, BucketInv, Inv, TypeOK, EnvTypeOK, ConnTypeOK, MapTypeOK
<1>1. LifeMap' = LifeMap /\ UNCHANGED remote
  BY DEF AddConnectMaps, envVars, LifeMap, Life, ReadFails
<1>2. BucketOf(c) \in BucketIds
  BY BucketInRange
<1>3. \A d \in Conns : d # c => Phase(d)' = Phase(d)
  BY <1>2, BucketInRange DEF AddConnectMaps, Phase, BucketOf
<1>4. Phase(c) = "offered" /\ Phase(c)' = "listed"
  BY <1>2 DEF AddConnectMaps, Phase, BucketOf
<1>5. PhaseMap[c] = "offered" /\ PhaseMap' = [PhaseMap EXCEPT ![c] = "listed"]
  BY <1>3, <1>4 DEF PhaseMap
<1> QED
  BY <1>1, <1>5 DEF Registry!List

\* Accept enters an address that has no entry: its peer is the only one there.
LEMMA AbstractEnter ==
  ASSUME RefInv, NEW c \in Conns, AddRemote(c)
  PROVE  Registry!Enter(addr[c], c) /\ addr[c] \in Addrs
<1> USE DEF RefInv, BucketInv, AddressInv, Inv, TypeOK, EnvTypeOK, ConnTypeOK, MapTypeOK
<1>1. addr[c] \in Addrs
  BY DEF AddRemote, Wired
<1>2. remote[addr[c]] = NoConn
  <2> SUFFICES ASSUME remote[addr[c]] # NoConn PROVE FALSE
    OBVIOUS
  <2>1. /\ remote[addr[c]] \in Conns /\ addr[remote[addr[c]]] = addr[c]
        /\ entry[remote[addr[c]]] \in {"listed", "mapped", "done"}
    BY <1>1 DEF RemoteOwn
  <2>2. remote[addr[c]] = c
    BY <1>1, <2>1, ConstantsAssumption DEF OwnAddress
  <2> QED
    BY <2>1, <2>2 DEF AddRemote
<1>3. LifeMap' = LifeMap
  BY DEF AddRemote, envVars, LifeMap, Life, ReadFails
<1>4. PhaseMap[c] = "offered" /\ PhaseMap' = PhaseMap
  <2>1. \A d \in Conns : d # c => Phase(d)' = Phase(d)
    BY DEF AddRemote, mapVars, Phase, BucketOf
  <2>2. Phase(c) = "offered" /\ Phase(c)' = "offered"
    BY DEF AddRemote, Phase
  <2> QED
    BY <2>1, <2>2 DEF PhaseMap
<1> QED
  BY <1>1, <1>2, <1>3, <1>4 DEF AddRemote, Registry!Enter

\* DelRemote with the address of a connection that is no longer open erases the entry
\* of that connection or none.
LEMMA AbstractErase ==
  ASSUME RefInv, NEW c \in Conns, sock[c] \notin {"none", "open"},
         DelRemote(NoAddr) \/ DelRemote(addr[c]), UNCHANGED <<entry, sock, connMap>>
  PROVE  [Registry!Next]_(Registry!vars)
<1> USE DEF RefInv, BucketInv, AddressInv, Inv, TypeOK, EnvTypeOK, ConnTypeOK, MapTypeOK
<1>1. PhaseMap' = PhaseMap /\ LifeMap' = LifeMap
  BY DEF PhaseMap, Phase, BucketOf, LifeMap, Life, ReadFails
<1>2. entry[c] # "none" /\ addr[c] \in Addrs /\ addr[c] # NoAddr
  BY ConstantsAssumption DEF FreshIds, Wired
<1>3. CASE UNCHANGED remote
  BY <1>1, <1>3 DEF Registry!vars
<1>4. CASE remote' # remote
  <2>1. remote' = [remote EXCEPT ![addr[c]] = NoConn]
    BY <1>2, <1>4 DEF DelRemote, WithoutAddr
  <2>2. remote[addr[c]] # NoConn
    BY <1>2, <1>4, <2>1
  <2>3. remote[addr[c]] = c
    BY <1>2, <2>2 DEF RemoteOwn, OwnAddress
  <2>4. LifeMap[c] # "open"
    BY DEF LifeMap, Life, ReadFails
  <2>5. Registry!Erase(addr[c])
    BY <1>1, <2>1, <2>2, <2>3, <2>4 DEF Registry!Erase
  <2> QED
    BY <1>2, <2>5 DEF Registry!Next
<1> QED
  BY <1>3, <1>4

-----------------------------------------------------------------------------
(* Every step is one of these.                                             *)

\* A dead connection is taken off the list, an accepted one enters the map, a call
\* deletes an address: the steps of the goroutines, sorted by what they change.
LEMMA AbstractStep ==
  ASSUME ~CheckActive, RefInv, [Next]_vars
  PROVE  [Registry!Next]_(Registry!vars)
<1> USE DEF RefInv, BucketInv, AddressInv, Inv
<1>1. CASE \E c \in Conns, a \in Addrs : Upgrade(c, a)
  BY <1>1, AbstractOffer DEF Registry!Next
<1>16. CASE \E c \in Conns, a \in Addrs : UpgradeAborted(c, a)
  BY <1>16, AbstractTurnAway DEF Registry!Next
<1>2. CASE \E c \in Conns : AddRemote(c) \/ AddConnectMaps(c)
  BY <1>2, AbstractEnter, AbstractList DEF Registry!Next
<1>3. CASE \E p \in Procs : WriteClose(p)
  BY <1>3, AbstractBegin
<1>4. ASSUME NEW c \in Conns, PeerGone(c) \/ CloseConnSocket(c) \/ \E p \in Callers : AppClose(p, c)
      PROVE  [Registry!Next]_(Registry!vars)
  <2>1. entry[c] # "none"
    BY <1>4 DEF PeerGone, CloseConnSocket, AppClose, Up, FreshIds, ReaderClosed, ReadFails
  <2>2. /\ \E s \in {"broken", "closed"} : sock' = [sock EXCEPT ![c] = s]
        /\ UNCHANGED <<entry, connMap, remote>>
    BY <1>4 DEF PeerGone, CloseConnSocket, AppClose, CloseSocket, EndSocket, mapVars
  <2> QED
    BY <2>1, <2>2, AbstractDie
<1>5. ASSUME NEW p \in Procs, CloseFound(p) PROVE [Registry!Next]_(Registry!vars)
  <2>1. target[p] \in Conns /\ entry[target[p]] # "none"
    BY <1>5 DEF CloseFound, Wired, Closing, NoDangling, Known, TypeOK, CallTypeOK
  <2>2. /\ sock' = [sock EXCEPT ![target[p]] = "closed"]
        /\ UNCHANGED <<entry, connMap, remote>>
    BY <1>5 DEF CloseFound, CloseSocket, EndSocket, mapVars
  <2> QED
    BY <2>1, <2>2, AbstractDie
<1>6. ASSUME NEW c \in Conns, CloseConnMaps(c) PROVE [Registry!Next]_(Registry!vars)
  <2>1. ReadFails(c)
    BY <1>6 DEF CloseConnMaps, ReaderClosed
  <2>2. DropFromBucket(c) /\ UNCHANGED <<entry, sock, remote>>
    BY <1>6 DEF CloseConnMaps, envVars
  <2> QED
    BY <2>1, <2>2, AbstractDrop
<1>7. ASSUME NEW p \in Procs, DeleteFound(p) PROVE [Registry!Next]_(Registry!vars)
  <2>1. target[p] \in Conns /\ ReadFails(target[p])
    BY <1>7 DEF DeleteFound, Wired, Closing, ClosersClosed, ReadFails, TypeOK, CallTypeOK
  <2>2. DropFromBucket(target[p]) /\ UNCHANGED <<entry, sock, remote>>
    BY <1>7 DEF DeleteFound, envVars
  <2> QED
    BY <2>1, <2>2, AbstractDrop
<1>8. ASSUME NEW c \in Conns, ReaderDelRemote(c) PROVE [Registry!Next]_(Registry!vars)
  <2>1. sock[c] \notin {"none", "open"}
    BY <1>8 DEF ReaderDelRemote, ReaderClosed, ReadFails
  <2>2. /\ DelRemote(NoAddr) \/ DelRemote(addr[c])
        /\ UNCHANGED <<entry, sock, connMap>>
    BY <1>8 DEF ReaderDelRemote, RemoteAddrOf, envVars, mapVars
  <2> QED
    BY <2>1, <2>2, AbstractErase
<1>9. ASSUME NEW p \in Procs, Unlist(p) PROVE [Registry!Next]_(Registry!vars)
  <2>1. UNCHANGED <<entry, sock, connMap>>
    BY <1>9 DEF Unlist, envVars, mapVars
  <2>2. CASE ws[p] # NoConn
    <3>1. ws[p] \in Conns /\ sock[ws[p]] \notin {"none", "open"} /\ DelRemote(addr[ws[p]])
      BY <1>9, <2>2 DEF Unlist, ClosersClosed, Closing, TypeOK, CallTypeOK
    <3> QED
      BY <2>1, <3>1, AbstractErase
  <2>3. CASE ws[p] = NoConn /\ found[p]
    <3>1. /\ target[p] \in Conns /\ sock[target[p]] \notin {"none", "open"}
          /\ DelRemote(addr[target[p]])
      BY <1>9, <2>3 DEF Unlist, Wired, ClosersClosed, TypeOK, CallTypeOK
    <3> QED
      BY <2>1, <3>1, AbstractErase
  <2>4. CASE ws[p] = NoConn /\ ~found[p]
    <3>1. UNCHANGED remote
      BY <1>9, <2>4 DEF Unlist, DelRemote, WithoutAddr
    <3>2. \A c \in Conns : Phase(c)' = Phase(c)
      BY <2>1 DEF Phase, BucketOf
    <3> QED
      BY <2>1, <3>1, <3>2, AbstractSame
  <2> QED
    BY <2>2, <2>3, <2>4
<1>10. ASSUME NEW b \in BucketIds, TickStep(b) PROVE FALSE
  BY <1>10 DEF TickStep, TickStart, TickNext, TickEnd, TickClose, TickDelete, TickCount,
               TickFree, NoTicker
<1>11. ASSUME NEW c \in Conns, SetRemoteAddr(c) \/ AddConnectCount(c)
       PROVE  [Registry!Next]_(Registry!vars)
  <2>1. UNCHANGED <<sock, connMap, remote>>
    BY <1>11 DEF SetRemoteAddr, AddConnectCount, envVars, mapVars
  <2>2. \/ entry[c] = "spawned" /\ entry' = [entry EXCEPT ![c] = "addressed"]
        \/ entry[c] = "mapped" /\ entry' = [entry EXCEPT ![c] = "done"]
    BY <1>11 DEF SetRemoteAddr, AddConnectCount
  <2>3. entry'[c] \in {"addressed", "done"} /\ \A d \in Conns : d # c => entry'[d] = entry[d]
    BY <2>2 DEF TypeOK, ConnTypeOK
  <2>4. Phase(c)' = Phase(c)
    BY <2>1, <2>2, <2>3 DEF Phase, BucketOf, TypeOK, ConnTypeOK
  <2>5. \A d \in Conns : d # c => Phase(d)' = Phase(d)
    BY <2>1, <2>3 DEF Phase, BucketOf
  <2> QED
    BY <2>1, <2>4, <2>5, AbstractSame
<1>12. CASE UNCHANGED <<entry, sock, connMap, remote>>
  <2>1. \A c \in Conns : Phase(c)' = Phase(c)
    BY <1>12 DEF Phase, BucketOf
  <2> QED
    BY <1>12, <2>1, AbstractSame
<1>13. \/ UNCHANGED sock
       \/ \E c \in Conns, a \in Addrs : Upgrade(c, a) \/ UpgradeAborted(c, a)
       \/ \E c \in Conns : PeerGone(c) \/ CloseConnSocket(c) \/ \E p \in Callers : AppClose(p, c)
       \/ \E p \in Procs : WriteClose(p) \/ CloseFound(p)
  BY <1>10, SockFrame DEF TickStep
<1>14. \/ UNCHANGED connMap
       \/ \E c \in Conns : AddConnectMaps(c) \/ CloseConnMaps(c)
       \/ \E p \in Procs : DeleteFound(p)
  BY <1>10, MapFrame DEF TickStep
<1>15. \/ UNCHANGED entry
       \/ \E c \in Conns, a \in Addrs : Upgrade(c, a) \/ UpgradeAborted(c, a)
       \/ \E c \in Conns : SetRemoteAddr(c) \/ AddRemote(c) \/ AddConnectMaps(c)
                             \/ AddConnectCount(c)
  BY EntryFrame DEF EntryStep
<1> QED
  BY <1>1, <1>2, <1>3, <1>4, <1>5, <1>6, <1>7, <1>8, <1>9, <1>11, <1>12, <1>13, <1>14,
     <1>15, <1>16, RemoteFrame

\* In a router without an active check whose peers keep their addresses apart: a
\* connection is listed once and taken off the list once, dead; an address leads to the
\* connection accepted there until somebody closes it, and to no other.
THEOREM Refinement ==
  ASSUME ~CheckActive, ~AddrReuse PROVE Spec => ImplementsRegistry
<1>1. RefInv /\ [Next]_vars => RefInv'
  BY RefInvStep
<1>2. RefInv /\ [Next]_vars => [Registry!Next]_(Registry!vars)
  BY AbstractStep
<1> QED
  BY RefInvInit, AbstractInit, <1>1, <1>2, PTL DEF Spec, ImplementsRegistry, Registry!Spec

-----------------------------------------------------------------------------
(* A refused connection is closed, for any number of connections, buckets  *)
(* and addresses, where nothing but its own timer and read loop closes it: *)
(* no application goroutine, no active check and no peer that comes back   *)
(* from the address of another.  Without any one of these it is false.     *)

Alone == Callers = {} /\ ~CheckActive /\ ~AddrReuse

\* A timer closes its own connection: that is the one whose address it looks up.
TimerOwn ==
  \A c \in Conns : /\ ws[c] \in {NoConn, c}
                   /\ pc[c] \in Closing \cup {"find", "unlist"} => target[c] = c

\* As long as a connection is up its address leads to it, closing or not.
ListedUp ==
  \A c \in Conns :
    entry[c] \in {"listed", "mapped", "done"} /\ Up(c) => remote[addr[c]] = c

\* Only the timer writes a close frame, and it then finds and closes the connection ...
ClosingOwn == \A c \in Conns : sock[c] = "closing" => pc[c] \in {"lookup", "find", "close"}

\* ... before it goes on.
TimerDone ==
  \A c \in Conns : pc[c] \in {"delete", "count", "check", "reset", "unlist", "refused"} => ~Up(c)

RefusedInv == RefInv /\ TimerOwn /\ ListedUp /\ ClosingOwn /\ TimerDone

-----------------------------------------------------------------------------
\* What a step does to the timer of one connection.
LEMMA TimerMoves ==
  ASSUME Alone, TypeOK, Wired, [Next]_vars, NEW c \in Conns
  PROVE  \/ Same(c)
         \/ pc[c] = "unarmed" /\ pc'[c] = "armed" /\ ws'[c] = ws[c] /\ UNCHANGED sock
         \/ pc[c] = "armed" /\ pc'[c] = "write" /\ ws'[c] = c /\ UNCHANGED sock
         \/ pc[c] \in {"armed", "refused"} /\ pc'[c] = "done" /\ ws'[c] = ws[c] /\ UNCHANGED sock
         \/ CloserStep(c)
<1>0. c \in Procs
  BY DEF Procs
<1> USE <1>0, ProcsApart DEF Alone, Same, TypeOK, CallTypeOK
<1>1. CASE UNCHANGED callVars
  BY <1>1 DEF callVars
<1>2. ASSUME NEW d \in Conns, AddConnectCount(d)
      PROVE  \/ Same(c)
             \/ pc[c] = "unarmed" /\ pc'[c] = "armed" /\ ws'[c] = ws[c] /\ UNCHANGED sock
  <2>1. pc[d] = "unarmed" /\ pc' = [pc EXCEPT ![d] = "armed"]
        /\ UNCHANGED <<target, ws, found, sock>>
    BY <1>2 DEF AddConnectCount, Wired, envVars
  <2>2. c \in Procs /\ d \in Procs /\ DOMAIN pc = Procs
    BY DEF Procs
  <2>3. CASE d = c
    BY <2>1, <2>2, <2>3
  <2>4. CASE d # c
    BY <2>1, <2>2, <2>4
  <2> QED
    BY <2>3, <2>4
<1>3. ASSUME NEW d \in Conns, Connected(d), d # c PROVE Same(c)
  BY <1>3 DEF Connected, Goto
<1>4. ASSUME Connected(c)
      PROVE  /\ pc[c] = "armed" /\ UNCHANGED sock
             /\ \/ pc'[c] = "done" /\ ws'[c] = ws[c]
                \/ pc'[c] = "write" /\ ws'[c] = c
  BY <1>4 DEF Connected, Goto, Procs, envVars
<1>5. ASSUME NEW d \in Conns, TimerClosedCB(d)
      PROVE  \/ Same(c)
             \/ pc[c] = "refused" /\ pc'[c] = "done" /\ ws'[c] = ws[c] /\ UNCHANGED sock
  <2>1. pc[d] = "refused" /\ pc' = [pc EXCEPT ![d] = "done"]
        /\ UNCHANGED <<target, ws, found, sock>>
    BY <1>5 DEF TimerClosedCB, Goto, envVars
  <2>2. c \in Procs /\ d \in Procs /\ DOMAIN pc = Procs
    BY DEF Procs
  <2>3. CASE d = c
    BY <2>1, <2>2, <2>3
  <2>4. CASE d # c
    BY <2>1, <2>2, <2>4
  <2> QED
    BY <2>3, <2>4
<1>6. ASSUME NEW q \in Procs, CloserStep(q), q # c PROVE Same(c)
  BY <1>6 DEF CloserStep, WriteClose, LookupRemote, FindConn, CloseFound, DeleteFound,
     CountFound, CheckCount, ResetCount, Unlist, Goto, Return
<1> QED
  BY <1>1, <1>2, <1>3, <1>4, <1>5, <1>6, CallFrame DEF TimerStep

\* The address map leads from the address of a connection to it or to nothing.
LEMMA LeadsHome ==
  ASSUME RefInv, NEW c \in Conns, entry[c] # "none"
  PROVE  addr[c] \in Addrs /\ remote[addr[c]] \in {NoConn, c}
<1> USE DEF RefInv, BucketInv, AddressInv, Inv, TypeOK, EnvTypeOK, MapTypeOK
<1>1. addr[c] \in Addrs
  BY DEF Wired
<1>2. remote[addr[c]] # NoConn => addr[remote[addr[c]]] = addr[c] /\ remote[addr[c]] \in Conns
  BY <1>1 DEF RemoteOwn
<1> QED
  BY <1>1, <1>2, ConstantsAssumption DEF OwnAddress

\* The steps of the call of a timer, one after the other.
LEMMA TimerCloses ==
  ASSUME Alone, RefusedInv, NEW c \in Conns, CloserStep(c)
  PROVE  /\ ws'[c] \in {NoConn, c}
         /\ pc'[c] \in Closing \cup {"find", "unlist"} => target'[c] = c
         /\ sock'[c] = "closing" => pc'[c] \in {"lookup", "find", "close"}
         /\ pc'[c] \in {"delete", "count", "check", "reset", "unlist", "refused"} => ~Up(c)'
<1> USE DEF RefusedInv, RefInv, BucketInv, Inv, TypeOK, EnvTypeOK, CallTypeOK, Closing
<1>1. c \in Procs /\ c \notin Callers /\ ws[c] \in {NoConn, c}
  BY DEF Alone, Procs, TimerOwn
<1>2. entry[c] = "done" /\ pc[c] # "unarmed"
  BY DEF Wired, CloserStep, WriteClose, LookupRemote, FindConn, CloseFound, DeleteFound,
         CountFound, CheckCount, ResetCount, Unlist
<1>3. CASE WriteClose(c)
  <2>1. ws[c] = c /\ pc[c] = "write"
    BY <1>1, <1>3 DEF WriteClose, Wired
  <2>2. sock[c] # "closing" /\ sock[c] # "none"
    BY <1>2, <2>1 DEF ClosingOwn, FreshIds
  <2>3. CASE sock[c] = "open" /\ sock' = [sock EXCEPT ![c] = "closing"] /\ Goto(c, "lookup")
             /\ UNCHANGED <<target, ws, found>>
    BY <1>1, <2>1, <2>3 DEF Goto
  <2>4. CASE sock[c] # "open" /\ Return(c) /\ UNCHANGED sock
    BY <1>1, <2>2, <2>4 DEF Return, Goto, Up
  <2> QED
    BY <1>3, <2>1, <2>3, <2>4 DEF WriteClose
<1>4. CASE LookupRemote(c)
  <2>1. ws[c] = c /\ UNCHANGED sock
    BY <1>1, <1>4 DEF LookupRemote, Wired, envVars
  <2>2. remote[addr[c]] \in {NoConn, c}
    BY <1>2, LeadsHome
  <2>3. CASE remote[addr[c]] = NoConn /\ Return(c)
    <3>1. ~Up(c)
      BY <1>2, <2>3, ProcsApart DEF ListedUp
    <3> QED
      BY <1>1, <2>1, <2>3, <3>1 DEF Return, Goto, Up
  <2>4. CASE remote[addr[c]] = c /\ Goto(c, "find") /\ target' = [target EXCEPT ![c] = c]
             /\ ws' = ws
    BY <1>1, <2>1, <2>4 DEF Goto
  <2> QED
    BY <1>4, <2>1, <2>2, <2>3, <2>4, ProcsApart DEF LookupRemote
<1>5. CASE FindConn(c)
  <2>1. target[c] = c /\ UNCHANGED <<sock, target, ws>>
    BY <1>5 DEF FindConn, TimerOwn, envVars
  <2>2. CASE c \in connMap[BucketOf(c)] /\ Goto(c, "close")
    BY <1>1, <2>1, <2>2 DEF Goto
  <2>3. CASE c \notin connMap[BucketOf(c)] /\ Goto(c, "check")
    <3>1. ~Up(c)
      BY <1>2, <2>3 DEF MappedInBucket
    <3> QED
      BY <1>1, <2>1, <2>3, <3>1 DEF Goto, Up
  <2> QED
    BY <1>5, <2>1, <2>2, <2>3 DEF FindConn
<1>6. CASE CloseFound(c)
  BY <1>1, <1>6 DEF CloseFound, CloseSocket, EndSocket, TimerOwn, Goto, Up
<1>7. CASE DeleteFound(c) \/ CountFound(c) \/ CheckCount(c) \/ ResetCount(c)
  <2>1. /\ pc[c] \in {"delete", "count", "check", "reset"} /\ UNCHANGED <<sock, target, ws>>
        /\ \E s \in {"count", "check", "reset", "unlist"} : pc' = [pc EXCEPT ![c] = s]
    BY <1>7 DEF DeleteFound, CountFound, CheckCount, ResetCount, Goto, envVars
  <2>2. ~Up(c) /\ target[c] = c
    BY <2>1 DEF TimerDone, TimerOwn
  <2> QED
    BY <1>1, <2>1, <2>2 DEF Up
<1>8. CASE Unlist(c)
  <2>1. pc[c] = "unlist" /\ UNCHANGED sock /\ Return(c)
    BY <1>8 DEF Unlist, envVars
  <2>2. ~Up(c)
    BY <2>1 DEF TimerDone
  <2> QED
    BY <1>1, <2>1, <2>2 DEF Return, Goto, Up
<1> QED
  BY <1>3, <1>4, <1>5, <1>6, <1>7, <1>8 DEF CloserStep

\* A socket is left in the closing state by its own timer only.
LEMMA OnlyTimerCloses ==
  ASSUME Alone, RefusedInv, [Next]_vars, NEW c \in Conns, ~CloserStep(c), sock'[c] = "closing"
  PROVE  sock[c] = "closing"
<1> USE DEF RefusedInv, RefInv, BucketInv, Inv, TypeOK, EnvTypeOK, CallTypeOK
<1>1. ASSUME NEW p \in Procs, WriteClose(p), p # c PROVE sock'[c] = sock[c]
  <2>1. p \in Conns /\ ws[p] \in {NoConn, p} /\ ws[p] # NoConn
    BY <1>1 DEF Alone, Procs, TimerOwn, WriteClose, Wired
  <2> QED
    BY <1>1, <2>1 DEF WriteClose
<1>2. ASSUME NEW d \in Conns, NEW a \in Addrs, Upgrade(d, a) \/ UpgradeAborted(d, a)
      PROVE  sock' = [sock EXCEPT ![d] = "open"]
  BY <1>2 DEF Upgrade, UpgradeAborted
<1>3. ASSUME NEW d \in Conns, PeerGone(d) \/ CloseConnSocket(d) \/ \E p \in Callers : AppClose(p, d)
      PROVE  \E s \in {"broken", "closed"} : sock' = [sock EXCEPT ![d] = s]
  BY <1>3 DEF PeerGone, CloseConnSocket, AppClose, CloseSocket, EndSocket
<1>4. ASSUME NEW p \in Procs, CloseFound(p) PROVE sock' = [sock EXCEPT ![target[p]] = "closed"]
  BY <1>4 DEF CloseFound, CloseSocket, EndSocket
<1>5. ASSUME NEW b \in BucketIds, TickClose(b) PROVE FALSE
  BY <1>5 DEF TickClose, NoTicker
<1>6. ~WriteClose(c)
  BY DEF CloserStep
<1> QED
  BY <1>1, <1>2, <1>3, <1>4, <1>5, <1>6, SockFrame

\* Accept adds the address, and only the clean-up of a dead connection takes it away.
LEMMA ListedUpStep ==
  ASSUME Alone, RefusedInv, [Next]_vars
  PROVE  ListedUp'
<1> USE DEF RefusedInv, RefInv, BucketInv, AddressInv, Inv, TypeOK, EnvTypeOK, ConnTypeOK,
            MapTypeOK, CallTypeOK
<1> SUFFICES ASSUME NEW c \in Conns, entry'[c] \in {"listed", "mapped", "done"}, Up(c)'
             PROVE  remote'[addr'[c]] = c
  BY DEF ListedUp
<1>1. CASE AddRemote(c)
  BY <1>1 DEF AddRemote, envVars, Wired
<1>2. CASE ~AddRemote(c)
  <2>1. entry[c] \in {"listed", "mapped", "done"}
    <3>1. ASSUME NEW d \in Conns, NEW a \in Addrs, Upgrade(d, a) \/ UpgradeAborted(d, a)
          PROVE  \E s \in {"spawned", "aborted"} : entry' = [entry EXCEPT ![d] = s]
      BY <3>1 DEF Upgrade, UpgradeAborted
    <3>2. ASSUME NEW d \in Conns, EntryStep(d), d # c PROVE entry'[c] = entry[c]
      BY <3>2 DEF EntryStep, SetRemoteAddr, AddRemote, AddConnectMaps, AddConnectCount
    <3>3. ASSUME EntryStep(c)
          PROVE  entry[c] \in {"listed", "mapped"} \/ entry'[c] = "addressed"
      BY <1>2, <3>3 DEF EntryStep, SetRemoteAddr, AddConnectMaps, AddConnectCount
    <3> QED
      BY <3>1, <3>2, <3>3, EntryFrame
  <2>2. Up(c) /\ addr'[c] = addr[c] /\ addr[c] \in Addrs
    BY <2>1, SockStep, EntryStepOn DEF Wired
  <2>3. remote[addr[c]] = c /\ \A d \in Conns : addr[d] = addr[c] => d = c
    BY <2>1, <2>2, ConstantsAssumption DEF ListedUp, OwnAddress
  <2>4. ASSUME NEW d \in Conns, AddRemote(d) PROVE remote'[addr[c]] = c
    BY <2>2, <2>3, <2>4 DEF AddRemote
  <2>5. ASSUME NEW d \in Conns, ReaderDelRemote(d) PROVE remote'[addr[c]] = c
    <3>1. d # c
      BY <2>2, <2>5 DEF ReaderDelRemote, ReaderClosed, ReadFails, Up
    <3> QED
      BY <2>2, <2>3, <2>5, <3>1, ConstantsAssumption
         DEF ReaderDelRemote, DelRemote, WithoutAddr, RemoteAddrOf
  <2>6. ASSUME NEW p \in Procs, Unlist(p) PROVE remote'[addr[c]] = c
    <3>1. p \in Conns /\ pc[p] = "unlist"
      BY <2>6 DEF Alone, Procs, Unlist
    <3>2. p # c /\ ws[p] \in {NoConn, p} /\ target[p] = p
      BY <2>2, <3>1 DEF TimerDone, TimerOwn
    <3>3. addr[p] # addr[c]
      BY <2>3, <3>1, <3>2
    <3>4. DelRemote(NoAddr) \/ DelRemote(addr[p])
      <4>1. CASE ws[p] = NoConn /\ ~found[p]
        BY <2>6, <4>1 DEF Unlist
      <4>2. CASE ws[p] = NoConn /\ found[p]
        BY <2>6, <3>2, <4>2 DEF Unlist
      <4>3. CASE ws[p] # NoConn
        BY <2>6, <3>2, <4>3 DEF Unlist
      <4> QED
        BY <4>1, <4>2, <4>3
    <3> QED
      BY <2>2, <2>3, <3>3, <3>4, ConstantsAssumption DEF DelRemote, WithoutAddr
  <2> QED
    BY <2>2, <2>3, <2>4, <2>5, <2>6, RemoteFrame
<1> QED
  BY <1>1, <1>2

LEMMA RefusedInvStep ==
  ASSUME Alone, RefusedInv, [Next]_vars
  PROVE  RefusedInv'
<1>1. RefInv'
  BY RefInvStep DEF Alone, RefusedInv
<1>2. ASSUME NEW c \in Conns
      PROVE  /\ ws'[c] \in {NoConn, c}
             /\ pc'[c] \in Closing \cup {"find", "unlist"} => target'[c] = c
             /\ sock'[c] = "closing" => pc'[c] \in {"lookup", "find", "close"}
             /\ pc'[c] \in {"delete", "count", "check", "reset", "unlist", "refused"} => ~Up(c)'
  <2>1. CASE CloserStep(c)
    BY <2>1, TimerCloses
  <2>2. CASE ~CloserStep(c)
    <3>1. /\ TypeOK /\ Wired /\ FreshIds /\ ws[c] \in {NoConn, c}
          /\ pc[c] \in Closing \cup {"find", "unlist"} => target[c] = c
          /\ sock[c] = "closing" => pc[c] \in {"lookup", "find", "close"}
          /\ pc[c] \in {"delete", "count", "check", "reset", "unlist", "refused"} => ~Up(c)
      BY DEF RefusedInv, RefInv, BucketInv, Inv, TimerOwn, ClosingOwn, TimerDone
    <3>2. sock'[c] = "closing" => sock[c] = "closing"
      BY <2>2, OnlyTimerCloses
    <3>3. pc[c] # "unarmed" /\ Up(c)' => Up(c)
      BY <3>1, SockStep DEF Wired
    <3> QED
      BY <2>2, <3>1, <3>2, <3>3, TimerMoves DEF Same, Closing
  <2> QED
    BY <2>1, <2>2
<1> QED
  BY <1>1, <1>2, ListedUpStep DEF RefusedInv, TimerOwn, ClosingOwn, TimerDone

LEMMA RefusedInvInit == Init => RefusedInv
<1> SUFFICES ASSUME Init PROVE RefusedInv
  OBVIOUS
<1>1. \A c \in Conns : pc[c] \in {"idle", "unarmed"} /\ ws[c] = NoConn
  BY DEF Init, Procs
<1>2. \A c \in Conns : sock[c] = "none" /\ entry[c] = "none"
  BY DEF Init
<1>3. TimerOwn /\ ListedUp /\ ClosingOwn /\ TimerDone
  BY <1>1, <1>2 DEF TimerOwn, ListedUp, ClosingOwn, TimerDone, Closing
<1> QED
  BY <1>3, RefInvInit DEF RefusedInv

\* When cbForConnected fails and nobody else closes connections, Entry has closed the
\* connection before it calls cbForClosed.
THEOREM RefusedAreClosed ==
  ASSUME Callers = {}, ~CheckActive, ~AddrReuse PROVE Spec => []RefusedIsClosed
<1>1. RefusedInv /\ [Next]_vars => RefusedInv'
  BY RefusedInvStep DEF Alone
<1>2. RefusedInv => RefusedIsClosed
  BY DEF RefusedInv, TimerDone, RefusedIsClosed
<1> QED
  BY RefusedInvInit, <1>1, <1>2, PTL DEF Spec

===============================================================================
