---------------------------- MODULE BroadcastProofs ----------------------------
(***************************************************************************)
(* Sending to any number of connections in any number of buckets, by any   *)
(* number of goroutines that change attributes meanwhile, next to          *)
(* connections that come and go, peers that stall and the active check.    *)
(***************************************************************************)
EXTENDS Broadcast, FiniteSetTheorems, TLAPS

InBucket  == {"loop", "tags", "props", "write", "writing"}
Elsewhere == {"idle", "direct", "mark tags", "set props"}
Faults    == {"concurrent write", "concurrent map"}
Places    == {"pick", "lock"} \cup InBucket \cup Elsewhere \cup Faults

ConnShape ==
  /\ sock \in [Conns -> {"none", "open", "stalled", "gone", "closed"}]
  /\ reader \in [Conns -> {"none", "reading", "unmapped", "done"}]
  /\ check \in [Conns -> {"no", "delete", "count", "free"}]
  /\ accepting \subseteq Conns /\ adding \subseteq Conns /\ mapped \subseteq Conns
  /\ active \subseteq Conns

FreeShape ==
  /\ connCount \in [Buckets -> Int]
  /\ old \subseteq Conns /\ lost \subseteq Conns /\ kept \in [Callers -> SUBSET Conns]

AttrShape ==
  /\ owner \in [Conns -> Owners \cup {0}]
  /\ tags \in [Conns -> SUBSET Tags] /\ props \in [Conns -> SUBSET Props]

SendShape ==
  /\ pc \in [Callers -> Places]
  /\ para \in [Callers -> Paras \cup {NoPara}]
  /\ buckets \in [Callers -> SUBSET Buckets] /\ bucket \in [Callers -> SUBSET Buckets]
  /\ todo \in [Callers -> SUBSET Conns] /\ conn \in [Callers -> SUBSET Conns]
  /\ locked \subseteq Buckets

HistShape ==
  /\ must \in [Callers -> SUBSET Conns] /\ may \in [Callers -> SUBSET Conns]
  /\ got \in [Callers -> SUBSET Conns]

Shape == ConnShape /\ FreeShape /\ AttrShape /\ SendShape /\ HistShape

LocksHeld ==
  \A b \in locked :
    \/ \E c \in adding : BucketOf[c] = b
    \/ \E p \in Callers : bucket[p] = {b} /\ pc[p] \in InBucket \cup Faults

-----------------------------------------------------------------------------
LEMMA TypeOKParts == TypeOK <=> Shape /\ LocksHeld
BY DEF TypeOK, Shape, ConnShape, FreeShape, AttrShape, SendShape, HistShape, LocksHeld, Places,
       InBucket, Elsewhere, Faults

\* The filters of the bucket let pass what the caller asks for.
LEMMA PassesIsFit ==
  ASSUME NEW m, NEW c, m.ids = {}
  PROVE  Passes(m, c) <=> Fit(m, c)
<1>1. CASE m.receivers # {}
  BY <1>1 DEF Passes, Fit, FitGiven
<1>2. CASE m.receivers = {} /\ m.tags # {}
  BY <1>2 DEF Passes, Fit, FitGiven
<1>3. CASE m.receivers = {} /\ m.tags = {}
  BY <1>3 DEF Passes, Fit, FitGiven
<1> QED
  BY <1>1, <1>2, <1>3

\* What a visit comes to: the attributes are fetched, or the message is written, or the
\* connection is passed over.
LEMMA VisitCases ==
  ASSUME NEW p, NEW c, Visit(p, c)
  PROVE  /\ pc[p] = "loop" /\ c \in todo[p] /\ c \in Ahead(p)
         /\ UNCHANGED <<connVars, freeVars, attrVars, locked, para, buckets, bucket, history>>
         /\ \/ /\ \E at \in {"tags", "props"} : pc' = [pc EXCEPT ![p] = at]
               /\ conn' = [conn EXCEPT ![p] = {c}] /\ UNCHANGED todo
               /\ para[p].ids = {}
            \/ /\ pc' = [pc EXCEPT ![p] = "write"]
               /\ conn' = [conn EXCEPT ![p] = {c}] /\ UNCHANGED todo
               /\ para[p].ids # {} \/ Passes(para[p], c)
            \/ /\ todo' = [todo EXCEPT ![p] = @ \ {c}] /\ UNCHANGED <<pc, conn>>
               /\ para[p].ids = {} /\ ~Passes(para[p], c)
BY DEF Visit, Goto, Ahead

LEMMA TrackShape ==
  ASSUME HistShape, Track PROVE must' \in [Callers -> SUBSET Conns] /\ may' \in [Callers -> SUBSET Conns]
BY DEF HistShape, Track

LEMMA ShapeInit == BroadcastConstants /\ Init => Shape
BY DEF BroadcastConstants, Init, Shape, ConnShape, FreeShape, AttrShape, SendShape, HistShape, Places,
     Elsewhere

LEMMA ShapeStep == Shape /\ [Next]_vars => Shape'
<1> SUFFICES ASSUME Shape, [Next]_vars PROVE Shape'
  OBVIOUS
<1> USE BroadcastConstants DEF BroadcastConstants, Shape
<1>1. CASE UNCHANGED vars
  BY <1>1 DEF vars, connVars, freeVars, attrVars, sendVars, history, ConnShape, FreeShape, AttrShape, SendShape,
       HistShape
<1>2. ASSUME NEW p \in Callers, NEW m \in Paras, StartSend(p, m) PROVE Shape'
  BY <1>2 DEF StartSend, Goto, connVars, freeVars, attrVars, ConnShape, FreeShape, AttrShape, SendShape,
       HistShape, Places
<1>3. ASSUME NEW p \in Callers, NEW b \in Buckets, PickBucket(p, b) PROVE Shape'
  BY <1>3 DEF PickBucket, Goto, connVars, freeVars, attrVars, history, ConnShape, FreeShape, AttrShape, SendShape,
       HistShape, Places
<1>4. ASSUME NEW p \in Callers, NEW b \in Buckets, Lock(p, b) PROVE Shape'
  BY <1>4 DEF Lock, Goto, connVars, freeVars, attrVars, history, ConnShape, FreeShape, AttrShape, SendShape,
       HistShape, Places, InBucket
<1>5. ASSUME NEW p \in Callers, NEW b \in Buckets, Unlock(p, b) PROVE Shape'
  BY <1>5 DEF Unlock, Goto, connVars, freeVars, attrVars, history, ConnShape, FreeShape, AttrShape, SendShape,
       HistShape, Places, Elsewhere
<1>6. ASSUME NEW p \in Callers, NEW c \in Conns, Visit(p, c) PROVE Shape'
  <2>1. /\ UNCHANGED <<connVars, freeVars, attrVars, locked, para, buckets, bucket, history>>
        /\ pc' \in [Callers -> Places]
        /\ todo' \in [Callers -> SUBSET Conns] /\ conn' \in [Callers -> SUBSET Conns]
    BY <1>6, VisitCases DEF SendShape, Places, InBucket
  <2> QED
    BY <2>1 DEF connVars, freeVars, attrVars, history, ConnShape, FreeShape, AttrShape, SendShape, HistShape
<1>7. ASSUME NEW p \in Callers, NEW c \in Conns, ReadAttrs(p, c) PROVE Shape'
  <2>1. /\ UNCHANGED <<connVars, freeVars, attrVars, locked, para, buckets, bucket, history>>
        /\ \/ pc' = [pc EXCEPT ![p] = "concurrent map"] /\ UNCHANGED <<todo, conn>>
           \/ pc' = [pc EXCEPT ![p] = "write"] /\ UNCHANGED <<todo, conn>>
           \/ /\ pc' = [pc EXCEPT ![p] = "loop"]
              /\ todo' = [todo EXCEPT ![p] = @ \ {c}] /\ conn' = [conn EXCEPT ![p] = {}]
    BY <1>7 DEF ReadAttrs, Goto
  <2>2. pc' \in [Callers -> Places]
    BY <2>1 DEF SendShape, Places, InBucket, Faults
  <2>3. todo' = todo \/ todo' = [todo EXCEPT ![p] = todo[p] \ {c}]
    BY <2>1
  <2>4. conn' = conn \/ conn' = [conn EXCEPT ![p] = {}]
    BY <2>1
  <2>5. todo' \in [Callers -> SUBSET Conns] /\ conn' \in [Callers -> SUBSET Conns]
    BY <2>3, <2>4 DEF SendShape
  <2> QED
    BY <2>1, <2>2, <2>5 DEF connVars, freeVars, attrVars, history, ConnShape, FreeShape, AttrShape, SendShape,
         HistShape
<1>8. ASSUME NEW p \in Callers, NEW c \in Conns, StartWrite(p, c) PROVE Shape'
  BY <1>8 DEF StartWrite, Goto, connVars, freeVars, attrVars, sendVars, history, ConnShape, FreeShape, AttrShape,
       SendShape, HistShape, Places, InBucket, Faults
<1>9. ASSUME NEW p \in Callers, NEW c \in Conns, EndWrite(p, c) PROVE Shape'
  BY <1>9 DEF freeVars, EndWrite, Goto, attrVars, ConnShape, FreeShape, AttrShape, SendShape, HistShape, Places,
       InBucket
<1>10. ASSUME NEW p \in Callers, NEW c \in Conns, DirectWrite(p, c) PROVE Shape'
  BY <1>10 DEF DirectWrite, Goto, connVars, freeVars, attrVars, history, ConnShape, FreeShape, AttrShape,
       SendShape, HistShape, Places, Elsewhere, Faults
<1>11. ASSUME NEW p \in Callers, NEW c \in Conns, DirectWriteEnds(p, c) PROVE Shape'
  BY <1>11 DEF freeVars, DirectWriteEnds, Goto, attrVars, history, ConnShape, FreeShape, AttrShape, SendShape,
       HistShape, Places, Elsewhere
<1>12. ASSUME NEW p \in Callers, NEW c \in Conns, NEW o \in Owners, SetOwnerId(p, c, o) PROVE Shape'
  BY <1>12, TrackShape DEF freeVars, SetOwnerId, connVars, sendVars, ConnShape, FreeShape, AttrShape, SendShape,
       HistShape
<1>13. ASSUME NEW p \in Callers, NEW c \in Conns, StartMarkTags(p, c) \/ StartSetProp(p, c) PROVE Shape'
  <2>1. /\ UNCHANGED <<connVars, freeVars, attrVars, locked, para, buckets, bucket, todo, history>>
        /\ pc' = [pc EXCEPT ![p] = "mark tags"] \/ pc' = [pc EXCEPT ![p] = "set props"]
        /\ conn' = [conn EXCEPT ![p] = {c}]
    BY <1>13 DEF StartMarkTags, StartSetProp, StartChange, Goto
  <2>2. pc' \in [Callers -> Places] /\ conn' \in [Callers -> SUBSET Conns]
    BY <2>1 DEF SendShape, Places, Elsewhere
  <2> QED
    BY <2>1, <2>2 DEF connVars, freeVars, attrVars, history, ConnShape, FreeShape, AttrShape, SendShape, HistShape
<1>14. ASSUME NEW p \in Callers, EndChange(p), tags' \in [Conns -> SUBSET Tags], props' \in [Conns -> SUBSET Props]
       PROVE Shape'
  BY <1>14, TrackShape DEF freeVars, EndChange, Goto, connVars, ConnShape, FreeShape, AttrShape, SendShape,
       HistShape, Places, Elsewhere
<1>15. ASSUME NEW p \in Callers, NEW c \in Conns, ChangeStep(p, c) PROVE Shape'
  <2>1. ASSUME NEW t \in Tags, MarkTags(p, c, t) \/ RemoveTags(p, c, t) PROVE Shape'
    <3>1. EndChange(p) /\ UNCHANGED props
      BY <2>1 DEF MarkTags, RemoveTags
    <3>2. tags' = [tags EXCEPT ![c] = tags[c] \cup {t}] \/ tags' = [tags EXCEPT ![c] = tags[c] \ {t}]
      BY <2>1 DEF MarkTags, RemoveTags
    <3>3. tags[c] \cup {t} \in SUBSET Tags /\ tags[c] \ {t} \in SUBSET Tags
      BY DEF AttrShape
    <3>4. tags' \in [Conns -> SUBSET Tags]
      BY <3>2, <3>3 DEF AttrShape
    <3> QED
      BY <3>1, <3>4, <1>14 DEF AttrShape
  <2>2. ASSUME NEW kv \in Props, SetProp(p, c, kv) \/ DelProp(p, c, kv) PROVE Shape'
    <3> DEFINE other == {x \in props[c] : x.key # kv.key}
    <3>1. EndChange(p) /\ UNCHANGED tags
      BY <2>2 DEF SetProp, DelProp
    <3>2. props' = [props EXCEPT ![c] = other \cup {kv}] \/ props' = [props EXCEPT ![c] = other]
      BY <2>2 DEF SetProp, DelProp
    <3>3. other \cup {kv} \in SUBSET Props /\ other \in SUBSET Props
      BY DEF AttrShape
    <3> HIDE DEF other
    <3>4. props' \in [Conns -> SUBSET Props]
      BY <3>2, <3>3 DEF AttrShape
    <3> QED
      BY <3>1, <3>4, <1>14 DEF AttrShape
  <2> QED
    BY <1>15, <2>1, <2>2 DEF ChangeStep
<1>16. ASSUME NEW c \in Conns,
              \/ Connect(c) \/ AddConnect(c) \/ AddConnectCount(c) \/ ReadMessage(c) \/ Expire(c)
              \/ CloseConn(c) \/ TickDelete(c) \/ TickCount(c) \/ TickFree(c)
       PROVE Shape'
  <2>1. UNCHANGED <<attrVars, pc, sendVars, history>> /\ locked' \subseteq Buckets
    BY <1>16 DEF Connect, AddConnect, AddConnectCount, ReadMessage, Expire, CloseConn, TickDelete,
         TickCount, TickFree, SendShape
  <2>2. ConnShape'
    BY <1>16 DEF Connect, AddConnect, AddConnectCount, ReadMessage, Expire, CloseConn, TickDelete,
         TickCount, TickFree, Goes, ConnShape
  <2>3. \A b \in Buckets : Cardinality({d \in mapped' : BucketOf[d] = b}) \in Int
    BY <2>2, FS_Subset, FS_CardinalityType DEF ConnShape
  <2>4. ASSUME Connect(c) \/ AddConnect(c) \/ ReadMessage(c) \/ Expire(c) \/ TickDelete(c)
        PROVE  FreeShape'
    BY <2>4 DEF Connect, AddConnect, ReadMessage, Expire, TickDelete, freeVars, FreeShape
  <2>5. ASSUME CloseConn(c) \/ AddConnectCount(c) \/ TickCount(c) PROVE FreeShape'
    <3>1. UNCHANGED <<old, kept, lost>> /\ connCount' \in [Buckets -> Int]
      BY <2>3, <2>5 DEF CloseConn, AddConnectCount, TickCount, FreeShape
    <3> QED
      BY <3>1 DEF FreeShape
  <2>6. ASSUME TickFree(c) PROVE FreeShape'
    BY <2>6 DEF TickFree, FreeShape, ConnShape
  <2>7. FreeShape'
    BY <1>16, <2>4, <2>5, <2>6
  <2> QED
    BY <2>1, <2>2, <2>7 DEF attrVars, sendVars, history, AttrShape, SendShape, HistShape
<1>17. ASSUME NEW c \in Conns, PeerGone(c) \/ Stall(c) PROVE Shape'
  <2>1. /\ UNCHANGED <<accepting, adding, reader, check, mapped, active, freeVars, attrVars, locked, pc,
                       sendVars, got>>
        /\ Track /\ \E s \in {"gone", "stalled"} : sock' = [sock EXCEPT ![c] = s]
    BY <1>17 DEF PeerGone, Stall
  <2> QED
    BY <2>1, TrackShape DEF attrVars, freeVars, sendVars, ConnShape, FreeShape, AttrShape, SendShape,
         HistShape
<1>18. ASSUME NEW c \in Conns, CloseConnSocket(c) \/ TickClose(c) PROVE Shape'
  <2>1. /\ CloseSocket(c) /\ UNCHANGED <<accepting, adding, mapped, active, connCount, kept, lost>>
        /\ check' \in [Conns -> {"no", "delete", "count", "free"}]
        /\ reader' \in [Conns -> {"none", "reading", "unmapped", "done"}]
        /\ old' \subseteq Conns
    BY <1>18 DEF CloseConnSocket, TickClose, Goes, freeVars, ConnShape, FreeShape
  <2> QED
    BY <2>1, TrackShape DEF CloseSocket, sendVars, ConnShape, FreeShape, AttrShape, SendShape,
         HistShape
<1> QED
  BY <1>1, <1>2, <1>3, <1>4, <1>5, <1>6, <1>7, <1>8, <1>9, <1>10, <1>11, <1>12, <1>13, <1>15,
       <1>16,
     <1>17, <1>18 DEF Next, CallerStep, SendStep, ConnStep, Environment

-----------------------------------------------------------------------------
(* What the steps of others leave to a goroutine q of the application.     *)

Still(q) ==
  /\ pc'[q] = pc[q] /\ para'[q] = para[q] /\ buckets'[q] = buckets[q]
  /\ bucket'[q] = bucket[q] /\ todo'[q] = todo[q] /\ conn'[q] = conn[q] /\ got'[q] = got[q]

FitNext(q, c) == FitGiven(para[q], c, owner', tags', props')

Kept(q) ==
  /\ must'[q] = must[q] /\ may'[q] = may[q] /\ UNCHANGED attrVars
  /\ \A c \in Conns : sock[c] = "open" => sock'[c] = "open"

Tracked(q) ==
  /\ must'[q] = {c \in must[q] : sock'[c] = "open" /\ FitNext(q, c)}
  /\ may'[q] = may[q] \cup {c \in Conns : Sending(q) /\ FitNext(q, c)}

LEMMA TrackTracked ==
  ASSUME Track, NEW q \in Callers PROVE Tracked(q)
BY DEF Track, Tracked, FitNext

LEMMA OthersLeave ==
  ASSUME Shape, NEW p \in Callers, NEW q \in Callers, p # q, CallerStep(p)
  PROVE  Still(q) /\ (Kept(q) \/ Tracked(q))
<1> USE DEF Shape, SendShape, HistShape, Still, Kept
<1>1. ASSUME NEW m \in Paras, StartSend(p, m) PROVE Still(q) /\ Kept(q)
  BY <1>1 DEF StartSend, Goto, connVars, freeVars, attrVars
<1>2. ASSUME NEW b \in Buckets, PickBucket(p, b) PROVE Still(q) /\ Kept(q)
  BY <1>2 DEF PickBucket, Goto, connVars, freeVars, attrVars, history
<1>3. ASSUME NEW b \in Buckets, Lock(p, b) PROVE Still(q) /\ Kept(q)
  BY <1>3 DEF Lock, Goto, connVars, freeVars, attrVars, history
<1>4. ASSUME NEW b \in Buckets, Unlock(p, b) PROVE Still(q) /\ Kept(q)
  BY <1>4 DEF Unlock, Goto, connVars, freeVars, attrVars, history
<1>5. ASSUME NEW c \in Conns, Visit(p, c) PROVE Still(q) /\ Kept(q)
  BY <1>5, VisitCases DEF connVars, freeVars, attrVars, history
<1>6. ASSUME NEW c \in Conns, ReadAttrs(p, c) PROVE Still(q) /\ Kept(q)
  BY <1>6 DEF ReadAttrs, Goto, connVars, freeVars, attrVars, history
<1>7. ASSUME NEW c \in Conns, StartWrite(p, c) PROVE Still(q) /\ Kept(q)
  BY <1>7 DEF StartWrite, Goto, connVars, freeVars, attrVars, sendVars, history
<1>8. ASSUME NEW c \in Conns, EndWrite(p, c) PROVE Still(q) /\ Kept(q)
  BY <1>8 DEF EndWrite, Goto, attrVars
<1>9. ASSUME NEW c \in Conns, DirectWrite(p, c) PROVE Still(q) /\ Kept(q)
  BY <1>9 DEF DirectWrite, Goto, connVars, freeVars, attrVars, history
<1>10. ASSUME NEW c \in Conns, DirectWriteEnds(p, c) PROVE Still(q) /\ Kept(q)
  BY <1>10 DEF DirectWriteEnds, Goto, attrVars, history
<1>11. ASSUME NEW c \in Conns, NEW o \in Owners, SetOwnerId(p, c, o) PROVE Still(q) /\ Tracked(q)
  BY <1>11, TrackTracked DEF SetOwnerId, sendVars
<1>12. ASSUME NEW c \in Conns, StartMarkTags(p, c) \/ StartSetProp(p, c) PROVE Still(q) /\ Kept(q)
  BY <1>12 DEF StartMarkTags, StartSetProp, StartChange, Goto, connVars, freeVars, attrVars, history
<1>13. ASSUME NEW c \in Conns, ChangeStep(p, c) PROVE Still(q) /\ Tracked(q)
  <2>1. EndChange(p)
    BY <1>13 DEF ChangeStep, MarkTags, RemoveTags, SetProp, DelProp
  <2> QED
    BY <2>1, TrackTracked DEF EndChange, Goto
<1> QED
  BY <1>1, <1>2, <1>3, <1>4, <1>5, <1>6, <1>7, <1>8, <1>9, <1>10, <1>11, <1>12, <1>13
  DEF CallerStep, SendStep

LEMMA ConnsLeave ==
  ASSUME Shape, NEW q \in Callers, NEW c \in Conns, ConnStep(c) \/ Environment(c)
  PROVE  Still(q) /\ (Kept(q) \/ Tracked(q))
<1> USE DEF Shape, ConnShape, Still, Kept
<1>1. ASSUME Connect(c) PROVE Still(q) /\ Kept(q)
  BY <1>1 DEF Connect, attrVars, sendVars, history
<1>2. ASSUME \/ AddConnect(c) \/ AddConnectCount(c) \/ ReadMessage(c) \/ Expire(c) \/ CloseConn(c)
             \/ TickDelete(c) \/ TickCount(c) \/ TickFree(c)
      PROVE Still(q) /\ Kept(q)
  BY <1>2 DEF AddConnect, AddConnectCount, ReadMessage, Expire, CloseConn, TickDelete, TickCount,
       TickFree, attrVars, sendVars, history
<1>3. ASSUME PeerGone(c) \/ Stall(c) PROVE Still(q) /\ Tracked(q)
  BY <1>3, TrackTracked DEF PeerGone, Stall, sendVars
<1>4. ASSUME CloseConnSocket(c) \/ TickClose(c) PROVE Still(q) /\ Tracked(q)
  BY <1>4, TrackTracked DEF CloseConnSocket, TickClose, CloseSocket, sendVars
<1> QED
  BY <1>1, <1>2, <1>3, <1>4 DEF ConnStep, Environment

-----------------------------------------------------------------------------
(* Nobody gets a message he was never fit for.                             *)

\* may[q] has grown with every change of an attribute, and a connection is looked at by
\* the one filter that its message gives.
FitFor(q) ==
  /\ Sending(q) => \A c \in Conns : Fit(para[q], c) => c \in may[q]
  /\ pc[q] \in {"tags", "props"} => para[q].ids = {}
  /\ pc[q] \in InBucket /\ para[q].ids # {} => todo[q] \subseteq para[q].ids
  /\ \A c \in Conns : conn[q] = {c} /\ pc[q] \in {"write", "writing"} => c \in may[q]
  /\ pc[q] \in Elsewhere => got[q] = {}
  /\ got[q] \subseteq may[q]

FitInv == \A q \in Callers : FitFor(q)

LEMMA FitInvInit == Init => FitInv
BY DEF Init, FitInv, FitFor, Sending, InBucket

LEMMA FitKept ==
  ASSUME NEW q \in Callers, FitFor(q), Still(q), Kept(q) \/ Tracked(q)
  PROVE  FitFor(q)'
<1>1. CASE Kept(q)
  BY <1>1 DEF FitFor, Still, Kept, Sending, Fit, attrVars
<1>2. CASE Tracked(q)
  BY <1>2 DEF FitFor, Still, Tracked, FitNext, Sending, Fit
<1> QED
  BY <1>1, <1>2

LEMMA FitOwn ==
  ASSUME Shape, NEW q \in Callers, FitFor(q), CallerStep(q)
  PROVE  FitFor(q)'
<1> USE DEF Shape, SendShape, HistShape
<1>1. ASSUME NEW m \in Paras, StartSend(q, m) PROVE FitFor(q)'
  <2>1. pc[q] = "idle" /\ pc'[q] = "pick" /\ para'[q] = m /\ may'[q] = {c \in Conns : Fit(m, c)}
        /\ got'[q] = got[q] /\ UNCHANGED attrVars
    BY <1>1 DEF StartSend, Goto
  <2> QED
    BY <2>1 DEF FitFor, Elsewhere, InBucket, Fit, attrVars
<1>2. ASSUME NEW b \in Buckets, PickBucket(q, b) PROVE FitFor(q)'
  <2>1. pc[q] = "pick" /\ pc'[q] = "lock" /\ UNCHANGED <<attrVars, para, may, got>>
    BY <1>2 DEF PickBucket, Goto, history
  <2> QED
    BY <2>1 DEF FitFor, Elsewhere, InBucket, Sending, Fit, attrVars
<1>3. ASSUME NEW b \in Buckets, Lock(q, b) PROVE FitFor(q)'
  <2>1. pc[q] = "lock" /\ pc'[q] = "loop" /\ UNCHANGED <<attrVars, para, may, got>>
        /\ (para[q].ids # {} => todo'[q] \subseteq para[q].ids)
    BY <1>3 DEF Lock, Goto, history
  <2> QED
    BY <2>1 DEF FitFor, Elsewhere, InBucket, Sending, Fit, attrVars
<1>4. ASSUME NEW b \in Buckets, Unlock(q, b) PROVE FitFor(q)'
  <2>1. CASE buckets[q] # {}
    <3>1. pc[q] = "loop" /\ pc'[q] = "pick" /\ UNCHANGED <<attrVars, para, may, got>>
      BY <1>4, <2>1 DEF Unlock, Goto, history
    <3> QED
      BY <3>1 DEF FitFor, Elsewhere, InBucket, Sending, Fit, attrVars
  <2>2. CASE buckets[q] = {}
    <3>1. pc'[q] = "idle" /\ got'[q] = {}
      BY <1>4, <2>2 DEF Unlock, Goto
    <3> QED
      BY <3>1 DEF FitFor, InBucket, Sending
  <2> QED
    BY <2>1, <2>2
<1>5. ASSUME NEW c \in Conns, Visit(q, c) PROVE FitFor(q)'
  <2>1. pc[q] = "loop" /\ c \in todo[q] /\ UNCHANGED <<attrVars, para, may, got>>
    BY <1>5, VisitCases DEF history
  <2>2. CASE (\E at \in {"tags", "props"} : pc' = [pc EXCEPT ![q] = at]) /\ UNCHANGED todo
             /\ para[q].ids = {}
    <3>1. pc'[q] \in {"tags", "props"} /\ todo'[q] = todo[q]
      BY <2>2
    <3> QED
      BY <2>1, <2>2, <3>1 DEF FitFor, Elsewhere, InBucket, Sending, Fit, attrVars
  <2>3. CASE /\ pc' = [pc EXCEPT ![q] = "write"]
             /\ conn' = [conn EXCEPT ![q] = {c}] /\ UNCHANGED todo
             /\ para[q].ids # {} \/ Passes(para[q], c)
    <3>1. pc'[q] = "write" /\ conn'[q] = {c} /\ todo'[q] = todo[q]
      BY <2>3
    <3>2. Fit(para[q], c)
      BY <2>1, <2>3, PassesIsFit DEF FitFor, InBucket, Fit, FitGiven
    <3> QED
      BY <2>1, <3>1, <3>2 DEF FitFor, Elsewhere, InBucket, Sending, Fit, attrVars
  <2>4. CASE todo' = [todo EXCEPT ![q] = @ \ {c}] /\ UNCHANGED <<pc, conn>>
    <3>1. todo'[q] \subseteq todo[q]
      BY <2>4
    <3> QED
      BY <2>1, <2>4, <3>1 DEF FitFor, Elsewhere, InBucket, Sending, Fit, attrVars
  <2> QED
    BY <1>5, <2>2, <2>3, <2>4, VisitCases
<1>6. ASSUME NEW c \in Conns, ReadAttrs(q, c) PROVE FitFor(q)'
  <2>1. /\ pc[q] \in {"tags", "props"} /\ conn[q] = {c}
        /\ UNCHANGED <<attrVars, para, may, got>>
    BY <1>6 DEF ReadAttrs, history
  <2>2. \/ pc'[q] = "concurrent map" /\ todo'[q] = todo[q] /\ conn'[q] = conn[q]
        \/ /\ pc'[q] = "write" /\ todo'[q] = todo[q] /\ conn'[q] = conn[q]
           /\ Passes(para[q], c) \/ c \in may[q]
        \/ pc'[q] = "loop" /\ todo'[q] = todo[q] \ {c}
    BY <1>6 DEF ReadAttrs, Goto
  <2>3. Passes(para[q], c) => c \in may[q]
    BY <2>1, PassesIsFit DEF FitFor, Sending
  <2> QED
    BY <2>1, <2>2, <2>3 DEF FitFor, Elsewhere, InBucket, Sending, Fit, attrVars
<1>7. ASSUME NEW c \in Conns, StartWrite(q, c) PROVE FitFor(q)'
  <2>1. pc[q] = "write" /\ pc'[q] \in {"writing", "concurrent write"}
        /\ UNCHANGED <<attrVars, sendVars, may, got>>
    BY <1>7 DEF StartWrite, Goto, history
  <2> QED
    BY <2>1 DEF FitFor, Elsewhere, InBucket, Sending, Fit, attrVars, sendVars
<1>8. ASSUME NEW c \in Conns, EndWrite(q, c) PROVE FitFor(q)'
  <2>1. /\ pc[q] = "writing" /\ conn[q] = {c} /\ pc'[q] = "loop" /\ todo'[q] \subseteq todo[q]
        /\ UNCHANGED <<attrVars, para, may>> /\ got'[q] \in {got[q], got[q] \cup {c}}
    BY <1>8 DEF EndWrite, Goto
  <2> QED
    BY <2>1 DEF FitFor, Elsewhere, InBucket, Sending, Fit, attrVars
<1>9. ASSUME NEW c \in Conns, DirectWrite(q, c) PROVE FitFor(q)'
  <2>1. pc[q] = "idle" /\ pc'[q] \in {"direct", "concurrent write"} /\ UNCHANGED <<may, got>>
    BY <1>9 DEF DirectWrite, Goto, history
  <2> QED
    BY <2>1 DEF FitFor, Elsewhere, InBucket, Sending
<1>10. ASSUME NEW c \in Conns, DirectWriteEnds(q, c) PROVE FitFor(q)'
  <2>1. pc[q] = "direct" /\ pc'[q] = "idle" /\ UNCHANGED <<may, got>>
    BY <1>10 DEF DirectWriteEnds, Goto, history
  <2> QED
    BY <2>1 DEF FitFor, Elsewhere, InBucket, Sending
<1>11. ASSUME NEW c \in Conns, NEW o \in Owners, SetOwnerId(q, c, o) PROVE FitFor(q)'
  BY <1>11, TrackTracked, FitKept DEF SetOwnerId, sendVars, Still
<1>12. ASSUME NEW c \in Conns, StartMarkTags(q, c) \/ StartSetProp(q, c) PROVE FitFor(q)'
  <2>1. pc[q] = "idle" /\ pc'[q] \in {"mark tags", "set props"} /\ UNCHANGED <<may, got>>
    BY <1>12 DEF StartMarkTags, StartSetProp, StartChange, Goto, history
  <2> QED
    BY <2>1 DEF FitFor, Elsewhere, InBucket, Sending
<1>13. ASSUME NEW c \in Conns, ChangeStep(q, c) PROVE FitFor(q)'
  <2>1. pc[q] \in {"mark tags", "set props"} /\ EndChange(q)
    BY <1>13 DEF ChangeStep, MarkTags, RemoveTags, SetProp, DelProp
  <2>2. pc'[q] = "idle" /\ got'[q] = got[q]
    BY <2>1 DEF EndChange, Goto
  <2> QED
    BY <2>1, <2>2 DEF FitFor, Elsewhere, InBucket, Sending
<1> QED
  BY <1>1, <1>2, <1>3, <1>4, <1>5, <1>6, <1>7, <1>8, <1>9, <1>10, <1>11, <1>12, <1>13
  DEF CallerStep, SendStep

LEMMA FitInvStep == Shape /\ FitInv /\ [Next]_vars => FitInv'
<1> SUFFICES ASSUME Shape, FitInv, [Next]_vars, NEW q \in Callers PROVE FitFor(q)'
  BY DEF FitInv
<1>0. FitFor(q)
  BY DEF FitInv
<1>1. CASE UNCHANGED vars
  BY <1>0, <1>1, FitKept DEF vars, connVars, sendVars, history, attrVars, Still, Kept
<1>2. ASSUME NEW p \in Callers, CallerStep(p) PROVE FitFor(q)'
  BY <1>0, <1>2, FitOwn, OthersLeave, FitKept
<1>3. ASSUME NEW c \in Conns, ConnStep(c) \/ Environment(c) PROVE FitFor(q)'
  BY <1>0, <1>3, ConnsLeave, FitKept
<1> QED
  BY <1>1, <1>2, <1>3 DEF Next

-----------------------------------------------------------------------------
(* Everybody who stays open and fit is reached.                            *)

DyingClosed == \A c \in Conns : check[c] = "delete" => sock[c] = "closed"

\* A connection q has to reach has been reached, or its bucket is still to come, or q is
\* in its bucket and has not come to it.
ReachFor(q) ==
  Sending(q) => \A c \in must[q] \ lost :
    /\ c \in mapped /\ sock[c] = "open" /\ Fit(para[q], c)
    /\ \/ c \in got[q]
       \/ BucketOf[c] \in buckets[q]
       \/ bucket[q] = {BucketOf[c]} /\ pc[q] = "lock"
       \/ bucket[q] = {BucketOf[c]} /\ pc[q] \in InBucket /\ c \in todo[q]

ReachInv == DyingClosed /\ \A q \in Callers : ReachFor(q)

LEMMA ReachInvInit == Init => ReachInv
BY DEF Init, ReachInv, DyingClosed, ReachFor, Sending

LEMMA CallersLeaveConns ==
  ASSUME NEW p \in Callers, CallerStep(p) PROVE UNCHANGED <<sock, mapped, adding, check, lost>>
<1>1. ASSUME NEW c \in Conns, Visit(p, c) PROVE UNCHANGED <<sock, mapped, adding, check, lost>>
  BY <1>1, VisitCases DEF connVars, freeVars
<1>2. ASSUME SendStep(p), ~\E c \in Conns : Visit(p, c) PROVE UNCHANGED <<sock, mapped, adding, check, lost>>
  BY <1>2 DEF SendStep, PickBucket, Lock, Unlock, ReadAttrs, StartWrite, EndWrite, connVars,
     freeVars
<1>3. ASSUME NEW c \in Conns, ChangeStep(p, c) PROVE UNCHANGED <<sock, mapped, adding, check, lost>>
  BY <1>3 DEF ChangeStep, MarkTags, RemoveTags, SetProp, DelProp, EndChange, connVars, freeVars
<1> QED
  BY <1>1, <1>2, <1>3 DEF CallerStep, StartSend, DirectWrite, DirectWriteEnds, SetOwnerId,
     StartMarkTags, StartSetProp, StartChange, connVars, freeVars

\* Nothing that is open leaves its bucket, but by freeRunMemory.
OpenStays == lost \subseteq lost' /\ \A d \in mapped \ mapped' : sock[d] # "open" \/ d \in lost'

LEMMA OpenStaysMapped ==
  ASSUME Shape, DyingClosed, NEW c \in Conns, ConnStep(c) \/ Environment(c)
  PROVE  DyingClosed' /\ OpenStays
<1> USE DEF Shape, ConnShape, DyingClosed, OpenStays
<1>1. ASSUME \/ Connect(c) \/ AddConnect(c) \/ AddConnectCount(c) \/ ReadMessage(c) \/ PeerGone(c)
             \/ Stall(c) \/ Expire(c)
      PROVE  DyingClosed' /\ mapped \subseteq mapped' /\ lost' = lost
  BY <1>1 DEF Connect, AddConnect, AddConnectCount, ReadMessage, PeerGone, Stall, Expire, freeVars
<1>2. ASSUME CloseConn(c) \/ TickDelete(c) PROVE DyingClosed' /\ OpenStays
  BY <1>2 DEF CloseConn, TickDelete, Goes, freeVars
<1>3. ASSUME CloseConnSocket(c) \/ TickClose(c) PROVE DyingClosed' /\ mapped' = mapped /\ lost' = lost
  <2>1. /\ sock' = [sock EXCEPT ![c] = "closed"] /\ mapped' = mapped /\ lost' = lost
        /\ check' = check \/ check' = [check EXCEPT ![c] = "delete"]
    BY <1>3 DEF CloseConnSocket, TickClose, CloseSocket, Goes, freeVars
  <2> QED
    BY <2>1
<1>4. ASSUME TickCount(c) PROVE DyingClosed' /\ mapped' = mapped /\ lost' = lost
  BY <1>4 DEF TickCount, Goes
<1>5. ASSUME TickFree(c) PROVE DyingClosed' /\ OpenStays
  BY <1>5 DEF TickFree, Goes
<1> QED
  BY <1>1, <1>2, <1>3, <1>4, <1>5 DEF ConnStep, Environment

LEMMA ReachKept ==
  ASSUME Shape, NEW q \in Callers, ReachFor(q), Still(q), Kept(q) \/ Tracked(q),
         OpenStays
  PROVE  ReachFor(q)'
<1> USE DEF Shape, HistShape, OpenStays
<1>1. CASE Kept(q)
  BY <1>1 DEF ReachFor, Still, Kept, Sending, Fit, attrVars
<1>2. CASE Tracked(q)
  <2>1. ASSUME NEW c \in must'[q] \ lost', Sending(q) PROVE c \in mapped' /\ sock'[c] = "open" /\ Fit(para[q], c)'
    BY <1>2, <2>1 DEF Tracked, FitNext, Fit, ReachFor, Still
  <2>2. para'[q] = para[q] /\ must'[q] \subseteq must[q]
    BY <1>2 DEF Tracked, Still
  <2> QED
    BY <2>1, <2>2 DEF ReachFor, Still, Sending, Fit
<1> QED
  BY <1>1, <1>2

\* The steps of q within one bucket.
LEMMA ReachLoop ==
  ASSUME Shape, TypeSet, NEW q \in Callers, FitFor(q), ReachFor(q), NEW c \in Conns,
         Visit(q, c) \/ ReadAttrs(q, c) \/ StartWrite(q, c) \/ EndWrite(q, c)
  PROVE  /\ pc[q] \in InBucket /\ pc'[q] \in InBucket \cup Faults
         /\ UNCHANGED <<attrVars, sock, mapped, lost, para, buckets, bucket, must>>
         /\ \A d \in todo[q] \ todo'[q] : d \in must[q] \ lost => d \in got'[q]
         /\ got[q] \subseteq got'[q]
<1> USE DEF Shape, SendShape, HistShape
<1>1. CASE Visit(q, c)
  <2>1. /\ pc[q] = "loop" /\ UNCHANGED <<attrVars, sock, mapped, lost, para, buckets, bucket, must, got>>
        /\ pc'[q] \in {"loop", "tags", "props", "write"}
    BY <1>1, VisitCases DEF connVars, freeVars, history
  <2>2. todo' = todo \/ (todo' = [todo EXCEPT ![q] = todo[q] \ {c}] /\ para[q].ids = {} /\ ~Passes(para[q], c))
    BY <1>1, VisitCases
  <2>3. para[q].ids = {} /\ ~Passes(para[q], c) => c \notin must[q] \ lost
    BY <2>1, PassesIsFit DEF ReachFor, Sending
  <2> QED
    BY <2>1, <2>2, <2>3 DEF InBucket
<1>2. CASE ReadAttrs(q, c)
  <2>1. /\ pc[q] \in {"tags", "props"} /\ para[q].ids = {}
        /\ UNCHANGED <<attrVars, sock, mapped, lost, para, buckets, bucket, must, got>>
    BY <1>2 DEF ReadAttrs, connVars, freeVars, history, FitFor
  <2>2. \/ pc'[q] \in {"concurrent map", "write"} /\ todo'[q] = todo[q]
        \/ pc'[q] = "loop" /\ todo'[q] = todo[q] \ {c} /\ ~Passes(para[q], c)
    BY <1>2 DEF ReadAttrs, Goto
  <2>3. ~Passes(para[q], c) => c \notin must[q] \ lost
    BY <2>1, PassesIsFit DEF ReachFor, Sending
  <2> QED
    BY <2>1, <2>2, <2>3 DEF InBucket, Faults
<1>3. CASE StartWrite(q, c)
  <2>1. /\ pc[q] = "write" /\ pc'[q] \in {"writing", "concurrent write"}
        /\ UNCHANGED <<connVars, freeVars, attrVars, sendVars, history>>
    BY <1>3 DEF StartWrite, Goto
  <2> QED
    BY <2>1 DEF connVars, freeVars, sendVars, history, InBucket, Faults
<1>4. CASE EndWrite(q, c)
  <2>1. /\ pc[q] = "writing" /\ pc'[q] = "loop" /\ todo'[q] = todo[q] \ {c}
        /\ UNCHANGED <<attrVars, sock, mapped, lost, para, buckets, bucket, must>>
        /\ got'[q] = IF sock[c] = "open" /\ TypeSet THEN got[q] \cup {c} ELSE got[q]
    BY <1>4 DEF EndWrite, Goto, freeVars
  <2> QED
    BY <2>1 DEF ReachFor, Sending, InBucket
<1> QED
  BY <1>1, <1>2, <1>3, <1>4

LEMMA ReachOwn ==
  ASSUME Shape, TypeSet, NEW q \in Callers, FitFor(q), ReachFor(q), CallerStep(q)
  PROVE  /\ ReachFor(q)'
         /\ Sending(q) /\ ~Sending(q)' /\ ~Crashed' => must[q] \subseteq got[q] \cup lost
<1> DEFINE Ends == Sending(q) /\ ~Sending(q)' /\ ~Crashed' => must[q] \subseteq got[q] \cup lost
<1> USE BroadcastConstants DEF BroadcastConstants, Shape, SendShape, HistShape
<1>1. ASSUME NEW m \in Paras, StartSend(q, m) PROVE ReachFor(q)' /\ Ends
  <2>1. /\ pc[q] = "idle" /\ pc'[q] = "pick" /\ para'[q] = m /\ buckets'[q] = Buckets
        /\ must'[q] = {c \in mapped : sock[c] = "open" /\ Fit(m, c)}
        /\ UNCHANGED <<attrVars, sock, mapped, lost>>
    BY <1>1 DEF StartSend, Goto, connVars, freeVars
  <2> QED
    BY <2>1 DEF ReachFor, Sending, Fit, attrVars, ConnShape
<1>2. ASSUME NEW b \in Buckets, PickBucket(q, b) PROVE ReachFor(q)' /\ Ends
  <2>1. /\ pc[q] = "pick" /\ pc'[q] = "lock" /\ buckets'[q] = buckets[q] \ {b} /\ bucket'[q] = {b}
        /\ UNCHANGED <<attrVars, sock, mapped, lost, para, must, got>>
    BY <1>2 DEF PickBucket, Goto, connVars, freeVars, history
  <2> QED
    BY <2>1 DEF ReachFor, Sending, InBucket, Fit, attrVars
<1>3. ASSUME NEW b \in Buckets, Lock(q, b) PROVE ReachFor(q)' /\ Ends
  <2>1. /\ pc[q] = "lock" /\ pc'[q] = "loop" /\ bucket[q] = {b}
        /\ todo'[q] = {c \in mapped : BucketOf[c] = b /\ (para[q].ids # {} => c \in para[q].ids)}
        /\ UNCHANGED <<attrVars, sock, mapped, lost, para, buckets, bucket, must, got>>
    BY <1>3 DEF Lock, Goto, connVars, freeVars, history
  <2>2. ASSUME NEW c \in must[q] \ lost PROVE c \in mapped /\ (para[q].ids # {} => c \in para[q].ids)
    BY <2>1, <2>2 DEF ReachFor, Sending, Fit, FitGiven
  <2> QED
    BY <2>1, <2>2 DEF ReachFor, Sending, InBucket, Fit, attrVars
<1>4. ASSUME NEW b \in Buckets, Unlock(q, b) PROVE ReachFor(q)' /\ Ends
  <2>1. pc[q] = "loop" /\ bucket[q] = {b} /\ Ahead(q) = {}
        /\ UNCHANGED <<attrVars, sock, mapped, lost, buckets>>
    BY <1>4 DEF Unlock, connVars, freeVars
  <2>2. ASSUME NEW c \in must[q] \ lost PROVE c \in got[q] \/ BucketOf[c] \in buckets[q]
    BY <2>1, <2>2 DEF ReachFor, Sending, Ahead
  <2>3. CASE buckets[q] # {}
    <3>1. pc'[q] = "pick" /\ UNCHANGED <<para, must, got>>
      BY <1>4, <2>3 DEF Unlock, Goto, history
    <3> QED
      BY <2>1, <2>2, <3>1 DEF ReachFor, Sending, Fit, attrVars
  <2>4. CASE buckets[q] = {}
    <3>1. pc'[q] = "idle"
      BY <1>4, <2>4 DEF Unlock, Goto
    <3> QED
      BY <2>2, <2>4, <3>1 DEF ReachFor, Sending
  <2> QED
    BY <2>3, <2>4
<1>5. ASSUME NEW c \in Conns, Visit(q, c) \/ ReadAttrs(q, c) \/ StartWrite(q, c) \/ EndWrite(q, c)
      PROVE  ReachFor(q)' /\ Ends
  <2>1. /\ pc[q] \in InBucket /\ pc'[q] \in InBucket \cup Faults
        /\ UNCHANGED <<attrVars, sock, mapped, lost, para, buckets, bucket, must>>
        /\ \A d \in todo[q] \ todo'[q] : d \in must[q] \ lost => d \in got'[q]
        /\ got[q] \subseteq got'[q]
    BY <1>5, ReachLoop
  <2>2. CASE pc'[q] \in Faults
    BY <2>2 DEF ReachFor, Sending, Faults, Crashed
  <2>3. CASE pc'[q] \in InBucket
    <3>1. Sending(q) /\ Sending(q)' /\ pc[q] # "lock"
      BY <2>1, <2>3 DEF Sending, InBucket
    <3> QED
      BY <2>1, <2>3, <3>1 DEF ReachFor, Fit, attrVars
  <2> QED
    BY <2>1, <2>2, <2>3
<1>6. ASSUME pc[q] \in Elsewhere, pc'[q] \in Elsewhere \cup Faults PROVE ReachFor(q)' /\ Ends
  BY <1>6 DEF ReachFor, Sending, Elsewhere, Faults
<1>7. ASSUME NEW c \in Conns,
             \/ DirectWrite(q, c) \/ DirectWriteEnds(q, c)
             \/ \E o \in Owners : SetOwnerId(q, c, o)
             \/ StartMarkTags(q, c) \/ StartSetProp(q, c)
      PROVE  ReachFor(q)' /\ Ends
  <2>1. pc[q] \in Elsewhere /\ pc'[q] \in Elsewhere \cup Faults
    BY <1>7 DEF DirectWrite, DirectWriteEnds, SetOwnerId, StartMarkTags, StartSetProp,
                StartChange, Goto, Elsewhere, Faults
  <2> QED
    BY <2>1, <1>6
<1>8. ASSUME NEW c \in Conns, ChangeStep(q, c) PROVE ReachFor(q)' /\ Ends
  <2>1. pc[q] \in {"mark tags", "set props"} /\ EndChange(q)
    BY <1>8 DEF ChangeStep, MarkTags, RemoveTags, SetProp, DelProp
  <2>2. pc[q] \in Elsewhere /\ pc'[q] \in Elsewhere
    BY <2>1 DEF EndChange, Goto, Elsewhere
  <2> QED
    BY <2>2, <1>6
<1> QED
  BY <1>1, <1>2, <1>3, <1>4, <1>5, <1>7, <1>8 DEF CallerStep, SendStep

\* Every step keeps ReachInv, and one that ends a call has left nobody out.
LEMMA ReachInvStep ==
  ASSUME Shape, TypeSet, FitInv, ReachInv, [Next]_vars
  PROVE  /\ ReachInv'
         /\ \A q \in Callers : Sending(q) /\ ~Sending(q)' /\ ~Crashed' => must[q] \subseteq got[q] \cup lost
<1>0. DyingClosed
  BY DEF ReachInv
<1>1. DyingClosed' /\ OpenStays
  <2>1. CASE UNCHANGED vars
    BY <1>0, <2>1 DEF vars, connVars, freeVars, DyingClosed, OpenStays
  <2>2. ASSUME NEW p \in Callers, CallerStep(p)
        PROVE  DyingClosed' /\ OpenStays
    BY <1>0, <2>2, CallersLeaveConns DEF DyingClosed, OpenStays
  <2> QED
    BY <1>0, <2>1, <2>2, OpenStaysMapped DEF Next
<1>2. ASSUME NEW q \in Callers
      PROVE  ReachFor(q)' /\ (Sending(q) /\ ~Sending(q)' /\ ~Crashed' => must[q] \subseteq got[q] \cup lost)
  <2>0. FitFor(q) /\ ReachFor(q)
    BY DEF FitInv, ReachInv
  <2>1. ASSUME Still(q), Kept(q) \/ Tracked(q)
        PROVE  ReachFor(q)' /\ (Sending(q) => Sending(q)')
    BY <1>1, <2>0, <2>1, ReachKept DEF Still, Sending
  <2>2. CASE UNCHANGED vars
    BY <2>1, <2>2 DEF vars, connVars, sendVars, history, Still, Kept
  <2>3. ASSUME NEW p \in Callers, CallerStep(p), p # q PROVE ReachFor(q)' /\ (Sending(q) => Sending(q)')
    BY <2>1, <2>3, OthersLeave
  <2>4. ASSUME NEW c \in Conns, ConnStep(c) \/ Environment(c)
        PROVE  ReachFor(q)' /\ (Sending(q) => Sending(q)')
    BY <2>1, <2>4, ConnsLeave
  <2>5. CASE CallerStep(q)
    BY <2>0, <2>5, ReachOwn
  <2> QED
    BY <2>2, <2>3, <2>4, <2>5 DEF Next
<1> QED
  BY <1>1, <1>2 DEF ReachInv

-----------------------------------------------------------------------------
(* The lock of a bucket belongs to the goroutine in its loop.              *)

LEMMA LocksHeldStep == Shape /\ LocksHeld /\ [Next]_vars => LocksHeld'
<1> SUFFICES ASSUME Shape, LocksHeld, [Next]_vars PROVE LocksHeld'
  OBVIOUS
<1> DEFINE Holds(p, b) == bucket[p] = {b} /\ pc[p] \in InBucket \cup Faults
           Adds(b) == \E c \in adding : BucketOf[c] = b
<1>0. LocksHeld' <=> \A b \in locked' : Adds(b)' \/ \E q \in Callers : Holds(q, b)'
  BY DEF LocksHeld
<1>1. ASSUME NEW p \in Callers, UNCHANGED <<locked, adding>>,
             \A q \in Callers \ {p} : Still(q),
             \A b \in Buckets : Holds(p, b) => Holds(p, b)'
      PROVE  LocksHeld'
  <2>1. ASSUME NEW b \in locked, NEW q \in Callers, Holds(q, b) PROVE Holds(q, b)'
    BY <1>1, <2>1 DEF Still, Shape, SendShape
  <2> QED
    BY <1>0, <1>1, <2>1 DEF LocksHeld
<1>2. ASSUME NEW p \in Callers, CallerStep(p) PROVE LocksHeld'
  <2> USE DEF Shape, SendShape
  <2>0. UNCHANGED adding
    BY <1>2, CallersLeaveConns
  <2>1. \A q \in Callers \ {p} : Still(q)
    BY <1>2, OthersLeave DEF Shape
  <2>2. ASSUME NEW b \in Buckets, Lock(p, b) PROVE LocksHeld'
    <3>1. pc[p] = "lock" /\ pc'[p] = "loop" /\ bucket'[p] = {b} /\ locked' = locked \cup {b}
      BY <2>2 DEF Lock, Goto
    <3>2. Holds(p, b)'
      BY <3>1 DEF InBucket
    <3>3. ASSUME NEW d \in locked, NEW q \in Callers, Holds(q, d) PROVE Holds(q, d)'
      BY <2>1, <3>1, <3>3 DEF Still, InBucket, Faults
    <3> QED
      BY <1>0, <2>0, <3>1, <3>2, <3>3 DEF LocksHeld
  <2>3. ASSUME NEW b \in Buckets, Unlock(p, b) PROVE LocksHeld'
    <3>1. bucket[p] = {b} /\ locked' = locked \ {b}
      BY <2>3 DEF Unlock
    <3>2. ASSUME NEW d \in locked', NEW q \in Callers, Holds(q, d) PROVE Holds(q, d)'
      BY <2>1, <3>1, <3>2 DEF Still
    <3> QED
      BY <1>0, <2>0, <3>1, <3>2 DEF LocksHeld
  <2>4. ASSUME NEW c \in Conns, Visit(p, c) PROVE LocksHeld'
    <3>1. pc[p] = "loop" /\ pc'[p] \in InBucket /\ UNCHANGED <<bucket, locked>>
      BY <2>4, VisitCases DEF InBucket
    <3> QED
      BY <1>1, <2>0, <2>1, <3>1
  <2>5. ASSUME NEW c \in Conns, ReadAttrs(p, c) \/ StartWrite(p, c) \/ EndWrite(p, c) PROVE LocksHeld'
    <3>1. pc'[p] \in InBucket \cup Faults /\ UNCHANGED <<bucket, locked>>
      BY <2>5 DEF ReadAttrs, StartWrite, EndWrite, Goto, InBucket, Faults, sendVars
    <3> QED
      BY <1>1, <2>0, <2>1, <3>1
  <2>6. ASSUME pc[p] \in Elsewhere \cup {"pick"}, UNCHANGED locked PROVE LocksHeld'
    <3>1. pc[p] \notin InBucket \cup Faults
      BY <2>6 DEF Elsewhere, InBucket, Faults
    <3> QED
      BY <1>1, <2>0, <2>1, <2>6, <3>1
  <2>7. ASSUME NEW b \in Buckets, PickBucket(p, b) PROVE LocksHeld'
    BY <2>6, <2>7 DEF PickBucket
  <2>8. ASSUME \/ \E m \in Paras : StartSend(p, m)
               \/ \E c \in Conns : \/ DirectWrite(p, c) \/ DirectWriteEnds(p, c)
                                   \/ \E o \in Owners : SetOwnerId(p, c, o)
                                   \/ StartMarkTags(p, c) \/ StartSetProp(p, c)
        PROVE  LocksHeld'
    BY <2>6, <2>8 DEF StartSend, DirectWrite, DirectWriteEnds, SetOwnerId, StartMarkTags,
                      StartSetProp, StartChange, Elsewhere
  <2>9. ASSUME NEW c \in Conns, ChangeStep(p, c) PROVE LocksHeld'
    <3>1. pc[p] \in {"mark tags", "set props"} /\ EndChange(p)
      BY <2>9 DEF ChangeStep, MarkTags, RemoveTags, SetProp, DelProp
    <3> QED
      BY <2>6, <3>1 DEF EndChange, Elsewhere
  <2> QED
    BY <1>2, <2>2, <2>3, <2>4, <2>5, <2>7, <2>8, <2>9 DEF CallerStep, SendStep
<1>3. ASSUME UNCHANGED <<pc, sendVars, locked, adding>> PROVE LocksHeld'
  BY <1>3 DEF sendVars, LocksHeld
<1>4. CASE UNCHANGED vars
  BY <1>3, <1>4 DEF vars, connVars
<1>5. ASSUME NEW c \in Conns, AddConnect(c) \/ AddConnectCount(c) PROVE LocksHeld'
  <2>1. \/ /\ adding' = adding \cup {c} /\ locked' = locked \cup {BucketOf[c]}
        \/ /\ adding' = adding \ {c} /\ locked' = locked \ {BucketOf[c]}
    BY <1>5 DEF AddConnect, AddConnectCount
  <2>2. UNCHANGED <<pc, bucket>>
    BY <1>5 DEF AddConnect, AddConnectCount, sendVars
  <2> QED
    BY <2>1, <2>2 DEF LocksHeld
<1>6. ASSUME NEW c \in Conns,
             \/ Environment(c) \/ ReadMessage(c) \/ CloseConn(c) \/ CloseConnSocket(c)
             \/ TickClose(c) \/ TickDelete(c) \/ TickCount(c) \/ TickFree(c)
      PROVE  LocksHeld'
  BY <1>3, <1>6 DEF Environment, Connect, ReadMessage, PeerGone, Stall, Expire, CloseConn,
     CloseConnSocket, TickClose, TickDelete, TickCount, TickFree, CloseSocket
<1> QED
  BY <1>2, <1>4, <1>5, <1>6 DEF Next, ConnStep

-----------------------------------------------------------------------------
\* The state keeps its shape, and a lock that is held is held by a goroutine in the loop of
\* that bucket or in AddConnect: nobody returns with it.
THEOREM BroadcastTyping == Spec => []TypeOK
<1>1. Init => LocksHeld
  BY DEF Init, LocksHeld
<1> QED
  BY BroadcastConstants, ShapeInit, ShapeStep, <1>1, LocksHeldStep, TypeOKParts, PTL DEF Spec

\* Whatever the application does to owners, tags and properties meanwhile, a message reaches
\* no connection that was not fit for it at some time during the call.
THEOREM OnlyFitGetIt == Spec => []OnlyFit
<1>1. FitInv => OnlyFit
  BY DEF FitInv, FitFor, OnlyFit
<1> QED
  BY BroadcastConstants, ShapeInit, ShapeStep, FitInvInit, FitInvStep, <1>1, PTL DEF Spec

\* With a message type set, SendMessage returns only after it has written to every connection
\* that has been in its bucket, open and fit all the time: no failed write, no
\* connection that comes or goes and no change of attributes hides one.  With an active
\* check too, except for the connections its freeRunMemory has taken out of their bucket.
THEOREM AllFitGetIt == ASSUME TypeSet PROVE Spec => Delivered
<1> DEFINE Ends == \A p \in Callers : Sending(p) /\ ~Sending(p)' /\ ~Crashed' => must[p] \subseteq got[p] \cup lost
<1>1. Shape /\ FitInv /\ ReachInv /\ [Next]_vars => ReachInv' /\ [Ends]_vars
  BY ReachInvStep
<1>2. [][Ends]_vars => Delivered
  BY PTL DEF Delivered
<1> QED
  BY BroadcastConstants, ShapeInit, ShapeStep, FitInvInit, FitInvStep, ReachInvInit, <1>1,
       <1>2, PTL DEF Spec

===============================================================================
