--------------------------- MODULE ClientPoolProofs ---------------------------
(***************************************************************************)
(* No number of goroutines that create clients, close them one by one or   *)
(* all at once, send, and change settings meanwhile, makes the pool forget *)
(* a client that is still connected, but for those dialled in the middle   *)
(* of a close().                                                           *)
(***************************************************************************)
EXTENDS ClientPool, FiniteSetTheorems, TLAPS

Steps == {"idle", "dial", "id", "insert", "shut", "close", "force", "remove", "ask", "redial",
          "check", "lock", "loop", "beat"}

Shape ==
  /\ pc \in [Callers -> Steps]
  /\ op \in [Callers -> Kinds \cup {"none", "create", "close", "closeConn", "quit", "send"}]
  /\ at \in [Callers -> Clients \cup {NoClient}]
  /\ todo \in [Callers -> SUBSET given]
  /\ clientMap \subseteq given /\ given \subseteq made /\ made \subseteq Clients
  /\ connected \subseteq made /\ forceClosed \subseteq given /\ late \subseteq given

Fresh == {"dial", "id", "insert"}

\* Who creates a client has it alone until it is given; it is connected once dialled.
Private ==
  /\ \A p \in Callers : pc[p] \in Fresh => at[p] \in made \ given
  /\ \A p, q \in Callers : pc[p] \in Fresh /\ pc[q] \in Fresh /\ at[p] = at[q] => p = q
  /\ \A p \in Callers : pc[p] \in {"id", "insert"} => at[p] \in connected

\* What each call does with a client that was given, and who comes to take it out of the map.
Handling ==
  \A p \in Callers :
    /\ pc[p] \in {"shut", "close", "force", "remove", "ask", "redial"} => at[p] \in given
    /\ pc[p] \in {"shut", "close", "force"} => op[p] \in {"closeConn", "quit", "close"}
    /\ pc[p] = "remove" => op[p] \in {"closeConn", "close"} /\ at[p] \notin connected \ late
    /\ pc[p] \in {"ask", "redial"} => op[p] \in {"send", "auto"}
    /\ pc[p] = "redial" => at[p] \in late

\* A client is connected until a close() takes its connection, and then it is closed for
\* good, or that close() has still to say so.
Closing ==
  \A c \in given \ late :
    c \in connected <=> c \notin forceClosed /\ \A p \in Callers : ~ (pc[p] = "force" /\ at[p] = c)

Left == \A c \in (given \ clientMap) \ late : c \notin connected

PoolInv == Shape /\ Private /\ Handling /\ Closing /\ Left

-----------------------------------------------------------------------------
LEMMA PoolInvInit == Init => PoolInv
BY DEF Init, PoolInv, Shape, Steps, Private, Fresh, Handling, Closing, Left

\* Steps that leave the clients alone and go nowhere where one is handled.
LEMMA Elsewhere ==
  ASSUME PoolInv, NEW p \in Callers, UNCHANGED <<socks, given, clientMap>>, Shape',
         \A q \in Callers : q # p => pc'[q] = pc[q] /\ at'[q] = at[q] /\ op'[q] = op[q],
         pc[p] # "force", pc'[p] \in {"idle", "check", "lock", "loop", "beat"}
  PROVE  PoolInv'
<1> USE DEF PoolInv, socks
<1>1. Private'
  BY DEF Private, Fresh
<1>2. Handling'
  BY DEF Handling
<1>3. Closing'
  BY DEF Closing
<1> QED
  BY <1>1, <1>2, <1>3 DEF Left

\* Steps that only look at a client that was given, and go on with it.
LEMMA Looks ==
  ASSUME PoolInv, NEW p \in Callers, UNCHANGED <<socks, given, clientMap>>, Shape',
         \A q \in Callers : q # p => pc'[q] = pc[q] /\ at'[q] = at[q] /\ op'[q] = op[q],
         pc[p] # "force", at'[p] \in given,
         \/ pc'[p] = "shut" /\ op'[p] \in {"closeConn", "quit", "close"}
         \/ pc'[p] = "ask" /\ op'[p] \in {"send", "auto"}
  PROVE  PoolInv'
<1> USE DEF PoolInv, socks
<1>1. Private'
  BY DEF Private, Fresh
<1>2. Handling'
  BY DEF Handling
<1>3. Closing'
  BY DEF Closing
<1> QED
  BY <1>1, <1>2, <1>3 DEF Left

LEMMA PoolInvStep == PoolInv /\ [Next]_vars => PoolInv'
<1> SUFFICES ASSUME PoolInv, [Next]_vars PROVE PoolInv'
  OBVIOUS
<1> USE DEF PoolInv
<1>1. CASE UNCHANGED vars
  BY <1>1 DEF vars, clients, socks, calls, Shape, Private, Handling, Closing, Left
<1>2. ASSUME NEW p \in Callers, NEW c \in Clients, CreateClient(p, c) PROVE PoolInv'
  <2>1. /\ c \notin made /\ made' = made \cup {c} /\ pc[p] = "idle"
        /\ pc' = [pc EXCEPT ![p] = "dial"] /\ at' = [at EXCEPT ![p] = c]
        /\ op' = [op EXCEPT ![p] = "create"]
        /\ UNCHANGED <<clientMap, given, todo, connected, forceClosed, late>>
    BY <1>2 DEF CreateClient, Call, Goto
  <2>2. Shape'
    BY <2>1 DEF Shape, Steps
  <2>3. Private'
    BY <2>1 DEF Private, Fresh, Shape
  <2>4. Handling' /\ Closing' /\ Left'
    BY <2>1 DEF Handling, Closing, Left, Shape
  <2> QED
    BY <2>2, <2>3, <2>4
<1>3. ASSUME NEW p \in Callers, Dial(p) PROVE PoolInv'
  <2>1. CASE Return(p) /\ UNCHANGED connected
    <3>1. /\ pc[p] = "dial" /\ pc' = [pc EXCEPT ![p] = "idle"]
          /\ at' = [at EXCEPT ![p] = NoClient] /\ op' = [op EXCEPT ![p] = "none"]
          /\ UNCHANGED <<clientMap, given, todo, socks>>
      BY <1>3, <2>1 DEF Dial, Return, Goto, socks
    <3>2. Shape'
      BY <3>1 DEF Shape, Steps, socks
    <3> QED
      BY <3>1, <3>2, Elsewhere DEF Shape
  <2>2. CASE connected' = connected \cup {at[p]} /\ Goto(p, "id") /\ UNCHANGED <<op, arg, at>>
    <3>1. /\ pc[p] = "dial" /\ connected' = connected \cup {at[p]}
          /\ pc' = [pc EXCEPT ![p] = "id"] /\ at[p] \in made \ given
          /\ UNCHANGED <<op, at, made, forceClosed, late, clientMap, given, todo>>
      BY <1>3, <2>2 DEF Dial, Goto, Private, Fresh
    <3>2. Shape'
      BY <3>1 DEF Shape, Steps
    <3>3. Private'
      BY <3>1 DEF Private, Fresh, Shape
    <3>4. Handling'
      BY <3>1 DEF Handling, Shape
    <3>5. Closing' /\ Left'
      BY <3>1 DEF Closing, Left, Shape
    <3> QED
      BY <3>2, <3>3, <3>4, <3>5
  <2> QED
    BY <1>3, <2>1, <2>2 DEF Dial
<1>4. ASSUME NEW p \in Callers, GenId(p) PROVE PoolInv'
  <2>1. /\ pc[p] = "id" /\ pc' = [pc EXCEPT ![p] = "insert"]
        /\ UNCHANGED <<clientMap, given, todo, at, op, made, connected, forceClosed, late>>
    BY <1>4 DEF GenId, Goto, socks
  <2>2. Shape'
    BY <2>1 DEF Shape, Steps
  <2>3. Private' /\ Handling' /\ Closing' /\ Left'
    BY <2>1 DEF Private, Fresh, Handling, Closing, Left, Shape
  <2> QED
    BY <2>2, <2>3
<1>5. ASSUME NEW p \in Callers, Insert(p) PROVE PoolInv'
  <2>1. /\ pc[p] = "insert" /\ pc' = [pc EXCEPT ![p] = "idle"]
        /\ clientMap' = clientMap \cup {at[p]} /\ given' = given \cup {at[p]}
        /\ at' = [at EXCEPT ![p] = NoClient] /\ op' = [op EXCEPT ![p] = "none"]
        /\ at[p] \in made \ given /\ at[p] \in connected
        /\ UNCHANGED <<todo, made, connected, forceClosed, late>>
    BY <1>5 DEF Insert, Return, Goto, socks, Private, Fresh
  <2>2. Shape'
    BY <2>1 DEF Shape, Steps
  <2>3. Private'
    BY <2>1 DEF Private, Fresh, Shape
  <2>4. Handling' /\ Left'
    BY <2>1 DEF Handling, Left, Shape
  <2>5. at[p] \notin forceClosed /\ \A q \in Callers : ~ (pc[q] = "force" /\ at[q] = at[p])
    BY <2>1 DEF Handling, Shape
  <2>6. Closing'
    BY <2>1, <2>5 DEF Closing, Shape
  <2> QED
    BY <2>2, <2>3, <2>4, <2>6
<1>6. ASSUME NEW p \in Callers, NEW c \in Clients, CloseConn(p, c) \/ Quit(p, c) \/ Send(p, c)
      PROVE PoolInv'
  <2>1. /\ c \in given /\ pc[p] = "idle" /\ at' = [at EXCEPT ![p] = c]
        /\ \/ pc' = [pc EXCEPT ![p] = "shut"] /\ op' = [op EXCEPT ![p] = "closeConn"]
           \/ pc' = [pc EXCEPT ![p] = "shut"] /\ op' = [op EXCEPT ![p] = "quit"]
           \/ pc' = [pc EXCEPT ![p] = "ask"] /\ op' = [op EXCEPT ![p] = "send"]
        /\ UNCHANGED <<clientMap, given, todo, socks>>
    BY <1>6 DEF CloseConn, Quit, Send, Call, Goto, clients, Shape
  <2>2. Shape'
    BY <2>1 DEF Shape, Steps, socks
  <2> QED
    BY <2>1, <2>2, Looks DEF Shape
<1>7. ASSUME NEW p \in Callers, CheckConn(p) PROVE PoolInv'
  <2>1. /\ pc[p] = "shut" /\ UNCHANGED <<clientMap, given, todo, socks>> /\ at[p] \in given
        /\ op[p] \in {"closeConn", "quit", "close"}
    BY <1>7 DEF CheckConn, clients, Handling
  <2>2. CASE Return(p)
    <3>1. Shape'
      BY <2>1, <2>2 DEF Return, Goto, Shape, Steps, socks
    <3> QED
      BY <2>1, <2>2, <3>1, Elsewhere DEF Return, Goto, Shape
  <2>3. ASSUME NEW s \in {"close", "remove"}, pc' = [pc EXCEPT ![p] = s], UNCHANGED <<op, at>>,
               s = "remove" => op[p] # "quit" /\ (at[p] \notin connected \/ at[p] \in forceClosed)
        PROVE  PoolInv'
    <3>1. Shape'
      BY <2>1, <2>3 DEF Shape, Steps, socks
    <3>2. Private' /\ Closing' /\ Left'
      BY <2>1, <2>3 DEF Private, Fresh, Closing, Left, Shape, socks
    <3>3. s = "remove" => at[p] \notin connected \ late
      BY <2>1, <2>3 DEF Closing
    <3>4. Handling'
      BY <2>1, <2>3, <3>3 DEF Handling, Shape, socks
    <3> QED
      BY <3>1, <3>2, <3>4
  <2>4. \/ Return(p)
        \/ /\ pc' = [pc EXCEPT ![p] = "remove"] /\ op[p] # "quit" /\ UNCHANGED <<op, at>>
           /\ at[p] \notin connected \/ at[p] \in forceClosed
        \/ pc' = [pc EXCEPT ![p] = "close"] /\ UNCHANGED <<op, at>>
    BY <1>7 DEF CheckConn, Shut, Goto
  <2> QED
    BY <2>2, <2>3, <2>4
<1>8. ASSUME NEW p \in Callers, CloseSocket(p) PROVE PoolInv'
  <2>1. /\ pc[p] = "close" /\ at[p] \in given /\ connected' = connected \ {at[p]}
        /\ pc' = [pc EXCEPT ![p] = "force"]
        /\ UNCHANGED <<op, at, made, forceClosed, late, clientMap, given, todo>>
    BY <1>8 DEF CloseSocket, Goto, Handling
  <2>2. Shape'
    BY <2>1 DEF Shape, Steps
  <2>3. Private' /\ Left'
    BY <2>1 DEF Private, Fresh, Left, Shape
  <2>4. Handling'
    BY <2>1 DEF Handling, Shape
  <2>5. Closing'
    BY <2>1 DEF Closing, Shape
  <2> QED
    BY <2>2, <2>3, <2>4, <2>5
<1>9. ASSUME NEW p \in Callers, ForceClosed(p) PROVE PoolInv'
  <2>1. /\ pc[p] = "force" /\ at[p] \in given /\ forceClosed' = forceClosed \cup {at[p]}
        /\ op[p] \in {"closeConn", "quit", "close"}
        /\ UNCHANGED <<made, connected, late, clientMap, given, todo>>
    BY <1>9 DEF ForceClosed, Handling
  <2>2. at[p] \notin connected \ late
    BY <2>1 DEF Closing
  <2>3. \/ /\ pc' = [pc EXCEPT ![p] = "idle"] /\ at' = [at EXCEPT ![p] = NoClient]
           /\ op' = [op EXCEPT ![p] = "none"]
        \/ pc' = [pc EXCEPT ![p] = "remove"] /\ op[p] # "quit" /\ UNCHANGED <<op, at>>
    BY <1>9 DEF ForceClosed, Shut, Return, Goto
  <2>4. Shape'
    BY <2>1, <2>3 DEF Shape, Steps
  <2>5. Private' /\ Left'
    BY <2>1, <2>3 DEF Private, Fresh, Left, Shape
  <2>6. Handling'
    BY <2>1, <2>2, <2>3 DEF Handling, Shape
  <2>7. \A c \in given \ late : c # at[p] =>
          \A q \in Callers : (pc[q] = "force" /\ at[q] = c) <=> (pc'[q] = "force" /\ at'[q] = c)
    BY <2>1, <2>3 DEF Shape
  <2>8. Closing'
    BY <2>1, <2>2, <2>7 DEF Closing, Shape
  <2> QED
    BY <2>4, <2>5, <2>6, <2>8
<1>10. ASSUME NEW p \in Callers, Remove(p) PROVE PoolInv'
  <2>1. /\ pc[p] = "remove" /\ clientMap' = clientMap \ {at[p]} /\ at[p] \notin connected \ late
        /\ UNCHANGED <<given, todo, made, connected, forceClosed, late>>
    BY <1>10 DEF Remove, clients, socks, Handling
  <2>2. \/ /\ pc' = [pc EXCEPT ![p] = "idle"] /\ at' = [at EXCEPT ![p] = NoClient]
           /\ op' = [op EXCEPT ![p] = "none"]
        \/ pc' = [pc EXCEPT ![p] = "loop"] /\ UNCHANGED <<op, at>>
    BY <1>10 DEF Remove, Return, Again, Goto
  <2>3. Shape'
    BY <2>1, <2>2 DEF Shape, Steps
  <2>4. Private' /\ Handling' /\ Closing'
    BY <2>1, <2>2 DEF Private, Fresh, Handling, Closing, Shape
  <2>5. Left'
    BY <2>1 DEF Left
  <2> QED
    BY <2>3, <2>4, <2>5
<1>11. ASSUME NEW p \in Callers, Ask(p) PROVE PoolInv'
  <2>1. /\ pc[p] = "ask" /\ at[p] \in given
        /\ UNCHANGED <<given, todo, made, connected, forceClosed, clientMap>>
    BY <1>11 DEF Ask, Handling
  <2>2. CASE Asked(p) /\ UNCHANGED late
    <3>1. \/ /\ pc' = [pc EXCEPT ![p] = "idle"] /\ at' = [at EXCEPT ![p] = NoClient]
             /\ op' = [op EXCEPT ![p] = "none"]
          \/ pc' = [pc EXCEPT ![p] = "loop"] /\ UNCHANGED <<op, at>>
      BY <2>2 DEF Asked, Return, Again, Goto
    <3>2. Shape'
      BY <2>1, <2>2, <3>1 DEF Shape, Steps
    <3> QED
      BY <2>1, <2>2, <3>1, <3>2, Elsewhere DEF Shape, socks
  <2>3. CASE /\ at[p] \notin connected \cup forceClosed /\ Goto(p, "redial")
             /\ late' = (IF Closers(at[p]) # {} THEN late \cup {at[p]} ELSE late)
             /\ UNCHANGED <<op, arg, at>>
    <3>1. late' = late \cup {at[p]}
      BY <2>1, <2>3 DEF Closing, Closers
    <3>2. Shape'
      BY <2>1, <2>3, <3>1 DEF Shape, Steps, Goto
    <3>3. Private' /\ Left'
      BY <2>1, <2>3, <3>1 DEF Private, Fresh, Left, Goto, Shape
    <3>4. Handling'
      BY <2>1, <2>3, <3>1 DEF Handling, Goto, Shape
    <3>5. Closing'
      BY <2>1, <2>3, <3>1 DEF Closing, Goto, Shape
    <3> QED
      BY <3>2, <3>3, <3>4, <3>5
  <2> QED
    BY <1>11, <2>2, <2>3 DEF Ask
<1>12. ASSUME NEW p \in Callers, Redial(p) PROVE PoolInv'
  <2>1. /\ pc[p] = "redial" /\ at[p] \in given /\ at[p] \in late
        /\ connected' \in {connected, connected \cup {at[p]}}
        /\ UNCHANGED <<given, todo, made, forceClosed, late, clientMap>>
    BY <1>12 DEF Redial, Handling
  <2>2. \/ /\ pc' = [pc EXCEPT ![p] = "idle"] /\ at' = [at EXCEPT ![p] = NoClient]
           /\ op' = [op EXCEPT ![p] = "none"]
        \/ pc' = [pc EXCEPT ![p] = "loop"] /\ UNCHANGED <<op, at>>
    BY <1>12 DEF Redial, Asked, Return, Again, Goto
  <2>3. Shape'
    BY <2>1, <2>2 DEF Shape, Steps
  <2>4. Private' /\ Handling'
    BY <2>1, <2>2 DEF Private, Fresh, Handling, Shape
  <2>5. Closing' /\ Left'
    BY <2>1, <2>2 DEF Closing, Left, Shape
  <2> QED
    BY <2>3, <2>4, <2>5
<1>13. ASSUME NEW p \in Callers, NEW k \in Kinds, NEW v, Set(p, k, v) PROVE PoolInv'
  <2>1. /\ \E s \in {"lock", "check"} : pc' = [pc EXCEPT ![p] = s]
        /\ pc[p] = "idle" /\ op' = [op EXCEPT ![p] = k]
        /\ UNCHANGED <<socks, given, clientMap, todo, at>>
    BY <1>13 DEF Set, Call, Goto, clients
  <2>2. Shape'
    BY <2>1 DEF Shape, Steps, socks
  <2> QED
    BY <2>1, <2>2, Elsewhere DEF Shape
<1>14. ASSUME NEW p \in Callers, Close(p) PROVE PoolInv'
  <2>1. /\ pc' = [pc EXCEPT ![p] = "lock"] /\ pc[p] = "idle" /\ op' = [op EXCEPT ![p] = "close"]
        /\ UNCHANGED <<socks, given, clientMap, todo, at>>
    BY <1>14 DEF Close, Call, Goto, clients
  <2>2. Shape'
    BY <2>1 DEF Shape, Steps, socks
  <2> QED
    BY <2>1, <2>2, Elsewhere DEF Shape
<1>15. ASSUME NEW p \in Callers, CheckEmpty(p) PROVE PoolInv'
  <2>1. /\ \/ /\ pc' = [pc EXCEPT ![p] = "idle"] /\ at' = [at EXCEPT ![p] = NoClient]
              /\ op' = [op EXCEPT ![p] = "none"]
           \/ pc' = [pc EXCEPT ![p] = "lock"] /\ UNCHANGED <<op, at>>
        /\ pc[p] = "check" /\ UNCHANGED <<socks, given, clientMap, todo>>
    BY <1>15 DEF CheckEmpty, Return, Goto, clients
  <2>2. Shape'
    BY <2>1 DEF Shape, Steps, socks
  <2> QED
    BY <2>1, <2>2, Elsewhere DEF Shape
<1>16. ASSUME NEW p \in Callers, Lock(p) PROVE PoolInv'
  <2>1. /\ pc' = [pc EXCEPT ![p] = "loop"] /\ todo' = [todo EXCEPT ![p] = clientMap]
        /\ pc[p] = "lock" /\ UNCHANGED <<socks, given, clientMap, at, op>>
    BY <1>16 DEF Lock, Goto, clients
  <2>2. Shape'
    BY <2>1 DEF Shape, Steps, socks
  <2> QED
    BY <2>1, <2>2, Elsewhere DEF Shape
<1>17. ASSUME NEW p \in Callers, TellNext(p) PROVE PoolInv'
  <2> PICK c \in todo[p] : todo' = [todo EXCEPT ![p] = @ \ {c}] /\ at' = [at EXCEPT ![p] = c]
    BY <1>17 DEF TellNext
  <2>1. /\ c \in given /\ c \in Clients /\ pc[p] = "loop"
        /\ UNCHANGED <<op, socks, given, clientMap>>
        /\ \/ pc' = [pc EXCEPT ![p] = "loop"]
           \/ pc' = [pc EXCEPT ![p] = "beat"]
           \/ pc' = [pc EXCEPT ![p] = "ask"] /\ op[p] = "auto"
    BY <1>17 DEF TellNext, After, Goto, Shape
  <2>2. Shape'
    BY <2>1 DEF Shape, Steps, socks
  <2>3. CASE pc'[p] \in {"loop", "beat"}
    BY <2>1, <2>2, <2>3, Elsewhere DEF Shape
  <2>4. CASE pc' = [pc EXCEPT ![p] = "ask"] /\ op[p] = "auto"
    BY <2>1, <2>2, <2>4, Looks DEF Shape
  <2> QED
    BY <2>1, <2>3, <2>4 DEF Shape
<1>18. ASSUME NEW p \in Callers, Beat(p) PROVE PoolInv'
  <2>1. /\ pc' = [pc EXCEPT ![p] = "loop"] /\ pc[p] = "beat"
        /\ UNCHANGED <<socks, given, clientMap, todo, at, op>>
    BY <1>18 DEF Beat, Again, Goto
  <2>2. Shape'
    BY <2>1 DEF Shape, Steps, socks
  <2> QED
    BY <2>1, <2>2, Elsewhere DEF Shape
<1>19. ASSUME NEW p \in Callers, CloseNext(p) PROVE PoolInv'
  <2> PICK c \in todo[p] : todo' = [todo EXCEPT ![p] = @ \ {c}] /\ at' = [at EXCEPT ![p] = c]
    BY <1>19 DEF CloseNext
  <2>1. /\ c \in given /\ c \in Clients /\ pc[p] = "loop" /\ op[p] = "close"
        /\ pc' = [pc EXCEPT ![p] = "shut"] /\ UNCHANGED <<op, socks, given, clientMap>>
    BY <1>19 DEF CloseNext, Goto, clients, Shape
  <2>2. Shape'
    BY <2>1 DEF Shape, Steps, socks
  <2> QED
    BY <2>1, <2>2, Looks DEF Shape
<1>20. ASSUME NEW p \in Callers, Unlock(p) PROVE PoolInv'
  <2>1. /\ pc' = [pc EXCEPT ![p] = "idle"] /\ at' = [at EXCEPT ![p] = NoClient]
        /\ op' = [op EXCEPT ![p] = "none"] /\ pc[p] = "loop"
        /\ UNCHANGED <<socks, given, clientMap, todo>>
    BY <1>20 DEF Unlock, Return, Goto, clients
  <2>2. Shape'
    BY <2>1 DEF Shape, Steps, socks
  <2> QED
    BY <2>1, <2>2, Elsewhere DEF Shape
<1> QED
  BY <1>1, <1>2, <1>3, <1>4, <1>5, <1>6, <1>7, <1>8, <1>9, <1>10, <1>11, <1>12, <1>13,
     <1>14, <1>15, <1>16, <1>17, <1>18, <1>19, <1>20 DEF Next, AppCall, CallStep, Finished

\* A client that CreateClient has returned, and that has left the pool, is closed, whatever
\* else is created, closed, sent and set at the same time, unless somebody dialled it again
\* while a close() had taken its connection and not yet set forceClosed.
THEOREM PoolForgetsNoConnection == Spec => []LeftIsClosed
<1>1. PoolInv => LeftIsClosed
  <2> SUFFICES ASSUME PoolInv, NEW c \in (given \ clientMap) \ late
               PROVE  c \notin connected /\ (c \in forceClosed \/ Closers(c) # {})
    BY DEF LeftIsClosed
  <2>1. c \notin connected
    BY DEF PoolInv, Left
  <2> QED
    BY <2>1 DEF PoolInv, Closing, Closers
<1> QED
  BY PoolInvInit, PoolInvStep, <1>1, PTL DEF Spec

-----------------------------------------------------------------------------
(* The settings.  Every client is covered that was in the map when one was *)
(* made: it has the value, or somebody still comes to hand it over.        *)

Counted == \A k \in Followed : told[k] \subseteq given

Settings == [type : Types, auto : Switch, rate : {NoRate, Rate}]

\* The settings and what is handed over are of their kinds.
Kept ==
  /\ setting \in Settings
  /\ copy \in [Clients -> Settings]
  /\ beats \in [Clients -> 0 .. Room]
  /\ DOMAIN arg = Callers /\ DOMAIN told = Followed
  /\ \A p \in Callers : op[p] = "type" /\ pc[p] \in {"check", "lock", "loop", "beat"}
                          => arg[p] \in Types
  /\ \A p \in Callers : pc[p] = "beat" => at[p] \in Clients

Pending(p, k, c) ==
  /\ op[p] = k
  /\ \/ pc[p] \in {"check", "lock"}
     \/ pc[p] \in {"loop", "beat", "ask", "redial"} /\ c \in todo[p]

Cover ==
  \A k \in Followed : \A c \in told[k] \cap clientMap :
    copy[c][k] = setting[k] \/ \E p \in Callers : Pending(p, k, c)

LEMMA CountedStep == PoolInv /\ Counted /\ [Next]_vars => Counted'
<1> SUFFICES ASSUME PoolInv, Counted, [Next]_vars PROVE Counted'
  OBVIOUS
<1> USE DEF Counted
<1>1. CASE UNCHANGED vars
  BY <1>1 DEF vars, clients, counts
<1>2. ASSUME NEW p \in Callers, NEW d \in Clients, CreateClient(p, d) PROVE Counted'
  BY <1>2 DEF CreateClient, Call, Goto, clients, counts, PoolInv, Shape
<1>3. ASSUME NEW p \in Callers, Dial(p) PROVE Counted'
  BY <1>3 DEF Dial, Return, Goto, clients, counts, PoolInv, Shape
<1>4. ASSUME NEW p \in Callers, GenId(p) PROVE Counted'
  BY <1>4 DEF GenId, Goto, clients, counts, PoolInv, Shape
<1>5. ASSUME NEW p \in Callers, Insert(p) PROVE Counted'
  BY <1>5 DEF Insert, Return, Goto, clients, counts, PoolInv, Shape
<1>6. ASSUME NEW p \in Callers, NEW d \in Clients, CloseConn(p, d) PROVE Counted'
  BY <1>6 DEF CloseConn, Call, Goto, clients, counts, PoolInv, Shape
<1>7. ASSUME NEW p \in Callers, NEW d \in Clients, Quit(p, d) PROVE Counted'
  BY <1>7 DEF Quit, Call, Goto, clients, counts, PoolInv, Shape
<1>8. ASSUME NEW p \in Callers, NEW d \in Clients, Send(p, d) PROVE Counted'
  BY <1>8 DEF Send, Call, Goto, clients, counts, PoolInv, Shape
<1>9. ASSUME NEW p \in Callers, CheckConn(p) PROVE Counted'
  BY <1>9 DEF CheckConn, Shut, Return, Goto, clients, counts, PoolInv, Shape
<1>10. ASSUME NEW p \in Callers, CloseSocket(p) PROVE Counted'
  BY <1>10 DEF CloseSocket, Goto, clients, counts, PoolInv, Shape
<1>11. ASSUME NEW p \in Callers, ForceClosed(p) PROVE Counted'
  BY <1>11 DEF ForceClosed, Shut, Return, Goto, clients, counts, PoolInv, Shape
<1>12. ASSUME NEW p \in Callers, Remove(p) PROVE Counted'
  BY <1>12 DEF Remove, Return, Again, Goto, clients, counts, PoolInv, Shape
<1>13. ASSUME NEW p \in Callers, Ask(p) PROVE Counted'
  BY <1>13 DEF Ask, Asked, Return, Again, Goto, clients, counts, PoolInv, Shape
<1>14. ASSUME NEW p \in Callers, Redial(p) PROVE Counted'
  BY <1>14 DEF Redial, Asked, Return, Again, Goto, clients, counts, PoolInv, Shape
<1>15. ASSUME NEW p \in Callers, NEW j \in Kinds, NEW v \in Values(j), Set(p, j, v)
      PROVE  Counted'
  BY <1>15 DEF Set, Call, Goto, clients, counts, PoolInv, Shape
<1>16. ASSUME NEW p \in Callers, Close(p) PROVE Counted'
  BY <1>16 DEF Close, Call, Goto, clients, counts, PoolInv, Shape
<1>17. ASSUME NEW p \in Callers, CheckEmpty(p) PROVE Counted'
  BY <1>17 DEF CheckEmpty, Return, Goto, clients, counts, PoolInv, Shape
<1>18. ASSUME NEW p \in Callers, Lock(p) PROVE Counted'
  BY <1>18 DEF Lock, Goto, clients, counts, PoolInv, Shape
<1>19. ASSUME NEW p \in Callers, TellNext(p) PROVE Counted'
  BY <1>19 DEF TellNext, Goto, clients, counts, PoolInv, Shape
<1>20. ASSUME NEW p \in Callers, Beat(p) PROVE Counted'
  BY <1>20 DEF Beat, Again, Goto, clients, counts, PoolInv, Shape
<1>21. ASSUME NEW p \in Callers, CloseNext(p) PROVE Counted'
  BY <1>21 DEF CloseNext, Goto, clients, counts, PoolInv, Shape
<1>22. ASSUME NEW p \in Callers, Unlock(p) PROVE Counted'
  BY <1>22 DEF Unlock, Return, Goto, clients, counts, PoolInv, Shape
<1> QED
  BY <1>1, <1>2, <1>3, <1>4, <1>5, <1>6, <1>7, <1>8, <1>9, <1>10, <1>11, <1>12, <1>13,
     <1>14, <1>15, <1>16, <1>17, <1>18, <1>19, <1>20, <1>21, <1>22
  DEF Next, AppCall, CallStep, Finished

\* What is handed over is a value of the setting.
LEMMA HandedFits ==
  ASSUME PoolInv, Kept, NEW p \in Callers, pc[p] = "loop", op[p] \in Kinds, NEW c \in Clients,
         copy' = [copy EXCEPT ![c][op[p]] = Handed(p)]
  PROVE  /\ copy' \in [Clients -> Settings]
         /\ \A d \in Clients : \A k \in Followed :
              copy'[d][k] = IF d = c /\ k = op[p] THEN setting[k] ELSE copy[d][k]
<1>1. CASE op[p] = "type"
  <2>1. Handed(p) \in Types
    BY <1>1 DEF Kept, Handed
  <2> QED
    BY <1>1, <2>1 DEF Kept, Settings, Followed
<1>2. CASE op[p] = "auto"
  <2>1. Handed(p) = setting.auto
    BY <1>2 DEF Handed
  <2> QED
    BY <1>2, <2>1 DEF Kept, Settings, Followed
<1>3. CASE op[p] = "rate"
  <2>1. Handed(p) = setting.rate
    BY <1>3 DEF Handed
  <2> QED
    BY <1>3, <2>1 DEF Kept, Settings, Followed
<1> QED
  BY <1>1, <1>2, <1>3 DEF Kinds, Followed

LEMMA NewCopyFits == Kept => NewCopy \in Settings
BY DEF Kept, NewCopy, Settings, Switch

LEMMA KeptStep == PoolInv /\ Kept /\ [Next]_vars => Kept'
<1> SUFFICES ASSUME PoolInv, Kept, [Next]_vars PROVE Kept'
  OBVIOUS
<1> USE DEF Kept
<1>1. CASE UNCHANGED vars
  BY <1>1 DEF vars, clients, calls, counts
<1>2. ASSUME NEW p \in Callers, NEW d \in Clients, CreateClient(p, d) PROVE Kept'
  <2>1. /\ copy' \in [Clients -> Settings] /\ pc' = [pc EXCEPT ![p] = "dial"]
        /\ at' = [at EXCEPT ![p] = d] /\ op' = [op EXCEPT ![p] = "create"]
        /\ UNCHANGED <<setting, beats, arg, told>>
    BY <1>2, NewCopyFits DEF CreateClient, Call, Goto, counts
  <2> QED
    BY <2>1 DEF PoolInv, Shape
<1>3. ASSUME NEW p \in Callers, Dial(p) PROVE Kept'
  BY <1>3 DEF Dial, Return, Goto, clients, socks, counts, PoolInv, Shape
<1>4. ASSUME NEW p \in Callers, GenId(p) PROVE Kept'
  BY <1>4 DEF GenId, Goto, clients, socks, counts, PoolInv, Shape
<1>5. ASSUME NEW p \in Callers, Insert(p) PROVE Kept'
  BY <1>5 DEF Insert, Return, Goto, clients, socks, counts, PoolInv, Shape
<1>6. ASSUME NEW p \in Callers, NEW d \in Clients, CloseConn(p, d) PROVE Kept'
  BY <1>6 DEF CloseConn, Call, Goto, clients, socks, counts, PoolInv, Shape
<1>7. ASSUME NEW p \in Callers, NEW d \in Clients, Quit(p, d) PROVE Kept'
  BY <1>7 DEF Quit, Call, Goto, clients, socks, counts, PoolInv, Shape
<1>8. ASSUME NEW p \in Callers, NEW d \in Clients, Send(p, d) PROVE Kept'
  BY <1>8 DEF Send, Call, Goto, clients, socks, counts, PoolInv, Shape
<1>9. ASSUME NEW p \in Callers, CheckConn(p) PROVE Kept'
  BY <1>9 DEF CheckConn, Shut, Return, Goto, clients, socks, counts, PoolInv, Shape
<1>10. ASSUME NEW p \in Callers, CloseSocket(p) PROVE Kept'
  BY <1>10 DEF CloseSocket, Goto, clients, socks, counts, PoolInv, Shape
<1>11. ASSUME NEW p \in Callers, ForceClosed(p) PROVE Kept'
  BY <1>11 DEF ForceClosed, Shut, Return, Goto, clients, socks, counts, PoolInv, Shape
<1>12. ASSUME NEW p \in Callers, Remove(p) PROVE Kept'
  BY <1>12 DEF Remove, Return, Again, Goto, clients, counts, PoolInv, Shape, Handling
<1>13. ASSUME NEW p \in Callers, Ask(p) PROVE Kept'
  BY <1>13 DEF Ask, Asked, Return, Again, Goto, counts, PoolInv, Shape, Handling
<1>14. ASSUME NEW p \in Callers, Redial(p) PROVE Kept'
  BY <1>14 DEF Redial, Asked, Return, Again, Goto, counts, PoolInv, Shape, Handling
<1>15. ASSUME NEW p \in Callers, NEW j \in Kinds, NEW v \in Values(j), Set(p, j, v) PROVE Kept'
  <2>1. /\ setting' = [setting EXCEPT ![j] = v] /\ arg' = [arg EXCEPT ![p] = v]
        /\ op' = [op EXCEPT ![p] = j] /\ DOMAIN told' = Followed
        /\ UNCHANGED <<copy, beats, at>>
        /\ \E s \in {"lock", "check"} : pc' = [pc EXCEPT ![p] = s]
    BY <1>15 DEF Set, Call, Goto, clients
  <2>2. \/ j = "type" /\ v \in Types
        \/ j = "auto" /\ v \in Switch
        \/ j = "rate" /\ v \in {NoRate, Rate}
    BY DEF Kinds, Followed, Values
  <2>3. setting' \in Settings
    BY <2>1, <2>2 DEF Settings
  <2> QED
    BY <2>1, <2>2, <2>3 DEF PoolInv, Shape
<1>16. ASSUME NEW p \in Callers, Close(p) PROVE Kept'
  BY <1>16 DEF Close, Call, Goto, clients, socks, counts, PoolInv, Shape
<1>17. ASSUME NEW p \in Callers, CheckEmpty(p) PROVE Kept'
  BY <1>17 DEF CheckEmpty, Return, Goto, clients, socks, counts, PoolInv, Shape
<1>18. ASSUME NEW p \in Callers, Lock(p) PROVE Kept'
  BY <1>18 DEF Lock, Goto, clients, socks, counts, PoolInv, Shape
<1>19. ASSUME NEW p \in Callers, TellNext(p) PROVE Kept'
  <2> PICK c \in todo[p] : /\ copy' = [copy EXCEPT ![c][op[p]] = Handed(p)]
                           /\ at' = [at EXCEPT ![p] = c]
    BY <1>19 DEF TellNext
  <2>1. c \in Clients /\ pc[p] = "loop" /\ op[p] \in Kinds
    BY <1>19 DEF TellNext, PoolInv, Shape
  <2>2. copy' \in [Clients -> Settings] /\ UNCHANGED <<setting, beats, op, arg, told>>
    BY <1>19, <2>1, HandedFits DEF TellNext, counts
  <2>3. \E s \in {"loop", "beat", "ask"} : pc' = [pc EXCEPT ![p] = s]
    BY <1>19 DEF TellNext, After, Goto
  <2> QED
    BY <2>1, <2>2, <2>3 DEF PoolInv, Shape
<1>20. ASSUME NEW p \in Callers, Beat(p) PROVE Kept'
  BY <1>20 DEF Beat, Again, Goto, Room, counts, PoolInv, Shape
<1>21. ASSUME NEW p \in Callers, CloseNext(p) PROVE Kept'
  BY <1>21 DEF CloseNext, Goto, clients, socks, counts, PoolInv, Shape
<1>22. ASSUME NEW p \in Callers, Unlock(p) PROVE Kept'
  BY <1>22 DEF Unlock, Return, Goto, clients, socks, counts, PoolInv, Shape
<1> QED
  BY <1>1, <1>2, <1>3, <1>4, <1>5, <1>6, <1>7, <1>8, <1>9, <1>10, <1>11, <1>12, <1>13,
     <1>14, <1>15, <1>16, <1>17, <1>18, <1>19, <1>20, <1>21, <1>22
  DEF Next, AppCall, CallStep, Finished

LEMMA CoverStep == PoolInv /\ Counted /\ Kept /\ Cover /\ [Next]_vars => Cover'
<1> SUFFICES ASSUME PoolInv, Counted, Kept, Cover, [Next]_vars,
                    NEW k \in Followed, NEW c \in (told[k] \cap clientMap)',
                    copy'[c][k] # setting'[k]
             PROVE  \E p \in Callers : Pending(p, k, c)'
  BY DEF Cover
<1> USE DEF Pending
\* Who still comes stays on the way, unless the step is its own; the client had been counted.
<1>0. ASSUME c \in told[k] \cap clientMap, copy[c][k] # setting[k],
             NEW p \in Callers, \A q \in Callers : q # p => Pending(q, k, c)' = Pending(q, k, c),
             Pending(p, k, c) => Pending(p, k, c)'
      PROVE  \E q \in Callers : Pending(q, k, c)'
  BY <1>0 DEF Cover
<1> HIDE DEF Pending
<1>k. k \in Kinds
  BY DEF Kinds
<1>1. CASE UNCHANGED vars
  BY <1>1 DEF vars, clients, calls, counts, Pending, Cover
<1>2. ASSUME NEW p \in Callers, NEW d \in Clients, CreateClient(p, d)
      PROVE  \E q \in Callers : Pending(q, k, c)'
  <2>1. d \notin made /\ c \in given /\ c # d
    BY <1>2 DEF CreateClient, PoolInv, Shape, counts
  <2>2. copy'[c][k] = copy[c][k]
    BY <1>2, <2>1 DEF CreateClient, Kept, PoolInv, Shape
  <2> QED
    BY <1>2, <2>2, <1>0 DEF CreateClient, Call, Goto, counts, Pending, PoolInv, Shape, Kept
<1>3. ASSUME NEW p \in Callers, Dial(p) PROVE \E q \in Callers : Pending(q, k, c)'
  BY <1>3, <1>0 DEF Dial, Return, Goto, clients, socks, counts, Pending, PoolInv, Shape, Kept
<1>4. ASSUME NEW p \in Callers, GenId(p) PROVE \E q \in Callers : Pending(q, k, c)'
  BY <1>4, <1>0 DEF GenId, Goto, clients, socks, counts, Pending, PoolInv, Shape, Kept
<1>5. ASSUME NEW p \in Callers, Insert(p) PROVE \E q \in Callers : Pending(q, k, c)'
  <2>1. c \in clientMap
    BY <1>5 DEF Insert, counts, Counted, PoolInv, Private, Fresh
  <2> QED
    BY <1>5, <2>1, <1>0 DEF Insert, Return, Goto, counts, Pending, PoolInv, Shape, Kept
<1>6. ASSUME NEW p \in Callers, NEW d \in Clients, CloseConn(p, d)
      PROVE  \E q \in Callers : Pending(q, k, c)'
  BY <1>6, <1>0 DEF CloseConn, Call, Goto, clients, socks, counts, Pending, PoolInv, Shape, Kept
<1>7. ASSUME NEW p \in Callers, NEW d \in Clients, Quit(p, d)
      PROVE  \E q \in Callers : Pending(q, k, c)'
  BY <1>7, <1>0 DEF Quit, Call, Goto, clients, socks, counts, Pending, PoolInv, Shape, Kept
<1>8. ASSUME NEW p \in Callers, NEW d \in Clients, Send(p, d)
      PROVE  \E q \in Callers : Pending(q, k, c)'
  BY <1>8, <1>0 DEF Send, Call, Goto, clients, socks, counts, Pending, PoolInv, Shape, Kept
<1>9. ASSUME NEW p \in Callers, CheckConn(p) PROVE \E q \in Callers : Pending(q, k, c)'
  BY <1>9, <1>0 DEF CheckConn, Shut, Return, Goto, Followed, counts, clients, Pending, PoolInv, Shape,
     Handling
<1>10. ASSUME NEW p \in Callers, CloseSocket(p) PROVE \E q \in Callers : Pending(q, k, c)'
  BY <1>10, <1>0 DEF CloseSocket, Goto, clients, socks, counts, Pending, PoolInv, Shape, Kept
<1>11. ASSUME NEW p \in Callers, ForceClosed(p) PROVE \E q \in Callers : Pending(q, k, c)'
  BY <1>11, <1>0 DEF ForceClosed, Shut, Return, Goto, Followed, counts, Pending, PoolInv, Shape,
     Handling
<1>12. ASSUME NEW p \in Callers, Remove(p) PROVE \E q \in Callers : Pending(q, k, c)'
  BY <1>12, <1>0 DEF Remove, Return, Again, Goto, Followed, counts, clients, Pending, PoolInv, Shape,
     Handling
<1>13. ASSUME NEW p \in Callers, Ask(p) PROVE \E q \in Callers : Pending(q, k, c)'
  BY <1>13, <1>0 DEF Ask, Asked, Return, Again, Goto, Followed, counts, Pending, PoolInv, Shape,
     Handling
<1>14. ASSUME NEW p \in Callers, Redial(p) PROVE \E q \in Callers : Pending(q, k, c)'
  BY <1>14, <1>0 DEF Redial, Asked, Return, Again, Goto, Followed, counts, Pending, PoolInv, Shape,
     Handling
<1>15. ASSUME NEW p \in Callers, NEW j \in Kinds, NEW v \in Values(j), Set(p, j, v)
      PROVE  \E q \in Callers : Pending(q, k, c)'
  <2>1. /\ setting' = [setting EXCEPT ![j] = v] /\ op' = [op EXCEPT ![p] = j]
        /\ told' = [f \in Followed |-> IF f = j THEN clientMap ELSE told[f]] /\ pc[p] = "idle"
        /\ pc' = [pc EXCEPT ![p] = IF j = "type" THEN "lock" ELSE "check"]
        /\ UNCHANGED <<copy, clientMap, todo>>
    BY <1>15 DEF Set, Call, Goto, clients
  <2>2. CASE j = k
    BY <2>1, <2>2 DEF Pending, PoolInv, Shape, Kept, Followed
  <2>3. CASE j # k
    <3>1. told'[k] = told[k] /\ setting'[k] = setting[k]
      BY <2>1, <2>3, <1>k DEF Kept, Settings, Followed
    <3> QED
      BY <2>1, <3>1, <1>0 DEF Pending, PoolInv, Shape, Kept
  <2> QED
    BY <2>2, <2>3
<1>16. ASSUME NEW p \in Callers, Close(p) PROVE \E q \in Callers : Pending(q, k, c)'
  BY <1>16, <1>0 DEF Close, Call, Goto, clients, socks, counts, Pending, PoolInv, Shape, Kept
<1>17. ASSUME NEW p \in Callers, CheckEmpty(p) PROVE \E q \in Callers : Pending(q, k, c)'
  <2>1. UNCHANGED <<setting, clientMap, copy, todo, told>>
    BY <1>17 DEF CheckEmpty, clients, counts
  <2>2. clientMap # {}
    BY <2>1
  <2> QED
    BY <1>17, <2>1, <2>2, <1>0 DEF CheckEmpty, Goto, Pending, PoolInv, Shape
<1>18. ASSUME NEW p \in Callers, Lock(p) PROVE \E q \in Callers : Pending(q, k, c)'
  BY <1>18, <1>0 DEF Lock, Goto, clients, socks, counts, Pending, PoolInv, Shape, Kept
<1>19. ASSUME NEW p \in Callers, TellNext(p) PROVE \E q \in Callers : Pending(q, k, c)'
  <2> PICK d \in todo[p] :
        /\ todo' = [todo EXCEPT ![p] = @ \ {d}]
        /\ copy' = [copy EXCEPT ![d][op[p]] = Handed(p)]
    BY <1>19 DEF TellNext
  <2>1. /\ d \in Clients /\ pc[p] = "loop" /\ op[p] \in Kinds
        /\ UNCHANGED <<setting, clientMap, op, told>>
        /\ \E s \in {"loop", "beat", "ask"} : pc' = [pc EXCEPT ![p] = s]
    BY <1>19 DEF TellNext, After, Goto, PoolInv, Shape, counts
  <2>2. c \in Clients
    BY <2>1 DEF PoolInv, Shape
  <2>3. copy'[c][k] = IF c = d /\ k = op[p] THEN setting[k] ELSE copy[c][k]
    <3>1. \A b \in Clients : \A j \in Followed :
            copy'[b][j] = IF b = d /\ j = op[p] THEN setting[j] ELSE copy[b][j]
      <4>1. /\ copy' = [copy EXCEPT ![d][op[p]] = Handed(p)]
            /\ d \in Clients /\ pc[p] = "loop" /\ op[p] \in Kinds
        BY <2>1
      <4> QED
        BY <4>1, HandedFits
    <3> QED
      BY <2>2, <3>1
  <2>4. ~ (c = d /\ k = op[p]) /\ copy[c][k] # setting[k]
    BY <2>1, <2>3
  <2>5. Pending(p, k, c) => Pending(p, k, c)'
    BY <2>1, <2>4 DEF Pending, PoolInv, Shape
  <2>6. \A q \in Callers : q # p => Pending(q, k, c)' = Pending(q, k, c)
    BY <2>1 DEF Pending, PoolInv, Shape
  <2> QED
    BY <2>1, <2>4, <2>5, <2>6, <1>0
<1>20. ASSUME NEW p \in Callers, Beat(p) PROVE \E q \in Callers : Pending(q, k, c)'
  BY <1>20, <1>0 DEF Beat, Again, Goto, clients, socks, counts, Pending, PoolInv, Shape, Kept
<1>21. ASSUME NEW p \in Callers, CloseNext(p) PROVE \E q \in Callers : Pending(q, k, c)'
  BY <1>21, <1>0 DEF CloseNext, Goto, Followed, counts, clients, Pending, PoolInv, Shape, Kept
<1>22. ASSUME NEW p \in Callers, Unlock(p) PROVE \E q \in Callers : Pending(q, k, c)'
  BY <1>22, <1>0 DEF Unlock, Return, Goto, clients, socks, counts, Pending, PoolInv, Shape, Kept
<1> QED
  BY <1>1, <1>2, <1>3, <1>4, <1>5, <1>6, <1>7, <1>8, <1>9, <1>10, <1>11, <1>12, <1>13,
     <1>14, <1>15, <1>16, <1>17, <1>18, <1>19, <1>20, <1>21, <1>22
  DEF Next, AppCall, CallStep, Finished

\* Whoever sets the automatic connect or the heart beat rate, and however the setters, the
\* closers and the creators of clients mix: when the last setter is through, the clients
\* that were there have the value.
THEOREM SettingsAreHandedDown == Spec => []SettingsReach
<1>1. Init => Counted /\ Kept /\ Cover
  <2> SUFFICES ASSUME Init PROVE Counted /\ Kept /\ Cover
    OBVIOUS
  <2>1. Counted /\ Cover
    BY DEF Init, Counted, Cover, Followed
  <2>2. setting \in Settings
    BY DEF Init, Settings, Switch
  <2>3. NewCopy \in Settings
    BY <2>2 DEF NewCopy, Settings, Switch
  <2>4. Kept
    BY <2>2, <2>3 DEF Init, Kept, Room
  <2> QED
    BY <2>1, <2>4
<1>2. Cover => SettingsReach
  BY DEF Cover, SettingsReach, Pending, Followed
<1> QED
  BY PoolInvInit, PoolInvStep, <1>1, <1>2, CountedStep, KeptStep, CoverStep, PTL DEF Spec

-----------------------------------------------------------------------------
(* The lock, and the ids.                                                  *)

InLoop == {p \in Callers : Looping(p)}

Shutting == {"shut", "close", "force", "remove"}

\* Who holds the lock is in its loop, alone, and the map only loses clients that are not
\* to come in a loop.
Holds ==
  /\ locked \in BOOLEAN
  /\ IF locked THEN \E p \in Callers : InLoop = {p} ELSE InLoop = {}
  /\ \A p \in Callers : p \notin InLoop => todo[p] = {}
  /\ \A p \in Callers : todo[p] \subseteq clientMap
  /\ \A p \in Callers : op[p] = "close" /\ pc[p] \in Shutting => at[p] \notin todo[p]

LEMMA HoldsStep == PoolInv /\ Holds /\ [Next]_vars => Holds'
<1> SUFFICES ASSUME PoolInv, Holds, [Next]_vars PROVE Holds'
  OBVIOUS
<1> USE DEF Holds
\* Steps that neither take nor give back the lock, and come no further in a loop.
<1>0. ASSUME InLoop' = InLoop, UNCHANGED <<locked, todo>>, clientMap \subseteq clientMap',
             \A q \in Callers : op'[q] = "close" /\ pc'[q] \in Shutting =>
               op[q] = "close" /\ pc[q] \in Shutting /\ at'[q] = at[q]
      PROVE  Holds'
  BY <1>0
<1>1. CASE UNCHANGED vars
  BY <1>1 DEF vars, clients, calls, InLoop, Looping
<1>2. ASSUME NEW p \in Callers, NEW d \in Clients, CreateClient(p, d) PROVE Holds'
  BY <1>2, <1>0 DEF CreateClient, Call, Goto, clients, PoolInv, Shape, Handling, InLoop, Looping, Shutting
<1>3. ASSUME NEW p \in Callers, Dial(p) PROVE Holds'
  BY <1>3, <1>0 DEF Dial, Return, Goto, clients, PoolInv, Shape, Handling, InLoop, Looping, Shutting
<1>4. ASSUME NEW p \in Callers, GenId(p) PROVE Holds'
  BY <1>4, <1>0 DEF GenId, Goto, clients, PoolInv, Shape, Handling, InLoop, Looping, Shutting
<1>5. ASSUME NEW p \in Callers, Insert(p) PROVE Holds'
  BY <1>5, <1>0 DEF Insert, Return, Goto, clients, PoolInv, Shape, Handling, InLoop, Looping, Shutting
<1>6. ASSUME NEW p \in Callers, NEW d \in Clients, CloseConn(p, d) PROVE Holds'
  BY <1>6, <1>0 DEF CloseConn, Call, Goto, clients, PoolInv, Shape, Handling, InLoop, Looping, Shutting
<1>7. ASSUME NEW p \in Callers, NEW d \in Clients, Quit(p, d) PROVE Holds'
  BY <1>7, <1>0 DEF Quit, Call, Goto, clients, PoolInv, Shape, Handling, InLoop, Looping, Shutting
<1>8. ASSUME NEW p \in Callers, NEW d \in Clients, Send(p, d) PROVE Holds'
  BY <1>8, <1>0 DEF Send, Call, Goto, clients, PoolInv, Shape, Handling, InLoop, Looping, Shutting
<1>9. ASSUME NEW p \in Callers, CheckConn(p) PROVE Holds'
  BY <1>9, <1>0 DEF CheckConn, Shut, Return, Goto, clients, PoolInv, Shape, Handling, InLoop, Looping, Shutting
<1>10. ASSUME NEW p \in Callers, CloseSocket(p) PROVE Holds'
  BY <1>10, <1>0 DEF CloseSocket, Goto, clients, PoolInv, Shape, Handling, InLoop, Looping, Shutting
<1>11. ASSUME NEW p \in Callers, ForceClosed(p) PROVE Holds'
  BY <1>11, <1>0 DEF ForceClosed, Shut, Return, Goto, clients, PoolInv, Shape, Handling, InLoop, Looping, Shutting
<1>12. ASSUME NEW p \in Callers, Remove(p) PROVE Holds'
  <2>1. /\ pc[p] = "remove" /\ clientMap' = clientMap \ {at[p]} /\ UNCHANGED <<locked, todo>>
        /\ op[p] \in {"closeConn", "close"}
        /\ \A q \in Callers : q # p => pc'[q] = pc[q] /\ op'[q] = op[q] /\ at'[q] = at[q]
        /\ pc'[p] \in {"idle", "loop"}
    BY <1>12 DEF Remove, Return, Again, Goto, PoolInv, Shape, Handling
  <2>2. InLoop' = InLoop
    BY <1>12, <2>1 DEF Remove, Return, Again, Goto, PoolInv, Shape, InLoop, Looping
  <2>3. \A q \in Callers : at[p] \notin todo[q]
    <3>1. CASE op[p] = "closeConn"
      BY <1>12, <3>1 DEF Remove
    <3>2. CASE op[p] = "close"
      <4>1. p \in InLoop
        BY <2>1, <3>2 DEF InLoop, Looping
      <4>2. \A q \in Callers : q # p => todo[q] = {}
        BY <4>1
      <4>3. at[p] \notin todo[p]
        BY <2>1, <3>2 DEF Shutting
      <4> QED
        BY <4>2, <4>3
    <3> QED
      BY <2>1, <3>1, <3>2
  <2>4. \A q \in Callers : op'[q] = "close" /\ pc'[q] \in Shutting =>
               op[q] = "close" /\ pc[q] \in Shutting /\ at'[q] = at[q]
    BY <2>1 DEF Shutting
  <2> QED
    BY <2>1, <2>2, <2>3, <2>4
<1>13. ASSUME NEW p \in Callers, Ask(p) PROVE Holds'
  BY <1>13, <1>0 DEF Ask, Asked, Return, Again, Goto, clients, PoolInv, Shape, Handling, InLoop, Looping, Shutting
<1>14. ASSUME NEW p \in Callers, Redial(p) PROVE Holds'
  BY <1>14, <1>0 DEF Redial, Asked, Return, Again, Goto, clients, PoolInv, Shape, Handling, InLoop, Looping, Shutting
<1>15. ASSUME NEW p \in Callers, NEW j \in Kinds, NEW v \in Values(j), Set(p, j, v) PROVE Holds'
  BY <1>15, <1>0 DEF Set, Call, Goto, clients, PoolInv, Shape, Handling, InLoop, Looping, Shutting
<1>16. ASSUME NEW p \in Callers, Close(p) PROVE Holds'
  BY <1>16, <1>0 DEF Close, Call, Goto, clients, PoolInv, Shape, Handling, InLoop, Looping, Shutting
<1>17. ASSUME NEW p \in Callers, CheckEmpty(p) PROVE Holds'
  BY <1>17, <1>0 DEF CheckEmpty, Return, Goto, clients, PoolInv, Shape, Handling, InLoop, Looping, Shutting
<1>18. ASSUME NEW p \in Callers, Lock(p) PROVE Holds'
  <2>1. /\ ~locked /\ locked' /\ todo' = [todo EXCEPT ![p] = clientMap]
        /\ pc' = [pc EXCEPT ![p] = "loop"] /\ UNCHANGED <<clientMap, op, at>>
    BY <1>18 DEF Lock, Goto, clients
  <2>2. InLoop' = {p}
    BY <2>1 DEF InLoop, Looping, PoolInv, Shape
  <2>3. \A q \in Callers : todo'[q] = IF q = p THEN clientMap ELSE {}
    BY <2>1 DEF PoolInv, Shape
  <2>4. \A q \in Callers : op'[q] = "close" /\ pc'[q] \in Shutting => at'[q] \notin todo'[q]
    BY <2>1, <2>3 DEF Shutting, PoolInv, Shape
  <2> QED
    BY <2>1, <2>2, <2>3, <2>4
<1>19. ASSUME NEW p \in Callers, TellNext(p) PROVE Holds'
  <2> PICK c \in todo[p] : todo' = [todo EXCEPT ![p] = @ \ {c}] /\ at' = [at EXCEPT ![p] = c]
    BY <1>19 DEF TellNext
  <2>1. /\ pc[p] = "loop" /\ op[p] # "close" /\ UNCHANGED <<locked, clientMap, op>>
        /\ \/ \E s \in {"loop", "beat"} : pc' = [pc EXCEPT ![p] = s]
           \/ pc' = [pc EXCEPT ![p] = "ask"] /\ op[p] = "auto"
    BY <1>19 DEF TellNext, After, Goto, Kinds, Followed
  <2>2. InLoop' = InLoop
    BY <2>1 DEF InLoop, Looping, PoolInv, Shape
  <2>3. \A q \in Callers : todo'[q] = IF q = p THEN todo[p] \ {c} ELSE todo[q]
    BY DEF PoolInv, Shape
  <2>4. \A q \in Callers : op'[q] = "close" /\ pc'[q] \in Shutting => at'[q] \notin todo'[q]
    BY <2>1, <2>3 DEF Shutting, PoolInv, Shape
  <2> QED
    BY <2>1, <2>2, <2>3, <2>4
<1>20. ASSUME NEW p \in Callers, Beat(p) PROVE Holds'
  BY <1>20, <1>0 DEF Beat, Again, Goto, clients, PoolInv, Shape, Handling, InLoop, Looping, Shutting
<1>21. ASSUME NEW p \in Callers, CloseNext(p) PROVE Holds'
  <2> PICK c \in todo[p] : todo' = [todo EXCEPT ![p] = @ \ {c}] /\ at' = [at EXCEPT ![p] = c]
    BY <1>21 DEF CloseNext
  <2>1. /\ pc[p] = "loop" /\ op[p] = "close" /\ UNCHANGED <<locked, clientMap, op>>
        /\ pc' = [pc EXCEPT ![p] = "shut"]
    BY <1>21 DEF CloseNext, Goto, clients
  <2>2. InLoop' = InLoop
    BY <2>1 DEF InLoop, Looping, PoolInv, Shape
  <2>3. \A q \in Callers : todo'[q] = IF q = p THEN todo[p] \ {c} ELSE todo[q]
    BY DEF PoolInv, Shape
  <2>4. \A q \in Callers : op'[q] = "close" /\ pc'[q] \in Shutting => at'[q] \notin todo'[q]
    BY <2>1, <2>3 DEF Shutting, PoolInv, Shape
  <2> QED
    BY <2>1, <2>2, <2>3, <2>4
<1>22. ASSUME NEW p \in Callers, Unlock(p) PROVE Holds'
  <2>1. /\ pc[p] = "loop" /\ todo[p] = {} /\ locked' = FALSE /\ pc' = [pc EXCEPT ![p] = "idle"]
        /\ \A q \in Callers : q # p => at'[q] = at[q] /\ op'[q] = op[q]
        /\ UNCHANGED <<clientMap, todo>>
    BY <1>22 DEF Unlock, Return, Goto, clients
  <2>2. InLoop = {p}
    BY <2>1 DEF InLoop, Looping
  <2>3. InLoop' = {}
    BY <2>1, <2>2 DEF InLoop, Looping, PoolInv, Shape
  <2>4. \A q \in Callers : op'[q] = "close" /\ pc'[q] \in Shutting => at'[q] \notin todo'[q]
    BY <2>1 DEF Shutting, PoolInv, Shape
  <2> QED
    BY <2>1, <2>2, <2>3, <2>4
<1> QED
  BY <1>1, <1>2, <1>3, <1>4, <1>5, <1>6, <1>7, <1>8, <1>9, <1>10, <1>11, <1>12, <1>13,
     <1>14, <1>15, <1>16, <1>17, <1>18, <1>19, <1>20, <1>21, <1>22
  DEF Next, AppCall, CallStep, Finished

\* GenId counts the clients that have an id, and gives each the number it has reached.
Numbered == {c \in Clients : id[c] # 0}

Ids ==
  /\ id \in [Clients -> Nat] /\ connId = Cardinality(Numbered)
  /\ \A c \in Clients : id[c] <= connId
  /\ \A c, d \in Clients : id[c] = id[d] /\ id[c] # 0 => c = d
  /\ \A c \in given : id[c] # 0
  /\ \A c \in Clients : c \notin made => id[c] = 0
  /\ \A p \in Callers : pc[p] \in {"dial", "id"} => id[at[p]] = 0
  /\ \A p \in Callers : pc[p] = "insert" => id[at[p]] # 0

LEMMA NumberedCounts ==
  /\ IsFiniteSet(Numbered)
  /\ Cardinality(Numbered) \in 0 .. MaxClients
<1>1. IsFiniteSet(Clients) /\ Cardinality(Clients) = MaxClients
  BY FS_Interval, PoolConstants DEF Clients
<1>2. Numbered \subseteq Clients
  BY DEF Numbered
<1>3. IsFiniteSet(Numbered) /\ Cardinality(Numbered) <= Cardinality(Clients)
  BY <1>1, <1>2, FS_Subset
<1> QED
  BY <1>1, <1>3, FS_CardinalityType

LEMMA IdsStep == PoolInv /\ Ids /\ [Next]_vars => Ids'
<1> SUFFICES ASSUME PoolInv, Ids, [Next]_vars PROVE Ids'
  OBVIOUS
<1> USE DEF Ids
\* Steps that number nobody.
<1>0. ASSUME UNCHANGED <<id, connId, given>>,
             made \subseteq made',
             \A p \in Callers : pc'[p] \in {"dial", "id"} =>
               at'[p] = at[p] /\ pc[p] \in {"dial", "id"},
             \A p \in Callers : pc'[p] = "insert" => at'[p] = at[p] /\ pc[p] = "insert"
      PROVE  Ids'
  BY <1>0 DEF Numbered
<1>1. CASE UNCHANGED vars
  BY <1>1, <1>0 DEF vars, clients, socks, calls
<1>2. ASSUME NEW p \in Callers, NEW d \in Clients, CreateClient(p, d) PROVE Ids'
  BY <1>2 DEF CreateClient, Call, Goto, PoolInv, Shape, Private, Fresh, Numbered
<1>3. ASSUME NEW p \in Callers, Dial(p) PROVE Ids'
  BY <1>3, <1>0 DEF Dial, Return, Goto, clients, socks, PoolInv, Shape
<1>4. ASSUME NEW p \in Callers, GenId(p) PROVE Ids'
  <2> DEFINE c == at[p]
  <2>1. /\ pc[p] = "id" /\ connId' = connId + 1 /\ id' = [id EXCEPT ![c] = connId + 1]
        /\ pc' = [pc EXCEPT ![p] = "insert"] /\ UNCHANGED <<at, made, given>>
    BY <1>4 DEF GenId, Goto, socks
  <2>2. /\ c \in Clients /\ c \notin given /\ id[c] = 0 /\ c \in made
        /\ \A q \in Callers : q # p /\ pc[q] \in Fresh => at[q] # c
    BY <2>1 DEF PoolInv, Private, Fresh, Shape
  <2>3. connId \in Nat
    BY NumberedCounts
  <2>4. Numbered' = Numbered \cup {c} /\ c \notin Numbered
    BY <2>1, <2>2, <2>3 DEF Numbered
  <2>5. connId' = Cardinality(Numbered')
    BY <2>1, <2>4, NumberedCounts, FS_AddElement
  <2>6. \A d \in Clients : id'[d] = IF d = c THEN connId + 1 ELSE id[d]
    BY <2>1
  <2>7. /\ id' \in [Clients -> Nat]
        /\ \A d \in Clients : id'[d] <= connId'
        /\ \A d, e \in Clients : id'[d] = id'[e] /\ id'[d] # 0 => d = e
    BY <2>1, <2>2, <2>3, <2>6
  <2>8. /\ \A d \in given' : id'[d] # 0
        /\ \A d \in Clients : d \notin made' => id'[d] = 0
    BY <2>1, <2>2, <2>6 DEF PoolInv, Shape
  <2>9. ASSUME NEW q \in Callers
        PROVE  /\ pc'[q] \in {"dial", "id"} => id'[at'[q]] = 0
               /\ pc'[q] = "insert" => id'[at'[q]] # 0
    <3>1. CASE q = p
      BY <2>1, <2>2, <2>3, <2>6, <3>1 DEF PoolInv, Shape
    <3>2. CASE q # p
      <4>1. pc'[q] = pc[q] /\ at'[q] = at[q]
        BY <2>1, <3>2 DEF PoolInv, Shape
      <4>2. pc[q] \in Fresh => at[q] \in Clients /\ id'[at[q]] = id[at[q]]
        BY <2>2, <2>6, <3>2 DEF PoolInv, Private, Fresh, Shape
      <4> QED
        BY <4>1, <4>2 DEF Fresh
    <3> QED
      BY <3>1, <3>2
  <2> QED
    BY <2>5, <2>7, <2>8, <2>9
<1>5. ASSUME NEW p \in Callers, Insert(p) PROVE Ids'
  BY <1>5 DEF Insert, Return, Goto, socks, PoolInv, Shape, Private, Fresh, Numbered
<1>6. ASSUME NEW p \in Callers, NEW d \in Clients, CloseConn(p, d) PROVE Ids'
  BY <1>6, <1>0 DEF CloseConn, Call, Goto, clients, socks, PoolInv, Shape
<1>7. ASSUME NEW p \in Callers, NEW d \in Clients, Quit(p, d) PROVE Ids'
  BY <1>7, <1>0 DEF Quit, Call, Goto, clients, socks, PoolInv, Shape
<1>8. ASSUME NEW p \in Callers, NEW d \in Clients, Send(p, d) PROVE Ids'
  BY <1>8, <1>0 DEF Send, Call, Goto, clients, socks, PoolInv, Shape
<1>9. ASSUME NEW p \in Callers, CheckConn(p) PROVE Ids'
  BY <1>9, <1>0 DEF CheckConn, Shut, Return, Goto, clients, socks, PoolInv, Shape
<1>10. ASSUME NEW p \in Callers, CloseSocket(p) PROVE Ids'
  BY <1>10, <1>0 DEF CloseSocket, Goto, clients, socks, PoolInv, Shape
<1>11. ASSUME NEW p \in Callers, ForceClosed(p) PROVE Ids'
  BY <1>11, <1>0 DEF ForceClosed, Shut, Return, Goto, clients, socks, PoolInv, Shape
<1>12. ASSUME NEW p \in Callers, Remove(p) PROVE Ids'
  BY <1>12, <1>0 DEF Remove, Return, Again, Goto, clients, socks, PoolInv, Shape, Handling
<1>13. ASSUME NEW p \in Callers, Ask(p) PROVE Ids'
  BY <1>13, <1>0 DEF Ask, Asked, Return, Again, Goto, clients, socks, PoolInv, Shape
<1>14. ASSUME NEW p \in Callers, Redial(p) PROVE Ids'
  BY <1>14, <1>0 DEF Redial, Asked, Return, Again, Goto, clients, socks, PoolInv, Shape
<1>15. ASSUME NEW p \in Callers, NEW j \in Kinds, NEW v \in Values(j), Set(p, j, v) PROVE Ids'
  BY <1>15, <1>0 DEF Set, Call, Goto, clients, socks, PoolInv, Shape
<1>16. ASSUME NEW p \in Callers, Close(p) PROVE Ids'
  BY <1>16, <1>0 DEF Close, Call, Goto, clients, socks, PoolInv, Shape
<1>17. ASSUME NEW p \in Callers, CheckEmpty(p) PROVE Ids'
  BY <1>17, <1>0 DEF CheckEmpty, Return, Goto, clients, socks, PoolInv, Shape
<1>18. ASSUME NEW p \in Callers, Lock(p) PROVE Ids'
  BY <1>18, <1>0 DEF Lock, Goto, clients, socks, PoolInv, Shape
<1>19. ASSUME NEW p \in Callers, TellNext(p) PROVE Ids'
  <2>1. /\ \E s \in {"loop", "beat", "ask"} : pc' = [pc EXCEPT ![p] = s]
        /\ \E c \in todo[p] : at' = [at EXCEPT ![p] = c]
        /\ UNCHANGED <<id, connId, given, made>>
    BY <1>19 DEF TellNext, After, Goto, socks
  <2> QED
    BY <2>1, <1>0 DEF PoolInv, Shape
<1>20. ASSUME NEW p \in Callers, Beat(p) PROVE Ids'
  BY <1>20, <1>0 DEF Beat, Again, Goto, clients, socks, PoolInv, Shape
<1>21. ASSUME NEW p \in Callers, CloseNext(p) PROVE Ids'
  BY <1>21, <1>0 DEF CloseNext, Goto, clients, socks, PoolInv, Shape
<1>22. ASSUME NEW p \in Callers, Unlock(p) PROVE Ids'
  BY <1>22, <1>0 DEF Unlock, Return, Goto, clients, socks, PoolInv, Shape
<1> QED
  BY <1>1, <1>2, <1>3, <1>4, <1>5, <1>6, <1>7, <1>8, <1>9, <1>10, <1>11, <1>12, <1>13,
     <1>14, <1>15, <1>16, <1>17, <1>18, <1>19, <1>20, <1>21, <1>22
  DEF Next, AppCall, CallStep, Finished

\* The pool keeps its shape: one goroutine at most is in a loop and has the lock then, it
\* comes only to clients of the map, and the clients of the map have ids of their own.
THEOREM PoolTyping == Spec => []TypeOK
<1>1. Init => Kept /\ Holds /\ Ids
  <2> SUFFICES ASSUME Init PROVE Kept /\ Holds /\ Ids
    OBVIOUS
  <2>2. setting \in Settings
    BY DEF Init, Settings, Switch
  <2>3. NewCopy \in Settings
    BY <2>2 DEF NewCopy, Settings, Switch
  <2>4. Kept
    BY <2>2, <2>3 DEF Init, Kept, Room
  <2>5. Holds
    BY DEF Init, Holds, InLoop, Looping, Shutting
  <2>6. Numbered = {} /\ connId = 0
    BY DEF Init, Numbered
  <2>7. Ids
    BY <2>6, FS_EmptySet DEF Init, Ids
  <2> QED
    BY <2>4, <2>5, <2>7
<1>2. PoolInv /\ Kept /\ Holds /\ Ids => TypeOK
  <2> SUFFICES ASSUME PoolInv, Kept, Holds, Ids PROVE TypeOK
    OBVIOUS
  <2>1. connId \in 0 .. MaxClients /\ id \in [Clients -> 0 .. MaxClients]
    BY NumberedCounts, PoolConstants DEF Ids
  <2>2. Cardinality(InLoop) = IF locked THEN 1 ELSE 0
    BY FS_EmptySet, FS_Singleton DEF Holds
  <2>3. \A c, d \in clientMap : id[c] # 0 /\ (id[c] = id[d] => c = d)
    BY DEF PoolInv, Shape, Ids
  <2>4. todo \in [Callers -> SUBSET clientMap]
    BY DEF PoolInv, Shape, Holds
  <2> QED
    BY <2>1, <2>2, <2>3, <2>4
    DEF TypeOK, PoolInv, Shape, Steps, Kept, Settings, Holds, InLoop
<1> QED
  BY PoolInvInit, PoolInvStep, <1>1, <1>2, KeptStep, HoldsStep, IdsStep, PTL
  DEF Spec

===============================================================================
