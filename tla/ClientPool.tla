------------------------------ MODULE ClientPool ------------------------------
(***************************************************************************)
(* WebSocketClient of client.go: the pool of clients, the settings it      *)
(* hands down to them, and how clients are made and closed.                *)
(*                                                                         *)
(* A client is what the pool sees of it: whether it has a connection and   *)
(* was forced closed, its copies of the settings and its heartBeatChan,    *)
(* which has room for one element and no reader.  Only close() takes the   *)
(* connection away, and sets forceClosed a moment later; in between, a     *)
(* SetAutoConnect of the pool, or a send or the read loop of the client,   *)
(* dials again.  The flags and the errors of a dial are the subject of     *)
(* WSClient: here a dial that has looked for a connection may succeed.     *)
(***************************************************************************)
EXTENDS Integers, FiniteSets

CONSTANTS
  Callers,    \* application goroutines
  Ops,        \* what each of them does
  Types,      \* message types
  MaxClients, \* bound on the number of clients made
  MaxSets,    \* bound on the number of times a setting is made
  MaxBeats    \* how many of them are a positive heart beat rate

Clients  == 1 .. MaxClients
NoClient == 0
Switch   == {"on", "off"}
NoRate   == "zero"
Rate     == "positive"
Followed == {"auto", "rate"}        \* the settings that are handed down as they are by then
Kinds    == {"type"} \cup Followed
Room     == 1                       \* make(chan struct{}, 1)

ASSUME PoolConstants ==
  /\ MaxClients \in Nat /\ MaxSets \in Nat /\ MaxBeats \in Nat
  /\ Ops \in [Callers -> SUBSET (Kinds \cup {"create", "close", "closeConn", "quit", "send"})]

VARIABLES
  setting,   \* WebSocketClient.messageType, autoConnect and heartBeatRate
  clientMap, \* the clients in the map
  locked,    \* the lock of the pool
  connId,    \* the last id handed out
  made,      \* the clients there are
  connected, \* those whose conn is not nil
  forceClosed, \* those whose forceClosed is set
  late,      \* history: those that were dialled again while a close() was half way
  id,        \* its connId
  copy,      \* its msgType, autoConn and heartBeatRate
  beats,     \* the elements in its heartBeatChan
  given,     \* the clients CreateClient has returned
  op, pc,    \* the call each goroutine is in, and where it is
  arg,       \* the setting it makes
  at,        \* the client it is about
  todo,      \* the clients its loop has not come to
  sets,      \* settings made so far
  told       \* history: the clients in the map when a setting was last made

socks   == <<made, connected, forceClosed, late>>
clients == <<connId, socks, id, copy, beats, given>>
calls   == <<op, pc, arg, at, todo>>
counts  == <<sets, told>>
vars    == <<setting, clientMap, locked, clients, calls, counts>>

Values(k) == CASE k = "type" -> Types [] k = "auto" -> Switch [] k = "rate" -> {NoRate, Rate}

\* newOneWSClient.
NewCopy == [setting EXCEPT !.auto = "on", !.rate = NoRate]

\* NewWebSocketClient.
Init ==
  /\ setting \in [type : Types, auto : {"off"}, rate : {NoRate}]
  /\ clientMap = {} /\ locked = FALSE /\ connId = 0
  /\ made = {} /\ connected = {} /\ forceClosed = {} /\ late = {}
  /\ id = [c \in Clients |-> 0]
  /\ copy = [c \in Clients |-> NewCopy]
  /\ beats = [c \in Clients |-> 0]
  /\ given = {}
  /\ op = [p \in Callers |-> "none"]
  /\ pc = [p \in Callers |-> "idle"]
  /\ arg = [p \in Callers |-> NoRate]
  /\ at = [p \in Callers |-> NoClient]
  /\ todo = [p \in Callers |-> {}]
  /\ sets = [all |-> 0, beat |-> 0]
  /\ told = [k \in Followed |-> {}]

Goto(p, to) == pc' = [pc EXCEPT ![p] = to]

Call(p, o) == pc[p] = "idle" /\ o \in Ops[p] /\ op' = [op EXCEPT ![p] = o]

Return(p) ==
  /\ Goto(p, "idle")
  /\ op' = [op EXCEPT ![p] = "none"]
  /\ arg' = [arg EXCEPT ![p] = NoRate]
  /\ at' = [at EXCEPT ![p] = NoClient]

\* To the next client of a loop.
Again(p) == Goto(p, "loop") /\ UNCHANGED <<op, arg, at>>

\* The goroutines that are between the two stores of close().
Closers(c) == {p \in Callers : pc[p] = "force" /\ at[p] = c}

-----------------------------------------------------------------------------
(* CreateClient.                                                           *)

\* newOneWSClient reads the message type of the pool.
CreateClient(p, c) ==
  /\ Call(p, "create") /\ c \notin made /\ 1 .. c - 1 \subseteq made
  /\ Goto(p, "dial")
  /\ at' = [at EXCEPT ![p] = c]
  /\ made' = made \cup {c}
  /\ copy' = [copy EXCEPT ![c] = NewCopy]
  /\ UNCHANGED <<setting, clientMap, locked, connId, connected, forceClosed, late, id, beats,
                 given, arg, todo, counts>>

\* dialServer: an error ends the call.  With a connection the read loop runs at once.
Dial(p) ==
  /\ pc[p] = "dial"
  /\ \/ /\ connected' = connected \cup {at[p]}
        /\ Goto(p, "id")
        /\ UNCHANGED <<op, arg, at>>
     \/ Return(p) /\ UNCHANGED connected
  /\ UNCHANGED <<setting, clientMap, locked, connId, made, forceClosed, late, id, copy, beats,
                 given, todo, counts>>

GenId(p) ==
  /\ pc[p] = "id"
  /\ connId' = connId + 1
  /\ id' = [id EXCEPT ![at[p]] = connId']
  /\ Goto(p, "insert")
  /\ UNCHANGED <<setting, clientMap, locked, socks, copy, beats, given, op, arg, at, todo,
                 counts>>

Insert(p) ==
  /\ pc[p] = "insert" /\ ~locked
  /\ clientMap' = clientMap \cup {at[p]}
  /\ given' = given \cup {at[p]}
  /\ Return(p)
  /\ UNCHANGED <<setting, locked, connId, socks, id, copy, beats, todo, counts>>

-----------------------------------------------------------------------------
(* CloseConn, and Quit of a client the application holds.                  *)

\* getOneWSClient.
CloseConn(p, c) ==
  /\ Call(p, "closeConn") /\ c \in clientMap /\ ~locked
  /\ Goto(p, "shut")
  /\ at' = [at EXCEPT ![p] = c]
  /\ UNCHANGED <<setting, clientMap, locked, clients, arg, todo, counts>>

\* OneWSClient.Quit.
Quit(p, c) ==
  /\ Call(p, "quit") /\ c \in given
  /\ Goto(p, "shut")
  /\ at' = [at EXCEPT ![p] = c]
  /\ UNCHANGED <<setting, clientMap, locked, clients, arg, todo, counts>>

-----------------------------------------------------------------------------
(* OneWSClient.close, for CloseConn, Quit and Close.                       *)

\* Quit has nothing else to do.
Shut(p) == IF op[p] = "quit" THEN Return(p) ELSE Goto(p, "remove") /\ UNCHANGED <<op, arg, at>>

\* Mutant: CloseConn only takes the client out of the map.
CheckNoConn(p) ==
  /\ pc[p] = "shut"
  /\ IF at[p] \notin connected \/ at[p] \in forceClosed \/ op[p] = "closeConn"
       THEN Shut(p) ELSE Goto(p, "close") /\ UNCHANGED <<op, arg, at>>
  /\ UNCHANGED <<setting, clientMap, locked, clients, todo, counts>>

\* It returns when there is no connection or the client was forced closed ...
CheckConn(p) ==
  /\ pc[p] = "shut"
  /\ IF at[p] \notin connected \/ at[p] \in forceClosed
       THEN Shut(p) ELSE Goto(p, "close") /\ UNCHANGED <<op, arg, at>>
  /\ UNCHANGED <<setting, clientMap, locked, clients, todo, counts>>

\* ... and takes the lock of the client, closes the connection and forgets it ...
CloseSocket(p) ==
  /\ pc[p] = "close" /\ Closers(at[p]) = {}
  /\ connected' = connected \ {at[p]}
  /\ Goto(p, "force")
  /\ UNCHANGED <<setting, clientMap, locked, connId, made, forceClosed, late, id, copy, beats,
                 given, op, arg, at, todo, counts>>

\* ... and sets the flag.
ForceClosed(p) ==
  /\ pc[p] = "force"
  /\ forceClosed' = forceClosed \cup {at[p]}
  /\ Shut(p)
  /\ UNCHANGED <<setting, clientMap, locked, connId, made, connected, late, id, copy, beats,
                 given, todo, counts>>

\* Mutant: CloseConn deletes the client without the lock.
RemoveUnlocked(p) ==
  /\ pc[p] = "remove"
  /\ IF op[p] = "closeConn" THEN Return(p) ELSE Again(p)
  /\ clientMap' = clientMap \ {at[p]}
  /\ UNCHANGED <<setting, locked, clients, todo, counts>>

\* CloseConn takes the lock of the pool to delete the client; Close has it.
Remove(p) ==
  /\ pc[p] = "remove"
  /\ IF op[p] = "closeConn" THEN ~locked /\ Return(p) ELSE Again(p)
  /\ clientMap' = clientMap \ {at[p]}
  /\ UNCHANGED <<setting, locked, clients, todo, counts>>

-----------------------------------------------------------------------------
(* Dialling again: a send of the application, or the read loop after a     *)
(* broken pipe, or SetAutoConnect in the loop of SetAutoConnSwitch.        *)

Send(p, c) ==
  /\ Call(p, "send") /\ c \in given \ (forceClosed \cup connected) /\ copy[c].auto = "on"
  /\ Goto(p, "ask")
  /\ at' = [at EXCEPT ![p] = c]
  /\ UNCHANGED <<setting, clientMap, locked, clients, arg, todo, counts>>

Asked(p) == IF op[p] = "send" THEN Return(p) ELSE Again(p)

\* dialServer returns when there is a connection or the client was forced closed.
Ask(p) ==
  /\ pc[p] = "ask"
  /\ IF at[p] \in connected \cup forceClosed
       THEN Asked(p) /\ UNCHANGED late
       ELSE /\ Goto(p, "redial")
            /\ late' = IF Closers(at[p]) # {} THEN late \cup {at[p]} ELSE late
            /\ UNCHANGED <<op, arg, at>>
  /\ UNCHANGED <<setting, clientMap, locked, connId, made, connected, forceClosed, id, copy,
                 beats, given, todo, counts>>

\* It stores the connection without another look, or gets an error within five seconds.
Redial(p) ==
  /\ pc[p] = "redial"
  /\ connected' \in {connected, connected \cup {at[p]}}
  /\ Asked(p)
  /\ UNCHANGED <<setting, clientMap, locked, connId, made, forceClosed, late, id, copy, beats,
                 given, todo, counts>>

-----------------------------------------------------------------------------
(* SetMessageType, SetAutoConnSwitch and SetHeartBeatRate.                 *)

\* The field of the pool is written without the lock.
Set(p, k, v) ==
  /\ Call(p, k) /\ sets.all < MaxSets
  /\ v = Rate => sets.beat < MaxBeats
  /\ sets' = [all |-> sets.all + 1,
              beat |-> sets.beat + IF v = Rate THEN 1 ELSE 0]
  /\ told' = [f \in Followed |-> IF f = k THEN clientMap ELSE told[f]]
  /\ setting' = [setting EXCEPT ![k] = v]
  /\ arg' = [arg EXCEPT ![p] = v]
  /\ Goto(p, IF k = "type" THEN "lock" ELSE "check")
  /\ UNCHANGED <<clientMap, locked, clients, at, todo>>

\* notifyAutoConnect and notifyHeartBeatRate return when the pool is empty.
CheckEmpty(p) ==
  /\ pc[p] = "check"
  /\ IF clientMap = {} THEN Return(p) ELSE Goto(p, "lock") /\ UNCHANGED <<op, arg, at>>
  /\ UNCHANGED <<setting, clientMap, locked, clients, todo, counts>>

-----------------------------------------------------------------------------
(* The loops over the clients, under the lock.                             *)

Close(p) ==
  /\ Call(p, "close")
  /\ Goto(p, "lock")
  /\ UNCHANGED <<setting, clientMap, locked, clients, arg, at, todo, counts>>

Lock(p) ==
  /\ pc[p] = "lock" /\ ~locked
  /\ locked' = TRUE
  /\ todo' = [todo EXCEPT ![p] = clientMap]
  /\ Goto(p, "loop")
  /\ UNCHANGED <<setting, clientMap, clients, op, arg, at, counts>>

\* Mutant: every setter hands down its own argument.
HandedOwn(p) == arg[p]

\* SetMessageType hands its argument down, the others the field as it is by then.
Handed(p) == IF op[p] = "type" THEN arg[p] ELSE setting[op[p]]

\* SetHeartBeatRate notifies the heart beat, and SetAutoConnect dials if there is no
\* connection.
After(p, c) ==
  CASE op[p] = "rate" /\ Handed(p) = Rate -> "beat"
    [] op[p] = "auto" /\ Handed(p) = "on" /\ c \notin connected \cup forceClosed -> "ask"
    [] OTHER -> "loop"

TellNext(p) ==
  /\ pc[p] = "loop" /\ op[p] \in Kinds
  /\ \E c \in todo[p] :
       /\ todo' = [todo EXCEPT ![p] = @ \ {c}]
       /\ copy' = [copy EXCEPT ![c][op[p]] = Handed(p)]
       /\ at' = [at EXCEPT ![p] = c]
       /\ Goto(p, After(p, c))
  /\ UNCHANGED <<setting, clientMap, locked, connId, socks, id, beats, given, op, arg, counts>>

\* f.heartBeatChan <- struct{}{}.
Beat(p) ==
  /\ pc[p] = "beat" /\ beats[at[p]] < Room
  /\ beats' = [beats EXCEPT ![at[p]] = @ + 1]
  /\ Again(p)
  /\ UNCHANGED <<setting, clientMap, locked, connId, socks, id, copy, given, todo, counts>>

CloseNext(p) ==
  /\ pc[p] = "loop" /\ op[p] = "close"
  /\ \E c \in todo[p] :
       /\ todo' = [todo EXCEPT ![p] = @ \ {c}]
       /\ at' = [at EXCEPT ![p] = c]
  /\ Goto(p, "shut")
  /\ UNCHANGED <<setting, clientMap, locked, clients, op, arg, counts>>

\* Mutant: the lock is kept when nobody is left.
UnlockKept(p) ==
  /\ pc[p] = "loop" /\ todo[p] = {}
  /\ locked' = (clientMap = {})
  /\ Return(p)
  /\ UNCHANGED <<setting, clientMap, clients, todo, counts>>

Unlock(p) ==
  /\ pc[p] = "loop" /\ todo[p] = {}
  /\ locked' = FALSE
  /\ Return(p)
  /\ UNCHANGED <<setting, clientMap, clients, todo, counts>>

-----------------------------------------------------------------------------
AppCall(p) ==
  \/ \E c \in Clients : CreateClient(p, c) \/ CloseConn(p, c) \/ Quit(p, c) \/ Send(p, c)
  \/ \E k \in Kinds : \E v \in Values(k) : Set(p, k, v)
  \/ Close(p)

CallStep(p) ==
  \/ Dial(p) \/ GenId(p) \/ Insert(p)
  \/ CheckConn(p) \/ CloseSocket(p) \/ ForceClosed(p) \/ Remove(p) \/ Ask(p) \/ Redial(p)
  \/ CheckEmpty(p) \/ Lock(p) \/ TellNext(p) \/ Beat(p) \/ CloseNext(p) \/ Unlock(p)

\* The application may stop whenever no call is under way.
Finished == (\A p \in Callers : pc[p] = "idle") /\ UNCHANGED vars

Next == (\E p \in Callers : AppCall(p) \/ CallStep(p)) \/ Finished

\* Every goroutine that can run runs, and a mutex does not pass over a waiter for ever.
Fairness == \A p \in Callers : SF_vars(CallStep(p))

Spec     == Init /\ [][Next]_vars
FairSpec == Spec /\ Fairness

-----------------------------------------------------------------------------
\* The goroutines that are in a loop over the clients of the pool.
Looping(p) ==
  \/ pc[p] \in {"loop", "beat"}
  \/ op[p] = "close" /\ pc[p] \in {"shut", "close", "force", "remove"}
  \/ op[p] = "auto" /\ pc[p] \in {"ask", "redial"}

\* The state keeps its shape; the lock is held by exactly the goroutine that is in a
\* loop, and the clients of the map have ids of their own.
TypeOK ==
  /\ setting \in [type : Types, auto : Switch, rate : {NoRate, Rate}]
  /\ clientMap \subseteq given /\ given \subseteq Clients
  /\ locked \in BOOLEAN /\ connId \in 0 .. MaxClients
  /\ made \subseteq Clients /\ connected \subseteq made /\ forceClosed \subseteq given
  /\ late \subseteq given
  /\ id \in [Clients -> 0 .. MaxClients]
  /\ copy \in [Clients -> [type : Types, auto : Switch, rate : {NoRate, Rate}]]
  /\ beats \in [Clients -> 0 .. Room]
  /\ pc \in [Callers -> {"idle", "dial", "id", "insert", "shut", "close", "force", "remove",
                         "ask", "redial", "check", "lock", "loop", "beat"}]
  /\ at \in [Callers -> Clients \cup {NoClient}]
  /\ todo \in [Callers -> SUBSET clientMap]
  /\ Cardinality({p \in Callers : Looping(p)}) = IF locked THEN 1 ELSE 0
  /\ \A c, d \in clientMap : id[c] # 0 /\ (id[c] = id[d] => c = d)

\* A client that CreateClient has returned, and that the pool does not know any more, has
\* no connection, and will have none: no connection is forgotten.  The exception is
\* a client somebody began to dial while a close() stood between forgetting its
\* connection and setting forceClosed: the new connection stays, and the pool that
\* takes the client out of its map does not notice.
LeftIsClosed ==
  \A c \in (given \ clientMap) \ late :
    c \notin connected /\ (c \in forceClosed \/ Closers(c) # {})

\* When nobody is setting the automatic connect or the heart beat rate, the clients that
\* were there when it was last set have what the pool has, in whatever order setters ran.
SettingsReach ==
  \A k \in Followed :
    (\A p \in Callers : op[p] # k) => \A c \in told[k] \cap clientMap : copy[c][k] = setting[k]

\* A client comes with the settings the pool has.
NewHasSettings ==
  (\A p \in Callers : pc[p] = "idle") => \A c \in clientMap : copy[c] = setting

\* The read callback, which may run from the moment a client is connected, knows the id
\* of the client.
CallbackKnowsId == \A c \in connected : id[c] # 0

\* Every call of the pool returns, whoever else wants the lock.
CallsReturn == \A p \in Callers : pc[p] # "idle" ~> pc[p] = "idle"

===============================================================================
