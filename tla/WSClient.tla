------------------------------ MODULE WSClient ------------------------------
(***************************************************************************)
(* One client of client.go, from the moment CreateClient has handed it to  *)
(* the application: SendMessage, close, SetAutoConnect, dialServer and the *)
(* read loop that every dial starts.                                       *)
(*                                                                         *)
(* The processes are the application goroutines and the read loops, which  *)
(* run the read callback; read loop d was started by dial number d.  Dials *)
(* and sockets have the same numbers.  Nothing but close() takes a lock,   *)
(* so one action is one access to the fields conn, forceClosed,            *)
(* isConnecting and autoConn, or one call of the websocket library.        *)
(***************************************************************************)
EXTENDS Integers, FiniteSets

CONSTANTS
  Callers,       \* application goroutines
  MaxDials,      \* bound on the number of successful dials
  MaxReadErrors, \* failed reads after which the library panics (1000)
  AppOps,        \* what the application goroutines do
  CallbackOps,   \* what the read callback does
  ReadErrors     \* errors a read may return: "epipe" or "other"

Dials  == 1 .. MaxDials
NoSock == 0
Procs  == Callers \cup Dials
Operations == {"send", "close", "auto", "dial"}

ASSUME ClientConstants ==
  /\ MaxDials \in Nat \ {0} /\ MaxReadErrors \in Nat \ {0}
  /\ Callers \cap Dials = {}
  /\ AppOps \subseteq Operations /\ CallbackOps \subseteq Operations
  /\ ReadErrors \subseteq {"epipe", "other"}

VARIABLES
  conn,         \* OneWSClient.conn: the number of a socket
  forceClosed, isConnecting, autoConn,
  locked,       \* the lock of the client
  sock,         \* the sockets
  dials,        \* successful dials so far
  failed,       \* failed reads of each socket
  pc,           \* where each goroutine is
  using,        \* the socket it dialled, writes to or reads from
  back,         \* where it goes after dialServer
  empty,        \* has the read callback been run without a message?
  overlapped,   \* has a dial come in next to another one, or a close() next to a dial?
  crashed       \* a panic that nobody recovers has ended the program

flags == <<forceClosed, isConnecting, autoConn>>
socks == <<sock, dials, failed>>
calls == <<pc, using, back>>
ghosts == <<empty, overlapped>>
vars  == <<conn, flags, locked, socks, calls, ghosts, crashed>>

\* CreateClient has dialled once.
Init ==
  /\ conn = 1
  /\ forceClosed = FALSE /\ isConnecting = FALSE /\ autoConn = TRUE
  /\ locked = FALSE
  /\ sock = [d \in Dials |-> IF d = 1 THEN "open" ELSE "none"]
  /\ dials = 1
  /\ failed = [d \in Dials |-> 0]
  /\ pc = [p \in Procs |-> IF p \in Callers THEN "idle" ELSE IF p = 1 THEN "loop" ELSE "none"]
  /\ using = [p \in Procs |-> NoSock]
  /\ back = [p \in Procs |-> "none"]
  /\ empty = FALSE /\ overlapped = FALSE
  /\ crashed = FALSE

Goto(p, at) == pc' = [pc EXCEPT ![p] = at]

\* Where application code runs in goroutine p, and a call of it starts or returns.
Ready(p) == IF p \in Callers THEN "idle" ELSE "callback"
Does(p, op) ==
  /\ pc[p] = Ready(p)
  /\ op \in IF p \in Callers THEN AppOps ELSE CallbackOps

Dialling(p) == pc[p] \in {"dial", "busy", "claim", "again", "connect", "store", "spawn"}

\* A panic ends a read loop, which recovers it, and otherwise the program.
Panic(p) ==
  IF p \in Callers THEN crashed' = TRUE /\ UNCHANGED pc
                   ELSE Goto(p, "done") /\ UNCHANGED crashed

-----------------------------------------------------------------------------
(* OneWSClient.SendMessage.                                                *)

StartSend(p) ==
  /\ Does(p, "send") /\ ~forceClosed
  /\ Goto(p, "send")
  /\ UNCHANGED <<conn, flags, locked, socks, using, back, ghosts, crashed>>

\* `if f.conn == nil`: connect again if nobody else does, and return an error.
SendCheck(p) ==
  /\ pc[p] = "send"
  /\ IF conn # NoSock
       THEN Goto(p, "write") /\ UNCHANGED back
       ELSE IF ~isConnecting /\ autoConn
              THEN Goto(p, "dial") /\ back' = [back EXCEPT ![p] = Ready(p)]
              ELSE Goto(p, Ready(p)) /\ UNCHANGED back
  /\ UNCHANGED <<conn, flags, locked, socks, using, ghosts, crashed>>

\* f.conn.WriteMessage reads the field again; it panics on nil, and where it notices
\* that another goroutine writes to the same connection.
Write(p) ==
  /\ pc[p] = "write"
  /\ \/ /\ conn = NoSock \/ \E q \in Procs \ {p} : pc[q] = "writing" /\ using[q] = conn
        /\ Panic(p)
        /\ UNCHANGED using
     \/ /\ conn # NoSock
        /\ Goto(p, "writing")
        /\ using' = [using EXCEPT ![p] = conn]
        /\ UNCHANGED crashed
  /\ UNCHANGED <<conn, flags, locked, socks, back, ghosts>>

WriteDone(p) ==
  /\ pc[p] = "writing"
  /\ Goto(p, Ready(p))
  /\ using' = [using EXCEPT ![p] = NoSock]
  /\ UNCHANGED <<conn, flags, locked, socks, back, ghosts, crashed>>

-----------------------------------------------------------------------------
(* OneWSClient.SetAutoConnect and DialServer.                              *)

SetAutoConnect(p) ==
  /\ Does(p, "auto")
  /\ \E switcher \in BOOLEAN :
       /\ autoConn' = switcher
       /\ IF switcher /\ ~forceClosed /\ conn = NoSock
            THEN Goto(p, "dial") /\ back' = [back EXCEPT ![p] = Ready(p)]
            ELSE UNCHANGED <<pc, back>>
  /\ UNCHANGED <<conn, forceClosed, isConnecting, locked, socks, using, ghosts, crashed>>

DialServer(p) ==
  /\ Does(p, "dial")
  /\ Goto(p, "dial")
  /\ back' = [back EXCEPT ![p] = Ready(p)]
  /\ UNCHANGED <<conn, flags, locked, socks, using, ghosts, crashed>>

\* Mutant: a closed client may be dialled again.
DialCheckOpen(p) ==
  /\ pc[p] = "dial"
  /\ Goto(p, IF conn # NoSock THEN back[p] ELSE "busy")
  /\ UNCHANGED <<conn, flags, locked, socks, using, back, ghosts, crashed>>

\* dialServer refuses when there is a connection or the client was closed ...
DialCheck(p) ==
  /\ pc[p] = "dial"
  /\ Goto(p, IF conn # NoSock \/ forceClosed THEN back[p] ELSE "busy")
  /\ UNCHANGED <<conn, flags, locked, socks, using, back, ghosts, crashed>>

\* ... or when somebody else is connecting.  It overlaps another dial if it comes past this
\* check while another goroutine stands between the check and the flag, or with a
\* connection that was made since it looked for one.
DialBusy(p) ==
  /\ pc[p] = "busy"
  /\ IF isConnecting
       THEN Goto(p, back[p]) /\ UNCHANGED overlapped
       ELSE /\ Goto(p, "claim")
            /\ overlapped' = (overlapped \/ conn # NoSock \/ \E q \in Procs : pc[q] = "claim")
  /\ UNCHANGED <<conn, flags, locked, socks, using, back, empty, crashed>>

\* Mutant: only the second of the two stores is there.
DialClaimLate(p) ==
  /\ pc[p] = "claim"
  /\ Goto(p, "again")
  /\ UNCHANGED <<conn, flags, locked, socks, using, back, ghosts, crashed>>

\* It sets the flag ...
DialClaim(p) ==
  /\ pc[p] = "claim"
  /\ isConnecting' = TRUE
  /\ Goto(p, "again")
  /\ UNCHANGED <<conn, forceClosed, autoConn, locked, socks, using, back, ghosts, crashed>>

\* ... sets it once more when the url is ready ...
DialAgain(p) ==
  /\ pc[p] = "again"
  /\ isConnecting' = TRUE
  /\ Goto(p, "connect")
  /\ UNCHANGED <<conn, forceClosed, autoConn, locked, socks, using, back, ghosts, crashed>>

\* Mutant: the flag is not taken back when the server cannot be reached.
DialContextStuck(p) ==
  /\ pc[p] = "connect"
  /\ \/ /\ dials < MaxDials
        /\ dials' = dials + 1
        /\ sock' = [sock EXCEPT ![dials + 1] = "open"]
        /\ using' = [using EXCEPT ![p] = dials + 1]
        /\ Goto(p, "store")
     \/ Goto(p, back[p]) /\ UNCHANGED <<dials, sock, using>>
  /\ UNCHANGED <<conn, flags, locked, failed, back, ghosts, crashed>>

\* ... and gets a connection or, within five seconds, an error.
DialContext(p) ==
  /\ pc[p] = "connect"
  /\ \/ /\ dials < MaxDials
        /\ dials' = dials + 1
        /\ sock' = [sock EXCEPT ![dials + 1] = "open"]
        /\ using' = [using EXCEPT ![p] = dials + 1]
        /\ Goto(p, "store")
        /\ UNCHANGED isConnecting
     \/ /\ isConnecting' = FALSE
        /\ Goto(p, back[p])
        /\ UNCHANGED <<dials, sock, using>>
  /\ UNCHANGED <<conn, forceClosed, autoConn, locked, failed, back, ghosts, crashed>>

DialStore(p) ==
  /\ pc[p] = "store"
  /\ conn' = using[p]
  /\ Goto(p, "spawn")
  /\ UNCHANGED <<flags, locked, socks, using, back, ghosts, crashed>>

\* Mutant: no read loop for a second connection.
DialSpawnNone(p) ==
  /\ pc[p] = "spawn"
  /\ isConnecting' = FALSE
  /\ Goto(p, back[p])
  /\ using' = [using EXCEPT ![p] = NoSock]
  /\ UNCHANGED <<conn, forceClosed, autoConn, locked, socks, back, ghosts, crashed>>

DialSpawn(p) ==
  /\ pc[p] = "spawn"
  /\ isConnecting' = FALSE
  /\ pc' = [pc EXCEPT ![p] = back[p], ![using[p]] = "loop"]
  /\ using' = [using EXCEPT ![p] = NoSock]
  /\ UNCHANGED <<conn, forceClosed, autoConn, locked, socks, back, ghosts, crashed>>

-----------------------------------------------------------------------------
(* OneWSClient.close: nothing happens without a connection.                *)

StartClose(p) ==
  /\ Does(p, "close") /\ conn # NoSock /\ ~forceClosed
  /\ Goto(p, "close")
  /\ UNCHANGED <<conn, flags, locked, socks, using, back, ghosts, crashed>>

\* Mutant: the socket is dropped without being closed.
CloseSocketForgotten(p) ==
  /\ pc[p] = "close" /\ ~locked
  /\ locked' = TRUE
  /\ Goto(p, IF conn # NoSock THEN "forget" ELSE "flag")
  /\ UNCHANGED <<conn, flags, socks, using, back, ghosts, crashed>>

CloseSocket(p) ==
  /\ pc[p] = "close" /\ ~locked
  /\ locked' = TRUE
  /\ IF conn # NoSock
       THEN sock' = [sock EXCEPT ![conn] = "closed"] /\ Goto(p, "forget")
       ELSE Goto(p, "flag") /\ UNCHANGED sock
  /\ UNCHANGED <<conn, flags, dials, failed, using, back, ghosts, crashed>>

CloseForget(p) ==
  /\ pc[p] = "forget"
  /\ conn' = NoSock
  /\ Goto(p, "flag")
  /\ UNCHANGED <<flags, locked, socks, using, back, ghosts, crashed>>

CloseFlag(p) ==
  /\ pc[p] = "flag"
  /\ forceClosed' = TRUE
  /\ locked' = FALSE
  /\ Goto(p, Ready(p))
  /\ overlapped' = (overlapped \/ conn # NoSock \/ \E q \in Procs : Dialling(q))
  /\ UNCHANGED <<conn, isConnecting, autoConn, socks, using, back, empty, crashed>>

-----------------------------------------------------------------------------
(* receiveServerMessage and readServerMessage.                             *)

\* The server or the network closes a connection.
ServerGone(d) ==
  /\ sock[d] = "open"
  /\ sock' = [sock EXCEPT ![d] = "broken"]
  /\ UNCHANGED <<conn, flags, locked, dials, failed, calls, ghosts, crashed>>

LoopCheck(d) ==
  /\ pc[d] = "loop"
  /\ Goto(d, IF conn = NoSock \/ forceClosed THEN "done" ELSE "deref")
  /\ UNCHANGED <<conn, flags, locked, socks, using, back, ghosts, crashed>>

\* f.conn is read again: any loop reads from the current connection.
LoopRead(d) ==
  /\ pc[d] = "deref"
  /\ IF conn = NoSock THEN Panic(d) /\ UNCHANGED using
                      ELSE Goto(d, "read") /\ using' = [using EXCEPT ![d] = conn]
                           /\ UNCHANGED crashed
  /\ UNCHANGED <<conn, flags, locked, socks, back, ghosts>>

Message(d) ==
  /\ pc[d] = "read" /\ sock[using[d]] = "open"
  /\ Goto(d, "callback")
  /\ UNCHANGED <<conn, flags, locked, socks, using, back, ghosts, crashed>>

\* A broken pipe ends the loop after an attempt to connect again.  Any other error
\* is forgotten and the callback runs without a message, until the library panics.
LoopError(d) ==
  /\ pc[d] = "read" /\ sock[using[d]] # "open"
  /\ \/ /\ "epipe" \in ReadErrors
        /\ IF autoConn THEN Goto(d, "dial") /\ back' = [back EXCEPT ![d] = "done"]
                       ELSE Goto(d, "done") /\ UNCHANGED back
        /\ UNCHANGED <<failed, empty>>
     \/ /\ "other" \in ReadErrors
        /\ failed' = [failed EXCEPT ![using[d]] = IF @ < MaxReadErrors THEN @ + 1 ELSE @]
        /\ Goto(d, IF failed'[using[d]] = MaxReadErrors THEN "done" ELSE "callback")
        /\ empty' = (empty \/ pc'[d] = "callback")
        /\ UNCHANGED back
  /\ UNCHANGED <<conn, flags, locked, sock, dials, using, overlapped, crashed>>

CallbackDone(d) ==
  /\ d \in Dials /\ pc[d] = "callback"
  /\ Goto(d, "loop")
  /\ using' = [using EXCEPT ![d] = NoSock]
  /\ UNCHANGED <<conn, flags, locked, socks, back, ghosts, crashed>>

-----------------------------------------------------------------------------
DialStep(p) ==
  \/ DialCheck(p) \/ DialBusy(p) \/ DialClaim(p) \/ DialAgain(p) \/ DialContext(p)
  \/ DialStore(p) \/ DialSpawn(p)

CallStep(p) ==
  \/ SendCheck(p) \/ Write(p) \/ WriteDone(p) \/ DialStep(p)
  \/ CloseSocket(p) \/ CloseForget(p) \/ CloseFlag(p)

LoopStep(d) == LoopCheck(d) \/ LoopRead(d) \/ LoopError(d)

AppStep(p) == StartSend(p) \/ StartClose(p) \/ SetAutoConnect(p) \/ DialServer(p)

Finished ==
  /\ crashed \/ \A p \in Procs : pc[p] \in {"idle", "none", "done"}
  /\ UNCHANGED vars

Next ==
  \/ \E p \in Procs : ~crashed /\ (AppStep(p) \/ CallStep(p))
  \/ \E d \in Dials : ~crashed /\ (LoopStep(d) \/ Message(d) \/ CallbackDone(d) \/ ServerGone(d))
  \/ Finished

\* The scheduler runs every goroutine that can run, the read callback returns, and
\* the server reads what it is sent.  Nothing else is assumed of the server, and
\* nothing of the application.
Fairness ==
  /\ \A p \in Procs : WF_vars(~crashed /\ CallStep(p))
  /\ \A d \in Dials : WF_vars(~crashed /\ (LoopStep(d) \/ CallbackDone(d)))

Spec     == Init /\ [][Next]_vars
FairSpec == Spec /\ Fairness

-----------------------------------------------------------------------------
\* The state keeps its shape; whoever writes, reads or has just dialled has a socket
\* for it, and there is one read loop for every dial that has been completed.
TypeOK ==
  /\ conn \in Dials \cup {NoSock}
  /\ forceClosed \in BOOLEAN /\ isConnecting \in BOOLEAN /\ autoConn \in BOOLEAN
  /\ locked \in BOOLEAN /\ empty \in BOOLEAN /\ overlapped \in BOOLEAN /\ crashed \in BOOLEAN
  /\ sock \in [Dials -> {"none", "open", "broken", "closed"}]
  /\ dials \in Dials
  /\ failed \in [Dials -> 0 .. MaxReadErrors]
  /\ pc \in [Procs -> {"idle", "callback", "none", "send", "write", "writing", "dial", "busy",
                      "claim", "again", "connect", "store", "spawn", "close", "forget", "flag",
                      "loop", "deref", "read", "done"}]
  /\ using \in [Procs -> Dials \cup {NoSock}]
  /\ back \in [Procs -> {"none", "idle", "callback", "done"}]
  /\ \A p \in Procs : pc[p] \in {"writing", "store", "spawn", "read"} => using[p] # NoSock
  /\ \A d \in Dials :
       pc[d] = "none" <=> d > dials \/ \E p \in Procs : pc[p] \in {"store", "spawn"} /\ using[p] = d

\* A client that was closed stays closed: once no dial is under way it has no
\* connection, and none is left open to the server.
StaysClosed ==
  forceClosed /\ (\A p \in Procs : ~Dialling(p)) =>
    conn = NoSock /\ \A d \in Dials : sock[d] # "open"

\* So it is unless a dial was under way when close() set forceClosed, or one came in next to
\* another before (see DialBusy).
ClosedForGood == ~overlapped => StaysClosed

\* No panic reaches the top of an application goroutine.
NoCrash == ~crashed

\* At most one goroutine connects to the server at a time.
OneDial == Cardinality({p \in Procs : pc[p] \in {"again", "connect", "store", "spawn"}}) <= 1

\* So it is as long as nothing has overlapped, above all no two goroutines stood between the
\* check of isConnecting and its store: from there to the end of dialServer, on every path, the
\* plain field keeps the others out.
OneDialByFlag == ~overlapped => OneDial

\* The read callback runs for messages of the server only.
OnlyMessages == ~empty

\* After the client was closed every read loop ends, with the same exception.
LoopsEnd ==
  \A d \in Dials :
    forceClosed /\ pc[d] # "none" ~> crashed \/ overlapped \/ pc[d] = "done"

\* Nobody stays for ever under the impression that somebody else is connecting.
DialEnds == isConnecting ~> crashed \/ ~isConnecting

\* A client with automatic connect on that loses its connection gets a new one, if the
\* server can be reached, unless it is closed.
Persistent ==
  conn # NoSock /\ sock[conn] = "broken" ~>
    \/ crashed \/ forceClosed \/ ~autoConn \/ dials = MaxDials
    \/ conn # NoSock /\ sock[conn] = "open"

=============================================================================
