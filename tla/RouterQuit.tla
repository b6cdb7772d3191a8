------------------------------ MODULE RouterQuit ------------------------------
(***************************************************************************)
(* Router.Quit while the router is in use: ConnLifecycle composed with the *)
(* goroutine that runs Manager.Quit, Bucket.Quit and Remote.Cleanup.       *)
(*                                                                         *)
(* Quit takes the buckets out of the map of the manager and empties them;  *)
(* it closes no socket and waits for nobody.  Goroutines that hold a       *)
(* bucket go on using it, those that look one up find none from then on.   *)
(* The locks of the buckets are not taken, not even those of a send that   *)
(* is under way.                                                           *)
(***************************************************************************)
EXTENDS ConnLifecycle

VARIABLES
  bucketMap,  \* Manager.bucketMap: the buckets GetBucket still finds
  stopped,    \* buckets whose activeCheckTicker was told to quit
  quit,       \* where Manager.Quit is
  quitBucket, \* the bucket it is at
  late        \* connections whose Accept got a bucket before Quit deleted it, and was not
              \* through when Quit emptied it, or got it after that

quitVars == <<bucketMap, stopped, quit, quitBucket, late>>
allVars  == <<vars, quitVars>>

QuitInit ==
  /\ Init
  /\ bucketMap = BucketIds
  /\ stopped = {}
  /\ quit = "idle"
  /\ quitBucket = 0
  /\ late = {}

\* Connections between GetBucket and AddConnect.
InAccept(c) == entry[c] \in {"spawned", "addressed", "listed"}

-----------------------------------------------------------------------------
(* Manager.Quit.                                                           *)

StartQuit ==
  /\ quit = "idle"
  /\ quit' = "range"
  /\ UNCHANGED <<vars, bucketMap, stopped, quitBucket, late>>

\* Mutant: the ticker of the bucket keeps running.
QuitTickerRuns(b) ==
  /\ quit = "range" /\ b \in bucketMap
  /\ quit' = "free"
  /\ quitBucket' = b
  /\ UNCHANGED <<vars, bucketMap, stopped, late>>

\* The next bucket in the order of the map; Bucket.Quit stops its ticker, which ends no
\* check that is running.
QuitTicker(b) ==
  /\ quit = "range" /\ b \in bucketMap
  /\ quit' = "free"
  /\ quitBucket' = b
  /\ stopped' = stopped \cup {b}
  /\ UNCHANGED <<vars, bucketMap, late>>

\* Bucket.freeRunMemory.  connCount keeps its value.
QuitFree ==
  LET b == quitBucket IN
  /\ quit = "free"
  /\ quit' = "delete"
  /\ FreeRunMemory(b)
  /\ late' = late \cup {c \in Conns : BucketOf(c) = b /\ InAccept(c)}
  /\ UNCHANGED <<envVars, entry, reader, connCount, locked, sending, remote, callVars,
                 tick, tickConn, crashed, bucketMap, stopped, quitBucket>>

\* Mutant: the manager keeps the bucket.
QuitKeepsBucket ==
  /\ quit = "delete"
  /\ quit' = IF stopped = BucketIds THEN "cleanup" ELSE "range"
  /\ UNCHANGED <<vars, bucketMap, stopped, quitBucket, late>>

\* delete(f.bucketMap, k), without the lock that GetBucket takes.
QuitDelete ==
  /\ quit = "delete"
  /\ bucketMap' = bucketMap \ {quitBucket}
  /\ quit' = IF bucketMap' = {} THEN "cleanup" ELSE "range"
  /\ UNCHANGED <<vars, stopped, quitBucket, late>>

\* Remote.Cleanup.
Cleanup ==
  /\ quit = "cleanup"
  /\ quit' = "done"
  /\ remote' = [a \in Addrs |-> NoConn]
  /\ UNCHANGED <<envVars, entry, reader, mapVars, callVars, tickVars, crashed, bucketMap,
                 stopped, quitBucket, late>>

QuitStep ==
  \/ \E b \in BucketIds : QuitTicker(b)
  \/ QuitFree \/ QuitDelete \/ Cleanup

-----------------------------------------------------------------------------
(* What the lookup of a bucket changes for the others.                     *)

\* Manager.Accept finds its bucket: maybe one that Quit has emptied already, and not yet
\* deleted from the map.  Then it is late as well.
UpgradeFound(c, a) ==
  /\ BucketOf(c) \in bucketMap
  /\ Upgrade(c, a)
  /\ late' = IF quit = "delete" /\ quitBucket = BucketOf(c) THEN late \cup {c} ELSE late
  /\ UNCHANGED <<bucketMap, stopped, quit, quitBucket>>

\* It finds none and returns neither a connection nor an error: Entry takes this for
\* success and arms the timer of the connected callback.  Nobody reads the socket.
UpgradeLost(c, a) ==
  /\ BucketOf(c) \notin bucketMap
  /\ c = connectId + 1 /\ "id" \in IdResults /\ AddrFree(a)
  /\ connectId' = c
  /\ sock' = [sock EXCEPT ![c] = "open"]
  /\ addr' = [addr EXCEPT ![c] = a]
  /\ entry' = [entry EXCEPT ![c] = "done"]
  /\ pc' = [pc EXCEPT ![c] = "armed"]
  /\ UNCHANGED <<stalled, act, reader, mapVars, remote, target, ws, found, tickVars,
                 crashed, quitVars>>

StartCloseFound(p, id) == BucketOf(id) \in bucketMap /\ StartCloseConnect(p, id)

\* CloseWithMessage looks the bucket up after the address, and returns without one.
CloserFound(p) ==
  /\ pc[p] = "lookup" /\ remote[addr[ws[p]]] # NoConn
       => BucketOf(remote[addr[ws[p]]]) \in bucketMap
  /\ CloserStep(p)

CloserLost(p) ==
  LET id == remote[addr[ws[p]]] IN
  /\ pc[p] = "lookup" /\ id # NoConn /\ BucketOf(id) \notin bucketMap
  /\ Return(p)
  /\ UNCHANGED <<envVars, entry, reader, mapVars, remote, tickVars, crashed>>

TickRuns(b) == (tick[b] = "idle" => b \notin stopped) /\ TickStep(b)

\* A lookup of GetBucket, or the range of a send over the buckets, may overlap the
\* unlocked delete of Quit.
BucketFault ==
  /\ quit = "delete"
  /\ Writes \/ connectId < MaxConns \/ \E p \in Procs : pc[p] = "lookup"
  /\ crashed' = TRUE
  /\ UNCHANGED <<envVars, entry, reader, mapVars, remote, callVars, tickVars>>

-----------------------------------------------------------------------------
Others ==
  \/ \E c \in Conns, a \in Addrs : UpgradeLost(c, a)
  \/ /\ \/ \E c \in Conns, a \in Addrs : UpgradeAborted(c, a)
        \/ \E c \in Conns : \/ PeerGone(c) \/ Stall(c) \/ Resume(c) \/ Expire(c)
                            \/ ReadMessage(c) \/ WriteBegin(c) \/ WriteFault(c)
                            \/ EntryStep(c) \/ ReaderStep(c) \/ TimerStep(c)
        \/ \E p \in Callers, c \in Conns :
             StartCloseFound(p, c) \/ StartCloseWithMessage(p, c) \/ AppClose(p, c)
        \/ \E p \in Procs : CloserFound(p) \/ CloserLost(p)
        \/ \E b \in BucketIds : SendStep(b) \/ TickRuns(b) \/ MapFault(b)
        \/ BucketFault
     /\ UNCHANGED quitVars

QuitFinished ==
  /\ \/ crashed
     \/ /\ quit = "done" /\ connectId = MaxConns
        /\ \A c \in Conns :
             \/ entry[c] = "aborted"
             \/ pc[c] = "done" /\ reader[c] \in {"none", "panicked", "done"}
  /\ UNCHANGED allVars

QuitNext ==
  \/ /\ ~crashed
     /\ \/ StartQuit \/ QuitStep \/ Others
        \/ \E c \in Conns, a \in Addrs : UpgradeFound(c, a)
  \/ QuitFinished

QuitSpec == QuitInit /\ [][QuitNext]_allVars

-----------------------------------------------------------------------------
\* The state keeps its shape; Quit is done with a bucket before it takes the next, and
\* with all of them before it empties the address map.
QuitTypeOK ==
  /\ TypeOK
  /\ bucketMap \subseteq BucketIds /\ stopped \subseteq BucketIds /\ late \subseteq Conns
  /\ quit \in {"idle", "range", "free", "delete", "cleanup", "done"}
  /\ quitBucket \in BucketIds
  /\ quit \in {"free", "delete"} => quitBucket \in bucketMap \cap stopped
  /\ quit \in {"cleanup", "done"} <=> bucketMap = {}
  /\ BucketIds \ bucketMap \subseteq stopped

\* Once Quit has returned, the buckets and the address map hold no connection but late ones:
\* those whose Accept had found its bucket, and not added them yet, when Quit emptied that,
\* and those whose Accept found it after that and before Quit deleted it from the map, for
\* Quit empties a bucket first and deletes it then.
OnlyLateRemain ==
  quit = "done" =>
    /\ \A b \in BucketIds : connMap[b] \subseteq late
    /\ \A a \in Addrs : remote[a] \in late \cup {NoConn}

\* No connected callback is called without a connection.
NeverLost == \A c \in Conns : pc[c] \in {"armed", "done"} => reader[c] # "none"

===============================================================================
