# Verification of tubing

tubing is a Go library for websocket services on top of gin and gorilla/websocket:
a server that routes uris to routers, routers that keep their connections in
buckets, groups of connections, and a websocket client. This directory holds TLA+
models of it, translated from the source, their TLC runs and proofs checked by
TLAPS. `PROJECT.json` maps every definition that models code to its lines, and lists
runs, mutants, findings, hazards and theorems.

    tlc -workers 2 -config ConnClosers.cfg MCConnLifecycle.tla    # one run
    tlapm ConnLifecycleProofs.tla                                 # one module of proofs

## 1. Inventory

### Parts and how they interact

    Server ──registers──> Router ──owns──> Manager ──> Bucket 0..n-1 ──> WSConn
      (server.go)        (router.go)     (manager.go)   (bucket.go)     (conn.go)
                                           │  │
                                           │  └──> Remote: address -> connId (remote.go)
                                           └─────> Group: id -> members (group.go)
    WebSocketClient ──> OneWSClient        (client.go, a program of its own)

gin calls `Router.Entry` in a goroutine per request. Entry upgrades it, takes an id and
calls `Manager.Accept`, which makes a `WSConn` (this starts its read loop), enters its
address in `Remote` and adds it to bucket `connId % buckets`; 100 ms later a timer
calls the connected callback. The read loop calls the read callback for every message
and, when a read fails, the closed callback and `Bucket.CloseConn`. A ticker per
bucket, if configured, closes inactive connections. Everything else is the
application, in its own goroutines or in the callbacks: sending, grouping, closing.

| Part | State | Operations | Hard behaviour | What makes it correct |
|---|---|---|---|---|
| Connections (router, manager, bucket, conn) | per bucket `connMap`, `connRemoteMap`, `connCount`, a lock; per connection socket, `activeTime`, address | Entry, Accept, read loop, CloseConn, CloseConnectByIds, CloseWithMessage, connected timer | five kinds of goroutine work on one connection; some of them use the maps without the lock | a live connection stays registered, a dead one does not; a refused one is closed; every call returns |
| Remote | `remoteAddrMap` | AddRemote, DelRemote, GetRemote, Cleanup | deleted late, by address | leads to every live connection |
| Active check | `activeCheckTicker` | cbForCheckActiveConn, closeConnect, freeRunMemory | iterates without a lock over a map that is being changed, or replaced | closes the silent ones, only those, and all of them |
| Groups | `groupMap`; per group `connMap` and a lock; per connection `groupId` | CreateGroup, RemoveGroup, GetGroup, Join, Quit, Clear, SendMessage, and `resetConnGroupId` in every close path | check-then-act, a lock held during writes, a group id without a lock | members and ids agree; the dead are members of nothing; messages go to members only |
| Broadcasts, attributes | bucket lock; per connection `ownerId`, `tagMap`, `propMap` and their locks | SendMessage with its filters, Write, MarkTags, SetProp ... | the lock of a bucket is held during writes; maps are read outside their locks; two writers on one websocket | what is fit for a message gets it, nothing else does; sends and accepts return |
| Client | `conn`, `forceClosed`, `isConnecting`, `autoConn` | SendMessage, close, SetAutoConnect, dialServer, read loops | almost nothing is locked; reads, sends and closes reconnect or close each other's socket | closed is closed for good; one dial at a time; a lost connection is replaced |
| Client pool | `clientMap`, settings, a lock | CreateClient, CloseConn, Close, Set... | settings are written without the lock and handed down under it; a channel without a reader under the lock; clients are dialled before they are listed | no open client is forgotten; settings reach every client; calls return |
| Server registry | two `sync.Map`s, `routerCount`, the routes of gin, `started` | RegisterUri, RemoveUriByName, lookups, Quit, SetGin, StartGin | check-then-act over two maps and a counter; maps emptied while others use them; routes that cannot be taken back | the maps and the counter agree; a name and a uri lead to the router that was registered |
| Shutdown | `bucketMap` and the maps above | Router.Quit, Manager.Quit, Bucket.Quit, Remote.Cleanup | replaces maps that live goroutines use, takes none of their locks, closes no sockets, waits for nobody | nothing is listed after Quit but what was being accepted |
| Coder, settings, dead code, examples | none of their own | | | not modelled (section 6) |

### Hazards

`PROJECT.json` lists them with their lines. They fall into these families: goroutines
that close the same connection; use of maps without their lock; the window between
the start of a read loop and the end of Accept; values looked up earlier (addresses,
group ids, tag maps) and used after they have changed; locks held during writes to
peers that may never read; counters kept by several paths in different ways; maps that
are emptied or replaced while others use them (Quit, the last removal of a router);
settings handed down in another order than they were made; and the reconnect logic of
the client. Where no property covers one, its note says why, or names the configuration
of section 3 that shows it happen.

## 2. Modules

| Module | Models | Extends |
|---|---|---|
| `ConnLifecycle` | accept, read, refuse, close and active check of the connections of a router, with `Remote` | |
| `ConnLifecycleProofs` | theorems about it | ConnLifecycle, FiniteSetTheorems, TLAPS |
| `ConnRegistry` | the abstract specification of accept and close | |
| `ConnRefinement` | the refinement mapping from ConnLifecycle to ConnRegistry | ConnLifecycle, ConnRegistry (INSTANCE) |
| `ConnRefinementProofs` | that the mapping is one; that refused connections are closed | ConnRefinement, ConnLifecycleProofs |
| `RouterQuit` | Router.Quit, composed with ConnLifecycle | ConnLifecycle |
| `RouterQuitProofs` | its shape, and what it leaves behind | RouterQuit, ConnLifecycleProofs |
| `Server` | the registry of routers and the gin engine | |
| `ServerProofs` | that it is exact, and that what is registered is served | Server, FiniteSetTheorems, TLAPS |
| `Groups` | groups, and the group part of every close path | |
| `GroupsProofs` | who is a member, and who gets messages | Groups, FiniteSetTheorems, TLAPS |
| `Broadcast` | sending to buckets, filters, attributes, writes that block | |
| `BroadcastProofs` | that all that fit, and no others, get a message | Broadcast, FiniteSetTheorems, TLAPS |
| `WSClient` | one client with its read loops | |
| `WSClientProofs` | that it stays closed, and dials once at a time | WSClient, FiniteSetTheorems, TLAPS |
| `ClientPool` | the pool of clients and its settings | |
| `ClientPoolProofs` | that it forgets no open client, and hands its settings down | ClientPool, FiniteSetTheorems, TLAPS |
| `MC...` | symmetry sets and values of constants for TLC | the module named |

Each of the models contains as much of its neighbours as its properties need, and says
at its top what it leaves to them. They overlap on purpose at the close paths: these
are where the parts meet. `RouterQuit` is a composition proper: the actions of
ConnLifecycle are used as they are, restricted or replaced where Quit changes what the
lookup of a bucket returns.

### How the modules correspond to the code

*A goroutine is a process*, and its place in the code a string (`pc`, `entry`, `reader`,
`tick`). *An action is one step to the next access of shared state*: one critical section
when the code holds a lock throughout, otherwise one read or write of a field or map.
Local computation goes with the access before it. A guard of an action is the code's
condition; an early return is a disjunct or an IF that leads to the end of the call.

`ConnLifecycle`. `sock` is the gorilla connection as the server sees it ("closing": a
close frame was sent; "broken": reads fail; "closed": `Close` was called). `connMap`,
`connRemoteMap`, `connCount`, `locked` and `remote` are the fields of that name. `entry[c]`
is Entry and Accept, `reader[c]` the read loop, `pc[c]` the timer of Entry, `pc[p]` a close call of
the application, `tick[b]` the active check. CloseConnectByIds is the six steps from
`FindConn` to `ResetCount`, because its lock calls are commented out in the source.
`MapFault` is the Go runtime stopping the program at an unlocked map access; it is possible,
not certain, so every other property is checked with and without it having happened.
`activeTime` has three values: zero, within the heart beat rate, and past it. A send (`WriteBegin` to `WriteEnd`) keeps the lock of
its bucket over all its writes; `sending` is the connection it is writing to. A write to a connection in `stalled`, whose peer does
not read, waits until the peer reads again or the socket ends; so does the close frame of `CloseWithMessage` (`WriteClose`). Two
writes at once to one websocket may end the program (`WriteFault`). The range loop of the active check may or may not come to a
connection that is inserted while it runs (`AddConnectMaps`). `UpgradeAborted` is an upgrade that got no id. The connections are in no group, so
`resetConnGroupId` returns at once: what it waits for otherwise is in `Groups`.

`Groups`. A group is an object number, because `RemoveGroup` and a second `CreateGroup` leave the
old object to those who hold it. `held[p]` is the group an application goroutine has from
`GetGroup` or `CreateGroup`. `resetConnGroupId` is the steps `CheckGroupId`, `ReadGroupId`,
`FindGroup`, `QuitGroup` and `ResetGroupId`: the source reads the id twice and locks nothing
around it. `SendMessage` holds `locked[o]`, looks at one member per step
(`SendOne`), and the `Write` to an active one is a step of its own (`WriteEnd`) that waits while the peer
does not read, whatever becomes of the activity read before.

`Broadcast`. `PickBucket` and `Lock` are the loop of the manager over the buckets, `Visit` to `Unlock`
the loop of a bucket over its connections. `ReadAttrs` is a step of its own, after the lock of
the attribute map was given back. A second writer on one websocket and a map read while
written lead to the states "concurrent write" and "concurrent map", where the program ends. `AddConnect` inserts and, in a
step of its own, counts (`adding`, `AddConnectCount`). The active check closes a connection, deletes it, counts it down and looks
at the counter in four steps without a lock (`TickClose` to `TickFree`, `check[c]` says where it is): when the counter is not positive,
`freeRunMemory` puts an empty map in the place of the old one, whoever is in it. `old` and `kept` are what the pass of the
check and the senders that range over the old map still have of it. `must`, `may`, `got` and `lost` are history variables for
the properties; `lost` are the connections that `freeRunMemory` took out of their bucket.

`WSClient`. Sockets are numbered by the dial that made them, read loops too. The field `conn` is
read again at every place the source reads it again (`LoopCheck`, then `LoopRead`; `SendCheck`,
then `Write`). Only `close` takes the lock, so `locked` excludes only other closes. `overlapped`
records, for the properties, that a dial was under way when `close` set `forceClosed`, or that a goroutine came past
the check of `isConnecting` while another stood between that check and its store, or with a connection made since it
looked for one. `DialClaim` and `DialAgain` are the two stores of the flag (client.go:434 and 460).

`ConnRegistry`. A connection is "new", "offered", "listed" or "gone", its socket open, closing or
dead, and a directory leads from addresses to connections. The refinement mapping reads
`phase` off `entry` and `connMap`, `life` off `sock`, and takes `remote` for the directory. Locks, counters,
`connRemoteMap`, the read loops, sends, stalls and the calls of closers have no counterpart: their steps stutter. An upgrade without an
id is turned away (`TurnAway`): its socket is open, and it is in neither map.

`RouterQuit`. `bucketMap` is what `GetBucket` still finds, `quit` where `Manager.Quit` is. `QuitTicker`, `QuitFree` and
`QuitDelete` are one turn of its loop, `Cleanup` is the end. `UpgradeLost` is an Accept without a bucket: it
returns neither a connection nor an error. `CloserLost` is CloseWithMessage without one. `late` is a
history variable: the connections that were in Accept, past `GetBucket`, when their bucket was emptied, and those that
came past `GetBucket` between that and the `delete` of the bucket, for `Manager.Quit` empties first and deletes then.
The sends of ConnLifecycle go on next to Quit, which takes none of the locks they hold.

`Server`. One action per access to `routerUris`, `routers` (both `sync.Map`) and `routerCount`. `gin` is the engine that
`SetGin` was called with last, `routes` what every engine has been told, for every uri and method; gin panics
when told twice. A second `SetGin` leaves the routes with the engine it replaces: the properties ask for a route in
some engine, not in the last one. `kept` and `raced` are history
variables: the router whose registration has returned, and whether a call that empties the
maps overlapped another one.

`ClientPool`. The field of a setting is written first (`Set`), the emptiness of the map read next
(`CheckEmpty`), then the lock is taken and the clients are told one per step. `beats` is the number of elements in
the `heartBeatChan` of a client, which has room for one and no reader anywhere in the source. A client
is what the pool sees of it: `connected` is `conn != nil`, `forceClosed` the flag. `close()` is the check (`CheckConn`), the
socket and `conn = nil` under the lock of the client (`CloseSocket`), and the flag (`ForceClosed`). Between the last two the
client can be dialled again, by `SetAutoConnect` in the loop of `SetAutoConnSwitch` or by a send (`Ask`, `Redial`); `late` is the
history of the clients for which that was begun. `WSClient` has the read loops and the flags of a dial.

## 3. Runs

All bounds are the constants of the `.cfg` files. They are chosen per question: two
connections are the smallest number for which one can be lost to the clean-up of
another, one bucket makes them share a map and a lock, and two dials or two callers are
the smallest race. Symmetry is used for safety only. `MaxConns`, `MaxObjs`, `MaxDials`, `MaxReadErrors`,
`MaxRouters`, `MaxClients`, `MaxSets` and `MaxBeats` bound what the program may do without end; the code itself
has no such limit, but for the 1000 failed reads of gorilla that `MaxReadErrors` stands for and the one
element of `heartBeatChan`.

| Run | Checks | Shows |
|---|---|---|
| ConnRefused | TypeOK RefusedIsClosed BucketInv AddressInv | Two upgrades, which may get no id, and whose connected callback may fail: a refused connection is closed before the application is told. Also checks the inductive invariants of section 5. |
| ConnClosers | LiveInBucket LiveListed ImplementsRegistry | An application that sends, and closes by id, by socket and directly, while two connections are accepted and die: no live one leaves its bucket or the address map, and every step is one of ConnRegistry. 1.7 million states. |
| ConnTickerLive | DeadIsCleaned DeadIsReclaimed CallsReturn | One connection whose peer may stop reading, sends to it, an active check, a closing application, a read callback that may panic. If the peer reads in the end, a dead connection leaves all maps and every call returns; the check frees the entry of a dead one, with or without its read loop, once nothing more is written to it. The read loop waits for the lock of a send to its own connection, and a CloseWithMessage for the peer. That an Accept waits for a send to another connection needs two: this is AcceptReturns of BroadcastLive. |
| RouterQuit | QuitTypeOK OnlyLateRemain | Quit of two buckets next to an accept, their active checks and an application that closes and sends: what is left in the buckets and the address map was late. One connection may find its bucket before, while or after that, or the other bucket, is emptied or deleted; theorem QuitLeavesOnlyLate has any number. 4.0 million states. |
| GroupReaders | NoGhost GroupIdRight OnlyMembersGet | Two connections that join and quit two groups in their own callback, next to an application that creates, removes, clears and sends: the close path takes the dead ones out, messages go to members. |
| GroupLive | TypeOK MembershipHeld DeadLeaves CallsReturn | A peer that reads, an active check, sends and closes: a live member stays a member until somebody closes it, every call returns, a dead connection leaves, although all of them wait for the lock of the group. |
| BroadcastFilters | OnlyFit Delivered | Two goroutines that send every kind of message and change owner, tags and properties meanwhile, two buckets and a connection in one of them, an active check: a connection that stays open and fit has the message when SendMessage returns, unless the check has dropped it with the map of its bucket; no other connection ever has it. |
| BroadcastLive | TypeOK SendsReturn AcceptReturns Delivered | Two connections in one bucket, a sender that also writes directly, peers whose hosts vanish, an active check. A write to a vanished host holds the lock of the bucket while the other connection is accepted; the check, which takes no lock, closes the connection and frees both, unless it has dropped that connection before: then the sender and the Accept wait for ever (`Abandoned`), which TLC reaches. |
| ClientUse | TypeOK ClosedForGood OneDialByFlag DialEnds LoopsEnd | Two goroutines that do everything, next to the read loops of two sockets, with both kinds of read errors: unless a dial overlapped the close, a closed client stays closed and its read loops end; `isConnecting` never stays set, and but for the window between its check and its store it keeps a second dial out. |
| ServerOwn | TypeOK KeptIsServed RegistryExact | Two goroutines with names and uris of their own register and remove three routers, one calls Quit: either of them sets one of two engines at any time: what is registered is found by name and by uri, runs and has a route, and the counter is the number of routers, as long as nothing overlaps a call that empties the maps. Three routers let the counter reach 0 and rise again. 3.3 million states, up to symmetry. |
| PoolUse | TypeOK LeftIsClosed SettingsReach CallsReturn | One goroutine creates, closes and quits two clients and makes settings, at most one of them a positive heart beat rate; another switches the automatic connect and sends. Two settings in all. A client that left the pool has no connection, unless somebody began to dial it in the middle of a `close()`; what was set last reaches every client that was there; every call returns. |
| TickerDropsLive | LiveInBucket is violated | Finding: a connection is in the map before it is counted. The active check closes a second connection in between and counts it down, which leaves a count of 0 with the first one in the map; `freeRunMemory` drops that live connection. |

The other disagreements between the code and its comments, or between what its parts
assume of each other, that turned up have a configuration each. TLC finds the property
violated in a few seconds:

| Configuration | Property | What the code does |
|---|---|---|
| AcceptZombie | NoZombie | A connection that dies during Accept is added to its bucket after its clean-up. |
| RefusedReuse | RefusedIsClosed | The late clean-up of an old connection from the same address hides its successor from the refusal. |
| UnlockedClose | NoMapFault | CloseConnectByIds uses the maps without the lock ("loop opt with locker", bucket.go:235). |
| TickerClosesNew | ClosesOnlySilent | A connection accepted a moment ago counts as inactive. |
| WritesKeepDead | WrittenIsReclaimed | Failed writes keep a dead connection from being freed. |
| QuitNilConn | NeverLost | An Accept after Quit returns neither a connection nor an error; the connected callback is called for a socket nobody reads. |
| GroupStalled | CallsReturn | A send to a group waits for a stalled member, and the active check that would close it ("force close connect", bucket.go:576) waits for the lock the send holds. |
| GroupTwice | MembershipHeld | Two CreateGroup calls at once make two groups of one id. |
| GroupCloseRace | NoGhost | A join during a close is hidden by the reset of the group id. |
| BroadcastWriters | NoWritePanic | A broadcast and a direct Write meet on one websocket ("write message with locker", conn.go:289). |
| BroadcastTags | NoMapFault | The live tag map is read outside its lock. |
| BroadcastNoType | Delivered | Without SetMessageType the buckets write messages of type 0, which all fail. |
| ClientSendClose | StaysClosed | A send in the middle of `close()` connects the client again that is being closed ("client has force closed", client.go:429). |
| ClientTwoDials | OneDial | Two callers both pass the isConnecting check. With `NoCrash` instead of OneDial: two sends at once panic ("opt with locker", client.go:349). |
| ClientNotPersistent | Persistent | After a close by the server the client never connects again ("persistent connect", client.go:24). With the invariant `OnlyMessages`: after a read error the callback runs without a message. |
| PoolBeatRace | CallsReturn | The second element fills the heart beat channel of a client for ever, with the lock of the pool held ("notify all sub ws client", client.go:149). Two positive rates do it, and so does one next to another setter: the loops hand down the field, not the argument, so both send. |
| PoolNewClient | NewHasSettings | A new client does not get the automatic connect and the heart beat rate of the pool, nor a message type set while it dials. With `CallbackKnowsId`: the read callback may run before the client has its id. |
| ServerAgain | NoPanic | Register, remove, register: gin still has the route and panics ("router uri had exists" is for uris in use, server.go:309). |
| ServerNameTwice | RegistryExact | A second uri for one name replaces the router of the first, which runs on and cannot be removed. |
| ServerRemoveTwice | KeptIsServed | Two removals of one name count down twice, and the maps are emptied with a router in them. |
| ServerResetRace | KeptIsFound | The last removal empties the maps under a registration. |

`ConnCounts` is one more that holds: CountExact for three connections that nobody closes.

## 4. Fairness

Weak fairness is assumed of what Go's scheduler guarantees: a goroutine that can run, runs;
callbacks return; time passes (`Expire`: an active connection becomes inactive, which in ConnLifecycle is
only assumed of sockets nobody reads from). Strong fairness is assumed of taking a lock
(`AddConnectMaps` and `CloseConnMaps` in ConnLifecycle, `Lock`, `AddConnect` and `CloseConn` in Broadcast, `QuitGroup` and `SendStep` in Groups; in `ClientPool` of every step of a call, since nearly all
of them take the lock of the pool), because a `sync.Mutex` in starvation mode goes to its longest waiter, and of
the periodic visit of the active check in `Broadcast` (`TickClose`), which comes back to a connection every
period. A send is assumed to come to an end (`WriteEnd`): it writes to finitely many connections. No fairness is assumed
of peers: they need not answer, read or go away. Three kinds of properties say what they need of them. `DeadIsCleaned` and `CallsReturn` of
ConnLifecycle hold if the peers read from some time on (`PeersRead`), for a write has no deadline, neither that of the
close frame nor that of a send, which holds the lock of the bucket; `DeadIsReclaimed` does not need it, but it needs that nothing more is
written to the dead connection. GroupLive has peers that always read (`Stalls = FALSE`); GroupStalled is what happens
otherwise. In BroadcastLive peers stop reading for good and it is the active check that frees the sender: a peer that stalls there
is a host that has vanished, which sends nothing either and so becomes inactive. Nothing is assumed of the application: it need not call anything. Deadlock is checked in all
modules but `Broadcast`, where a stalled peer without an active check really stops
a sender, and a crashed program stops.

## 5. Proofs

The theorems hold for any number of connections, buckets, goroutines, names and so on, and for
every mixture of options that their statements do not exclude. They rest on the assumptions on the
constants (`ConstantsAssumption`, `PoolConstants` ...), which TLC evaluates in the runs, and on those in
the statements. Every invariant that the passing runs check, the two action properties and the refinement are
proved. The argument is the same in each module: a `Shape` or `TypeOK` that is strong enough to be inductive, an
invariant per question, one lemma per part with one step per action, and frame lemmas that say
what the other steps leave alone.

### ConnLifecycleProofs

- `Typing`: `[]TypeOK`. A connection id in a map, a call or a ticker is one that was handed out.
- `DeletedIsClosed`, `LiveStaysInBucket`: without an active check, `[]BucketInv` and so `[]LiveInBucket`.
  (With one it is false: TickerDropsLive.)
- `OwnAddressIsListed`, `LiveStaysListed`: if no peer reuses an address, `[]AddressInv` and so `[]LiveListed`, with
  or without an active check. (With reuse it is false: the clean-up of the old connection removes the new entry.)

A step that deletes an entry has to know that the connection it deletes is not live any more. `Inv` adds this:

- `FreshIds`, `NoDangling`: an id that was not handed out has no socket and occurs nowhere,
  so accepting a connection disturbs nobody's invariant;
- `Wired`: a goroutine inside a close call has a connection for it, and a timer is armed only
  after its Entry has finished;
- `ClosersClosed`: whoever is about to delete an entry by id has closed its socket,
  whoever is about to delete an address has written a close frame to its socket;
- `ReaderClosed`: a read loop takes entries out only after a read has failed, and a read
  that has failed fails for good (`SockStep`).

`BucketInv` then adds `MappedInBucket`, and that there is no ticker; `AddressInv` adds `ListedByAddr` and
`OwnAddress`. The frame lemmas (`SockFrame`, `EntryFrame` ...) say once which actions change which
variable, so that the proof of each part only looks at those.

### ConnRefinementProofs

`Refinement`: without an active check and without reuse of addresses, `Spec => ImplementsRegistry`. Each step
of ConnLifecycle is shown to be one abstract action or a stutter, by the variables it touches: closing a
socket is Die, WriteClose is BeginClose, AddConnectMaps is List, deleting from `connMap` is Drop, deleting
an address is Erase. The guards of the abstract actions are where the work is: Drop needs the
connection dead (`ClosersClosed`, `ReaderClosed`), Enter needs the address free and Erase needs its connection
not open. For these `RefInv` adds `RemoteOwn` to the invariants above: an entry of the address map is
for a connection that has this address and whose Accept has made the entry. With an active check the
theorem is false, as `freeRunMemory` drops live connections; with reuse an entry is replaced.

`RefusedAreClosed`: if nothing but its own timer and read loop closes a connection (no callers, no active
check, no reuse of addresses), a refused connection is closed before the closed callback is called. The invariant
follows the timer: its own connection is the only one it can find (`TimerOwn`, from `RemoteOwn`), as long as that is up
its address leads to it (`ListedUp`), nobody else writes close frames (`ClosingOwn`), and once the timer is past the
close the socket is down (`TimerDone`).

### RouterQuitProofs

`QuitLeavesOnlyLate`: `QuitSpec => []OnlyLateRemain`. `Disturbs` says what any goroutine but Quit may do to the
maps: take entries away, and add a connection that is in its Accept, where nobody else comes in after
the bucket was deleted from the manager; until then those who do are late. One lemma shows it for every action of ConnLifecycle; `EmptiedForLate` is then
inductive, and `AddressesOfLate` follows when Cleanup has run. `QuitKeepsShape`: `QuitSpec => []QuitTypeOK`. The
invariant `Inv` of ConnLifecycleProofs stays inductive: most steps are steps of ConnLifecycle (`StepsOfRouter`), what Quit
does only forgets entries (`ForgettingKeepsInv`), and a connection that finds no bucket is in no map (`LostKeepsInv`). Neither
theorem has a condition on the options.

### GroupsProofs

- `GroupTyping` `[]TypeOK`, with `CreatesFit`: the objects made, and the CreateGroup calls between their
  two critical sections, together keep to `MaxObjs`, although any number of calls may be there.
- `MembersOnly` `OnlyMembersGet`, for every mixture of operations. `Sending`: whoever is in SendMessage has the
  lock of its group, alone; every step that changes members waits for that lock.
- `GroupIdFinds`, `NoDeadMembers`: `[]GroupIdRight` and `[]NoGhost`, under `JoinsInCallback`: a connection joins in its own read
  callback and quits one group before it joins another, and only the read loops close. `Belong` follows
  a member through the close path of its own read loop: until that has come to the object, the group id
  leads to it. All this is asked for by the code: a connection has room for one id, and `resetConnGroupId` reads it with
  no lock, so a join during a close hides itself (GroupCloseRace shows it). GroupReaders is an instance.
- `StaysMember` `[]MembershipHeld`, under `KeepsGroups`: one goroutine creates the groups, and nothing removes or
  clears them or quits; joins, closes by anybody and the active check are not restricted. `Kept` says that no group in the map is
  replaced, which two creators can do (GroupTwice); `Closes` that a close call which takes a connection out of
  its group ends with that connection down. GroupLive is an instance.

### BroadcastProofs

- `BroadcastTyping` `[]TypeOK`, which contains `LocksHeld`: a lock that is held is held by a goroutine in the loop of that bucket,
  or in AddConnect between insertion and count.
- `OnlyFitGetIt` `[]OnlyFit`. `FitFor`: every fit connection is in `may` at any time of the call, so what `Visit` lets pass,
  with the attributes it has read, is in it too (`PassesIsFit` relates the filters of the bucket to what the caller asks for).
- `AllFitGetIt` `Delivered`, under `TypeSet`: a message type was set with SetMessageType. (Without it every write fails:
  BroadcastNoType.) `ReachFor` says of each connection in `must`, but for those in `lost`, that it has been reached, or its bucket
  is still to come, or the loop is in its bucket and has not come to it. An open connection leaves its bucket in one way only,
  by the active check, when `freeRunMemory` empties the bucket (`OpenStays`): it is in `lost` then, and the exception of the property.

### WSClientProofs

- `ClientTyping` `[]TypeOK`, with `Started`: a dial has its read loop, or somebody is about to start it. That two
  dials which run at once get different sockets is part of the induction (`Wired`).
- `StaysClosedForGood` `[]ClosedForGood`, and `OneConnectsAtATime` `[]OneDialByFlag`. As long as `overlapped` is false, one
  goroutine at a time is past the check of `isConnecting`, while there is no connection (`OneConnects`): `overlapped`
  gives that for the way from the check to the first store only, the rest is due to the flag and to the paths that
  take it back. A socket is open only as the connection or on its way there (`NoneLost`); `close` forgets a connection it has closed (`OneCloses`); and a closed client has no
  connection and nobody dialling (`Shut`). Once `overlapped` is true none of these holds, and ClientSendClose and ClientTwoDials show it.

### ClientPoolProofs

- `PoolForgetsNoConnection` `[]LeftIsClosed`. Whoever creates a client has it alone until it is given (`Private`). A client that
  was given is connected exactly until somebody has taken its connection, and from then on forced closed or about to be
  (`Closing`), so a dial that finds it without a connection and not forced closed has met a `close()` half way, which is what
  `late` says (`Handling`); and CloseConn closes before it removes.
- `SettingsAreHandedDown` `[]SettingsReach`. `Cover`: a client that was there when a setting was made has it, or somebody is still
  on the way to hand over the field as it will be then (`Pending`). It is inductive because the loops read the field and not
  the argument; for the message type, which is handed down by argument, nothing of the kind is claimed.
- `PoolTyping` `[]TypeOK`. `Holds`: who is in a loop has the lock, alone, and the clients it still comes to are in the map. `Ids`: the
  generator is the number of clients that have an id.

### ServerProofs

- `ServerTyping` `[]TypeOK`, with no condition.
- `KeptRoutersAreServed` `[]KeptIsServed` and `RegistryStaysExact` `[]RegistryExact`, under `OwnNames`: no two goroutines register or remove the
  same name, and names and uris belong together one to one. The code checks and stores in separate steps and takes the
  name for the key, so it needs this: ServerNameTwice and ServerRemoveTwice show what happens otherwise. ServerOwn is an instance.

`Consistent` is `Base` (TypeOK; `Fresh`: a router in the making is nobody else's; `Wired`: a call is about what its goroutine
was given) and, as long as `raced` is false, `Calm`: how far each registration and removal has come in the two maps
(`RegisterOK`, `RemoveOK`), that a name nobody is at has its router, uri and a route in an engine or none of them (`FreeOK`), that who replaces the maps
replaces empty ones (`EmptyOK`), how far Quit has come (`QuitOK`), that no router is lost (`MadeOK`), and that `routerCount` is the
size of `Counted`, the names whose routers the counter knows of: it runs behind the map, so the plain equality is not inductive.

### Only model-checked

The liveness properties (TLAPS has no ENABLED and no fairness reasoning here): DeadIsCleaned,
DeadIsReclaimed, DeadLeaves, CallsReturn, SendsReturn, AcceptReturns, DialEnds and LoopsEnd. CountExact is in no run and
not proved (section 7).

## 6. Not modelled, and why

- `Bucket.readLoop`, `cbForReadConnData`, the message queue: not started by `interInit`.
- `Bucket.CloseWithMessage`: not part of IBucket, not called.
- `Coder`, `base`, `define`: conversions and constants without state.
- Contents, sizes and compression of messages: no guard depends on them.
- The examples and the test, which are programs that use the library.
- gorilla/websocket, gin and the Go runtime are external: modelled by what the code
  under src relies on (one writer at a time, a failed connection fails for good, a
  panic or fatal error on concurrent writes, fair scheduling).

Abstractions worth knowing: a `WSConn.Write` that the application calls itself, without the lock of the bucket, is in Broadcast only;
connection ids are unique (a generator of the application must see to
that); `Broadcast` has no close calls of the application and no groups, and `Groups` has no
accepts; a read callback returns and does not call back into the operation that runs it,
other than as the constants `CallbackOps` allow. `ConnLifecycle` and `RouterQuit` have no groups. `Server` takes a
router for a number, and `ClientPool` a client for its connection and its flag: that a dial is refused while another is
under way (`isConnecting`) is there one of the ways `Redial` may end (WSClient has it in full).

## 7. Plan

Done in this order: ConnLifecycle and its proofs, Groups, WSClient, Broadcast, RouterQuit, Server,
ClientPool, ConnRegistry with the refinement, and the proofs about all of them. What is left:

1. A proof of `CountExact` (no active check, and only the read loops close; TLC finds it to hold for three
   connections with `ConnCounts.cfg`), which needs the bucket lock as a part of the invariant.
2. A refinement for sending: Broadcast and Groups as implementations of one delivery to a set
   of receivers that is fixed connection by connection.
3. Quit next to groups.
