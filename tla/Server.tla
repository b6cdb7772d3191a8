-------------------------------- MODULE Server --------------------------------
(***************************************************************************)
(* The registry of server.go: RegisterUri, RemoveUriByName, Quit, SetGin   *)
(* and StartGin, called by several goroutines of the application.          *)
(*                                                                         *)
(* The two sync.Maps and the counter are atomic one by one, no lock holds  *)
(* them together: one action is one access.  A gin engine is never told    *)
(* to forget a route: in it a uri leads for ever to the router it was      *)
(* registered with.  SetGin puts another engine into the place of the one  *)
(* that has the routes, which the server then does not know of any more.   *)
(* A router is a number here; what its Quit does is the subject of         *)
(* RouterQuit.                                                             *)
(***************************************************************************)
EXTENDS Integers, FiniteSets

CONSTANTS
  Callers,    \* application goroutines
  Names,      \* router names
  Uris,       \* uris of routers
  Engines,    \* the gin engines the application may set
  None,       \* no name, no uri, no engine
  Methods,    \* request methods
  Choices,    \* the sets of methods a uri is registered for: one, or Any
  Registers,  \* what each goroutine registers: pairs of a name and a uri
  Removes,    \* the names each goroutine removes
  Quitters,   \* the goroutines that call Quit
  MaxRouters  \* bound on the number of routers made

Routers  == 1 .. MaxRouters
NoRouter == 0

\* What engines may know: a router for every uri and method.
RouteTables == [Engines -> [Uris -> [Methods -> Routers \cup {NoRouter}]]]

ASSUME ServerConstants ==
  /\ MaxRouters \in Nat
  /\ None \notin Names \cup Uris \cup Engines
  /\ Choices \subseteq (SUBSET Methods) \ {{}}
  /\ Registers \in [Callers -> SUBSET (Names \X Uris)]
  /\ Removes \in [Callers -> SUBSET Names]
  /\ Quitters \subseteq Callers

VARIABLES
  gin,         \* the engine that SetGin was called with last
  started,     \* Server.started
  routes,      \* the routes of every engine
  routerUris,  \* uri -> name
  routers,     \* name -> router
  routerCount,
  made,        \* routers made so far
  stopped,     \* routers that have quit
  pc,          \* where each goroutine is
  name, uri,   \* the name and the uri its call is about
  router,      \* the router its call has made or found
  todo,        \* names the Range of Quit has not produced yet
  kept,        \* registered by a call that returned, and not removed since
  raced,       \* has a call that empties the maps overlapped another one?
  crashed      \* gin has panicked

registry == <<routerUris, routers, routerCount>>
routing  == <<routes, made, stopped>>
engine   == <<gin, started>>
call     == <<name, uri, router, todo>>
locals   == <<pc, call>>
vars     == <<engine, registry, routing, locals, kept, raced, crashed>>

Init ==
  /\ gin = None /\ started = FALSE
  /\ routes = [g \in Engines |-> [u \in Uris |-> [m \in Methods |-> NoRouter]]]
  /\ routerUris = [u \in Uris |-> None]
  /\ routers = [n \in Names |-> NoRouter]
  /\ routerCount = 0
  /\ made = 0 /\ stopped = {}
  /\ pc = [p \in Callers |-> "idle"]
  /\ name = [p \in Callers |-> None]
  /\ uri = [p \in Callers |-> None]
  /\ router = [p \in Callers |-> NoRouter]
  /\ todo = [p \in Callers |-> {}]
  /\ kept = [n \in Names |-> NoRouter]
  /\ raced = FALSE /\ crashed = FALSE

Goto(p, at) == pc' = [pc EXCEPT ![p] = at]

Registering(p) == pc[p] \in {"route", "uri", "router", "add"}
Quitting(p)    == pc[p] \in {"range", "stop", "drop", "less", "last", "clear"}
Emptying(p)    == Quitting(p) \/ pc[p] \in {"zero", "reset"}

Return(p) ==
  /\ Goto(p, "idle")
  /\ name' = [name EXCEPT ![p] = None]
  /\ uri' = [uri EXCEPT ![p] = None]
  /\ router' = [router EXCEPT ![p] = NoRouter]

-----------------------------------------------------------------------------
(* The engine.                                                             *)

\* Any engine but nil, at any time: also one that replaces an engine with routes.
SetGin(p, g) ==
  /\ pc[p] = "idle"
  /\ gin' = g
  /\ UNCHANGED <<started, registry, routing, locals, kept, raced, crashed>>

\* `if f.started` ...
StartGin(p) ==
  /\ pc[p] = "idle" /\ gin # None /\ ~started
  /\ Goto(p, "run")
  /\ UNCHANGED <<engine, registry, routing, call, kept, raced, crashed>>

\* ... f.started = true and go f.gin.Run().
RunGin(p) ==
  /\ pc[p] = "run"
  /\ started' = TRUE
  /\ Goto(p, "idle")
  /\ UNCHANGED <<gin, registry, routing, call, kept, raced, crashed>>

-----------------------------------------------------------------------------
(* RegisterUri.                                                            *)

\* GetUriName finds nothing for the uri, and a router is made.
RegisterUri(p, n, u) ==
  /\ pc[p] = "idle" /\ <<n, u>> \in Registers[p] /\ gin # None /\ made < MaxRouters
  /\ routerUris[u] = None
  /\ Goto(p, "route")
  /\ name' = [name EXCEPT ![p] = n]
  /\ uri' = [uri EXCEPT ![p] = u]
  /\ made' = made + 1
  /\ router' = [router EXCEPT ![p] = made + 1]
  /\ raced' = (raced \/ \E q \in Callers : Emptying(q))
  /\ UNCHANGED <<engine, registry, routes, stopped, todo, kept, crashed>>

\* f.gin.GET, POST or Any of the engine that is set by now: gin panics when the uri has a
\* handler for the method.
AddRoute(p) ==
  LET u == uri[p] IN
  /\ pc[p] = "route"
  /\ \E ms \in Choices :
       IF \E m \in ms : routes[gin][u][m] # NoRouter
         THEN crashed' = TRUE /\ UNCHANGED <<routes, pc>>
         ELSE /\ routes' = [routes EXCEPT ![gin][u] =
                             [m \in Methods |-> IF m \in ms THEN router[p] ELSE @[m]]]
              /\ Goto(p, "uri")
              /\ UNCHANGED crashed
  /\ UNCHANGED <<engine, registry, made, stopped, call, kept, raced>>

StoreUri(p) ==
  /\ pc[p] = "uri"
  /\ routerUris' = [routerUris EXCEPT ![uri[p]] = name[p]]
  /\ Goto(p, "router")
  /\ UNCHANGED <<engine, routers, routerCount, routing, call, kept, raced, crashed>>

StoreRouter(p) ==
  /\ pc[p] = "router"
  /\ routers' = [routers EXCEPT ![name[p]] = router[p]]
  /\ Goto(p, "add")
  /\ UNCHANGED <<engine, routerUris, routerCount, routing, call, kept, raced, crashed>>

AddOne(p) ==
  /\ pc[p] = "add"
  /\ routerCount' = routerCount + 1
  /\ kept' = [kept EXCEPT ![name[p]] = router[p]]
  /\ Return(p)
  /\ UNCHANGED <<engine, routerUris, routers, routing, todo, raced, crashed>>

-----------------------------------------------------------------------------
(* RemoveUriByName.                                                        *)

\* GetRouter: the counter and the map of routers.
RemoveUriByName(p, n) ==
  /\ pc[p] = "idle" /\ n \in Removes[p]
  /\ routerCount > 0 /\ routers[n] # NoRouter
  /\ Goto(p, "find")
  /\ name' = [name EXCEPT ![p] = n]
  /\ router' = [router EXCEPT ![p] = routers[n]]
  /\ kept' = [kept EXCEPT ![n] = NoRouter]
  /\ raced' = (raced \/ \E q \in Callers : Quitting(q))
  /\ UNCHANGED <<engine, registry, routing, uri, todo, crashed>>

UrisOf(n) == {u \in Uris : routerUris[u] = n}

\* GetUri: the first uri that the Range of routerUris produces for the name.
FindUri(p) ==
  /\ pc[p] = "find"
  /\ \/ UrisOf(name[p]) = {} /\ UNCHANGED uri
     \/ \E u \in UrisOf(name[p]) : uri' = [uri EXCEPT ![p] = u]
  /\ Goto(p, "quit")
  /\ UNCHANGED <<engine, registry, routing, name, router, todo, kept, raced, crashed>>

\* router.Quit().
QuitRouter(p) ==
  /\ pc[p] = "quit"
  /\ stopped' = stopped \cup {router[p]}
  /\ Goto(p, "delete")
  /\ UNCHANGED <<engine, registry, routes, made, call, kept, raced, crashed>>

\* f.routers.Delete(name).
DeleteRouter(p) ==
  /\ pc[p] = "delete"
  /\ routers' = [routers EXCEPT ![name[p]] = NoRouter]
  /\ Goto(p, "forget")
  /\ UNCHANGED <<engine, routerUris, routerCount, routing, call, kept, raced, crashed>>

\* Mutant: the uri is looked up after the router was deleted, and not found.
DeleteUriNone(p) ==
  /\ pc[p] = "forget"
  /\ Goto(p, "sub")
  /\ UNCHANGED <<engine, registry, routing, call, kept, raced, crashed>>

\* f.routerUris.Delete(uri).
DeleteUri(p) ==
  /\ pc[p] = "forget"
  /\ IF uri[p] = None THEN UNCHANGED routerUris
                      ELSE routerUris' = [routerUris EXCEPT ![uri[p]] = None]
  /\ Goto(p, "sub")
  /\ UNCHANGED <<engine, routers, routerCount, routing, call, kept, raced, crashed>>

SubOne(p) ==
  /\ pc[p] = "sub"
  /\ routerCount' = routerCount - 1
  /\ Goto(p, "check")
  /\ UNCHANGED <<engine, routerUris, routers, routing, call, kept, raced, crashed>>

\* Mutant: the last router does not count.
CheckLast(p) ==
  /\ pc[p] = "check"
  /\ IF routerCount <= 1
       THEN /\ Goto(p, "zero")
            /\ UNCHANGED <<name, uri, router>>
            /\ raced' = (raced \/ \E q \in Callers : Registering(q))
       ELSE Return(p) /\ UNCHANGED raced
  /\ UNCHANGED <<engine, registry, routing, todo, kept, crashed>>

\* if f.routerCount <= 0 ...
CheckNone(p) ==
  /\ pc[p] = "check"
  /\ IF routerCount <= 0
       THEN /\ Goto(p, "zero")
            /\ UNCHANGED <<name, uri, router>>
            /\ raced' = (raced \/ \E q \in Callers : Registering(q))
       ELSE Return(p) /\ UNCHANGED raced
  /\ UNCHANGED <<engine, registry, routing, todo, kept, crashed>>

\* ... the counter is stored ...
StoreZero(p) ==
  /\ pc[p] = "zero"
  /\ routerCount' = 0
  /\ Goto(p, "reset")
  /\ UNCHANGED <<engine, routerUris, routers, routing, call, kept, raced, crashed>>

\* ... and both maps are replaced.
ResetMaps(p) ==
  /\ pc[p] = "reset"
  /\ routers' = [n \in Names |-> NoRouter]
  /\ routerUris' = [u \in Uris |-> None]
  /\ Return(p)
  /\ UNCHANGED <<engine, routerCount, routing, todo, kept, raced, crashed>>

-----------------------------------------------------------------------------
(* Quit.                                                                   *)

Quit(p) ==
  /\ pc[p] = "idle" /\ p \in Quitters /\ routerCount > 0
  /\ Goto(p, "range")
  /\ todo' = [todo EXCEPT ![p] = Names]
  /\ kept' = [n \in Names |-> NoRouter]
  /\ raced' = (raced \/ \E q \in Callers \ {p} : pc[q] \notin {"idle", "run"})
  /\ UNCHANGED <<engine, registry, routing, name, uri, router, crashed>>

\* Mutant: the value of the map is not looked at.
QuitNextBlind(p) ==
  /\ pc[p] = "range"
  /\ \/ \E n \in todo[p] :
          /\ todo' = [todo EXCEPT ![p] = @ \ {n}]
          /\ name' = [name EXCEPT ![p] = n]
          /\ router' = [router EXCEPT ![p] = routers[n]]
          /\ Goto(p, "stop")
     \/ /\ todo[p] = {}
        /\ Goto(p, "last")
        /\ UNCHANGED <<name, router, todo>>
  /\ UNCHANGED <<engine, registry, routing, uri, kept, raced, crashed>>

\* Range gives every name once, with the router it has at that moment.
QuitNext(p) ==
  /\ pc[p] = "range"
  /\ LET left == {n \in todo[p] : routers[n] # NoRouter} IN
     \/ \E n \in left :
          /\ todo' = [todo EXCEPT ![p] = @ \ {n}]
          /\ name' = [name EXCEPT ![p] = n]
          /\ router' = [router EXCEPT ![p] = routers[n]]
          /\ Goto(p, "stop")
     \/ /\ left = {}
        /\ todo' = [todo EXCEPT ![p] = {}]
        /\ Goto(p, "last")
        /\ UNCHANGED <<name, router>>
  /\ UNCHANGED <<engine, registry, routing, uri, kept, raced, crashed>>

QuitStop(p) ==
  /\ pc[p] = "stop"
  /\ stopped' = stopped \cup {router[p]}
  /\ Goto(p, "drop")
  /\ UNCHANGED <<engine, registry, routes, made, call, kept, raced, crashed>>

QuitDrop(p) ==
  /\ pc[p] = "drop"
  /\ routers' = [routers EXCEPT ![name[p]] = NoRouter]
  /\ Goto(p, "less")
  /\ UNCHANGED <<engine, routerUris, routerCount, routing, call, kept, raced, crashed>>

QuitLess(p) ==
  /\ pc[p] = "less"
  /\ routerCount' = routerCount - 1
  /\ Goto(p, "range")
  /\ UNCHANGED <<engine, routerUris, routers, routing, call, kept, raced, crashed>>

\* The counter is stored if it is 0 or less, in any case the maps are replaced.
QuitLast(p) ==
  /\ pc[p] = "last"
  /\ routerCount' = IF routerCount <= 0 THEN 0 ELSE routerCount
  /\ Goto(p, "clear")
  /\ UNCHANGED <<engine, routerUris, routers, routing, call, kept, raced, crashed>>

QuitClear(p) ==
  /\ pc[p] = "clear"
  /\ routers' = [n \in Names |-> NoRouter]
  /\ routerUris' = [u \in Uris |-> None]
  /\ Return(p)
  /\ UNCHANGED <<engine, routerCount, routing, todo, kept, raced, crashed>>

-----------------------------------------------------------------------------
RegisterStep(p) == AddRoute(p) \/ StoreUri(p) \/ StoreRouter(p) \/ AddOne(p)

RemoveStep(p) ==
  \/ FindUri(p) \/ QuitRouter(p) \/ DeleteRouter(p) \/ DeleteUri(p) \/ SubOne(p)
  \/ CheckNone(p) \/ StoreZero(p) \/ ResetMaps(p)

QuitStep(p) ==
  \/ QuitNext(p) \/ QuitStop(p) \/ QuitDrop(p) \/ QuitLess(p) \/ QuitLast(p)
  \/ QuitClear(p)

AppCall(p) ==
  \/ StartGin(p) \/ Quit(p) \/ \E g \in Engines : SetGin(p, g)
  \/ \E n \in Names : RemoveUriByName(p, n) \/ \E u \in Uris : RegisterUri(p, n, u)

AtRest == \A p \in Callers : pc[p] \in {"idle", "run"}

\* The application may stop whenever no call is under way.
Finished == (crashed \/ AtRest) /\ UNCHANGED vars

Next ==
  \/ \E p \in Callers :
       ~crashed /\ (AppCall(p) \/ RunGin(p) \/ RegisterStep(p) \/ RemoveStep(p) \/ QuitStep(p))
  \/ Finished

Spec == Init /\ [][Next]_vars

-----------------------------------------------------------------------------
\* The state keeps its shape; a call that has a router to store or to stop knows it and
\* its name, and one that registers finds an engine.
TypeOK ==
  /\ gin \in Engines \cup {None} /\ started \in BOOLEAN
  /\ routes \in RouteTables
  /\ routerUris \in [Uris -> Names \cup {None}]
  /\ routers \in [Names -> Routers \cup {NoRouter}]
  /\ routerCount \in Int
  /\ made \in 0 .. MaxRouters /\ stopped \subseteq Routers
  /\ pc \in [Callers -> {"idle", "run", "route", "uri", "router", "add", "find", "quit",
                         "delete", "forget", "sub", "check", "zero", "reset", "range",
                         "stop", "drop", "less", "last", "clear"}]
  /\ name \in [Callers -> Names \cup {None}]
  /\ uri \in [Callers -> Uris \cup {None}]
  /\ router \in [Callers -> Routers \cup {NoRouter}]
  /\ todo \in [Callers -> SUBSET Names]
  /\ kept \in [Names -> Routers \cup {NoRouter}]
  /\ raced \in BOOLEAN /\ crashed \in BOOLEAN
  /\ \A p \in Callers :
       /\ Registering(p) => gin # None /\ uri[p] # None
       /\ Registering(p) \/ pc[p] \in {"find", "quit", "delete", "forget", "stop", "drop"}
            => name[p] # None /\ router[p] # NoRouter

\* A router whose registration has returned is found until its removal begins, whatever
\* the others register, remove and set meanwhile: by its name and by its one uri; and it
\* runs, with a route for that uri in an engine (which SetGin may have replaced since).
KeptIsFound ==
  \A n \in Names : kept[n] # NoRouter =>
    /\ routers[n] = kept[n] /\ kept[n] \notin stopped
    /\ \E u \in Uris : /\ UrisOf(n) = {u}
                       /\ \E g \in Engines, m \in Methods : routes[g][u][m] = kept[n]

\* So it is as long as no call that empties the maps overlaps another one.
KeptIsServed == ~raced => KeptIsFound

\* Between two calls the registry is consistent: the counter is the number of routers,
\* and every router that requests may reach is registered or has quit.
RegistryExact ==
  AtRest /\ ~raced =>
    /\ routerCount = Cardinality({n \in Names : routers[n] # NoRouter})
    /\ \A u \in Uris : routerUris[u] # None => routers[routerUris[u]] # NoRouter
    /\ \A r \in 1 .. made : r \in stopped <=> \A n \in Names : routers[n] # r

\* gin never panics: what is registered twice is refused with an error.
NoPanic == ~crashed

===============================================================================
