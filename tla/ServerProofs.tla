----------------------------- MODULE ServerProofs -----------------------------
(***************************************************************************)
(* The registry of the server, for any number of goroutines, names and     *)
(* uris.  The typing and the bookkeeping of routers hold whatever the      *)
(* application does.  That the registry is consistent, and that what is    *)
(* registered is served, takes names and uris that no two goroutines and   *)
(* no two registrations share: the accesses of a call are atomic one by    *)
(* one only.                                                               *)
(***************************************************************************)
EXTENDS Server, FiniteSetTheorems, TLAPS

NamesOf(p) == {n \in Names : n \in Removes[p] \/ \E u \in Uris : <<n, u>> \in Registers[p]}

Registered(n, u) == \E p \in Callers : <<n, u>> \in Registers[p]

\* Every name is for one goroutine, and a name has one uri.
OwnNames ==
  /\ IsFiniteSet(Names)
  /\ \A p, q \in Callers : p # q => NamesOf(p) \cap NamesOf(q) = {}
  /\ \A n, m \in Names, u, v \in Uris :
       Registered(n, u) /\ Registered(m, v) => (n = m <=> u = v)

Removing(p) == pc[p] \in {"find", "quit", "delete", "forget", "sub"}
Holds(p)    == Registering(p) \/ Removing(p)

-----------------------------------------------------------------------------
(* Without any assumption on names.                                        *)

LEMMA TypeInit == Init => TypeOK
<1>1. 0 \in 0 .. MaxRouters
  BY ServerConstants
<1> SUFFICES ASSUME Init PROVE TypeOK
  OBVIOUS
<1>2. routes \in RouteTables
  BY DEF Init, RouteTables
<1>3. \A p \in Callers : pc[p] = "idle"
  BY DEF Init
<1>4. /\ routerUris \in [Uris -> Names \cup {None}]
      /\ routers \in [Names -> Routers \cup {NoRouter}]
      /\ pc \in [Callers -> {"idle"}]
      /\ name \in [Callers -> Names \cup {None}] /\ uri \in [Callers -> Uris \cup {None}]
      /\ router \in [Callers -> Routers \cup {NoRouter}]
      /\ todo \in [Callers -> SUBSET Names] /\ kept \in [Names -> Routers \cup {NoRouter}]
  BY DEF Init
<1>5. gin = None /\ started \in BOOLEAN /\ raced \in BOOLEAN /\ crashed \in BOOLEAN
  BY ZenonT(20) DEF Init
<1>6. routerCount \in Int /\ made \in 0 .. MaxRouters /\ stopped \subseteq Routers
  BY <1>1 DEF Init
<1> QED
  BY <1>2, <1>3, <1>4, <1>5, <1>6 DEF TypeOK, Registering

LEMMA TypeStep ==
  ASSUME TypeOK, [Next]_vars
  PROVE  TypeOK'
<1> USE ServerConstants
<1>1. CASE UNCHANGED vars
  BY <1>1 DEF vars, registry, routing, engine, call, locals, TypeOK, Registering, NoRouter
<1>2. ASSUME NEW p \in Callers, NEW g \in Engines, SetGin(p, g) PROVE TypeOK'
  BY <1>2 DEF SetGin, Goto, registry, routing, engine, call, locals,
     TypeOK, Registering, NoRouter
<1>3. ASSUME NEW p \in Callers, StartGin(p) PROVE TypeOK'
  BY <1>3 DEF StartGin, Goto, registry, routing, engine, call, locals,
     TypeOK, Registering, NoRouter
<1>4. ASSUME NEW p \in Callers, Quit(p) PROVE TypeOK'
  BY <1>4 DEF Quit, Goto, registry, routing, engine, call, locals,
     TypeOK, Registering, NoRouter
<1>5. ASSUME NEW p \in Callers, RunGin(p) PROVE TypeOK'
  BY <1>5 DEF RunGin, Goto, registry, routing, engine, call, locals,
     TypeOK, Registering, NoRouter
<1>6. ASSUME NEW p \in Callers, AddRoute(p) PROVE TypeOK'
  <2>1. /\ pc[p] = "route" /\ crashed' \in BOOLEAN
        /\ UNCHANGED <<engine, registry, made, stopped, call, kept, raced>>
        /\ pc' \in {pc, [pc EXCEPT ![p] = "uri"]}
    BY <1>6 DEF AddRoute, Goto, TypeOK
  <2>2. gin \in Engines /\ uri[p] \in Uris /\ router[p] \in Routers
    BY <2>1 DEF TypeOK, Registering, NoRouter
  <2>3. routes' \in RouteTables
    <3> DEFINE Table == [Uris -> [Methods -> Routers \cup {NoRouter}]]
    <3>2. routes \in [Engines -> Table] /\ RouteTables = [Engines -> Table]
      BY DEF TypeOK, RouteTables
    <3> PICK ms : \/ UNCHANGED routes
                  \/ routes' = [routes EXCEPT ![gin][uri[p]] =
                       [m \in Methods |-> IF m \in ms THEN router[p] ELSE routes[gin][uri[p]][m]]]
      BY <1>6 DEF AddRoute
    <3>1. [m \in Methods |-> IF m \in ms THEN router[p] ELSE routes[gin][uri[p]][m]]
            \in [Methods -> Routers \cup {NoRouter}]
      BY <2>2, <3>2
    <3>3. \A t \in Table, f \in [Methods -> Routers \cup {NoRouter}], u \in Uris :
            [t EXCEPT ![u] = f] \in Table
      OBVIOUS
    <3>4. [routes[gin] EXCEPT ![uri[p]] =
             [m \in Methods |-> IF m \in ms THEN router[p] ELSE routes[gin][uri[p]][m]]] \in Table
      BY <2>2, <3>1, <3>2, <3>3
    <3> HIDE DEF Table
    <3> QED
      BY <2>2, <3>2, <3>4
  <2> QED
    BY <2>1, <2>3 DEF TypeOK, Registering, engine, registry, call
<1>7. ASSUME NEW p \in Callers, StoreUri(p) PROVE TypeOK'
  BY <1>7 DEF StoreUri, Goto, registry, routing, engine, call, locals,
     TypeOK, Registering, NoRouter
<1>8. ASSUME NEW p \in Callers, StoreRouter(p) PROVE TypeOK'
  BY <1>8 DEF StoreRouter, Goto, registry, routing, engine, call, locals,
     TypeOK, Registering, NoRouter
<1>9. ASSUME NEW p \in Callers, AddOne(p) PROVE TypeOK'
  BY <1>9 DEF AddOne, Return, Goto, registry, routing, engine, call, locals,
     TypeOK, Registering, NoRouter
<1>10. ASSUME NEW p \in Callers, FindUri(p) PROVE TypeOK'
  <2>1. uri' \in [Callers -> Uris \cup {None}]
    BY <1>10 DEF FindUri, UrisOf, TypeOK
  <2> QED
    BY <1>10, <2>1 DEF FindUri, Goto, registry, routing, engine, TypeOK, Registering, NoRouter
<1>11. ASSUME NEW p \in Callers, QuitRouter(p) PROVE TypeOK'
  BY <1>11 DEF QuitRouter, Goto, registry, routing, engine, call, locals,
     TypeOK, Registering, NoRouter
<1>12. ASSUME NEW p \in Callers, DeleteRouter(p) PROVE TypeOK'
  BY <1>12 DEF DeleteRouter, Goto, registry, routing, engine, call, locals,
     TypeOK, Registering, NoRouter
<1>13. ASSUME NEW p \in Callers, DeleteUri(p) PROVE TypeOK'
  BY <1>13 DEF DeleteUri, Goto, registry, routing, engine, call, locals,
     TypeOK, Registering, NoRouter
<1>14. ASSUME NEW p \in Callers, SubOne(p) PROVE TypeOK'
  BY <1>14 DEF SubOne, Goto, registry, routing, engine, call, locals,
     TypeOK, Registering, NoRouter
<1>15. ASSUME NEW p \in Callers, CheckNone(p) PROVE TypeOK'
  <2>1. CASE Return(p)
    BY <1>15, <2>1 DEF CheckNone, Return, Goto, registry, routing, engine, TypeOK,
       Registering, NoRouter
  <2>2. CASE ~Return(p)
    BY <1>15, <2>2 DEF CheckNone, Goto, registry, routing, engine, TypeOK,
       Registering, NoRouter
  <2> QED
    BY <2>1, <2>2
<1>16. ASSUME NEW p \in Callers, StoreZero(p) PROVE TypeOK'
  BY <1>16 DEF StoreZero, Goto, registry, routing, engine, call, locals,
     TypeOK, Registering, NoRouter
<1>17. ASSUME NEW p \in Callers, ResetMaps(p) PROVE TypeOK'
  BY <1>17 DEF ResetMaps, Return, Goto, registry, routing, engine, call, locals,
     TypeOK, Registering, NoRouter
<1>18. ASSUME NEW p \in Callers, QuitNext(p) PROVE TypeOK'
  <2>1. CASE \E n \in todo[p] :
               /\ routers[n] # NoRouter
               /\ todo' = [todo EXCEPT ![p] = @ \ {n}]
               /\ name' = [name EXCEPT ![p] = n]
               /\ router' = [router EXCEPT ![p] = routers[n]]
               /\ Goto(p, "stop")
    BY <1>18, <2>1, ServerConstants DEF QuitNext, Goto, registry, routing, engine, TypeOK,
       Registering
  <2>2. CASE /\ todo' = [todo EXCEPT ![p] = {}]
             /\ Goto(p, "last")
             /\ UNCHANGED <<name, router>>
    BY <1>18, <2>2 DEF QuitNext, Goto, registry, routing, engine, TypeOK, Registering
  <2> QED
    BY <1>18, <2>1, <2>2 DEF QuitNext
<1>19. ASSUME NEW p \in Callers, QuitStop(p) PROVE TypeOK'
  BY <1>19 DEF QuitStop, Goto, registry, routing, engine, call, locals,
     TypeOK, Registering, NoRouter
<1>20. ASSUME NEW p \in Callers, QuitDrop(p) PROVE TypeOK'
  BY <1>20 DEF QuitDrop, Goto, registry, routing, engine, call, locals,
     TypeOK, Registering, NoRouter
<1>21. ASSUME NEW p \in Callers, QuitLess(p) PROVE TypeOK'
  BY <1>21 DEF QuitLess, Goto, registry, routing, engine, call, locals,
     TypeOK, Registering, NoRouter
<1>22. ASSUME NEW p \in Callers, QuitLast(p) PROVE TypeOK'
  BY <1>22 DEF QuitLast, Goto, registry, routing, engine, call, locals,
     TypeOK, Registering, NoRouter
<1>23. ASSUME NEW p \in Callers, QuitClear(p) PROVE TypeOK'
  BY <1>23 DEF QuitClear, Return, Goto, registry, routing, engine, call, locals,
     TypeOK, Registering, NoRouter
<1>24. ASSUME NEW p \in Callers, NEW n \in Names, RemoveUriByName(p, n) PROVE TypeOK'
  BY <1>24 DEF RemoveUriByName, Goto, registry, routing, engine, call, locals,
     TypeOK, Registering, NoRouter
<1>25. ASSUME NEW p \in Callers, NEW n \in Names, NEW u \in Uris, RegisterUri(p, n,
     u) PROVE TypeOK'
  <2>1. made + 1 \in Routers
    BY <1>25 DEF RegisterUri, Routers, TypeOK
  <2>2. made + 1 \in 0 .. MaxRouters /\ made + 1 # NoRouter
    BY <2>1 DEF Routers, NoRouter
  <2> QED
    BY <1>25, <2>1, <2>2 DEF RegisterUri, Goto, registry, engine, TypeOK, Registering
<1> QED
  BY <1>1, <1>2, <1>3, <1>4, <1>5, <1>6, <1>7, <1>8, <1>9, <1>10, <1>11, <1>12, <1>13, 
     <1>14, <1>15, <1>16, <1>17, <1>18, <1>19, <1>20, <1>21, <1>22, <1>23, <1>24, 
     <1>25
     DEF Next, AppCall, RegisterStep, RemoveStep, QuitStep, Finished

Early(p) == pc[p] \in {"route", "uri", "router"}

\* A router in the making is no other's, and neither stored nor stopped; a router is stored
\* once.
Fresh ==
  /\ \A r \in stopped : r <= made
  /\ \A n \in Names : routers[n] <= made
  /\ \A n, m \in Names : routers[n] = routers[m] /\ routers[n] # NoRouter => n = m
  /\ \A p \in Callers : router[p] <= made
  /\ \A p, q \in Callers : Early(p) /\ router[p] = router[q] => p = q
  /\ \A p \in Callers : Early(p) =>
       router[p] \notin stopped /\ \A n \in Names : routers[n] # router[p]

LEMMA FreshStep ==
  ASSUME TypeOK, Fresh, [Next]_vars
  PROVE  Fresh'
<1>1. CASE UNCHANGED vars
  BY <1>1 DEF vars, registry, routing, engine, call, locals, TypeOK, Fresh, Early,
     Registering, NoRouter, Routers
<1>2. ASSUME NEW p \in Callers, NEW g \in Engines, SetGin(p, g) PROVE Fresh'
  BY <1>2 DEF SetGin, Goto, registry, routing, engine, call, locals,
     TypeOK, Fresh, Early, Registering, NoRouter, Routers
<1>3. ASSUME NEW p \in Callers, StartGin(p) PROVE Fresh'
  BY <1>3 DEF StartGin, Goto, registry, routing, engine, call, locals,
     TypeOK, Fresh, Early, Registering, NoRouter, Routers
<1>4. ASSUME NEW p \in Callers, Quit(p) PROVE Fresh'
  BY <1>4 DEF Quit, Goto, registry, routing, engine, call, locals,
     TypeOK, Fresh, Early, Registering, NoRouter, Routers
<1>5. ASSUME NEW p \in Callers, RunGin(p) PROVE Fresh'
  BY <1>5 DEF RunGin, Goto, registry, routing, engine, call, locals,
     TypeOK, Fresh, Early, Registering, NoRouter, Routers
<1>6. ASSUME NEW p \in Callers, AddRoute(p) PROVE Fresh'
  BY <1>6 DEF AddRoute, Goto, registry, routing, engine, call, locals,
     TypeOK, Fresh, Early, Registering, NoRouter, Routers
<1>7. ASSUME NEW p \in Callers, StoreUri(p) PROVE Fresh'
  BY <1>7 DEF StoreUri, Goto, registry, routing, engine, call, locals,
     TypeOK, Fresh, Early, Registering, NoRouter, Routers
<1>8. ASSUME NEW p \in Callers, StoreRouter(p) PROVE Fresh'
  BY <1>8 DEF StoreRouter, Goto, registry, routing, engine, call, locals,
     TypeOK, Fresh, Early, Registering, NoRouter, Routers
<1>9. ASSUME NEW p \in Callers, AddOne(p) PROVE Fresh'
  BY <1>9 DEF AddOne, Return, Goto, registry, routing, engine, call, locals,
     TypeOK, Fresh, Early, Registering, NoRouter, Routers
<1>10. ASSUME NEW p \in Callers, FindUri(p) PROVE Fresh'
  BY <1>10 DEF FindUri, Goto, registry, routing, engine, call, locals,
     TypeOK, Fresh, Early, Registering, NoRouter, Routers
<1>11. ASSUME NEW p \in Callers, QuitRouter(p) PROVE Fresh'
  BY <1>11 DEF QuitRouter, Goto, registry, routing, engine, call, locals,
     TypeOK, Fresh, Early, Registering, NoRouter, Routers
<1>12. ASSUME NEW p \in Callers, DeleteRouter(p) PROVE Fresh'
  BY <1>12 DEF DeleteRouter, Goto, registry, routing, engine, call, locals,
     TypeOK, Fresh, Early, Registering, NoRouter, Routers
<1>13. ASSUME NEW p \in Callers, DeleteUri(p) PROVE Fresh'
  BY <1>13 DEF DeleteUri, Goto, registry, routing, engine, call, locals,
     TypeOK, Fresh, Early, Registering, NoRouter, Routers
<1>14. ASSUME NEW p \in Callers, SubOne(p) PROVE Fresh'
  BY <1>14 DEF SubOne, Goto, registry, routing, engine, call, locals,
     TypeOK, Fresh, Early, Registering, NoRouter, Routers
<1>15. ASSUME NEW p \in Callers, CheckNone(p) PROVE Fresh'
  BY <1>15 DEF CheckNone, Return, Goto, registry, routing, engine, call, locals,
     TypeOK, Fresh, Early, Registering, NoRouter, Routers
<1>16. ASSUME NEW p \in Callers, StoreZero(p) PROVE Fresh'
  BY <1>16 DEF StoreZero, Goto, registry, routing, engine, call, locals,
     TypeOK, Fresh, Early, Registering, NoRouter, Routers
<1>17. ASSUME NEW p \in Callers, ResetMaps(p) PROVE Fresh'
  BY <1>17 DEF ResetMaps, Return, Goto, registry, routing, engine, call, locals,
     TypeOK, Fresh, Early, Registering, NoRouter, Routers
<1>18. ASSUME NEW p \in Callers, QuitNext(p) PROVE Fresh'
  BY <1>18 DEF QuitNext, Goto, registry, routing, engine, call, locals,
     TypeOK, Fresh, Early, Registering, NoRouter, Routers
<1>19. ASSUME NEW p \in Callers, QuitStop(p) PROVE Fresh'
  BY <1>19 DEF QuitStop, Goto, registry, routing, engine, call, locals,
     TypeOK, Fresh, Early, Registering, NoRouter, Routers
<1>20. ASSUME NEW p \in Callers, QuitDrop(p) PROVE Fresh'
  BY <1>20 DEF QuitDrop, Goto, registry, routing, engine, call, locals,
     TypeOK, Fresh, Early, Registering, NoRouter, Routers
<1>21. ASSUME NEW p \in Callers, QuitLess(p) PROVE Fresh'
  BY <1>21 DEF QuitLess, Goto, registry, routing, engine, call, locals,
     TypeOK, Fresh, Early, Registering, NoRouter, Routers
<1>22. ASSUME NEW p \in Callers, QuitLast(p) PROVE Fresh'
  BY <1>22 DEF QuitLast, Goto, registry, routing, engine, call, locals,
     TypeOK, Fresh, Early, Registering, NoRouter, Routers
<1>23. ASSUME NEW p \in Callers, QuitClear(p) PROVE Fresh'
  BY <1>23 DEF QuitClear, Return, Goto, registry, routing, engine, call, locals,
     TypeOK, Fresh, Early, Registering, NoRouter, Routers
<1>24. ASSUME NEW p \in Callers, NEW n \in Names, RemoveUriByName(p, n) PROVE Fresh'
  BY <1>24 DEF RemoveUriByName, Goto, registry, routing, engine, call, locals,
     TypeOK, Fresh, Early, Registering, NoRouter, Routers
<1>25. ASSUME NEW p \in Callers, NEW n \in Names, NEW u \in Uris, RegisterUri(p, n,
     u) PROVE Fresh'
  <2>1. /\ made' = made + 1 /\ made \in Int /\ router' = [router EXCEPT ![p] = made + 1]
        /\ pc' = [pc EXCEPT ![p] = "route"] /\ UNCHANGED <<routers, stopped>>
    BY <1>25 DEF RegisterUri, Goto, TypeOK, registry
  <2>2. /\ \A r \in stopped : r \in Int /\ r <= made
        /\ \A m \in Names : routers[m] \in Int /\ routers[m] <= made
        /\ \A q \in Callers : router[q] \in Int /\ router[q] <= made
    BY DEF TypeOK, Fresh, Routers, NoRouter
  <2>3. /\ \A q \in Callers : router'[q] = IF q = p THEN made + 1 ELSE router[q]
        /\ \A q \in Callers : Early(q)' => q = p \/ Early(q)
    BY <2>1 DEF TypeOK, Early
  <2> QED
    BY <2>1, <2>2, <2>3 DEF Fresh
<1> QED
  BY <1>1, <1>2, <1>3, <1>4, <1>5, <1>6, <1>7, <1>8, <1>9, <1>10, <1>11, <1>12, <1>13, 
     <1>14, <1>15, <1>16, <1>17, <1>18, <1>19, <1>20, <1>21, <1>22, <1>23, <1>24, 
     <1>25
     DEF Next, AppCall, RegisterStep, RemoveStep, QuitStep, Finished

\* A call is about what the application gave it to do, and the map of uris has nothing else.
Wired ==
  /\ \A p \in Callers : Registering(p) => <<name[p], uri[p]>> \in Registers[p]
  /\ \A p \in Callers : Removing(p) => name[p] \in Removes[p]
  /\ \A p \in Callers : pc[p] = "less" => name[p] \in Names
  /\ \A u \in Uris : routerUris[u] # None => Registered(routerUris[u], u)

LEMMA WiredStep ==
  ASSUME TypeOK, Wired, [Next]_vars
  PROVE  Wired'
<1>1. CASE UNCHANGED vars
  BY <1>1 DEF vars, registry, routing, engine, call, locals, TypeOK, Wired, Registering,
     Removing, Registered
<1>2. ASSUME NEW p \in Callers, NEW g \in Engines, SetGin(p, g) PROVE Wired'
  BY <1>2 DEF SetGin, Goto, registry, routing, engine, call, locals,
     TypeOK, Wired, Registering, Removing, Registered
<1>3. ASSUME NEW p \in Callers, StartGin(p) PROVE Wired'
  BY <1>3 DEF StartGin, Goto, registry, routing, engine, call, locals,
     TypeOK, Wired, Registering, Removing, Registered
<1>4. ASSUME NEW p \in Callers, Quit(p) PROVE Wired'
  BY <1>4 DEF Quit, Goto, registry, routing, engine, call, locals,
     TypeOK, Wired, Registering, Removing, Registered
<1>5. ASSUME NEW p \in Callers, RunGin(p) PROVE Wired'
  BY <1>5 DEF RunGin, Goto, registry, routing, engine, call, locals,
     TypeOK, Wired, Registering, Removing, Registered
<1>6. ASSUME NEW p \in Callers, AddRoute(p) PROVE Wired'
  BY <1>6 DEF AddRoute, Goto, registry, routing, engine, call, locals,
     TypeOK, Wired, Registering, Removing, Registered
<1>7. ASSUME NEW p \in Callers, StoreUri(p) PROVE Wired'
  BY <1>7 DEF StoreUri, Goto, registry, routing, engine, call, locals,
     TypeOK, Wired, Registering, Removing, Registered
<1>8. ASSUME NEW p \in Callers, StoreRouter(p) PROVE Wired'
  BY <1>8 DEF StoreRouter, Goto, registry, routing, engine, call, locals,
     TypeOK, Wired, Registering, Removing, Registered
<1>9. ASSUME NEW p \in Callers, AddOne(p) PROVE Wired'
  BY <1>9 DEF AddOne, Return, Goto, registry, routing, engine, call, locals,
     TypeOK, Wired, Registering, Removing, Registered
<1>10. ASSUME NEW p \in Callers, FindUri(p) PROVE Wired'
  BY <1>10 DEF FindUri, Goto, registry, routing, engine, call, locals,
     TypeOK, Wired, Registering, Removing, Registered
<1>11. ASSUME NEW p \in Callers, QuitRouter(p) PROVE Wired'
  BY <1>11 DEF QuitRouter, Goto, registry, routing, engine, call, locals,
     TypeOK, Wired, Registering, Removing, Registered
<1>12. ASSUME NEW p \in Callers, DeleteRouter(p) PROVE Wired'
  BY <1>12 DEF DeleteRouter, Goto, registry, routing, engine, call, locals,
     TypeOK, Wired, Registering, Removing, Registered
<1>13. ASSUME NEW p \in Callers, DeleteUri(p) PROVE Wired'
  BY <1>13 DEF DeleteUri, Goto, registry, routing, engine, call, locals,
     TypeOK, Wired, Registering, Removing, Registered
<1>14. ASSUME NEW p \in Callers, SubOne(p) PROVE Wired'
  BY <1>14 DEF SubOne, Goto, registry, routing, engine, call, locals,
     TypeOK, Wired, Registering, Removing, Registered
<1>15. ASSUME NEW p \in Callers, CheckNone(p) PROVE Wired'
  BY <1>15 DEF CheckNone, Return, Goto, registry, routing, engine, call, locals,
     TypeOK, Wired, Registering, Removing, Registered
<1>16. ASSUME NEW p \in Callers, StoreZero(p) PROVE Wired'
  BY <1>16 DEF StoreZero, Goto, registry, routing, engine, call, locals,
     TypeOK, Wired, Registering, Removing, Registered
<1>17. ASSUME NEW p \in Callers, ResetMaps(p) PROVE Wired'
  BY <1>17 DEF ResetMaps, Return, Goto, registry, routing, engine, call, locals,
     TypeOK, Wired, Registering, Removing, Registered
<1>18. ASSUME NEW p \in Callers, QuitNext(p) PROVE Wired'
  <2>1. /\ \E s \in {"stop", "last"} : pc' = [pc EXCEPT ![p] = s]
        /\ \A q \in Callers \ {p} : name'[q] = name[q]
        /\ UNCHANGED <<routerUris, uri>>
    BY <1>18 DEF QuitNext, Goto, registry, TypeOK
  <2> QED
    BY <2>1 DEF TypeOK, Wired, Registering, Removing, Registered
<1>19. ASSUME NEW p \in Callers, QuitStop(p) PROVE Wired'
  BY <1>19 DEF QuitStop, Goto, registry, routing, engine, call, locals,
     TypeOK, Wired, Registering, Removing, Registered
<1>20. ASSUME NEW p \in Callers, QuitDrop(p) PROVE Wired'
  BY <1>20 DEF QuitDrop, Goto, registry, routing, engine, call, locals,
     TypeOK, Wired, Registering, Removing, Registered
<1>21. ASSUME NEW p \in Callers, QuitLess(p) PROVE Wired'
  BY <1>21 DEF QuitLess, Goto, registry, routing, engine, call, locals,
     TypeOK, Wired, Registering, Removing, Registered
<1>22. ASSUME NEW p \in Callers, QuitLast(p) PROVE Wired'
  BY <1>22 DEF QuitLast, Goto, registry, routing, engine, call, locals,
     TypeOK, Wired, Registering, Removing, Registered
<1>23. ASSUME NEW p \in Callers, QuitClear(p) PROVE Wired'
  BY <1>23 DEF QuitClear, Return, Goto, registry, routing, engine, call, locals,
     TypeOK, Wired, Registering, Removing, Registered
<1>24. ASSUME NEW p \in Callers, NEW n \in Names, RemoveUriByName(p, n) PROVE Wired'
  BY <1>24 DEF RemoveUriByName, Goto, registry, routing, engine, call, locals,
     TypeOK, Wired, Registering, Removing, Registered
<1>25. ASSUME NEW p \in Callers, NEW n \in Names, NEW u \in Uris, RegisterUri(p, n,
     u) PROVE Wired'
  BY <1>25 DEF RegisterUri, Goto, registry, routing, engine, call, locals,
     TypeOK, Wired, Registering, Removing, Registered
<1> QED
  BY <1>1, <1>2, <1>3, <1>4, <1>5, <1>6, <1>7, <1>8, <1>9, <1>10, <1>11, <1>12, <1>13, 
     <1>14, <1>15, <1>16, <1>17, <1>18, <1>19, <1>20, <1>21, <1>22, <1>23, <1>24, 
     <1>25
     DEF Next, AppCall, RegisterStep, RemoveStep, QuitStep, Finished

-----------------------------------------------------------------------------
(* With names of their own, and as long as no call that empties the maps   *)
(* has overlapped another one.                                             *)

\* An engine leads from uri u to router r.
Served(u, r) == \E g \in Engines, m \in Methods : routes[g][u][m] = r

\* What a goroutine that registers has done so far.
RegisterOK ==
  \A p \in Callers : Registering(p) =>
    /\ kept[name[p]] = NoRouter
    /\ routers[name[p]] = IF pc[p] = "add" THEN router[p] ELSE NoRouter
    /\ routerUris[uri[p]] = IF pc[p] \in {"route", "uri"} THEN None ELSE name[p]
    /\ pc[p] # "route" => Served(uri[p], router[p])
    /\ router[p] \notin stopped

\* ... and one that removes.
RemoveOK ==
  \A p \in Callers : Removing(p) =>
    /\ kept[name[p]] = NoRouter
    /\ routers[name[p]] = IF pc[p] \in {"forget", "sub"} THEN NoRouter ELSE router[p]
    /\ pc[p] \in {"find", "quit"} => router[p] \notin stopped
    /\ pc[p] = "delete" => router[p] \in stopped
    /\ pc[p] = "find" => \E u \in Uris : routerUris[u] = name[p]
    /\ pc[p] \in {"quit", "delete", "forget"} => uri[p] # None /\ routerUris[uri[p]] = name[p]
    /\ pc[p] = "sub" => \A u \in Uris : routerUris[u] # name[p]

\* Nobody is at name n.
Free(n) == \A p \in Callers : ~Quitting(p) /\ (Holds(p) => name[p] # n)

FreeOK ==
  \A n \in Names : Free(n) =>
    /\ kept[n] = routers[n]
    /\ routers[n] = NoRouter => \A u \in Uris : routerUris[u] # n
    /\ routers[n] # NoRouter =>
         /\ routers[n] \notin stopped
         /\ \E u \in Uris : routerUris[u] = n /\ Served(u, routers[n])

\* Who replaces the maps replaces empty ones.
EmptyOK ==
  \A p \in Callers : pc[p] \in {"zero", "reset"} =>
    /\ routerCount = 0
    /\ \A n \in Names : routers[n] = NoRouter
    /\ \A u \in Uris : routerUris[u] = None
    /\ \A q \in Callers : pc[q] \in {"idle", "run", "check", "zero", "reset"}

\* Quit runs alone, and has stopped what it does not come to any more.
QuitOK ==
  \A p \in Callers : Quitting(p) =>
    /\ \A q \in Callers \ {p} : pc[q] \in {"idle", "run"}
    /\ \A n \in Names : kept[n] = NoRouter
    /\ pc[p] \in {"stop", "drop"} => routers[name[p]] = router[p]
    /\ pc[p] = "less" => routers[name[p]] = NoRouter
    /\ pc[p] = "drop" => router[p] \in stopped
    /\ \A n \in Names : routers[n] # NoRouter =>
         /\ pc[p] \notin {"last", "clear"}
         /\ \/ n \in todo[p] /\ routers[n] \notin stopped
            \/ pc[p] \in {"stop", "drop"} /\ n = name[p]

\* The names whose routers are counted: the counter runs behind the map.
Counted ==
  {n \in Names :
     \/ routers[n] # NoRouter /\ \A p \in Callers : pc[p] = "add" => name[p] # n
     \/ \E p \in Callers : pc[p] \in {"forget", "sub", "less"} /\ name[p] = n}

CountOK == routerCount = Cardinality(Counted)

\* No router is lost: it runs and is stored, or is about to be, or has quit.
MadeOK ==
  \A r \in 1 .. made :
    \/ r \in stopped
    \/ \E n \in Names : routers[n] = r
    \/ \E p \in Callers : Early(p) /\ router[p] = r

Base == TypeOK /\ Fresh /\ Wired
Calm == RegisterOK /\ RemoveOK /\ FreeOK /\ EmptyOK /\ QuitOK /\ CountOK /\ MadeOK

\* Two goroutines are at two names, and at two uris.
LEMMA Apart ==
  ASSUME OwnNames, Base, NEW p \in Callers, NEW q \in Callers, p # q, Holds(p)
  PROVE  /\ Holds(q) => name[p] # name[q]
         /\ Registering(p) /\ Registering(q) => uri[p] # uri[q]
         /\ name[p] \in Names
<1>1. \A r \in Callers : Holds(r) => name[r] \in NamesOf(r)
  BY ServerConstants DEF Base, TypeOK, Wired, Holds, Registering, Removing, NamesOf
<1>2. \A r \in Callers : Registering(r) =>
        Registered(name[r], uri[r]) /\ name[r] \in Names /\ uri[r] \in Uris
  BY ServerConstants DEF Base, TypeOK, Wired, Registered, Registering
<1>3. Holds(q) => name[p] # name[q]
  BY <1>1 DEF OwnNames
<1> QED
  BY <1>1, <1>2, <1>3 DEF OwnNames, Holds, NamesOf

\* A name has one uri, and a uri one name.
LEMMA OneUri ==
  ASSUME OwnNames, Base
  PROVE  /\ \A u, v \in Uris : routerUris[u] # None /\ routerUris[u] = routerUris[v] => u = v
         /\ \A p \in Callers, u \in Uris : Registering(p) =>
              /\ name[p] \in Names /\ uri[p] \in Uris
              /\ routerUris[u] = name[p] => u = uri[p]
              /\ routerUris[uri[p]] # None => routerUris[uri[p]] = name[p]
<1>1. \A u \in Uris : routerUris[u] # None =>
        routerUris[u] \in Names /\ Registered(routerUris[u], u)
  BY DEF Base, TypeOK, Wired
<1>2. \A r \in Callers : Registering(r) =>
        Registered(name[r], uri[r]) /\ name[r] \in Names /\ uri[r] \in Uris
  BY ServerConstants DEF Base, TypeOK, Wired, Registered, Registering
<1> QED
  BY <1>1, <1>2, ServerConstants DEF OwnNames

LEMMA CountedFinite ==
  ASSUME OwnNames PROVE IsFiniteSet(Counted) /\ Cardinality(Counted) \in Nat
<1>1. IsFiniteSet(Counted)
  BY FS_Subset DEF OwnNames, Counted
<1> QED
  BY <1>1, FS_CardinalityType

\* Who begins with a name of its own finds nobody there.
LEMMA ApartAtStart ==
  ASSUME OwnNames, Base, NEW p \in Callers, NEW n \in Names,
         n \in Removes[p] \/ \E u \in Uris : <<n, u>> \in Registers[p],
         NEW q \in Callers, q # p, Holds(q)
  PROVE  name[q] # n /\ \A u \in Uris : <<n,
     u>> \in Registers[p] /\ Registering(q) => uri[q] # u
<1>1. n \in NamesOf(p)
  BY DEF NamesOf
<1>2. name[q] \in NamesOf(q)
  BY ServerConstants DEF Base, TypeOK, Wired, Holds, Registering, Removing, NamesOf
<1>3. name[q] # n
  BY <1>1, <1>2 DEF OwnNames
<1>4. Registering(q) => Registered(name[q], uri[q]) /\ name[q] \in Names /\ uri[q] \in Uris
  BY ServerConstants DEF Base, TypeOK, Wired, Registered, Registering
<1>5. \A u \in Uris : <<n, u>> \in Registers[p] => Registered(n, u)
  BY DEF Registered
<1> QED
  BY <1>3, <1>4, <1>5 DEF OwnNames

\* A route stays.
LEMMA ServedStays ==
  ASSUME Base, [Next]_vars, NEW u \in Uris, NEW r \in Routers, Served(u, r)
  PROVE  Served(u, r)'
<1>1. r # NoRouter
  BY DEF Routers, NoRouter
<1>2. ASSUME NEW p \in Callers, AddRoute(p) PROVE Served(u, r)'
  <2> PICK ms : \/ UNCHANGED routes
                \/ /\ \A m \in ms : routes[gin][uri[p]][m] = NoRouter
                   /\ routes' = [routes EXCEPT ![gin][uri[p]] =
                        [m \in Methods |-> IF m \in ms THEN router[p] ELSE routes[gin][uri[p]][m]]]
    BY <1>2 DEF AddRoute
  <2> PICK g \in Engines, m \in Methods : routes[g][u][m] = r
    BY DEF Served
  <2>1. /\ DOMAIN routes = Engines /\ DOMAIN routes[g] = Uris /\ DOMAIN routes[g][u] = Methods
        /\ \A e \in Engines : DOMAIN routes[e] = Uris
    BY DEF Base, TypeOK, RouteTables
  <2>2. routes'[g][u][m] = r
    BY <1>1, <2>1
  <2> QED
    BY <2>2 DEF Served
<1>3. CASE UNCHANGED routes
  BY <1>3 DEF Served
<1> QED
  BY <1>2, <1>3 DEF Next, AppCall, RegisterStep, RemoveStep, QuitStep, Finished, SetGin,
     StartGin, Quit, RunGin, StoreUri, StoreRouter, AddOne, FindUri, QuitRouter, DeleteRouter,
     DeleteUri, SubOne, CheckNone, StoreZero, ResetMaps, QuitNext, QuitStop, QuitDrop,
     QuitLess, QuitLast, QuitClear, RemoveUriByName, RegisterUri, routing, vars

\* Nothing that has overlapped is forgotten.
LEMMA RacedStays == [Next]_vars /\ ~raced' => ~raced
BY DEF Next, AppCall, RegisterStep, RemoveStep, QuitStep, Finished, SetGin,
     StartGin, Quit, RunGin, AddRoute, StoreUri, StoreRouter, AddOne, FindUri, QuitRouter,
     DeleteRouter, DeleteUri, SubOne, CheckNone, StoreZero, ResetMaps, QuitNext, QuitStop,
     QuitDrop, QuitLess, QuitLast, QuitClear, RemoveUriByName, RegisterUri, vars


\* A registration begins with a name nobody is at, that has no router ...
LEMMA RegisterBegins ==
  ASSUME OwnNames, Base, Calm, ~raced', NEW p \in Callers, NEW n \in Names, NEW u \in Uris,
         RegisterUri(p, n, u)
  PROVE  /\ \A q \in Callers : ~Emptying(q) /\ (Holds(q) => name[q] # n)
         /\ \A q \in Callers : Registering(q) => uri[q] # u
         /\ routers[n] = NoRouter /\ kept[n] = NoRouter /\ made + 1 \notin stopped
<1>1. pc[p] = "idle" /\ <<n, u>> \in Registers[p] /\ routerUris[u] = None
  BY DEF RegisterUri
<1>2. \A q \in Callers : ~Emptying(q)
  BY DEF RegisterUri, Base, TypeOK
<1>3. ~Holds(p)
  BY <1>1 DEF Holds, Registering, Removing
<1>4. ASSUME NEW q \in Callers, Holds(q)
      PROVE  name[q] # n /\ (Registering(q) => uri[q] # u)
  <2>1. q # p
    BY <1>3, <1>4
  <2> QED
    BY <1>1, <1>4, <2>1, ApartAtStart
<1>5. Free(n)
  BY <1>2, <1>4 DEF Free, Emptying
<1>6. \A v \in Uris : routerUris[v] = n => v = u
  <2>1. Registered(n, u)
    BY <1>1 DEF Registered
  <2>2. \A v \in Uris : routerUris[v] = n => Registered(n, v)
    BY ServerConstants DEF Base, Wired
  <2> QED
    BY <2>1, <2>2 DEF OwnNames
<1>7. routers[n] = NoRouter /\ kept[n] = NoRouter
  <2>1. n # None
    BY ServerConstants
  <2> QED
    BY <1>1, <1>5, <1>6, <2>1 DEF Calm, FreeOK
<1>8. made + 1 \notin stopped
  BY DEF Base, TypeOK, Fresh, Routers
<1> QED
  BY <1>2, <1>4, <1>7, <1>8 DEF Holds

\* ... and a removal with one nobody is at, whose router is served.
LEMMA RemovalBegins ==
  ASSUME OwnNames, Base, Calm, ~raced', NEW p \in Callers, NEW n \in Names,
         RemoveUriByName(p, n)
  PROVE  /\ \A q \in Callers : ~Quitting(q) /\ (Holds(q) => name[q] # n)
         /\ \A q \in Callers : pc[q] \notin {"zero", "reset"}
         /\ routers[n] \notin stopped
         /\ \E u \in Uris : routerUris[u] = n
<1>1. pc[p] = "idle" /\ n \in Removes[p] /\ routerCount > 0 /\ routers[n] # NoRouter
  BY DEF RemoveUriByName
<1>2. \A q \in Callers : ~Quitting(q)
  BY DEF RemoveUriByName, Base, TypeOK
<1>3. ~Holds(p)
  BY <1>1 DEF Holds, Registering, Removing
<1>4. ASSUME NEW q \in Callers, Holds(q) PROVE name[q] # n
  <2>1. q # p
    BY <1>3, <1>4
  <2> QED
    BY <1>1, <1>4, <2>1, ApartAtStart
<1>5. Free(n)
  BY <1>2, <1>4 DEF Free
<1> QED
  BY <1>1, <1>2, <1>4, <1>5 DEF Calm, FreeOK, EmptyOK

LEMMA RegisterOKStep ==
  ASSUME OwnNames, Base, Calm, ~raced', [Next]_vars
  PROVE  RegisterOK'
<1> USE DEF Base
<1>a. \A p, q \in Callers : p # q /\ Holds(p) /\ Holds(q) => name[p] # name[q]
  BY Apart
<1>b. \A p, q \in Callers : p # q /\ Registering(p) /\ Registering(q) => uri[p] # uri[q]
  BY Apart DEF Holds
<1>c. \A u \in Uris, r \in Routers : Served(u, r) => Served(u, r)'
  BY ServedStays
<1>1. CASE UNCHANGED vars
  BY <1>1, <1>a, <1>b, <1>c DEF vars, registry, routing, engine, call, locals, RegisterOK,
     Calm, TypeOK, Registering, Quitting, Emptying, EmptyOK,
     QuitOK, RemoveOK, Removing, Holds, NoRouter
<1>2. ASSUME NEW p \in Callers, NEW g \in Engines, SetGin(p, g) PROVE RegisterOK'
  BY <1>2, <1>a, <1>b, <1>c DEF SetGin, Goto, registry, routing, engine, call, locals,
     RegisterOK, Calm, TypeOK, Registering, Quitting, Emptying, EmptyOK,
     QuitOK, RemoveOK, Removing, Holds, NoRouter
<1>3. ASSUME NEW p \in Callers, StartGin(p) PROVE RegisterOK'
  BY <1>3, <1>a, <1>b, <1>c DEF StartGin, Goto, registry, routing, engine, call, locals,
     RegisterOK, Calm, TypeOK, Registering, Quitting, Emptying, EmptyOK,
     QuitOK, RemoveOK, Removing, Holds, NoRouter
<1>4. ASSUME NEW p \in Callers, Quit(p) PROVE RegisterOK'
  BY <1>4, <1>a, <1>b, <1>c DEF Quit, Goto, registry, routing, engine, call, locals,
     RegisterOK, Calm, TypeOK, Registering, Quitting, Emptying, EmptyOK,
     QuitOK, RemoveOK, Removing, Holds, NoRouter
<1>5. ASSUME NEW p \in Callers, RunGin(p) PROVE RegisterOK'
  BY <1>5, <1>a, <1>b, <1>c DEF RunGin, Goto, registry, routing, engine, call, locals,
     RegisterOK, Calm, TypeOK, Registering, Quitting, Emptying, EmptyOK,
     QuitOK, RemoveOK, Removing, Holds, NoRouter
<1>6. ASSUME NEW p \in Callers, AddRoute(p) PROVE RegisterOK'
  <2>1. /\ pc[p] = "route" /\ gin \in Engines /\ uri[p] \in Uris /\ router[p] \in Routers
        /\ UNCHANGED <<routers, routerUris, stopped, name, uri, router, kept>>
    BY <1>6 DEF AddRoute, registry, call, TypeOK, Registering, NoRouter
  <2>2. \/ pc' = pc
        \/ pc' = [pc EXCEPT ![p] = "uri"] /\ Served(uri[p], router[p])'
    <3> PICK ms \in Choices :
             \/ UNCHANGED pc
             \/ /\ routes' = [routes EXCEPT ![gin][uri[p]] =
                     [m \in Methods |-> IF m \in ms THEN router[p] ELSE routes[gin][uri[p]][m]]]
                /\ pc' = [pc EXCEPT ![p] = "uri"]
      BY <1>6 DEF AddRoute, Goto
    <3>1. PICK m \in Methods : m \in ms
      BY ServerConstants
    <3>2. CASE routes' = [routes EXCEPT ![gin][uri[p]] =
                 [n \in Methods |-> IF n \in ms THEN router[p] ELSE routes[gin][uri[p]][n]]]
      <4>1. DOMAIN routes = Engines /\ DOMAIN routes[gin] = Uris
        BY <2>1 DEF TypeOK, RouteTables
      <4>2. routes'[gin][uri[p]][m] = router[p]
        BY <2>1, <3>1, <3>2, <4>1
      <4> QED
        BY <2>1, <4>2 DEF Served
    <3> QED
      BY <3>2
  <2> QED
    BY <2>1, <2>2, <1>c DEF RegisterOK, Calm, TypeOK, Registering, NoRouter
<1>7. ASSUME NEW p \in Callers, StoreUri(p) PROVE RegisterOK'
  BY <1>7, <1>a, <1>b, <1>c DEF StoreUri, Goto, registry, routing, engine, call, locals,
     RegisterOK, Calm, TypeOK, Registering, Quitting, Emptying, EmptyOK,
     QuitOK, RemoveOK, Removing, Holds, NoRouter
<1>8. ASSUME NEW p \in Callers, StoreRouter(p) PROVE RegisterOK'
  BY <1>8, <1>a, <1>b, <1>c DEF StoreRouter, Goto, registry, routing, engine, call, locals,
     RegisterOK, Calm, TypeOK, Registering, Quitting, Emptying, EmptyOK,
     QuitOK, RemoveOK, Removing, Holds, NoRouter
<1>9. ASSUME NEW p \in Callers, AddOne(p) PROVE RegisterOK'
  BY <1>9, <1>a, <1>b, <1>c DEF AddOne, Return, Goto, registry, routing, engine, call, locals,
     RegisterOK, Calm, TypeOK, Registering, Quitting, Emptying, EmptyOK,
     QuitOK, RemoveOK, Removing, Holds, NoRouter
<1>10. ASSUME NEW p \in Callers, FindUri(p) PROVE RegisterOK'
  BY <1>10, <1>a, <1>b, <1>c DEF FindUri, Goto, registry, routing, engine, call, locals,
     RegisterOK, Calm, TypeOK, Registering, Quitting, Emptying, EmptyOK,
     QuitOK, RemoveOK, Removing, Holds, NoRouter
<1>11. ASSUME NEW p \in Callers, QuitRouter(p) PROVE RegisterOK'
  <2>1. /\ pc[p] = "quit" /\ stopped' = stopped \cup {router[p]}
        /\ pc' = [pc EXCEPT ![p] = "delete"]
        /\ UNCHANGED <<routers, routerUris, routes, name, uri, router, kept>>
    BY <1>11 DEF QuitRouter, Goto, registry, call
  <2>2. \A q \in Callers : Registering(q) => router[q] # router[p]
    BY <2>1, <1>a DEF Calm, RegisterOK, RemoveOK, Registering, Removing, Holds, Fresh, Early,
       TypeOK
  <2> QED
    BY <2>1, <2>2 DEF Calm, RegisterOK, Registering, TypeOK, Served
<1>12. ASSUME NEW p \in Callers, DeleteRouter(p) PROVE RegisterOK'
  BY <1>12, <1>a, <1>b, <1>c DEF DeleteRouter, Goto, registry, routing, engine, call, locals,
     RegisterOK, Calm, TypeOK, Registering, Quitting, Emptying, EmptyOK,
     QuitOK, RemoveOK, Removing, Holds, NoRouter
<1>13. ASSUME NEW p \in Callers, DeleteUri(p) PROVE RegisterOK'
  BY <1>13, <1>a, <1>b, <1>c DEF DeleteUri, Goto, registry, routing, engine, call, locals,
     RegisterOK, Calm, TypeOK, Registering, Quitting, Emptying, EmptyOK,
     QuitOK, RemoveOK, Removing, Holds, NoRouter
<1>14. ASSUME NEW p \in Callers, SubOne(p) PROVE RegisterOK'
  BY <1>14, <1>a, <1>b, <1>c DEF SubOne, Goto, registry, routing, engine, call, locals,
     RegisterOK, Calm, TypeOK, Registering, Quitting, Emptying, EmptyOK,
     QuitOK, RemoveOK, Removing, Holds, NoRouter
<1>15. ASSUME NEW p \in Callers, CheckNone(p) PROVE RegisterOK'
  BY <1>15, <1>a, <1>b, <1>c DEF CheckNone, Return, Goto, registry, routing, engine, call,
     locals,
     RegisterOK, Calm, TypeOK, Registering, Quitting, Emptying, EmptyOK,
     QuitOK, RemoveOK, Removing, Holds, NoRouter
<1>16. ASSUME NEW p \in Callers, StoreZero(p) PROVE RegisterOK'
  BY <1>16, <1>a, <1>b, <1>c DEF StoreZero, Goto, registry, routing, engine, call, locals,
     RegisterOK, Calm, TypeOK, Registering, Quitting, Emptying, EmptyOK,
     QuitOK, RemoveOK, Removing, Holds, NoRouter
<1>17. ASSUME NEW p \in Callers, ResetMaps(p) PROVE RegisterOK'
  BY <1>17, <1>a, <1>b, <1>c DEF ResetMaps, Return, Goto, registry, routing, engine, call,
     locals,
     RegisterOK, Calm, TypeOK, Registering, Quitting, Emptying, EmptyOK,
     QuitOK, RemoveOK, Removing, Holds, NoRouter
<1>18. ASSUME NEW p \in Callers, QuitNext(p) PROVE RegisterOK'
  BY <1>18, <1>a, <1>b, <1>c DEF QuitNext, Goto, registry, routing, engine, call, locals,
     RegisterOK, Calm, TypeOK, Registering, Quitting, Emptying, EmptyOK,
     QuitOK, RemoveOK, Removing, Holds, NoRouter
<1>19. ASSUME NEW p \in Callers, QuitStop(p) PROVE RegisterOK'
  BY <1>19, <1>a, <1>b, <1>c DEF QuitStop, Goto, registry, routing, engine, call, locals,
     RegisterOK, Calm, TypeOK, Registering, Quitting, Emptying, EmptyOK,
     QuitOK, RemoveOK, Removing, Holds, NoRouter
<1>20. ASSUME NEW p \in Callers, QuitDrop(p) PROVE RegisterOK'
  BY <1>20, <1>a, <1>b, <1>c DEF QuitDrop, Goto, registry, routing, engine, call, locals,
     RegisterOK, Calm, TypeOK, Registering, Quitting, Emptying, EmptyOK,
     QuitOK, RemoveOK, Removing, Holds, NoRouter
<1>21. ASSUME NEW p \in Callers, QuitLess(p) PROVE RegisterOK'
  BY <1>21, <1>a, <1>b, <1>c DEF QuitLess, Goto, registry, routing, engine, call, locals,
     RegisterOK, Calm, TypeOK, Registering, Quitting, Emptying, EmptyOK,
     QuitOK, RemoveOK, Removing, Holds, NoRouter
<1>22. ASSUME NEW p \in Callers, QuitLast(p) PROVE RegisterOK'
  BY <1>22, <1>a, <1>b, <1>c DEF QuitLast, Goto, registry, routing, engine, call, locals,
     RegisterOK, Calm, TypeOK, Registering, Quitting, Emptying, EmptyOK,
     QuitOK, RemoveOK, Removing, Holds, NoRouter
<1>23. ASSUME NEW p \in Callers, QuitClear(p) PROVE RegisterOK'
  BY <1>23, <1>a, <1>b, <1>c DEF QuitClear, Return, Goto, registry, routing, engine, call,
     locals,
     RegisterOK, Calm, TypeOK, Registering, Quitting, Emptying, EmptyOK,
     QuitOK, RemoveOK, Removing, Holds, NoRouter
<1>24. ASSUME NEW p \in Callers, NEW n \in Names, RemoveUriByName(p, n) PROVE RegisterOK'
  BY <1>24, <1>a, <1>b, <1>c DEF RemoveUriByName, Goto, registry, routing, engine, call,
     locals,
     RegisterOK, Calm, TypeOK, Registering, Quitting, Emptying, EmptyOK,
     QuitOK, RemoveOK, Removing, Holds, NoRouter
<1>25. ASSUME NEW p \in Callers, NEW n \in Names, NEW u \in Uris, RegisterUri(p, n,
     u) PROVE RegisterOK'
  <2>1. /\ pc' = [pc EXCEPT ![p] = "route"] /\ name' = [name EXCEPT ![p] = n]
        /\ uri' = [uri EXCEPT ![p] = u] /\ router' = [router EXCEPT ![p] = made + 1]
        /\ routerUris[u] = None
        /\ UNCHANGED <<routers, routerUris, routes, stopped, kept>>
    BY <1>25 DEF RegisterUri, Goto, registry
  <2>2. routers[n] = NoRouter /\ kept[n] = NoRouter /\ made + 1 \notin stopped
    BY <1>25, RegisterBegins
  <2> QED
    BY <2>1, <2>2 DEF Calm, RegisterOK, Registering, TypeOK, Served
<1> QED
  BY <1>1, <1>2, <1>3, <1>4, <1>5, <1>6, <1>7, <1>8, <1>9, <1>10, <1>11, <1>12, <1>13, 
     <1>14, <1>15, <1>16, <1>17, <1>18, <1>19, <1>20, <1>21, <1>22, <1>23, <1>24, 
     <1>25
     DEF Next, AppCall, RegisterStep, RemoveStep, QuitStep, Finished

LEMMA RemoveOKStep ==
  ASSUME OwnNames, Base, Calm, ~raced', [Next]_vars
  PROVE  RemoveOK'
<1> USE DEF Base
<1>a. \A p, q \in Callers : p # q /\ Holds(p) /\ Holds(q) => name[p] # name[q]
  BY Apart
<1>b. \A u, v \in Uris : routerUris[u] # None /\ routerUris[u] = routerUris[v] => u = v
  BY OneUri
<1>c. \A p \in Callers : Holds(p) => name[p] \in Names
  <2>1. \A p \in Callers : Registering(p) => name[p] \in Names
    BY ServerConstants DEF Wired, TypeOK, Registering
  <2>2. \A p \in Callers : Removing(p) => name[p] \in Names
    BY ServerConstants DEF Wired, TypeOK
  <2> QED
    BY <2>1, <2>2 DEF Holds
<1> USE ServerConstants
<1>1. CASE UNCHANGED vars
  BY <1>1, <1>a, <1>b, <1>c DEF vars, registry, routing, engine, call, locals, RemoveOK,
     Calm, TypeOK, Registering, Quitting, Emptying, EmptyOK,
     QuitOK, RegisterOK, Removing, Holds, NoRouter
<1>2. ASSUME NEW p \in Callers, NEW g \in Engines, SetGin(p, g) PROVE RemoveOK'
  BY <1>2, <1>a, <1>b, <1>c DEF SetGin, Goto, registry, routing, engine, call, locals,
     RemoveOK, Calm, TypeOK, Registering, Quitting, Emptying, EmptyOK,
     QuitOK, RegisterOK, Removing, Holds, NoRouter
<1>3. ASSUME NEW p \in Callers, StartGin(p) PROVE RemoveOK'
  BY <1>3, <1>a, <1>b, <1>c DEF StartGin, Goto, registry, routing, engine, call, locals,
     RemoveOK, Calm, TypeOK, Registering, Quitting, Emptying, EmptyOK,
     QuitOK, RegisterOK, Removing, Holds, NoRouter
<1>4. ASSUME NEW p \in Callers, Quit(p) PROVE RemoveOK'
  BY <1>4, <1>a, <1>b, <1>c DEF Quit, Goto, registry, routing, engine, call, locals,
     RemoveOK, Calm, TypeOK, Registering, Quitting, Emptying, EmptyOK,
     QuitOK, RegisterOK, Removing, Holds, NoRouter
<1>5. ASSUME NEW p \in Callers, RunGin(p) PROVE RemoveOK'
  BY <1>5, <1>a, <1>b, <1>c DEF RunGin, Goto, registry, routing, engine, call, locals,
     RemoveOK, Calm, TypeOK, Registering, Quitting, Emptying, EmptyOK,
     QuitOK, RegisterOK, Removing, Holds, NoRouter
<1>6. ASSUME NEW p \in Callers, AddRoute(p) PROVE RemoveOK'
  BY <1>6, <1>a, <1>b, <1>c DEF AddRoute, Goto, registry, routing, engine, call, locals,
     RemoveOK, Calm, TypeOK, Registering, Quitting, Emptying, EmptyOK,
     QuitOK, RegisterOK, Removing, Holds, NoRouter
<1>7. ASSUME NEW p \in Callers, StoreUri(p) PROVE RemoveOK'
  BY <1>7, <1>a, <1>b, <1>c DEF StoreUri, Goto, registry, routing, engine, call, locals,
     RemoveOK, Calm, TypeOK, Registering, Quitting, Emptying, EmptyOK,
     QuitOK, RegisterOK, Removing, Holds, NoRouter
<1>8. ASSUME NEW p \in Callers, StoreRouter(p) PROVE RemoveOK'
  BY <1>8, <1>a, <1>b, <1>c DEF StoreRouter, Goto, registry, routing, engine, call, locals,
     RemoveOK, Calm, TypeOK, Registering, Quitting, Emptying, EmptyOK,
     QuitOK, RegisterOK, Removing, Holds, NoRouter
<1>9. ASSUME NEW p \in Callers, AddOne(p) PROVE RemoveOK'
  BY <1>9, <1>a, <1>b, <1>c DEF AddOne, Return, Goto, registry, routing, engine, call, locals,
     RemoveOK, Calm, TypeOK, Registering, Quitting, Emptying, EmptyOK,
     QuitOK, RegisterOK, Removing, Holds, NoRouter
<1>10. ASSUME NEW p \in Callers, FindUri(p) PROVE RemoveOK'
  <2>1. /\ pc[p] = "find" /\ pc' = [pc EXCEPT ![p] = "quit"]
        /\ UNCHANGED <<routers, routerUris, stopped, name, router, kept>>
    BY <1>10 DEF FindUri, Goto, registry, routing
  <2>2. \E u \in Uris : routerUris[u] = name[p] /\ uri' = [uri EXCEPT ![p] = u]
    BY <1>10, <2>1 DEF FindUri, UrisOf, Calm, RemoveOK, Removing
  <2> QED
    BY <2>1, <2>2 DEF Calm, RemoveOK, Removing, TypeOK
<1>11. ASSUME NEW p \in Callers, QuitRouter(p) PROVE RemoveOK'
  <2>1. /\ pc[p] = "quit" /\ stopped' = stopped \cup {router[p]}
        /\ pc' = [pc EXCEPT ![p] = "delete"]
        /\ UNCHANGED <<routers, routerUris, name, uri, router, kept>>
    BY <1>11 DEF QuitRouter, Goto, registry, call
  <2>2. \A q \in Callers : pc[q] \in {"find", "quit"} /\ q # p => router[q] # router[p]
    BY <2>1, <1>a, <1>c DEF Calm, RemoveOK, Removing, Holds, Fresh, TypeOK, Registering,
       NoRouter
  <2> QED
    BY <2>1, <2>2 DEF Calm, RemoveOK, Removing, TypeOK
<1>12. ASSUME NEW p \in Callers, DeleteRouter(p) PROVE RemoveOK'
  BY <1>12, <1>a, <1>b, <1>c DEF DeleteRouter, Goto, registry, routing, engine, call, locals,
     RemoveOK, Calm, TypeOK, Registering, Quitting, Emptying, EmptyOK,
     QuitOK, RegisterOK, Removing, Holds, NoRouter
<1>13. ASSUME NEW p \in Callers, DeleteUri(p) PROVE RemoveOK'
  BY <1>13, <1>a, <1>b, <1>c DEF DeleteUri, Goto, registry, routing, engine, call, locals,
     RemoveOK, Calm, TypeOK, Registering, Quitting, Emptying, EmptyOK,
     QuitOK, RegisterOK, Removing, Holds, NoRouter
<1>14. ASSUME NEW p \in Callers, SubOne(p) PROVE RemoveOK'
  BY <1>14, <1>a, <1>b, <1>c DEF SubOne, Goto, registry, routing, engine, call, locals,
     RemoveOK, Calm, TypeOK, Registering, Quitting, Emptying, EmptyOK,
     QuitOK, RegisterOK, Removing, Holds, NoRouter
<1>15. ASSUME NEW p \in Callers, CheckNone(p) PROVE RemoveOK'
  BY <1>15, <1>a, <1>b, <1>c DEF CheckNone, Return, Goto, registry, routing, engine, call,
     locals,
     RemoveOK, Calm, TypeOK, Registering, Quitting, Emptying, EmptyOK,
     QuitOK, RegisterOK, Removing, Holds, NoRouter
<1>16. ASSUME NEW p \in Callers, StoreZero(p) PROVE RemoveOK'
  BY <1>16, <1>a, <1>b, <1>c DEF StoreZero, Goto, registry, routing, engine, call, locals,
     RemoveOK, Calm, TypeOK, Registering, Quitting, Emptying, EmptyOK,
     QuitOK, RegisterOK, Removing, Holds, NoRouter
<1>17. ASSUME NEW p \in Callers, ResetMaps(p) PROVE RemoveOK'
  BY <1>17, <1>a, <1>b, <1>c DEF ResetMaps, Return, Goto, registry, routing, engine, call,
     locals,
     RemoveOK, Calm, TypeOK, Registering, Quitting, Emptying, EmptyOK,
     QuitOK, RegisterOK, Removing, Holds, NoRouter
<1>18. ASSUME NEW p \in Callers, QuitNext(p) PROVE RemoveOK'
  BY <1>18, <1>a, <1>b, <1>c DEF QuitNext, Goto, registry, routing, engine, call, locals,
     RemoveOK, Calm, TypeOK, Registering, Quitting, Emptying, EmptyOK,
     QuitOK, RegisterOK, Removing, Holds, NoRouter
<1>19. ASSUME NEW p \in Callers, QuitStop(p) PROVE RemoveOK'
  BY <1>19, <1>a, <1>b, <1>c DEF QuitStop, Goto, registry, routing, engine, call, locals,
     RemoveOK, Calm, TypeOK, Registering, Quitting, Emptying, EmptyOK,
     QuitOK, RegisterOK, Removing, Holds, NoRouter
<1>20. ASSUME NEW p \in Callers, QuitDrop(p) PROVE RemoveOK'
  BY <1>20, <1>a, <1>b, <1>c DEF QuitDrop, Goto, registry, routing, engine, call, locals,
     RemoveOK, Calm, TypeOK, Registering, Quitting, Emptying, EmptyOK,
     QuitOK, RegisterOK, Removing, Holds, NoRouter
<1>21. ASSUME NEW p \in Callers, QuitLess(p) PROVE RemoveOK'
  BY <1>21, <1>a, <1>b, <1>c DEF QuitLess, Goto, registry, routing, engine, call, locals,
     RemoveOK, Calm, TypeOK, Registering, Quitting, Emptying, EmptyOK,
     QuitOK, RegisterOK, Removing, Holds, NoRouter
<1>22. ASSUME NEW p \in Callers, QuitLast(p) PROVE RemoveOK'
  BY <1>22, <1>a, <1>b, <1>c DEF QuitLast, Goto, registry, routing, engine, call, locals,
     RemoveOK, Calm, TypeOK, Registering, Quitting, Emptying, EmptyOK,
     QuitOK, RegisterOK, Removing, Holds, NoRouter
<1>23. ASSUME NEW p \in Callers, QuitClear(p) PROVE RemoveOK'
  BY <1>23, <1>a, <1>b, <1>c DEF QuitClear, Return, Goto, registry, routing, engine, call,
     locals,
     RemoveOK, Calm, TypeOK, Registering, Quitting, Emptying, EmptyOK,
     QuitOK, RegisterOK, Removing, Holds, NoRouter
<1>24. ASSUME NEW p \in Callers, NEW n \in Names, RemoveUriByName(p, n) PROVE RemoveOK'
  <2>1. /\ pc' = [pc EXCEPT ![p] = "find"] /\ name' = [name EXCEPT ![p] = n]
        /\ router' = [router EXCEPT ![p] = routers[n]]
        /\ kept' = [kept EXCEPT ![n] = NoRouter]
        /\ UNCHANGED <<routers, routerUris, stopped, uri>>
    BY <1>24 DEF RemoveUriByName, Goto, registry, routing
  <2>2. /\ routers[n] \notin stopped
        /\ \E u \in Uris : routerUris[u] = n
        /\ \A q \in Callers : Holds(q) => name[q] # n
    BY <1>24, RemovalBegins
  <2> QED
    BY <2>1, <2>2, <1>c DEF Calm, RemoveOK, Removing, TypeOK, Holds
<1>25. ASSUME NEW p \in Callers, NEW n \in Names, NEW u \in Uris, RegisterUri(p, n,
     u) PROVE RemoveOK'
  BY <1>25, <1>a, <1>b, <1>c DEF RegisterUri, Goto, registry, routing, engine, call, locals,
     RemoveOK, Calm, TypeOK, Registering, Quitting, Emptying, EmptyOK,
     QuitOK, RegisterOK, Removing, Holds, NoRouter
<1> QED
  BY <1>1, <1>2, <1>3, <1>4, <1>5, <1>6, <1>7, <1>8, <1>9, <1>10, <1>11, <1>12, <1>13, 
     <1>14, <1>15, <1>16, <1>17, <1>18, <1>19, <1>20, <1>21, <1>22, <1>23, <1>24, 
     <1>25
     DEF Next, AppCall, RegisterStep, RemoveStep, QuitStep, Finished

LEMMA EmptyOKStep ==
  ASSUME OwnNames, Base, Calm, ~raced', [Next]_vars
  PROVE  EmptyOK'
<1> USE DEF Base
<1>1. CASE UNCHANGED vars
  BY <1>1 DEF vars, registry, routing, engine, call, locals, EmptyOK, Calm, TypeOK,
     Registering, Quitting, Emptying,
     QuitOK, NoRouter
<1>2. ASSUME NEW p \in Callers, NEW g \in Engines, SetGin(p, g) PROVE EmptyOK'
  BY <1>2 DEF SetGin, Goto, registry, routing, engine, call, locals,
     EmptyOK, Calm, TypeOK, Registering, Quitting, Emptying,
     QuitOK, NoRouter
<1>3. ASSUME NEW p \in Callers, StartGin(p) PROVE EmptyOK'
  BY <1>3 DEF StartGin, Goto, registry, routing, engine, call, locals,
     EmptyOK, Calm, TypeOK, Registering, Quitting, Emptying,
     QuitOK, NoRouter
<1>4. ASSUME NEW p \in Callers, Quit(p) PROVE EmptyOK'
  BY <1>4 DEF Quit, Goto, registry, routing, engine, call, locals,
     EmptyOK, Calm, TypeOK, Registering, Quitting, Emptying,
     QuitOK, NoRouter
<1>5. ASSUME NEW p \in Callers, RunGin(p) PROVE EmptyOK'
  BY <1>5 DEF RunGin, Goto, registry, routing, engine, call, locals,
     EmptyOK, Calm, TypeOK, Registering, Quitting, Emptying,
     QuitOK, NoRouter
<1>6. ASSUME NEW p \in Callers, AddRoute(p) PROVE EmptyOK'
  BY <1>6 DEF AddRoute, Goto, registry, routing, engine, call, locals,
     EmptyOK, Calm, TypeOK, Registering, Quitting, Emptying,
     QuitOK, NoRouter
<1>7. ASSUME NEW p \in Callers, StoreUri(p) PROVE EmptyOK'
  BY <1>7 DEF StoreUri, Goto, registry, routing, engine, call, locals,
     EmptyOK, Calm, TypeOK, Registering, Quitting, Emptying,
     QuitOK, NoRouter
<1>8. ASSUME NEW p \in Callers, StoreRouter(p) PROVE EmptyOK'
  BY <1>8 DEF StoreRouter, Goto, registry, routing, engine, call, locals,
     EmptyOK, Calm, TypeOK, Registering, Quitting, Emptying,
     QuitOK, NoRouter
<1>9. ASSUME NEW p \in Callers, AddOne(p) PROVE EmptyOK'
  BY <1>9 DEF AddOne, Return, Goto, registry, routing, engine, call, locals,
     EmptyOK, Calm, TypeOK, Registering, Quitting, Emptying,
     QuitOK, NoRouter
<1>10. ASSUME NEW p \in Callers, FindUri(p) PROVE EmptyOK'
  BY <1>10 DEF FindUri, Goto, registry, routing, engine, call, locals,
     EmptyOK, Calm, TypeOK, Registering, Quitting, Emptying,
     QuitOK, NoRouter
<1>11. ASSUME NEW p \in Callers, QuitRouter(p) PROVE EmptyOK'
  BY <1>11 DEF QuitRouter, Goto, registry, routing, engine, call, locals,
     EmptyOK, Calm, TypeOK, Registering, Quitting, Emptying,
     QuitOK, NoRouter
<1>12. ASSUME NEW p \in Callers, DeleteRouter(p) PROVE EmptyOK'
  BY <1>12 DEF DeleteRouter, Goto, registry, routing, engine, call, locals,
     EmptyOK, Calm, TypeOK, Registering, Quitting, Emptying,
     QuitOK, NoRouter
<1>13. ASSUME NEW p \in Callers, DeleteUri(p) PROVE EmptyOK'
  BY <1>13 DEF DeleteUri, Goto, registry, routing, engine, call, locals,
     EmptyOK, Calm, TypeOK, Registering, Quitting, Emptying,
     QuitOK, NoRouter
<1>14. ASSUME NEW p \in Callers, SubOne(p) PROVE EmptyOK'
  BY <1>14 DEF SubOne, Goto, registry, routing, engine, call, locals,
     EmptyOK, Calm, TypeOK, Registering, Quitting, Emptying,
     QuitOK, NoRouter
<1>15. ASSUME NEW p \in Callers, CheckNone(p) PROVE EmptyOK'
  <2> SUFFICES ASSUME routerCount <= 0, pc[p] = "check", pc' = [pc EXCEPT ![p] = "zero"],
                      \A q \in Callers : ~Registering(q)
               PROVE  EmptyOK'
    <3>1. CASE routerCount <= 0
      BY <1>15, <3>1 DEF CheckNone, Goto, TypeOK
    <3>2. CASE ~(routerCount <= 0)
      <4>1. pc' = [pc EXCEPT ![p] = "idle"] /\ UNCHANGED <<routers, routerUris, routerCount>>
        BY <1>15, <3>2 DEF CheckNone, Return, Goto, registry
      <4> QED
        BY <4>1 DEF EmptyOK, Calm, TypeOK
    <3> QED
      BY <3>1, <3>2
  <2>1. UNCHANGED <<registry>>
    BY <1>15 DEF CheckNone
  <2>2. Counted = {} /\ routerCount = 0
    BY CountedFinite, FS_EmptySet DEF Calm, CountOK
  <2>3. \A n \in Names : routers[n] = NoRouter
    BY <2>2 DEF Counted, Registering
  <2>4. \A q \in Callers : ~Quitting(q)
    BY DEF Calm, QuitOK, Quitting
  <2>5. \A q \in Callers : ~Removing(q)
    <3> SUFFICES ASSUME NEW q \in Callers, Removing(q) PROVE FALSE
      OBVIOUS
    <3>1. name[q] \in Names
      BY ServerConstants DEF Wired, TypeOK
    <3>2. pc[q] \in {"forget", "sub"}
      BY <2>3, <3>1 DEF Calm, RemoveOK, Removing, TypeOK, Registering
    <3> QED
      BY <2>2, <3>1, <3>2 DEF Counted
  <2>6. \A n \in Names : Free(n)
    BY <2>4, <2>5 DEF Free, Holds
  <2>7. \A u \in Uris : routerUris[u] = None
    BY <2>3, <2>6 DEF Calm, FreeOK, TypeOK
  <2>8. \A q \in Callers : pc[q] \in {"idle", "run", "check", "zero", "reset"}
    BY <2>4, <2>5 DEF Registering, Removing, Quitting, TypeOK
  <2> QED
    BY <2>1, <2>2, <2>3, <2>7, <2>8 DEF EmptyOK, registry, TypeOK
<1>16. ASSUME NEW p \in Callers, StoreZero(p) PROVE EmptyOK'
  BY <1>16 DEF StoreZero, Goto, registry, routing, engine, call, locals,
     EmptyOK, Calm, TypeOK, Registering, Quitting, Emptying,
     QuitOK, NoRouter
<1>17. ASSUME NEW p \in Callers, ResetMaps(p) PROVE EmptyOK'
  BY <1>17 DEF ResetMaps, Return, Goto, registry, routing, engine, call, locals,
     EmptyOK, Calm, TypeOK, Registering, Quitting, Emptying,
     QuitOK, NoRouter
<1>18. ASSUME NEW p \in Callers, QuitNext(p) PROVE EmptyOK'
  BY <1>18 DEF QuitNext, Goto, registry, routing, engine, call, locals,
     EmptyOK, Calm, TypeOK, Registering, Quitting, Emptying,
     QuitOK, NoRouter
<1>19. ASSUME NEW p \in Callers, QuitStop(p) PROVE EmptyOK'
  BY <1>19 DEF QuitStop, Goto, registry, routing, engine, call, locals,
     EmptyOK, Calm, TypeOK, Registering, Quitting, Emptying,
     QuitOK, NoRouter
<1>20. ASSUME NEW p \in Callers, QuitDrop(p) PROVE EmptyOK'
  BY <1>20 DEF QuitDrop, Goto, registry, routing, engine, call, locals,
     EmptyOK, Calm, TypeOK, Registering, Quitting, Emptying,
     QuitOK, NoRouter
<1>21. ASSUME NEW p \in Callers, QuitLess(p) PROVE EmptyOK'
  BY <1>21 DEF QuitLess, Goto, registry, routing, engine, call, locals,
     EmptyOK, Calm, TypeOK, Registering, Quitting, Emptying,
     QuitOK, NoRouter
<1>22. ASSUME NEW p \in Callers, QuitLast(p) PROVE EmptyOK'
  BY <1>22 DEF QuitLast, Goto, registry, routing, engine, call, locals,
     EmptyOK, Calm, TypeOK, Registering, Quitting, Emptying,
     QuitOK, NoRouter
<1>23. ASSUME NEW p \in Callers, QuitClear(p) PROVE EmptyOK'
  BY <1>23 DEF QuitClear, Return, Goto, registry, routing, engine, call, locals,
     EmptyOK, Calm, TypeOK, Registering, Quitting, Emptying,
     QuitOK, NoRouter
<1>24. ASSUME NEW p \in Callers, NEW n \in Names, RemoveUriByName(p, n) PROVE EmptyOK'
  <2>1. \A q \in Callers : pc[q] \notin {"zero", "reset"}
    BY <1>24, RemovalBegins
  <2> QED
    BY <1>24, <2>1 DEF RemoveUriByName, Goto, EmptyOK, TypeOK
<1>25. ASSUME NEW p \in Callers, NEW n \in Names, NEW u \in Uris, RegisterUri(p, n,
     u) PROVE EmptyOK'
  <2>1. \A q \in Callers : pc[q] \notin {"zero", "reset"}
    BY <1>25, RegisterBegins DEF Emptying
  <2> QED
    BY <1>25, <2>1 DEF RegisterUri, Goto, EmptyOK, TypeOK
<1> QED
  BY <1>1, <1>2, <1>3, <1>4, <1>5, <1>6, <1>7, <1>8, <1>9, <1>10, <1>11, <1>12, <1>13, 
     <1>14, <1>15, <1>16, <1>17, <1>18, <1>19, <1>20, <1>21, <1>22, <1>23, <1>24, 
     <1>25
     DEF Next, AppCall, RegisterStep, RemoveStep, QuitStep, Finished

LEMMA QuitOKStep ==
  ASSUME OwnNames, Base, Calm, ~raced', [Next]_vars
  PROVE  QuitOK'
<1> USE DEF Base
<1>1. CASE UNCHANGED vars
  BY <1>1 DEF vars, registry, routing, engine, call, locals, QuitOK, Calm, TypeOK,
     Registering, Quitting, NoRouter
<1>2. ASSUME NEW p \in Callers, NEW g \in Engines, SetGin(p, g) PROVE QuitOK'
  BY <1>2 DEF SetGin, Goto, registry, routing, engine, call, locals,
     QuitOK, Calm, TypeOK, Registering, Quitting, NoRouter
<1>3. ASSUME NEW p \in Callers, StartGin(p) PROVE QuitOK'
  BY <1>3 DEF StartGin, Goto, registry, routing, engine, call, locals,
     QuitOK, Calm, TypeOK, Registering, Quitting, NoRouter
<1>4. ASSUME NEW p \in Callers, Quit(p) PROVE QuitOK'
  <2>1. /\ pc[p] = "idle" /\ pc' = [pc EXCEPT ![p] = "range"]
        /\ todo' = [todo EXCEPT ![p] = Names] /\ kept' = [n \in Names |-> NoRouter]
        /\ UNCHANGED <<routers, stopped, name, router>>
        /\ \A q \in Callers \ {p} : pc[q] \in {"idle", "run"}
    BY <1>4 DEF Quit, Goto, registry, routing, TypeOK
  <2>2. \A n \in Names : routers[n] # NoRouter => routers[n] \notin stopped
    <3>1. \A n \in Names : Free(n)
      BY <2>1 DEF Free, Holds, Registering, Removing, Quitting
    <3> QED
      BY <3>1 DEF Calm, FreeOK
  <2> QED
    BY <2>1, <2>2 DEF QuitOK, Quitting, TypeOK
<1>5. ASSUME NEW p \in Callers, RunGin(p) PROVE QuitOK'
  BY <1>5 DEF RunGin, Goto, registry, routing, engine, call, locals,
     QuitOK, Calm, TypeOK, Registering, Quitting, NoRouter
<1>6. ASSUME NEW p \in Callers, AddRoute(p) PROVE QuitOK'
  BY <1>6 DEF AddRoute, Goto, registry, routing, engine, call, locals,
     QuitOK, Calm, TypeOK, Registering, Quitting, NoRouter
<1>7. ASSUME NEW p \in Callers, StoreUri(p) PROVE QuitOK'
  BY <1>7 DEF StoreUri, Goto, registry, routing, engine, call, locals,
     QuitOK, Calm, TypeOK, Registering, Quitting, NoRouter
<1>8. ASSUME NEW p \in Callers, StoreRouter(p) PROVE QuitOK'
  BY <1>8 DEF StoreRouter, Goto, registry, routing, engine, call, locals,
     QuitOK, Calm, TypeOK, Registering, Quitting, NoRouter
<1>9. ASSUME NEW p \in Callers, AddOne(p) PROVE QuitOK'
  BY <1>9 DEF AddOne, Return, Goto, registry, routing, engine, call, locals,
     QuitOK, Calm, TypeOK, Registering, Quitting, NoRouter
<1>10. ASSUME NEW p \in Callers, FindUri(p) PROVE QuitOK'
  BY <1>10 DEF FindUri, Goto, registry, routing, engine, call, locals,
     QuitOK, Calm, TypeOK, Registering, Quitting, NoRouter
<1>11. ASSUME NEW p \in Callers, QuitRouter(p) PROVE QuitOK'
  BY <1>11 DEF QuitRouter, Goto, registry, routing, engine, call, locals,
     QuitOK, Calm, TypeOK, Registering, Quitting, NoRouter
<1>12. ASSUME NEW p \in Callers, DeleteRouter(p) PROVE QuitOK'
  BY <1>12 DEF DeleteRouter, Goto, registry, routing, engine, call, locals,
     QuitOK, Calm, TypeOK, Registering, Quitting, NoRouter
<1>13. ASSUME NEW p \in Callers, DeleteUri(p) PROVE QuitOK'
  BY <1>13 DEF DeleteUri, Goto, registry, routing, engine, call, locals,
     QuitOK, Calm, TypeOK, Registering, Quitting, NoRouter
<1>14. ASSUME NEW p \in Callers, SubOne(p) PROVE QuitOK'
  BY <1>14 DEF SubOne, Goto, registry, routing, engine, call, locals,
     QuitOK, Calm, TypeOK, Registering, Quitting, NoRouter
<1>15. ASSUME NEW p \in Callers, CheckNone(p) PROVE QuitOK'
  BY <1>15 DEF CheckNone, Return, Goto, registry, routing, engine, call, locals,
     QuitOK, Calm, TypeOK, Registering, Quitting, NoRouter
<1>16. ASSUME NEW p \in Callers, StoreZero(p) PROVE QuitOK'
  BY <1>16 DEF StoreZero, Goto, registry, routing, engine, call, locals,
     QuitOK, Calm, TypeOK, Registering, Quitting, NoRouter
<1>17. ASSUME NEW p \in Callers, ResetMaps(p) PROVE QuitOK'
  BY <1>17 DEF ResetMaps, Return, Goto, registry, routing, engine, call, locals,
     QuitOK, Calm, TypeOK, Registering, Quitting, NoRouter
<1>18. ASSUME NEW p \in Callers, QuitNext(p) PROVE QuitOK'
  BY <1>18 DEF QuitNext, Goto, registry, routing, engine, call, locals,
     QuitOK, Calm, TypeOK, Registering, Quitting, NoRouter
<1>19. ASSUME NEW p \in Callers, QuitStop(p) PROVE QuitOK'
  <2>1. /\ pc[p] = "stop" /\ pc' = [pc EXCEPT ![p] = "drop"]
        /\ stopped' = stopped \cup {router[p]}
        /\ UNCHANGED <<routers, kept, name, router, todo>>
    BY <1>19 DEF QuitStop, Goto, registry, call
  <2>2. /\ routers[name[p]] = router[p] /\ name[p] \in Names /\ router[p] # NoRouter
        /\ \A q \in Callers \ {p} : pc[q] \in {"idle", "run"}
    BY <2>1, ServerConstants DEF Calm, QuitOK, Quitting, TypeOK
  <2>3. \A n \in Names : n # name[p] => routers[n] # router[p]
    BY <2>2 DEF Fresh
  <2> QED
    BY <2>1, <2>2, <2>3 DEF Calm, QuitOK, Quitting, TypeOK
<1>20. ASSUME NEW p \in Callers, QuitDrop(p) PROVE QuitOK'
  BY <1>20 DEF QuitDrop, Goto, registry, routing, engine, call, locals,
     QuitOK, Calm, TypeOK, Registering, Quitting, NoRouter
<1>21. ASSUME NEW p \in Callers, QuitLess(p) PROVE QuitOK'
  BY <1>21 DEF QuitLess, Goto, registry, routing, engine, call, locals,
     QuitOK, Calm, TypeOK, Registering, Quitting, NoRouter
<1>22. ASSUME NEW p \in Callers, QuitLast(p) PROVE QuitOK'
  BY <1>22 DEF QuitLast, Goto, registry, routing, engine, call, locals,
     QuitOK, Calm, TypeOK, Registering, Quitting, NoRouter
<1>23. ASSUME NEW p \in Callers, QuitClear(p) PROVE QuitOK'
  BY <1>23 DEF QuitClear, Return, Goto, registry, routing, engine, call, locals,
     QuitOK, Calm, TypeOK, Registering, Quitting, NoRouter
<1>24. ASSUME NEW p \in Callers, NEW n \in Names, RemoveUriByName(p, n) PROVE QuitOK'
  BY <1>24 DEF RemoveUriByName, Goto, registry, routing, engine, call, locals,
     QuitOK, Calm, TypeOK, Registering, Quitting, NoRouter
<1>25. ASSUME NEW p \in Callers, NEW n \in Names, NEW u \in Uris, RegisterUri(p, n,
     u) PROVE QuitOK'
  <2>1. \A q \in Callers : ~Quitting(q)
    BY <1>25, RegisterBegins DEF Emptying
  <2>2. pc' = [pc EXCEPT ![p] = "route"]
    BY <1>25 DEF RegisterUri, Goto
  <2> QED
    BY <2>1, <2>2 DEF QuitOK, Quitting, TypeOK
<1> QED
  BY <1>1, <1>2, <1>3, <1>4, <1>5, <1>6, <1>7, <1>8, <1>9, <1>10, <1>11, <1>12, <1>13, 
     <1>14, <1>15, <1>16, <1>17, <1>18, <1>19, <1>20, <1>21, <1>22, <1>23, <1>24, 
     <1>25
     DEF Next, AppCall, RegisterStep, RemoveStep, QuitStep, Finished

LEMMA FreeOKStep ==
  ASSUME OwnNames, Base, Calm, ~raced', [Next]_vars
  PROVE  FreeOK'
<1> USE DEF Base
<1>a. \A p, q \in Callers : p # q /\ Holds(p) /\ Holds(q) => name[p] # name[q]
  BY Apart
<1>b. \A u, v \in Uris : routerUris[u] # None /\ routerUris[u] = routerUris[v] => u = v
  BY OneUri
<1>c. \A p \in Callers : Holds(p) => name[p] \in Names
  <2>1. \A p \in Callers : Registering(p) => name[p] \in Names
    BY ServerConstants DEF Wired, TypeOK, Registering
  <2>2. \A p \in Callers : Removing(p) => name[p] \in Names
    BY ServerConstants DEF Wired, TypeOK
  <2> QED
    BY <2>1, <2>2 DEF Holds
<1>d. \A u \in Uris, r \in Routers : Served(u, r) => Served(u, r)'
  BY ServedStays
<1> USE ServerConstants
<1>1. CASE UNCHANGED vars
  BY <1>1, <1>a, <1>b, <1>c, <1>d DEF vars, registry, routing, engine, call, locals, FreeOK,
     Free, Calm, TypeOK, Registering, Removing, Holds, Quitting,
     RegisterOK, RemoveOK, QuitOK, EmptyOK, NoRouter
<1>2. ASSUME NEW p \in Callers, NEW g \in Engines, SetGin(p, g) PROVE FreeOK'
  BY <1>2, <1>a, <1>b, <1>c, <1>d DEF SetGin, Goto, registry, routing, engine, call, locals,
     FreeOK, Free, Calm, TypeOK, Registering, Removing, Holds, Quitting,
     RegisterOK, RemoveOK, QuitOK, EmptyOK, NoRouter
<1>3. ASSUME NEW p \in Callers, StartGin(p) PROVE FreeOK'
  BY <1>3, <1>a, <1>b, <1>c, <1>d DEF StartGin, Goto, registry, routing, engine, call, locals,
     FreeOK, Free, Calm, TypeOK, Registering, Removing, Holds, Quitting,
     RegisterOK, RemoveOK, QuitOK, EmptyOK, NoRouter
<1>4. ASSUME NEW p \in Callers, Quit(p) PROVE FreeOK'
  BY <1>4, <1>a, <1>b, <1>c, <1>d DEF Quit, Goto, registry, routing, engine, call, locals,
     FreeOK, Free, Calm, TypeOK, Registering, Removing, Holds, Quitting,
     RegisterOK, RemoveOK, QuitOK, EmptyOK, NoRouter
<1>5. ASSUME NEW p \in Callers, RunGin(p) PROVE FreeOK'
  BY <1>5, <1>a, <1>b, <1>c, <1>d DEF RunGin, Goto, registry, routing, engine, call, locals,
     FreeOK, Free, Calm, TypeOK, Registering, Removing, Holds, Quitting,
     RegisterOK, RemoveOK, QuitOK, EmptyOK, NoRouter
<1>6. ASSUME NEW p \in Callers, AddRoute(p) PROVE FreeOK'
  BY <1>6, <1>a, <1>b, <1>c, <1>d DEF AddRoute, Goto, registry, routing, engine, call, locals,
     FreeOK, Free, Calm, TypeOK, Registering, Removing, Holds, Quitting,
     RegisterOK, RemoveOK, QuitOK, EmptyOK, NoRouter
<1>7. ASSUME NEW p \in Callers, StoreUri(p) PROVE FreeOK'
  BY <1>7, <1>a, <1>b, <1>c, <1>d DEF StoreUri, Goto, registry, routing, engine, call, locals,
     FreeOK, Free, Calm, TypeOK, Registering, Removing, Holds, Quitting,
     RegisterOK, RemoveOK, QuitOK, EmptyOK, NoRouter
<1>8. ASSUME NEW p \in Callers, StoreRouter(p) PROVE FreeOK'
  BY <1>8, <1>a, <1>b, <1>c, <1>d DEF StoreRouter, Goto, registry, routing, engine, call,
     locals,
     FreeOK, Free, Calm, TypeOK, Registering, Removing, Holds, Quitting,
     RegisterOK, RemoveOK, QuitOK, EmptyOK, NoRouter
<1>9. ASSUME NEW p \in Callers, AddOne(p) PROVE FreeOK'
  BY <1>9, <1>a, <1>b, <1>c, <1>d DEF AddOne, Return, Goto, registry, routing, engine, call,
     locals,
     FreeOK, Free, Calm, TypeOK, Registering, Removing, Holds, Quitting,
     RegisterOK, RemoveOK, QuitOK, EmptyOK, NoRouter
<1>10. ASSUME NEW p \in Callers, FindUri(p) PROVE FreeOK'
  BY <1>10, <1>a, <1>b, <1>c, <1>d DEF FindUri, Goto, registry, routing, engine, call, locals,
     FreeOK, Free, Calm, TypeOK, Registering, Removing, Holds, Quitting,
     RegisterOK, RemoveOK, QuitOK, EmptyOK, NoRouter
<1>11. ASSUME NEW p \in Callers, QuitRouter(p) PROVE FreeOK'
  <2>1. /\ pc[p] = "quit" /\ stopped' = stopped \cup {router[p]}
        /\ pc' = [pc EXCEPT ![p] = "delete"]
        /\ UNCHANGED <<routers, routerUris, routes, name, kept>>
    BY <1>11 DEF QuitRouter, Goto, registry, call
  <2>2. /\ name[p] \in Names /\ routers[name[p]] = router[p] /\ router[p] # NoRouter
    BY <2>1, <1>c DEF Calm, RemoveOK, Removing, Holds, TypeOK
  <2>3. \A n \in Names : n # name[p] => routers[n] # router[p]
    BY <2>2 DEF Fresh
  <2>4. ASSUME NEW n \in Names, Free(n)' PROVE Free(n) /\ n # name[p]
    BY <2>1, <2>4 DEF Free, Holds, Registering, Removing, Quitting, TypeOK
  <2>5. \A u \in Uris : \A r : Served(u, r) => Served(u, r)'
    BY <2>1 DEF Served
  <2> QED
    BY <2>1, <2>3, <2>4, <2>5 DEF FreeOK, Calm
<1>12. ASSUME NEW p \in Callers, DeleteRouter(p) PROVE FreeOK'
  BY <1>12, <1>a, <1>b, <1>c, <1>d DEF DeleteRouter, Goto, registry, routing, engine, call,
     locals,
     FreeOK, Free, Calm, TypeOK, Registering, Removing, Holds, Quitting,
     RegisterOK, RemoveOK, QuitOK, EmptyOK, NoRouter
<1>13. ASSUME NEW p \in Callers, DeleteUri(p) PROVE FreeOK'
  BY <1>13, <1>a, <1>b, <1>c, <1>d DEF DeleteUri, Goto, registry, routing, engine, call,
     locals,
     FreeOK, Free, Calm, TypeOK, Registering, Removing, Holds, Quitting,
     RegisterOK, RemoveOK, QuitOK, EmptyOK, NoRouter
<1>14. ASSUME NEW p \in Callers, SubOne(p) PROVE FreeOK'
  BY <1>14, <1>a, <1>b, <1>c, <1>d DEF SubOne, Goto, registry, routing, engine, call, locals,
     FreeOK, Free, Calm, TypeOK, Registering, Removing, Holds, Quitting,
     RegisterOK, RemoveOK, QuitOK, EmptyOK, NoRouter
<1>15. ASSUME NEW p \in Callers, CheckNone(p) PROVE FreeOK'
  <2>1. /\ pc[p] = "check"
        /\ \A q \in Callers \ {p} : pc'[q] = pc[q] /\ name'[q] = name[q]
        /\ UNCHANGED <<routers, routerUris, routes, stopped, kept>>
    BY <1>15 DEF CheckNone, Return, Goto, registry, routing, engine, TypeOK
  <2>2. ASSUME NEW n \in Names, Free(n)' PROVE Free(n)
    BY <2>1, <2>2 DEF Free, Holds, Registering, Removing, Quitting
  <2>3. \A u \in Uris : \A r : Served(u, r) => Served(u, r)'
    BY <2>1 DEF Served
  <2> QED
    BY <2>1, <2>2, <2>3 DEF FreeOK, Calm
<1>16. ASSUME NEW p \in Callers, StoreZero(p) PROVE FreeOK'
  BY <1>16, <1>a, <1>b, <1>c, <1>d DEF StoreZero, Goto, registry, routing, engine, call,
     locals,
     FreeOK, Free, Calm, TypeOK, Registering, Removing, Holds, Quitting,
     RegisterOK, RemoveOK, QuitOK, EmptyOK, NoRouter
<1>17. ASSUME NEW p \in Callers, ResetMaps(p) PROVE FreeOK'
  BY <1>17, <1>a, <1>b, <1>c, <1>d DEF ResetMaps, Return, Goto, registry, routing, engine,
     call, locals,
     FreeOK, Free, Calm, TypeOK, Registering, Removing, Holds, Quitting,
     RegisterOK, RemoveOK, QuitOK, EmptyOK, NoRouter
<1>18. ASSUME NEW p \in Callers, QuitNext(p) PROVE FreeOK'
  BY <1>18, <1>a, <1>b, <1>c, <1>d DEF QuitNext, Goto, registry, routing, engine, call,
     locals,
     FreeOK, Free, Calm, TypeOK, Registering, Removing, Holds, Quitting,
     RegisterOK, RemoveOK, QuitOK, EmptyOK, NoRouter
<1>19. ASSUME NEW p \in Callers, QuitStop(p) PROVE FreeOK'
  BY <1>19, <1>a, <1>b, <1>c, <1>d DEF QuitStop, Goto, registry, routing, engine, call,
     locals,
     FreeOK, Free, Calm, TypeOK, Registering, Removing, Holds, Quitting,
     RegisterOK, RemoveOK, QuitOK, EmptyOK, NoRouter
<1>20. ASSUME NEW p \in Callers, QuitDrop(p) PROVE FreeOK'
  BY <1>20, <1>a, <1>b, <1>c, <1>d DEF QuitDrop, Goto, registry, routing, engine, call,
     locals,
     FreeOK, Free, Calm, TypeOK, Registering, Removing, Holds, Quitting,
     RegisterOK, RemoveOK, QuitOK, EmptyOK, NoRouter
<1>21. ASSUME NEW p \in Callers, QuitLess(p) PROVE FreeOK'
  BY <1>21, <1>a, <1>b, <1>c, <1>d DEF QuitLess, Goto, registry, routing, engine, call,
     locals,
     FreeOK, Free, Calm, TypeOK, Registering, Removing, Holds, Quitting,
     RegisterOK, RemoveOK, QuitOK, EmptyOK, NoRouter
<1>22. ASSUME NEW p \in Callers, QuitLast(p) PROVE FreeOK'
  BY <1>22, <1>a, <1>b, <1>c, <1>d DEF QuitLast, Goto, registry, routing, engine, call,
     locals,
     FreeOK, Free, Calm, TypeOK, Registering, Removing, Holds, Quitting,
     RegisterOK, RemoveOK, QuitOK, EmptyOK, NoRouter
<1>23. ASSUME NEW p \in Callers, QuitClear(p) PROVE FreeOK'
  BY <1>23, <1>a, <1>b, <1>c, <1>d DEF QuitClear, Return, Goto, registry, routing, engine,
     call, locals,
     FreeOK, Free, Calm, TypeOK, Registering, Removing, Holds, Quitting,
     RegisterOK, RemoveOK, QuitOK, EmptyOK, NoRouter
<1>24. ASSUME NEW p \in Callers, NEW n \in Names, RemoveUriByName(p, n) PROVE FreeOK'
  BY <1>24, <1>a, <1>b, <1>c, <1>d DEF RemoveUriByName, Goto, registry, routing, engine,
     call, locals,
     FreeOK, Free, Calm, TypeOK, Registering, Removing, Holds, Quitting,
     RegisterOK, RemoveOK, QuitOK, EmptyOK, NoRouter
<1>25. ASSUME NEW p \in Callers, NEW n \in Names, NEW u \in Uris, RegisterUri(p, n,
     u) PROVE FreeOK'
  BY <1>25, <1>a, <1>b, <1>c, <1>d DEF RegisterUri, Goto, registry, routing, engine, call,
     locals,
     FreeOK, Free, Calm, TypeOK, Registering, Removing, Holds, Quitting,
     RegisterOK, RemoveOK, QuitOK, EmptyOK, NoRouter
<1> QED
  BY <1>1, <1>2, <1>3, <1>4, <1>5, <1>6, <1>7, <1>8, <1>9, <1>10, <1>11, <1>12, <1>13, 
     <1>14, <1>15, <1>16, <1>17, <1>18, <1>19, <1>20, <1>21, <1>22, <1>23, <1>24, 
     <1>25
     DEF Next, AppCall, RegisterStep, RemoveStep, QuitStep, Finished

LEMMA MadeOKStep ==
  ASSUME OwnNames, Base, Calm, ~raced', [Next]_vars
  PROVE  MadeOK'
<1> USE DEF Base
<1> USE ServerConstants
<1>1. CASE UNCHANGED vars
  BY <1>1 DEF vars, registry, routing, engine, call, locals, MadeOK, Early, Calm, TypeOK,
     RegisterOK, RemoveOK, EmptyOK, QuitOK,
     Registering, Removing, Quitting, NoRouter
<1>2. ASSUME NEW p \in Callers, NEW g \in Engines, SetGin(p, g) PROVE MadeOK'
  BY <1>2 DEF SetGin, Goto, registry, routing, engine, call, locals,
     MadeOK, Early, Calm, TypeOK, RegisterOK, RemoveOK, EmptyOK, QuitOK,
     Registering, Removing, Quitting, NoRouter
<1>3. ASSUME NEW p \in Callers, StartGin(p) PROVE MadeOK'
  BY <1>3 DEF StartGin, Goto, registry, routing, engine, call, locals,
     MadeOK, Early, Calm, TypeOK, RegisterOK, RemoveOK, EmptyOK, QuitOK,
     Registering, Removing, Quitting, NoRouter
<1>4. ASSUME NEW p \in Callers, Quit(p) PROVE MadeOK'
  <2>1. pc[p] = "idle" /\ pc' = [pc EXCEPT ![p] = "range"]
        /\ UNCHANGED <<made, stopped, routers, router>>
    BY <1>4 DEF Quit, Goto, registry, routing
  <2>2. \A q \in Callers : Early(q) => Early(q)'
    BY <2>1 DEF Early, TypeOK
  <2> QED
    BY <2>1, <2>2 DEF MadeOK, Calm
<1>5. ASSUME NEW p \in Callers, RunGin(p) PROVE MadeOK'
  BY <1>5 DEF RunGin, Goto, registry, routing, engine, call, locals,
     MadeOK, Early, Calm, TypeOK, RegisterOK, RemoveOK, EmptyOK, QuitOK,
     Registering, Removing, Quitting, NoRouter
<1>6. ASSUME NEW p \in Callers, AddRoute(p) PROVE MadeOK'
  BY <1>6 DEF AddRoute, Goto, registry, routing, engine, call, locals,
     MadeOK, Early, Calm, TypeOK, RegisterOK, RemoveOK, EmptyOK, QuitOK,
     Registering, Removing, Quitting, NoRouter
<1>7. ASSUME NEW p \in Callers, StoreUri(p) PROVE MadeOK'
  <2>1. pc[p] = "uri" /\ pc' = [pc EXCEPT ![p] = "router"]
        /\ UNCHANGED <<made, stopped, routers, router>>
    BY <1>7 DEF StoreUri, Goto, routing, call
  <2>2. \A q \in Callers : Early(q) => Early(q)'
    BY <2>1 DEF Early, TypeOK
  <2> QED
    BY <2>1, <2>2 DEF MadeOK, Calm
<1>8. ASSUME NEW p \in Callers, StoreRouter(p) PROVE MadeOK'
  BY <1>8 DEF StoreRouter, Goto, registry, routing, engine, call, locals,
     MadeOK, Early, Calm, TypeOK, RegisterOK, RemoveOK, EmptyOK, QuitOK,
     Registering, Removing, Quitting, NoRouter
<1>9. ASSUME NEW p \in Callers, AddOne(p) PROVE MadeOK'
  BY <1>9 DEF AddOne, Return, Goto, registry, routing, engine, call, locals,
     MadeOK, Early, Calm, TypeOK, RegisterOK, RemoveOK, EmptyOK, QuitOK,
     Registering, Removing, Quitting, NoRouter
<1>10. ASSUME NEW p \in Callers, FindUri(p) PROVE MadeOK'
  BY <1>10 DEF FindUri, Goto, registry, routing, engine, call, locals,
     MadeOK, Early, Calm, TypeOK, RegisterOK, RemoveOK, EmptyOK, QuitOK,
     Registering, Removing, Quitting, NoRouter
<1>11. ASSUME NEW p \in Callers, QuitRouter(p) PROVE MadeOK'
  BY <1>11 DEF QuitRouter, Goto, registry, routing, engine, call, locals,
     MadeOK, Early, Calm, TypeOK, RegisterOK, RemoveOK, EmptyOK, QuitOK,
     Registering, Removing, Quitting, NoRouter
<1>12. ASSUME NEW p \in Callers, DeleteRouter(p) PROVE MadeOK'
  BY <1>12 DEF DeleteRouter, Goto, registry, routing, engine, call, locals,
     MadeOK, Early, Calm, TypeOK, RegisterOK, RemoveOK, EmptyOK, QuitOK,
     Registering, Removing, Quitting, NoRouter
<1>13. ASSUME NEW p \in Callers, DeleteUri(p) PROVE MadeOK'
  BY <1>13 DEF DeleteUri, Goto, registry, routing, engine, call, locals,
     MadeOK, Early, Calm, TypeOK, RegisterOK, RemoveOK, EmptyOK, QuitOK,
     Registering, Removing, Quitting, NoRouter
<1>14. ASSUME NEW p \in Callers, SubOne(p) PROVE MadeOK'
  BY <1>14 DEF SubOne, Goto, registry, routing, engine, call, locals,
     MadeOK, Early, Calm, TypeOK, RegisterOK, RemoveOK, EmptyOK, QuitOK,
     Registering, Removing, Quitting, NoRouter
<1>15. ASSUME NEW p \in Callers, CheckNone(p) PROVE MadeOK'
  BY <1>15 DEF CheckNone, Return, Goto, registry, routing, engine, call, locals,
     MadeOK, Early, Calm, TypeOK, RegisterOK, RemoveOK, EmptyOK, QuitOK,
     Registering, Removing, Quitting, NoRouter
<1>16. ASSUME NEW p \in Callers, StoreZero(p) PROVE MadeOK'
  BY <1>16 DEF StoreZero, Goto, registry, routing, engine, call, locals,
     MadeOK, Early, Calm, TypeOK, RegisterOK, RemoveOK, EmptyOK, QuitOK,
     Registering, Removing, Quitting, NoRouter
<1>17. ASSUME NEW p \in Callers, ResetMaps(p) PROVE MadeOK'
  BY <1>17 DEF ResetMaps, Return, Goto, registry, routing, engine, call, locals,
     MadeOK, Early, Calm, TypeOK, RegisterOK, RemoveOK, EmptyOK, QuitOK,
     Registering, Removing, Quitting, NoRouter
<1>18. ASSUME NEW p \in Callers, QuitNext(p) PROVE MadeOK'
  BY <1>18 DEF QuitNext, Goto, registry, routing, engine, call, locals,
     MadeOK, Early, Calm, TypeOK, RegisterOK, RemoveOK, EmptyOK, QuitOK,
     Registering, Removing, Quitting, NoRouter
<1>19. ASSUME NEW p \in Callers, QuitStop(p) PROVE MadeOK'
  BY <1>19 DEF QuitStop, Goto, registry, routing, engine, call, locals,
     MadeOK, Early, Calm, TypeOK, RegisterOK, RemoveOK, EmptyOK, QuitOK,
     Registering, Removing, Quitting, NoRouter
<1>20. ASSUME NEW p \in Callers, QuitDrop(p) PROVE MadeOK'
  BY <1>20 DEF QuitDrop, Goto, registry, routing, engine, call, locals,
     MadeOK, Early, Calm, TypeOK, RegisterOK, RemoveOK, EmptyOK, QuitOK,
     Registering, Removing, Quitting, NoRouter
<1>21. ASSUME NEW p \in Callers, QuitLess(p) PROVE MadeOK'
  BY <1>21 DEF QuitLess, Goto, registry, routing, engine, call, locals,
     MadeOK, Early, Calm, TypeOK, RegisterOK, RemoveOK, EmptyOK, QuitOK,
     Registering, Removing, Quitting, NoRouter
<1>22. ASSUME NEW p \in Callers, QuitLast(p) PROVE MadeOK'
  BY <1>22 DEF QuitLast, Goto, registry, routing, engine, call, locals,
     MadeOK, Early, Calm, TypeOK, RegisterOK, RemoveOK, EmptyOK, QuitOK,
     Registering, Removing, Quitting, NoRouter
<1>23. ASSUME NEW p \in Callers, QuitClear(p) PROVE MadeOK'
  BY <1>23 DEF QuitClear, Return, Goto, registry, routing, engine, call, locals,
     MadeOK, Early, Calm, TypeOK, RegisterOK, RemoveOK, EmptyOK, QuitOK,
     Registering, Removing, Quitting, NoRouter
<1>24. ASSUME NEW p \in Callers, NEW n \in Names, RemoveUriByName(p, n) PROVE MadeOK'
  BY <1>24 DEF RemoveUriByName, Goto, registry, routing, engine, call, locals,
     MadeOK, Early, Calm, TypeOK, RegisterOK, RemoveOK, EmptyOK, QuitOK,
     Registering, Removing, Quitting, NoRouter
<1>25. ASSUME NEW p \in Callers, NEW n \in Names, NEW u \in Uris, RegisterUri(p, n,
     u) PROVE MadeOK'
  BY <1>25 DEF RegisterUri, Goto, registry, routing, engine, call, locals,
     MadeOK, Early, Calm, TypeOK, RegisterOK, RemoveOK, EmptyOK, QuitOK,
     Registering, Removing, Quitting, NoRouter
<1> QED
  BY <1>1, <1>2, <1>3, <1>4, <1>5, <1>6, <1>7, <1>8, <1>9, <1>10, <1>11, <1>12, <1>13, 
     <1>14, <1>15, <1>16, <1>17, <1>18, <1>19, <1>20, <1>21, <1>22, <1>23, <1>24, 
     <1>25
     DEF Next, AppCall, RegisterStep, RemoveStep, QuitStep, Finished

\* Steps that leave what is counted as it is.
LEMMA SameCount ==
  ASSUME CountOK, UNCHANGED <<routerCount, routers>>,
         \A p \in Callers : pc'[p] \in {"add", "forget", "sub", "less"} =>
           pc'[p] = pc[p] /\ name'[p] = name[p],
         \A p \in Callers : pc[p] \in {"add", "forget", "sub", "less"} =>
           pc'[p] = pc[p] /\ name'[p] = name[p]
  PROVE  CountOK'
<1>1. Counted' = Counted
  BY DEF Counted
<1> QED
  BY <1>1 DEF CountOK


LEMMA CountOKStep ==
  ASSUME OwnNames, Base, Calm, ~raced', [Next]_vars
  PROVE  CountOK'
<1> USE DEF Base
<1>a. \A p, q \in Callers : p # q /\ Holds(p) /\ Holds(q) => name[p] # name[q]
  BY Apart
<1>c. \A p \in Callers : Holds(p) => name[p] \in Names
  BY ServerConstants DEF Wired, TypeOK, Registering, Holds
<1>1. CASE UNCHANGED vars
  BY <1>1 DEF vars, registry, routing, engine, call, locals, Calm, CountOK, Counted
<1>2. ASSUME NEW p \in Callers, NEW g \in Engines, SetGin(p, g) PROVE CountOK'
  BY <1>2, SameCount DEF SetGin, locals, Goto, registry, call, Calm, TypeOK, CountOK
<1>3. ASSUME NEW p \in Callers, StartGin(p) PROVE CountOK'
  BY <1>3, SameCount DEF StartGin, Goto, registry, call, Calm, TypeOK, CountOK
<1>4. ASSUME NEW p \in Callers, Quit(p) PROVE CountOK'
  BY <1>4, SameCount DEF Quit, Goto, registry, call, Calm, TypeOK, CountOK
<1>5. ASSUME NEW p \in Callers, RunGin(p) PROVE CountOK'
  BY <1>5, SameCount DEF RunGin, Goto, registry, call, Calm, TypeOK, CountOK
<1>6. ASSUME NEW p \in Callers, AddRoute(p) PROVE CountOK'
  BY <1>6, SameCount DEF AddRoute, Goto, registry, call, Calm, TypeOK, CountOK
<1>7. ASSUME NEW p \in Callers, StoreUri(p) PROVE CountOK'
  BY <1>7, SameCount DEF StoreUri, Goto, registry, call, Calm, TypeOK, CountOK
<1>8. ASSUME NEW p \in Callers, StoreRouter(p) PROVE CountOK'
  <2>1. /\ pc[p] = "router" /\ pc' = [pc EXCEPT ![p] = "add"]
        /\ routers' = [routers EXCEPT ![name[p]] = router[p]]
        /\ UNCHANGED <<name, routerCount>>
    BY <1>8 DEF StoreRouter, Goto, call
  <2>2. routers[name[p]] = NoRouter /\ name[p] \in Names
    BY <2>1, <1>c DEF Calm, RegisterOK, Registering, Holds
  <2>3. \A q \in Callers : pc[q] \in {"add", "forget", "sub", "less"} => name[q] # name[p]
    BY <2>1, <1>a DEF Registering, Removing, Holds, Calm, QuitOK, Quitting
  <2>4. Counted' = Counted
    BY <2>1, <2>2, <2>3 DEF Counted, TypeOK
  <2> QED
    BY <2>1, <2>4 DEF Calm, CountOK
<1>9. ASSUME NEW p \in Callers, AddOne(p) PROVE CountOK'
  <2>1. /\ pc[p] = "add" /\ pc' = [pc EXCEPT ![p] = "idle"]
        /\ routerCount' = routerCount + 1 /\ name' = [name EXCEPT ![p] = None]
        /\ UNCHANGED routers
    BY <1>9 DEF AddOne, Return, Goto
  <2>2. routers[name[p]] # NoRouter /\ name[p] \in Names
    BY <2>1, <1>c DEF Calm, RegisterOK, Registering, Holds, TypeOK
  <2>3. \A q \in Callers \ {p} : pc[q] \in {"add", "forget", "sub", "less"} =>
          name[q] # name[p]
    BY <2>1, <1>a DEF Registering, Removing, Holds, Calm, QuitOK, Quitting
  <2>4. Counted' = Counted \cup {name[p]} /\ name[p] \notin Counted
    BY <2>1, <2>2, <2>3 DEF Counted, TypeOK
  <2> QED
    BY <2>1, <2>4, CountedFinite, FS_AddElement DEF Calm, CountOK
<1>10. ASSUME NEW p \in Callers, FindUri(p) PROVE CountOK'
  BY <1>10, SameCount DEF FindUri, Goto, registry, call, Calm, TypeOK, CountOK
<1>11. ASSUME NEW p \in Callers, QuitRouter(p) PROVE CountOK'
  BY <1>11, SameCount DEF QuitRouter, Goto, registry, call, Calm, TypeOK, CountOK
<1>12. ASSUME NEW p \in Callers, DeleteRouter(p) PROVE CountOK'
  <2>1. /\ pc[p] = "delete" /\ pc' = [pc EXCEPT ![p] = "forget"]
        /\ routers' = [routers EXCEPT ![name[p]] = NoRouter]
        /\ UNCHANGED <<name, routerCount>>
    BY <1>12 DEF DeleteRouter, Goto, call
  <2>2. routers[name[p]] # NoRouter /\ name[p] \in Names
    BY <2>1, <1>c DEF Calm, RemoveOK, Removing, Registering, Holds, TypeOK
  <2>3. \A q \in Callers \ {p} : pc[q] \in {"add", "forget", "sub", "less"} =>
          name[q] # name[p]
    BY <2>1, <1>a DEF Registering, Removing, Holds, Calm, QuitOK, Quitting
  <2>4. Counted' = Counted
    BY <2>1, <2>2, <2>3 DEF Counted, TypeOK
  <2> QED
    BY <2>1, <2>4 DEF Calm, CountOK
<1>13. ASSUME NEW p \in Callers, DeleteUri(p) PROVE CountOK'
  <2>1. /\ pc[p] = "forget" /\ pc' = [pc EXCEPT ![p] = "sub"]
        /\ UNCHANGED <<name, routerCount, routers>>
    BY <1>13 DEF DeleteUri, Goto, call
  <2>2. Counted' = Counted
    BY <2>1 DEF Counted, TypeOK
  <2> QED
    BY <2>1, <2>2 DEF Calm, CountOK
<1>14. ASSUME NEW p \in Callers, SubOne(p) PROVE CountOK'
  <2>1. /\ pc[p] = "sub" /\ pc' = [pc EXCEPT ![p] = "check"]
        /\ routerCount' = routerCount - 1
        /\ UNCHANGED <<name, routers>>
    BY <1>14 DEF SubOne, Goto, call
  <2>2. routers[name[p]] = NoRouter /\ name[p] \in Names
    BY <2>1, <1>c DEF Calm, RemoveOK, Removing, Holds
  <2>3. \A q \in Callers \ {p} : pc[q] \in {"add", "forget", "sub", "less"} =>
          name[q] # name[p]
    BY <2>1, <1>a DEF Registering, Removing, Holds, Calm, QuitOK, Quitting
  <2>4. Counted' = Counted \ {name[p]} /\ name[p] \in Counted
    BY <2>1, <2>2, <2>3 DEF Counted, TypeOK
  <2> QED
    BY <2>1, <2>4, CountedFinite, FS_RemoveElement DEF Calm, CountOK
<1>15. ASSUME NEW p \in Callers, CheckNone(p) PROVE CountOK'
  BY <1>15, SameCount DEF CheckNone, Return, Goto, registry, call, Calm, TypeOK, CountOK
<1>16. ASSUME NEW p \in Callers, StoreZero(p) PROVE CountOK'
  <2>1. routerCount' = routerCount
    BY <1>16 DEF StoreZero, Calm, EmptyOK
  <2> QED
    BY <1>16, <2>1, SameCount DEF StoreZero, Goto, call, Calm, TypeOK
<1>17. ASSUME NEW p \in Callers, ResetMaps(p) PROVE CountOK'
  <2>1. routers' = routers
    BY <1>17 DEF ResetMaps, Calm, EmptyOK, TypeOK
  <2> QED
    BY <1>17, <2>1, SameCount DEF ResetMaps, Return, Goto, Calm, TypeOK
<1>18. ASSUME NEW p \in Callers, QuitNext(p) PROVE CountOK'
  BY <1>18, SameCount DEF QuitNext, Goto, registry, call, Calm, TypeOK, CountOK
<1>19. ASSUME NEW p \in Callers, QuitStop(p) PROVE CountOK'
  BY <1>19, SameCount DEF QuitStop, Goto, registry, call, Calm, TypeOK, CountOK
<1>20. ASSUME NEW p \in Callers, QuitDrop(p) PROVE CountOK'
  <2>1. /\ pc[p] = "drop" /\ pc' = [pc EXCEPT ![p] = "less"]
        /\ routers' = [routers EXCEPT ![name[p]] = NoRouter]
        /\ UNCHANGED <<name, routerCount>>
    BY <1>20 DEF QuitDrop, Goto, call
  <2>2. routers[name[p]] # NoRouter /\ name[p] \in Names
    BY <2>1 DEF Calm, QuitOK, Quitting, Registering, TypeOK
  <2>3. \A q \in Callers \ {p} : pc[q] \in {"add", "forget", "sub", "less"} =>
          name[q] # name[p]
    BY <2>1 DEF Calm, QuitOK, Quitting
  <2>4. Counted' = Counted
    BY <2>1, <2>2, <2>3 DEF Counted, TypeOK
  <2> QED
    BY <2>1, <2>4 DEF Calm, CountOK
<1>21. ASSUME NEW p \in Callers, QuitLess(p) PROVE CountOK'
  <2>1. /\ pc[p] = "less" /\ pc' = [pc EXCEPT ![p] = "range"]
        /\ routerCount' = routerCount - 1
        /\ UNCHANGED <<name, routers>>
    BY <1>21 DEF QuitLess, Goto, call
  <2>2. routers[name[p]] = NoRouter /\ name[p] \in Names
    BY <2>1 DEF Calm, QuitOK, Quitting, Wired
  <2>3. \A q \in Callers \ {p} : pc[q] \in {"add", "forget", "sub", "less"} =>
          name[q] # name[p]
    BY <2>1 DEF Calm, QuitOK, Quitting
  <2>4. Counted' = Counted \ {name[p]} /\ name[p] \in Counted
    BY <2>1, <2>2, <2>3 DEF Counted, TypeOK
  <2> QED
    BY <2>1, <2>4, CountedFinite, FS_RemoveElement DEF Calm, CountOK
<1>22. ASSUME NEW p \in Callers, QuitLast(p) PROVE CountOK'
  <2>1. routerCount' = routerCount
    BY <1>22, CountedFinite DEF QuitLast, Calm, CountOK
  <2> QED
    BY <1>22, <2>1, SameCount DEF QuitLast, Goto, call, Calm, TypeOK
<1>23. ASSUME NEW p \in Callers, QuitClear(p) PROVE CountOK'
  <2>1. routers' = routers
    BY <1>23 DEF QuitClear, Calm, QuitOK, Quitting, TypeOK
  <2> QED
    BY <1>23, <2>1, SameCount DEF QuitClear, Return, Goto, Calm, TypeOK
<1>24. ASSUME NEW p \in Callers, NEW n \in Names, RemoveUriByName(p, n) PROVE CountOK'
  BY <1>24, SameCount DEF RemoveUriByName, Goto, registry, call, Calm, TypeOK, CountOK
<1>25. ASSUME NEW p \in Callers, NEW n \in Names, NEW u \in Uris, RegisterUri(p, n,
     u) PROVE CountOK'
  BY <1>25, SameCount DEF RegisterUri, Goto, registry, call, Calm, TypeOK, CountOK
<1> QED
  BY <1>1, <1>2, <1>3, <1>4, <1>5, <1>6, <1>7, <1>8, <1>9, <1>10, <1>11, <1>12, <1>13, 
     <1>14, <1>15, <1>16, <1>17, <1>18, <1>19, <1>20, <1>21, <1>22, <1>23, <1>24, 
     <1>25
     DEF Next, AppCall, RegisterStep, RemoveStep, QuitStep, Finished

Consistent == Base /\ (~raced => Calm)

LEMMA ConsistentInit ==
  ASSUME OwnNames PROVE Init => Consistent
<1> SUFFICES ASSUME Init PROVE Consistent
  OBVIOUS
<1>1. /\ \A p \in Callers : pc[p] = "idle" /\ router[p] = NoRouter
      /\ \A n \in Names : routers[n] = NoRouter /\ kept[n] = NoRouter
      /\ \A u \in Uris : routerUris[u] = None
      /\ made = 0 /\ stopped = {} /\ routerCount = 0
  BY DEF Init
<1>2. Fresh
  BY <1>1 DEF Fresh, Early, NoRouter
<1>3. Wired
  BY <1>1 DEF Wired, Registering, Removing
<1>4. RegisterOK /\ RemoveOK /\ EmptyOK /\ QuitOK
  BY <1>1 DEF RegisterOK, RemoveOK, EmptyOK, QuitOK, Registering, Removing, Quitting
<1>5. FreeOK
  BY <1>1, ServerConstants DEF FreeOK
<1>6. CountOK
  <2>1. Counted = {}
    BY <1>1 DEF Counted
  <2> QED
    BY <1>1, <2>1, FS_EmptySet DEF CountOK
<1>7. MadeOK
  BY <1>1 DEF MadeOK
<1> QED
  BY <1>2, <1>3, <1>4, <1>5, <1>6, <1>7, TypeInit DEF Consistent, Base, Calm

LEMMA ConsistentStep ==
  ASSUME OwnNames PROVE Consistent /\ [Next]_vars => Consistent'
<1> SUFFICES ASSUME Consistent, [Next]_vars PROVE Consistent'
  OBVIOUS
<1>1. Base'
  BY TypeStep, FreshStep, WiredStep DEF Consistent, Base
<1>2. ASSUME ~raced' PROVE Calm'
  <2>1. Base /\ Calm
    BY <1>2, RacedStays DEF Consistent
  <2>2. RegisterOK' /\ RemoveOK' /\ EmptyOK' /\ QuitOK'
    BY <1>2, <2>1, RegisterOKStep, RemoveOKStep, EmptyOKStep, QuitOKStep
  <2>3. FreeOK' /\ MadeOK' /\ CountOK'
    BY <1>2, <2>1, FreeOKStep, MadeOKStep, CountOKStep
  <2> QED
    BY <2>2, <2>3 DEF Calm
<1> QED
  BY <1>1, <1>2 DEF Consistent

\* Whatever the application registers, removes and quits, a call that has a router to store
\* or to stop knows it and its name.
THEOREM ServerTyping == Spec => []TypeOK
BY TypeInit, TypeStep, PTL DEF Spec

\* A router whose registration has returned is found by its name and by its one uri, runs,
\* and has a route in an engine, until its removal begins: however many goroutines register,
\* remove and set engines, as long as they have names and uris of their own and nobody empties
\* the maps meanwhile.
THEOREM KeptRoutersAreServed ==
  ASSUME OwnNames PROVE Spec => []KeptIsServed
<1>1. Consistent => KeptIsServed
  <2> SUFFICES ASSUME Consistent, ~raced, NEW n \in Names, kept[n] # NoRouter
               PROVE  /\ routers[n] = kept[n] /\ kept[n] \notin stopped
                      /\ \E u \in Uris : /\ UrisOf(n) = {u}
                                         /\ \E g \in Engines, m \in Methods : routes[g][u][m] = kept[n]
    BY DEF KeptIsServed, KeptIsFound
  <2> USE DEF Consistent, Base, Calm
  <2>1. Free(n)
    BY DEF Free, Holds, RegisterOK, RemoveOK, QuitOK
  <2>2. /\ kept[n] = routers[n] /\ routers[n] \notin stopped
        /\ \E u \in Uris : routerUris[u] = n /\ Served(u, routers[n])
    BY <2>1 DEF FreeOK
  <2>3. \A u, v \in Uris : routerUris[u] = n /\ routerUris[v] = n => u = v
    BY OneUri, ServerConstants
  <2> QED
    BY <2>2, <2>3 DEF UrisOf, Served
<1> QED
  BY ConsistentInit, ConsistentStep, <1>1, PTL DEF Spec

\* Between two calls the counter is the number of routers, no uri is left without its router,
\* and every router that was made is registered or has quit.
THEOREM RegistryStaysExact ==
  ASSUME OwnNames PROVE Spec => []RegistryExact
<1>1. Consistent => RegistryExact
  <2> SUFFICES ASSUME Consistent, ~raced, AtRest
               PROVE  /\ routerCount = Cardinality({n \in Names : routers[n] # NoRouter})
                      /\ \A u \in Uris : routerUris[u] # None =>
                           routers[routerUris[u]] # NoRouter
                      /\ \A r \in 1 .. made :
                           r \in stopped <=> \A n \in Names : routers[n] # r
    BY DEF RegistryExact
  <2> USE DEF Consistent, Base, Calm
  <2>1. \A n \in Names : Free(n)
    BY DEF Free, Holds, Registering, Removing, Quitting, AtRest
  <2>2. routerCount = Cardinality({n \in Names : routers[n] # NoRouter})
    <3>1. Counted = {n \in Names : routers[n] # NoRouter}
      BY DEF Counted, AtRest
    <3> QED
      BY <3>1 DEF CountOK
  <2>3. \A u \in Uris : routerUris[u] # None => routers[routerUris[u]] # NoRouter
    BY <2>1 DEF FreeOK, TypeOK
  <2>4. ASSUME NEW r \in 1 .. made
        PROVE  r \in stopped <=> \A n \in Names : routers[n] # r
    <3>1. r # NoRouter
      BY DEF NoRouter
    <3>2. ASSUME NEW n \in Names, routers[n] = r PROVE r \notin stopped
      BY <2>1, <3>1, <3>2 DEF FreeOK
    <3>3. r \in stopped \/ \E n \in Names : routers[n] = r
      BY DEF MadeOK, Early, AtRest
    <3> QED
      BY <3>2, <3>3
  <2> QED
    BY <2>2, <2>3, <2>4
<1> QED
  BY ConsistentInit, ConsistentStep, <1>1, PTL DEF Spec

==============================================================================
