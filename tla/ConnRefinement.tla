---------------------------- MODULE ConnRefinement ----------------------------
(* ConnLifecycle implements ConnRegistry, in a router without an active     *)
(* check whose peers do not reuse addresses.                                *)
EXTENDS ConnLifecycle

Phase(c) ==
  CASE entry[c] = "none" -> "new"
    [] entry[c] = "aborted" -> "gone"
    [] entry[c] \in {"spawned", "addressed", "listed"} -> "offered"
    [] entry[c] \in {"mapped", "done"} ->
         IF c \in connMap[BucketOf(c)] THEN "listed" ELSE "gone"

Life(c) == IF ReadFails(c) THEN "dead" ELSE sock[c]

PhaseMap == [c \in Conns |-> Phase(c)]
LifeMap  == [c \in Conns |-> Life(c)]

Registry == INSTANCE ConnRegistry WITH
  phase <- PhaseMap, life <- LifeMap, directory <- remote

\* Whatever goroutines accept, read, refuse and close, a connection is listed once, leaves
\* the list dead, and never comes back; the address map never loses an open connection to
\* the closing of another.
ImplementsRegistry == Registry!Spec

===============================================================================
