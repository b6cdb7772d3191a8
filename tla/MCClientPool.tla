---------------------------- MODULE MCClientPool ----------------------------
(* Model checking of ClientPool: what the goroutines do.                   *)
EXTENDS ClientPool, TLC

CONSTANTS k1, k2

All == Kinds \cup {"create", "close", "closeConn", "quit", "send"}

\* Only one goroutine makes clients and sets the heart beat rate; both switch the
\* automatic connect.
OneBeater == k1 :> {"auto", "send"} @@ k2 :> All \ {"send"}
Everybody == k1 :> All @@ k2 :> All
Alone     == k1 :> All

=============================================================================
