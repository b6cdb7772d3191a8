----------------------------- MODULE MCRouterQuit -----------------------------
(* Model checking of RouterQuit; the instances are in the cfg files.        *)
EXTENDS RouterQuit, TLC

\* Peers and application goroutines are interchangeable.  Used for safety only.
Symmetry == Permutations(Addrs) \cup Permutations(Callers)

===============================================================================
