--------------------------- MODULE MCConnLifecycle ---------------------------
(* Model checking of ConnLifecycle; the instances are in the cfg files.     *)
EXTENDS ConnRefinement, TLC

\* Peers and application goroutines are interchangeable: nothing orders them.
Symmetry == Permutations(Addrs) \cup Permutations(Callers)

=============================================================================
