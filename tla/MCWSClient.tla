------------------------------ MODULE MCWSClient ------------------------------
EXTENDS WSClient, TLC

\* Application goroutines are interchangeable.  Used for safety only.
Symmetry == Permutations(Callers)

=============================================================================
