------------------------------ MODULE MCGroups ------------------------------
EXTENDS Groups, TLC

\* Connections are interchangeable, and so are application goroutines that do the
\* same things.  Used for safety only.
Symmetry == Permutations(Conns) \cup Permutations(Callers)

=============================================================================
