------------------------------- MODULE MCServer -------------------------------
(* Model checking of Server: who registers and removes what.               *)
EXTENDS Server, TLC

CONSTANTS k1, k2, n1, n2, n3, u1, u2, u3, g1, g2, get, post

\* One method, or all.
GetOrPost == {{get}, {post}}
AnyMethod == {{get, post}}

\* Two goroutines, each with names and uris of its own.
OwnRegisters == k1 :> {<<n1, u1>>, <<n2, u2>>} @@ k2 :> {<<n3, u3>>}
OwnRemoves   == k1 :> {n1, n2} @@ k2 :> {n3}

\* Engines and methods are alike, and so are the two names of k1 with their uris.
Exchange(s, t) == s :> t @@ t :> s
Symmetry ==
  {e @@ m @@ n : e \in Permutations({g1, g2}), m \in Permutations({get, post}),
                 n \in {n1 :> n1, Exchange(n1, n2) @@ Exchange(u1, u2)}}

\* Both remove the same name.
BothRemove == k1 :> {n1} @@ k2 :> {n1}

\* One goroutine registers two uris for one name.
NameTwice == k1 :> {<<n1, u1>>, <<n1, u2>>}
OneName   == k1 :> {n1}

===============================================================================
