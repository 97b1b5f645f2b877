----------------------------- MODULE MCSessions -----------------------------
(* Instances of Sessions for TLC. *)
EXTENDS Sessions, TLC

CONSTANTS ann, bob, p, q, b1, b2, s1, s2

\* Nothing tells two users, passwords, browsers or slots apart.
Symmetric == Permutations({ann, bob}) \cup Permutations({p, q})
               \cup Permutations({b1, b2}) \cup Permutations({s1, s2})
=============================================================================
