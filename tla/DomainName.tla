----------------------------- MODULE DomainName -----------------------------
(***************************************************************************)
(* Domain names as sequences of labels: www.example is <<"www", "example">>, *)
(* the root is empty.  Comparing them without regard to case and a final   *)
(* dot (normalizeName) is done before a name becomes such a sequence.      *)
(***************************************************************************)
EXTENDS Naturals, Sequences

Root == <<>>

\* isSubdomain: child is parent or below it.
IsSubdomain(child, parent) ==
  /\ Len(parent) <= Len(child)
  /\ \A i \in 1 .. Len(parent) : child[Len(child) - Len(parent) + i] = parent[i]

\* The name and what parentName makes of it until nothing is left.
Ancestry(n) == {SubSeq(n, i, Len(n)) : i \in 1 .. Len(n)}
=============================================================================
