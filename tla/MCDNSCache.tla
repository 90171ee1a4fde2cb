----------------------------- MODULE MCDNSCache -----------------------------
(* An instance of DNSCache for TLC: an alias, its target, and a target whose *)
(* zone is served, without glue, by a server named by the alias.             *)
EXTENDS DNSCache, TLC

CONSTANTS alias, target

MCNames == {alias, target}
MCAlias == [n \in MCNames |-> IF n = alias THEN target ELSE NoName]
MCServer == [n \in MCNames |-> IF n = target THEN alias ELSE NoName]
Symmetry == Permutations(Clients)
=============================================================================
