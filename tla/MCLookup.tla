------------------------------ MODULE MCLookup ------------------------------
(***************************************************************************)
(* Lookup for TLC: a root, a zone good with a zone sub.good below it, whose *)
(* server is named without an address, and a zone evil whose servers lie.   *)
(***************************************************************************)
EXTENDS Lookup, TLC

CONSTANTS ipRoot, ipGood, ipGood2, ipSub, ipEvil, w1, w2

good == <<"good">>
evil == <<"evil">>
sub == <<"sub", "good">>
nsGood == <<"ns", "good">>
nsSub == <<"h", "good">>
nsEvil == <<"ns", "evil">>
www == <<"www", "good">>
x == <<"x", "sub", "good">>
trap == <<"a", "evil">>

MCZones == {Root, good, evil, sub}
MCNames == MCZones \cup {nsGood, nsSub, nsEvil, www, x, trap}
MCQuestions == (w1 :> {www}) @@ (w2 :> {x, trap})
MCHonest == {Root, good, sub}
MCLiars == {evil}
MCGlueless == {sub}
MCServes == (ipRoot :> Root) @@ (ipGood :> good) @@ (ipGood2 :> good) @@ (ipSub :> sub) @@ (ipEvil :> evil)
MCNSNames == (Root :> {}) @@ (good :> {nsGood}) @@ (sub :> {nsSub}) @@ (evil :> {nsEvil})
MCData == [n \in MCNames |->
            CASE n = nsGood -> {ipGood, ipGood2} [] n = nsSub -> {ipSub} [] n = nsEvil -> {ipEvil}
              [] n = www -> {ipSub} [] n = x -> {www} [] OTHER -> {NoData}]

Pairs(owner, data) == {[owner |-> owner, data |-> data]}
NS(owner, target) == {[owner |-> owner, target |-> target]}
Glue(owner, ip) == {[owner |-> owner, ip |-> ip]}

\* Answers of its own, for others, as an alias; referrals down, up, sideways,
\* to itself and in circles, with addresses of its own and of others.
Lie(rcode, aa, answers) ==
  [rcode |-> rcode, aa |-> aa, answers |-> answers, ns |-> {}, glue |-> {}]
Refer(ns, glue) == [rcode |-> "ok", aa |-> FALSE, answers |-> {}, ns |-> ns, glue |-> glue]
MCLies ==
  {Lie("ok", TRUE, a) : a \in {Pairs(trap, ipEvil), Pairs(www, ipEvil), Pairs(trap, www) \cup Pairs(www, ipEvil)}}
  \cup {Lie("nx", TRUE, {}), Lie("ok", FALSE, Pairs(trap, ipEvil))}
  \cup {Refer(NS(good, nsEvil), Glue(nsEvil, ipEvil)), Refer(NS(Root, nsEvil), Glue(nsEvil, ipEvil)),
        Refer(NS(evil, nsEvil), Glue(nsEvil, ipEvil)), Refer(NS(trap, nsEvil), Glue(nsEvil, ipEvil)),
        Refer(NS(trap, trap), {})}

\* The limits suffice here, and both of the good zones' names can be resolved,
\* the one with an alias and a glueless server only with a level to spare.
ASSUME LimitsHold == LimitsSuffice /\ {x, www} \subseteq Resolvable[1] /\ x \notin Resolvable[0]
=============================================================================
