------------------------------ MODULE RecentLog ------------------------------
(***************************************************************************)
(* What the query log promises the panel: the last Room entries, the       *)
(* newest first, each there until Room later ones have come.               *)
(***************************************************************************)
EXTENDS Naturals, Sequences

CONSTANTS Domains, Statuses, Room

VARIABLES
  recent,   \* the entries shown
  asked     \* how many queries there were for each domain

vars == <<recent, asked>>

Newest(s) == SubSeq(s, 1, IF Len(s) < Room THEN Len(s) ELSE Room)

Init == recent = <<>> /\ asked = [d \in Domains |-> 0]

\* One more query, shown as what it was.
Record(d, status) ==
  /\ recent' = Newest(<<[domain |-> d, status |-> status]>> \o recent)
  /\ asked' = [asked EXCEPT ![d] = @ + 1]

Next == \E d \in Domains, status \in Statuses : Record(d, status)

Spec == Init /\ [][Next]_vars
=============================================================================
