---------------------------- MODULE SafeRedirect ----------------------------
(***************************************************************************)
(* What Ceky Resolver promises about the system DNS setting, without files,*)
(* processes or failures: the machine asks either the user's servers or    *)
(* Ceky, a record of the user's setting is kept, the machine is redirected *)
(* only while the record exists, and the record is forgotten only after    *)
(* the machine is back on the user's servers.                              *)
(***************************************************************************)

VARIABLES
  target,   \* "user" or "ceky": who answers the machine's DNS queries
  saved     \* is there a record the user's setting can be restored from?

vars == <<target, saved>>

Init ==
  /\ target = "user"
  /\ saved = FALSE

Save ==
  /\ saved' = TRUE
  /\ UNCHANGED target

Redirect ==
  /\ saved
  /\ target' = "ceky"
  /\ UNCHANGED saved

Revert ==
  /\ target' = "user"
  /\ UNCHANGED saved

Forget ==
  /\ target = "user"
  /\ saved' = FALSE
  /\ UNCHANGED target

Next == Save \/ Redirect \/ Revert \/ Forget

Spec == Init /\ [][Next]_vars

=============================================================================
