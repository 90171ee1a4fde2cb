---------------------------- MODULE MCProtection ----------------------------
(***************************************************************************)
(* Protection for TLC: the main goroutine, the control loop, one or two    *)
(* panel handlers, one command line tool; resolv.conf is a plain file or a *)
(* symbolic link to systemd-resolved's stub.  Two handlers and overlapping  *)
(* tools are for the README's known disagreements.                          *)
(***************************************************************************)
EXTENDS Protection

CONSTANTS stubLink, plain, p1, p2, tool

OnePanel == {p1}
TwoPanels == {p1, p2}
WithPanel == {Main, Loop} \cup OnePanel
WithPanels == {Main, Loop} \cup TwoPanels
OneTool == {tool}

PlainHost == {plain}
StubHost == {stubLink, plain}
TheStub == {stubLink}
NoFiles == {}

Harmless == {}
Failing == {"io"}
OnlyLease == {"lease"}
Overlap == {"overlap"}

=============================================================================
