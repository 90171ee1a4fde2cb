---------------------------- MODULE MCSystemDNS -----------------------------
(***************************************************************************)
(* SystemDNS for TLC: two goroutines, one command line tool, a symbolic    *)
(* link to the stub and a plain file of the user's.                        *)
(***************************************************************************)
EXTENDS SystemDNS

CONSTANTS stubLink, plain, loop, panel, tool

MCUserFiles == {stubLink, plain}
MCStubFiles == {stubLink}
MCLinks == {stubLink}

\* Failed writes but no DHCP client: what is restored is exactly what was saved.
Failing == {"io"}

=============================================================================
