------------------------------ MODULE MCServer ------------------------------
(* Server for TLC. *)
EXTENDS Server

CONSTANTS g1, g2
=============================================================================
