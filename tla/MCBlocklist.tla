----------------------------- MODULE MCBlocklist -----------------------------
(***************************************************************************)
(* Blocklist for TLC: a site, a host below it, another site, a bare label. *)
(***************************************************************************)
EXTENDS Blocklist

CONSTANTS s1, p1, p2

site == <<"site", "com">>
host == <<"www", "site", "com">>
other == <<"other", "com">>
bare == <<"nas">>

MCNames == {site, host, other, bare}
MCAsked == {site, bare}
TwoSites == {site, other}
MCUnlistable == {bare}
MCEditions == {{host}, {other}}
MCCustom == {}
=============================================================================
