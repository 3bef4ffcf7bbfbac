------------------------------ MODULE MCReleases ------------------------------
(* Instances of Releases for TLC: one deployment that may be retried once. *)
EXTENDS Releases, TLC

CONSTANTS o1, o2, p1, p2
===============================================================================
