----------------------------- MODULE MCSiteCatalog -----------------------------
(* SiteCatalog with two processes, one of which restarts, and one site that   *)
(* wanders between two domains.                                               *)
EXTENDS SiteCatalog

CONSTANTS p1, p2, d1, d2, a

MCProcesses == {p1, p2}
MCRestarting == {p2}
MCDomains == {d1, d2}
MCProfiles == {a}
================================================================================
