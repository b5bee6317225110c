---------------------------- MODULE MCFileDeletion ----------------------------
(* FileDeletion with two processes and a request in the first, which may stop. *)
EXTENDS FileDeletion, TLC

CONSTANTS p1, p2, d1

MCHome == d1 :> p1
================================================================================
