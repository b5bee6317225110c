------------------------------- MODULE MCOutbox -------------------------------
(* Outbox on two publishers, one of which may stop at any step. *)
EXTENDS Outbox, TLC

CONSTANTS m1, m2, p1, p2

MCMessages == {m1, m2}
MCPublishers == {p1, p2}
MCCrashable == {p2}
================================================================================
