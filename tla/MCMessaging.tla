----------------------------- MODULE MCMessaging -----------------------------
(* The message chain with one message, one publisher and two consumers, one *)
(* of which may stop.                                                        *)
EXTENDS Messaging, TLC

CONSTANTS m1, p1, c1, c2

MCOneMessage == {m1}
MCOnePublisher == {p1}
MCNone == {}
MCConsumers == {c1, c2}
MCCrashableConsumers == {c2}
================================================================================
