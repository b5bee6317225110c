----------------------------- MODULE MCMailDelivery -----------------------------
(* MailDelivery with one message on one or two runtimes, the first of which   *)
(* serves requests, may crash and is asked to leave.                          *)
EXTENDS MailDelivery, TLC

CONSTANTS m1, r1, r2

MCOneMessage == {m1}
MCOneRuntime == {r1}
MCRuntimes == {r1, r2}
MCNone == {}
================================================================================
