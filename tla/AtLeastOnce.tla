------------------------------ MODULE AtLeastOnce ------------------------------
(***************************************************************************)
(* What every asynchronous hand-over of the kernel promises: something     *)
(* accepted is delivered, nothing else is, and neither is ever taken back. *)
(* A repeated delivery is allowed, so it is a stuttering step here.        *)
(***************************************************************************)
CONSTANT Messages

VARIABLES accepted, delivered

aloVars == <<accepted, delivered>>

ALOInit == accepted = {} /\ delivered = {}

Accept(m) ==
    /\ accepted' = accepted \cup {m}
    /\ UNCHANGED delivered

Deliver(m) ==
    /\ m \in accepted
    /\ delivered' = delivered \cup {m}
    /\ UNCHANGED accepted

ALONext == \E m \in Messages : Accept(m) \/ Deliver(m)

ALOSafety == ALOInit /\ [][ALONext]_aloVars

ALOSpec == ALOSafety /\ \A m \in Messages : WF_aloVars(Deliver(m))
================================================================================
