--------------------------- MODULE MCBackgroundTasks ---------------------------
(* BackgroundTasks has one numeric constant; its values are in the configs. *)
EXTENDS BackgroundTasks, TLC
================================================================================
