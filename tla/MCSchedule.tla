------------------------------ MODULE MCSchedule ------------------------------
(* Two rules of both kinds on a clock of a few ticks. *)
EXTENDS Schedule, TLC

BothKinds == {"once", "every"}
================================================================================
