------------------------------- MODULE AppendLog -------------------------------
(***************************************************************************)
(* What the session store promises: one log that grows by one batch at a   *)
(* time.  Only the loss of the machine's volatile memory takes batches     *)
(* away again, from the end, and never one that a flush has acknowledged.  *)
(***************************************************************************)
EXTENDS Naturals, Sequences

CONSTANT Batches

VARIABLES
    log,        \* the batches, in order
    durable,    \* how many of them a flush has acknowledged
    losses      \* times the volatile memory was lost

logVars == <<log, durable, losses>>

LogInit == log = <<>> /\ durable = 0 /\ losses = 0

\* A batch enters at the end, once.
Extend(b) ==
    /\ \A i \in DOMAIN log : log[i] # b
    /\ log' = Append(log, b)
    /\ UNCHANGED <<durable, losses>>

Persist ==
    /\ durable' = Len(log)
    /\ UNCHANGED <<log, losses>>

Lose ==
    /\ losses' = losses + 1
    /\ \E k \in durable..Len(log) : log' = SubSeq(log, 1, k)
    /\ UNCHANGED durable

LogNext == (\E b \in Batches : Extend(b)) \/ Persist \/ Lose

LogSpec == LogInit /\ [][LogNext]_logVars
================================================================================
