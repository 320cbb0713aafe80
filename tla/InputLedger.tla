------------------------------ MODULE InputLedger ------------------------------
(***************************************************************************)
(* What a durable agent promises about the inputs it accepts, whatever the *)
(* order of host calls, driver steps and crashes: an input whose admission *)
(* was acknowledged stays pending until exactly one turn takes it or the   *)
(* host cancels it, and either outcome is final.                           *)
(***************************************************************************)
CONSTANT Messages       \* stable input identities

VARIABLE fate           \* fate[m]: where input m is in its life

Fates == {"new", "pending", "consumed", "cancelled"}

LedgerTypeOK == fate \in [Messages -> Fates]

LedgerInit == fate = [m \in Messages |-> "new"]

\* The agent acknowledges the durable insertion of m.
Accept(m) ==
    /\ fate[m] = "new"
    /\ fate' = [fate EXCEPT ![m] = "pending"]

\* One turn boundary takes a batch of pending inputs.
Consume(batch) ==
    /\ batch # {}
    /\ \A m \in batch : fate[m] = "pending"
    /\ fate' = [m \in Messages |-> IF m \in batch THEN "consumed" ELSE fate[m]]

\* The host withdraws a pending input.
Withdraw(m) ==
    /\ fate[m] = "pending"
    /\ fate' = [fate EXCEPT ![m] = "cancelled"]

LedgerNext ==
    \/ \E m \in Messages : Accept(m) \/ Withdraw(m)
    \/ \E batch \in SUBSET Messages : Consume(batch)

LedgerSpec == LedgerInit /\ [][LedgerNext]_fate
================================================================================
