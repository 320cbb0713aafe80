------------------------------- MODULE MCInputs -------------------------------
(***************************************************************************)
(* Two instances of AgentInbox and one of Supervisor in one run, chosen by *)
(* the rigid variable mode: "plain" has follow-ups and steering, pauses    *)
(* and crashes, and the host withdraws nothing; "edits" has follow-ups     *)
(* only, which the host may withdraw at any moment, and durable approvals. *)
(* In both the constants bound crashes, and "edits" has room for one.      *)
(* "supervisor" has two processes that activate the agent, two requests in *)
(* one of them and one in the other.                                       *)
(***************************************************************************)
EXTENDS MCAgentInbox, Supervisor
CONSTANTS h1, h2, r1, r2, r3
VARIABLE mode

TwoHosts == {h1, h2}
ThreeRequests == {r1, r2, r3}
Served == [r \in ThreeRequests |-> IF r = r3 THEN h2 ELSE h1]

AllInputs == {f1, f2, f3, s1, s2}

\* The actions of AgentInbox that either instance leaves out are cut by what
\* they would change.
Plain ==
    /\ mode = "plain"
    /\ Next
    /\ f3 \notin accepted' /\ cancelled' = {} /\ ~human'
    /\ UNCHANGED superVars

Edits ==
    /\ mode = "edits"
    /\ Next
    /\ accepted' \subseteq ThreeFollowups
    /\ crashes' <= 1 /\ pauses' = 0
    /\ UNCHANGED superVars

Supervised ==
    /\ mode = "supervisor"
    /\ SuperNext
    /\ UNCHANGED vars

InputsInit == Init /\ SuperInit /\ mode \in {"plain", "edits", "supervisor"}

InputsSpec ==
    /\ InputsInit
    /\ [][(Plain \/ Edits \/ Supervised) /\ UNCHANGED mode]_<<vars, superVars, mode>>
    /\ DriverFair

PlainLedger == INSTANCE InputLedger
    WITH fate <- [m \in Messages |-> IF mode = "plain" THEN FateOf(m) ELSE "new"]

\* Without withdrawals the inbox, its driver and the engine together implement
\* the ledger: every acknowledged input reaches exactly one turn, across
\* crashes between the claim, the turn's first append, live steering and
\* reconciliation (with them it does not: NoInputLost); and follow-ups run in
\* the order in which they queue.
LedgerInOrder == PlainLedger!LedgerSpec /\ NoOvertaking
================================================================================
