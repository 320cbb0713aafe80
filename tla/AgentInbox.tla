------------------------------- MODULE AgentInbox -------------------------------
(***************************************************************************)
(* One long-lived agent: its durable inbox (the lists next-turn and        *)
(* next-step, folded from agent/inbox/spliced events of the session log),  *)
(* the driver worker that claims inputs and runs turns, the part of the    *)
(* turn engine that writes the claim to the log, and the host that admits, *)
(* steers, cancels and restarts.                                           *)
(*                                                                         *)
(* Every log append is one atomic step: the inbox re-reads and retries its *)
(* compare-and-swap under a conflict, and so does the engine, which keeps  *)
(* the SAME events when only inbox splices intervened.  Splices are        *)
(* positional, so the claim is kept as the number of items it deletes from *)
(* the front of each list, next to the inputs it will run.                 *)
(***************************************************************************)
EXTENDS Naturals, Sequences, FiniteSets

CONSTANTS
    Messages,       \* stable input identities
    Steerable,      \* inputs that arrive as steering or injected context
    Removable,      \* inputs the host may remove from the queue
    Approvals,      \* TRUE: a turn may stop at a durable approval
    MaxCrashes,     \* bound on process crashes
    MaxPauses       \* bound on dispatch pause/resume events

ASSUME InboxAssumption ==
    /\ Steerable \subseteq Messages
    /\ Removable \subseteq Messages
    /\ Approvals \in BOOLEAN
    /\ MaxCrashes \in Nat
    /\ MaxPauses \in Nat

VARIABLES
    \* the session log, as the facts the driver folds from it
    nextTurn,       \* pending follow-ups, in order
    nextStep,       \* pending steering and context, in order
    users,          \* user/message events: [id, turn, list]
    turn,           \* number of the last turn/start
    turnOpen,       \* the last turn has no turn/end yet
    human,          \* the open turn waits at an asked, undecided approval
    dispatchPaused, \* last AgentDispatchPaused event
    \* the driver worker and the turn it runs (lost in a crash)
    pc, wake, recover, status,
    claim,          \* inputs taken by prepare_claim, not yet in the log
    mailbox,        \* steering handed to the engine, not yet in the log
    attached,       \* the host has resumed the session after (re)start
    \* what was promised to callers, and the bounds
    accepted, cancelled, owed, crashes, pauses

durable == <<nextTurn, nextStep, users, turn, turnOpen, human, dispatchPaused>>
worker  == <<pc, wake, recover, status, claim, mailbox, attached>>
ghosts  == <<accepted, cancelled, owed>>
bounds  == <<crashes, pauses>>
vars    == <<durable, worker, ghosts, bounds>>

NoClaim == [steps |-> <<>>, turns |-> <<>>]

Elems(s)   == {s[i] : i \in DOMAIN s}
\* A splice that deletes the first k entries of a list.
Drop(s, k) == SubSeq(s, k + 1, Len(s))
\* The entries of a list that are not in S, in their order.
Without(s, S) ==
    LET kept[i \in 0..Len(s)] ==
            IF i = 0 THEN <<>>
            ELSE IF s[i] \in S THEN kept[i - 1] ELSE Append(kept[i - 1], s[i])
    IN  kept[Len(s)]

Pending  == Elems(nextTurn) \cup Elems(nextStep)
Consumed == {users[i].id : i \in DOMAIN users}

\* user/message events for the inputs ids of one list, in turn t
Says(ids, t, list) == [i \in DOMAIN ids |-> [id |-> ids[i], turn |-> t, list |-> list]]

TypeOK ==
    /\ nextTurn \in Seq(Messages) /\ nextStep \in Seq(Messages)
    /\ users \in Seq([id : Messages, turn : Nat, list : {"turn", "step"}])
    /\ turn \in Nat
    /\ turnOpen \in BOOLEAN /\ human \in BOOLEAN /\ dispatchPaused \in BOOLEAN
    /\ human => turnOpen
    /\ pc \in {"boot", "idle", "check", "acquire", "build", "init", "run",
               "settle", "rebuild", "rerun", "dead"}
    /\ wake \in BOOLEAN /\ recover \in BOOLEAN /\ attached \in BOOLEAN
    /\ status \in {"Idle", "Running"}
    /\ claim \in [steps : Seq(Messages), turns : Seq(Messages)]
    /\ claim # NoClaim => pc \in {"build", "init"}
    /\ mailbox \in Seq(Messages)
    /\ mailbox # <<>> => pc \in {"init", "run", "rerun"}
    /\ accepted \subseteq Messages /\ cancelled \subseteq accepted
    /\ owed \subseteq accepted
    /\ crashes \in 0..MaxCrashes /\ pauses \in 0..MaxPauses

\* A session exists and its worker has just been started.
Init ==
    /\ nextTurn = <<>> /\ nextStep = <<>> /\ users = <<>> /\ turn = 0
    /\ turnOpen = FALSE /\ human = FALSE /\ dispatchPaused = FALSE
    /\ pc = "boot" /\ wake = FALSE /\ recover = FALSE /\ status = "Idle"
    /\ claim = NoClaim /\ mailbox = <<>> /\ attached = FALSE
    /\ accepted = {} /\ cancelled = {} /\ owed = {}
    /\ crashes = 0 /\ pauses = 0

--------------------------------------------------------------------------------
(* The durable inbox *)

SkipReconcile == UNCHANGED <<nextTurn, nextStep>>    \* bug: no reconciliation

\* The deletions that reconcile_consumed appends in one batch: pending
\* identities that already have a user/message.
ReconcileConsumed ==
    /\ nextTurn' = Without(nextTurn, Consumed)
    /\ nextStep' = Without(nextStep, Consumed)

\* append(NextTurn, m) / append(NextStep, m): refused when m is pending.
InsertTurn(m) ==
    /\ m \notin Pending
    /\ nextTurn' = Append(nextTurn, m)
    /\ accepted' = accepted \cup {m}
    /\ UNCHANGED nextStep

InsertStep(m) ==
    /\ m \notin Pending
    /\ nextStep' = Append(nextStep, m)
    /\ accepted' = accepted \cup {m}
    /\ UNCHANGED nextTurn

\* bug: the newest follow-up is claimed
ClaimNewest == [steps |-> nextStep,
                turns |-> IF nextTurn = <<>> THEN <<>> ELSE <<nextTurn[Len(nextTurn)]>>]

\* Everything in next-step, then at most one follow-up.  Nothing is written.
PrepareClaim == [steps |-> nextStep,
                 turns |-> IF nextTurn = <<>> THEN <<>> ELSE <<Head(nextTurn)>>]

--------------------------------------------------------------------------------
(* The host's calls.  A host uses an identity for one admission only: the  *)
(* RPC receipts answer a retry without calling the inbox again.            *)

Fresh(m) == attached /\ m \notin accepted

\* prepare_turn: the host appends to the inbox itself, whatever the worker
\* does, and wakes it later (start_turn).
Admit(m) ==
    /\ Fresh(m) /\ m \notin Steerable
    /\ InsertTurn(m)
    /\ UNCHANGED <<users, turn, turnOpen, human, dispatchPaused, worker,
                   cancelled, owed, bounds>>

\* Where the worker takes commands from its channel: asleep with no request
\* left to serve, waiting for capacity, or beside a run.
Asleep        == pc = "idle" /\ ~wake /\ ~recover
IdleReceive   == Asleep \/ pc = "acquire"
ActiveReceive == pc \in {"init", "run", "rerun"}

\* Every follow-up pending when a wake is acknowledged is owed a turn.
Wake ==
    /\ attached /\ (IdleReceive \/ ActiveReceive)
    /\ wake' = TRUE
    /\ owed' = owed \cup Elems(nextTurn)
    /\ UNCHANGED <<durable, pc, recover, status, claim, mailbox, attached,
                   accepted, cancelled, bounds>>

\* MaintenanceFollowup (schedule deliveries) is the same insertion; it is
\* refused as Busy only while a turn runs.
Followup(m) ==
    /\ Fresh(m) /\ m \notin Steerable
    /\ IdleReceive \/ ActiveReceive
    /\ InsertTurn(m)
    /\ wake' = TRUE
    /\ status' = IF IdleReceive THEN "Running" ELSE status
    /\ owed' = owed \cup Elems(nextTurn')
    /\ UNCHANGED <<users, turn, turnOpen, human, dispatchPaused, pc, recover,
                   claim, mailbox, attached, cancelled, bounds>>

\* handle_idle(Steer): persisted, the wake flag set, nothing to interrupt.
SteerIdle(m) ==
    /\ Fresh(m) /\ m \in Steerable /\ IdleReceive
    /\ InsertStep(m)
    /\ wake' = TRUE
    /\ status' = "Running"
    /\ UNCHANGED <<users, turn, turnOpen, human, dispatchPaused, pc, recover,
                   claim, mailbox, attached, cancelled, owed, bounds>>

\* handle_active(Steer): persisted, then sent to the run, which may already
\* have closed its command channel.
SteerActive(m) ==
    /\ Fresh(m) /\ m \in Steerable /\ ActiveReceive
    /\ InsertStep(m)
    /\ wake' = TRUE
    /\ mailbox' \in {mailbox, Append(mailbox, m)}
    /\ UNCHANGED <<users, turn, turnOpen, human, dispatchPaused, pc, recover,
                   status, claim, attached, cancelled, owed, bounds>>

\* Inject: like Steer, without waking the worker or changing its status.
Inject(m) ==
    /\ Fresh(m) /\ m \in Steerable
    /\ IdleReceive \/ ActiveReceive
    /\ InsertStep(m)
    /\ mailbox' \in IF ActiveReceive THEN {mailbox, Append(mailbox, m)} ELSE {mailbox}
    /\ UNCHANGED <<users, turn, turnOpen, human, dispatchPaused, pc, wake,
                   recover, status, claim, attached, cancelled, owed, bounds>>

\* remove_pending_input: an acknowledged removal of a pending input, at any
\* point of the worker's life.
RemovePending(m) ==
    /\ attached /\ m \in Removable /\ m \in Pending
    /\ nextTurn' = Without(nextTurn, {m})
    /\ nextStep' = Without(nextStep, {m})
    /\ cancelled' = cancelled \cup {m}
    /\ owed' = owed \ {m}
    /\ UNCHANGED <<users, turn, turnOpen, human, dispatchPaused, worker,
                   accepted, bounds>>

\* The host appends AgentDispatchPaused{paused}; resuming is followed by wake.
PauseDispatch ==
    /\ attached /\ pauses < MaxPauses
    /\ dispatchPaused' = ~dispatchPaused
    /\ pauses' = pauses + 1
    /\ UNCHANGED <<nextTurn, nextStep, users, turn, turnOpen, human, worker,
                   ghosts, crashes>>

--------------------------------------------------------------------------------
(* The driver worker *)

\* run(): reconcile, then sleep until the host resumes the session.
Boot ==
    /\ pc = "boot"
    /\ ReconcileConsumed
    /\ pc' = "idle"
    /\ UNCHANGED <<users, turn, turnOpen, human, dispatchPaused, wake, recover,
                   status, claim, mailbox, attached, ghosts, bounds>>

\* resume_session: subscribe, RecoverOpenTurn if an approval is pending, then
\* Wake if a follow-up is.
HostResume ==
    /\ pc = "idle" /\ ~attached
    /\ attached' = TRUE
    /\ recover' = human
    /\ status' = IF human THEN "Running" ELSE status
    /\ wake' = (nextTurn # <<>>)
    /\ owed' = owed \cup Elems(nextTurn)
    /\ UNCHANGED <<durable, pc, claim, mailbox, accepted, cancelled, bounds>>

\* run(), requested recovery first: reserve the driver and rebuild a request.
DispatchRecovery ==
    /\ pc = "idle" /\ recover
    /\ recover' = FALSE
    /\ status' = "Running"
    /\ pc' = "rebuild"
    /\ UNCHANGED <<durable, wake, claim, mailbox, attached, ghosts, bounds>>

HasSteering == nextStep # <<>>     \* bug: the wrong list is tested
HasFollowup == nextTurn # <<>>
WakeNext    == pc = "idle" /\ ~recover /\ wake

\* run(): a requested wake drives the queue only if a follow-up is pending.
DispatchWake ==
    /\ WakeNext
    /\ wake' = FALSE
    /\ IF HasFollowup
       THEN pc' = "check" /\ status' = "Running"
       ELSE UNCHANGED <<pc, status>>
    /\ UNCHANGED <<durable, recover, claim, mailbox, attached, ghosts, bounds>>

\* Back to the idle loop: finish_driver and status Idle.
Retire == pc' = "idle" /\ status' = "Idle"

\* park_pending: the queue keeps its inputs until another wake.
Park ==
    /\ wake' = FALSE
    /\ owed' = {}
    /\ Retire

\* A paused session parks instead of asking for capacity.
CheckPaused ==
    /\ pc = "check"
    /\ IF dispatchPaused
       THEN Park
       ELSE pc' = "acquire" /\ UNCHANGED <<wake, owed, status>>
    /\ UNCHANGED <<durable, recover, claim, mailbox, attached, accepted,
                   cancelled, bounds>>

\* Cancel while the worker waits for capacity.  (Cancel in its sleep parks
\* too, and changes nothing.)
CancelWaiting ==
    /\ attached /\ pc = "acquire"
    /\ Park
    /\ UNCHANGED <<durable, recover, claim, mailbox, attached, accepted,
                   cancelled, bounds>>

\* The permit arrives: take the claim, or return when nothing is pending.
AcquireAndClaim ==
    /\ pc = "acquire"
    /\ IF PrepareClaim = NoClaim
       THEN Retire /\ UNCHANGED claim
       ELSE pc' = "build" /\ claim' = PrepareClaim /\ UNCHANGED status
    /\ UNCHANGED <<durable, wake, recover, mailbox, attached, ghosts, bounds>>

\* factory.build awaited between the claim and the turn.
BuildRequest ==
    /\ pc = "build"
    /\ pc' = "init"
    /\ UNCHANGED <<durable, wake, recover, status, claim, mailbox, attached,
                   ghosts, bounds>>

\* An error of build or acquire ends the worker for good: run() returns.
WorkerDies ==
    /\ pc \in {"acquire", "build", "rebuild"}
    /\ pc' = "dead" /\ status' = "Idle"
    /\ claim' = NoClaim
    /\ owed' = {}
    /\ UNCHANGED <<durable, wake, recover, mailbox, attached, accepted,
                   cancelled, bounds>>

--------------------------------------------------------------------------------
(* The turn engine's writes *)

\* initialize_journal closes a turn that an earlier process left open.
CloseInterrupted ==
    /\ pc = "init" /\ turnOpen /\ ~human
    /\ turnOpen' = FALSE
    /\ UNCHANGED <<nextTurn, nextStep, users, turn, human, dispatchPaused,
                   worker, ghosts, bounds>>

\* The prelude's splices, as the log validates them: in range or refused.
SplicesFit ==
    /\ Len(claim.steps) <= Len(nextStep)
    /\ Len(claim.turns) <= Len(nextTurn)

\* turn/start, the claim's deletions and its user messages: one append, at
\* whatever revision the log has by now.
StartTurn ==
    /\ pc = "init" /\ ~turnOpen /\ SplicesFit
    /\ turn' = turn + 1
    /\ turnOpen' = TRUE
    /\ nextStep' = Drop(nextStep, Len(claim.steps))
    /\ nextTurn' = Drop(nextTurn, Len(claim.turns))
    /\ users' = users \o Says(claim.steps, turn', "step")
                      \o Says(claim.turns, turn', "turn")
    /\ owed' = owed \ Elems(claim.turns)
    /\ claim' = NoClaim
    /\ pc' = "run"
    /\ UNCHANGED <<human, dispatchPaused, wake, recover, status, mailbox,
                   attached, accepted, cancelled, bounds>>

\* A run that ends drops its command channel with what is still in it.
DropMailbox == mailbox' = <<>>

\* The run ends before its turn exists: an approval is still open, or the log
\* refuses the splices.
StartFails ==
    /\ pc = "init"
    /\ human \/ (~turnOpen /\ ~SplicesFit)
    /\ claim' = NoClaim /\ DropMailbox
    /\ pc' = "settle"
    /\ UNCHANGED <<durable, wake, recover, status, attached, ghosts, bounds>>

\* A recovered batch asks again under the same identity: no log write.  With
\* nothing to recover drive_recovery fails and the worker ends.
ResumeTurn ==
    /\ pc = "rebuild"
    /\ IF human
       THEN pc' = "rerun" /\ UNCHANGED <<status, owed>>
       ELSE pc' = "dead" /\ status' = "Idle" /\ owed' = {}
    /\ UNCHANGED <<durable, wake, recover, claim, mailbox, attached, accepted,
                   cancelled, bounds>>

Running == pc \in {"run", "rerun"}

\* approval/asked before a gated tool, approval/decided after the answer.
AskApproval ==
    /\ Approvals /\ Running /\ turnOpen /\ ~human
    /\ human' = TRUE
    /\ UNCHANGED <<nextTurn, nextStep, users, turn, turnOpen, dispatchPaused,
                   worker, ghosts, bounds>>

DecideApproval ==
    /\ Running /\ human
    /\ human' = FALSE
    /\ UNCHANGED <<nextTurn, nextStep, users, turn, turnOpen, dispatchPaused,
                   worker, ghosts, bounds>>

\* flush_pending_messages at a step boundary.
FlushMailbox ==
    /\ Running /\ ~human /\ mailbox # <<>>
    /\ users' = users \o Says(mailbox, turn, "step")
    /\ mailbox' = <<>>
    /\ UNCHANGED <<nextTurn, nextStep, turn, turnOpen, human, dispatchPaused,
                   pc, wake, recover, status, claim, attached, ghosts, bounds>>

\* The run completes, fails or is cancelled; finalize_journal settles an open
\* approval and appends turn/end.  Only a cancelled or failed run leaves
\* steering behind in its mailbox.
EndTurn ==
    /\ Running
    /\ turnOpen' = FALSE /\ human' = FALSE
    /\ DropMailbox
    /\ IF pc = "rerun" THEN Retire ELSE pc' = "settle" /\ UNCHANGED status
    /\ UNCHANGED <<nextTurn, nextStep, users, turn, dispatchPaused, wake,
                   recover, claim, attached, ghosts, bounds>>

GoesAgain == nextTurn' # <<>> \/ wake

\* After a driven turn: reconcile, then go again or return to the idle loop.
Settle ==
    /\ pc = "settle"
    /\ ReconcileConsumed
    /\ IF GoesAgain
       THEN pc' = "check" /\ wake' = FALSE /\ UNCHANGED status
       ELSE Retire /\ UNCHANGED wake
    /\ UNCHANGED <<users, turn, turnOpen, human, dispatchPaused, recover,
                   claim, mailbox, attached, ghosts, bounds>>

\* The process is killed and a new one opens the same log.
Crash ==
    /\ crashes < MaxCrashes
    /\ crashes' = crashes + 1
    /\ pc' = "boot" /\ wake' = FALSE /\ recover' = FALSE /\ status' = "Idle"
    /\ claim' = NoClaim /\ mailbox' = <<>> /\ attached' = FALSE
    /\ owed' = {}
    /\ UNCHANGED <<durable, accepted, cancelled, pauses>>

--------------------------------------------------------------------------------
DriverMoves ==
    \/ Boot \/ DispatchRecovery \/ DispatchWake \/ CheckPaused
    \/ AcquireAndClaim \/ BuildRequest \/ CloseInterrupted \/ StartTurn
    \/ StartFails \/ ResumeTurn \/ FlushMailbox \/ Settle

WorkerStep == DriverMoves \/ EndTurn

HostStep ==
    \/ \E m \in Messages :
          Admit(m) \/ Followup(m) \/ SteerIdle(m) \/ SteerActive(m)
          \/ Inject(m) \/ RemovePending(m)
    \/ Wake \/ PauseDispatch \/ HostResume \/ CancelWaiting
    \/ DecideApproval

Next == WorkerStep \/ HostStep \/ AskApproval \/ WorkerDies \/ Crash

Spec == Init /\ [][Next]_vars

\* The worker's task keeps being polled.  Nothing is assumed of the host, of
\* errors, or of turns: one that waits at an approval, a question or a pause,
\* or for a provider that keeps sending, has no deadline and may never end.
DriverFair == WF_vars(DriverMoves)
FairSpec == Spec /\ DriverFair

--------------------------------------------------------------------------------
(* Properties *)

Taken(m) == {i \in DOMAIN users : users[i].id = m}

\* The life of an input as the ledger tells it.  "twice", "zombie" (it ran
\* although its removal was acknowledged) and "lost" are no ledger states.
FateOf(m) ==
    IF Cardinality(Taken(m)) > 1 THEN "twice"
    ELSE IF Taken(m) # {} THEN IF m \in cancelled THEN "zombie" ELSE "consumed"
    ELSE IF m \in cancelled THEN "cancelled"
    ELSE IF m \in Pending THEN "pending"
    ELSE IF m \in accepted THEN "lost" ELSE "new"

\* An acknowledged input is pending, in a turn, or was removed by the host:
\* the claim deletes what it runs and nothing else.
NoInputLost == accepted \subseteq Pending \cup Consumed \cup cancelled

\* No input is given to the model twice, although steering is written by the
\* engine while its pending entry is deleted later by the driver.
ConsumedOnce == \A m \in Messages : Cardinality(Taken(m)) <= 1

\* A stale claim never loses more inputs than the removals it ignores: each
\* input deleted in place of another is matched by a removed input that ran.
LossesAreRemovalsThatRan ==
    Cardinality({m \in Messages : FateOf(m) = "lost"})
        <= Cardinality({m \in Messages : FateOf(m) = "zombie"})

\* A turn takes at most one follow-up, however many are pending and however
\* often the worker is woken while it runs.
OneFollowupPerTurn ==
    \A i, j \in DOMAIN users :
        users[i].list = "turn" /\ users[j].list = "turn"
            /\ users[i].turn = users[j].turn => i = j

\* Follow-ups run in the order in which they queue: none is given to the
\* model while an earlier one still waits.
NoOvertaking ==
    [][\A i, j \in DOMAIN nextTurn :
          i < j /\ nextTurn[j] \in Consumed' \ Consumed => nextTurn[i] \in Consumed']_vars

\* While an approval is undecided the driver never carries a claim towards a
\* new turn: recovery goes first after a restart, and run() prefers it.
ClaimsWaitForApproval == pc \in {"check", "acquire", "build", "init"} => ~human

\* A follow-up that was pending at an acknowledged wake gets its turn, unless
\* the queue is parked, the worker dies of an error, the process is killed, a
\* stale claim deleted it, or a turn before it never ends.
TurnNeverEnds == <>[]Running
OwedIsServed ==
    \/ TurnNeverEnds
    \/ \A m \in Messages : m \in owed ~> m \notin owed \/ FateOf(m) = "lost"

\* What a claim may take, however the worker is woken and the queue edited: one
\* follow-up, no turn over an open approval, and nothing lost but in the place
\* of a removed input that ran.
ClaimsAreSound ==
    TypeOK /\ LossesAreRemovalsThatRan /\ OneFollowupPerTurn /\ ClaimsWaitForApproval
================================================================================
