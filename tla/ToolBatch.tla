------------------------------ MODULE ToolBatch ------------------------------
(***************************************************************************)
(* xharness-tools: a batch of tool calls in the order the model gave them, *)
(* scheduled by concurrency class, and the pipeline every call goes        *)
(* through: preflight and guards, approval, concurrency permit, lifecycle  *)
(* acknowledgement, handler under a deadline, cleanup grace, post and      *)
(* finalize stages.  What the handler does is the composing module's.      *)
(***************************************************************************)
EXTENDS Naturals, Sequences, FiniteSets, FiniteSetsExt, SequencesExt

CONSTANTS Batches,
          Batched,          \* the calls of each batch, in model order
          ExecutorOf,       \* the executor, with its concurrency gate, of each batch
          Mode,             \* "parallel", "keyed" or "exclusive", per call
          Key,              \* the resource key of a keyed call
          NeedsApproval,    \* calls whose registration requires an approval
          External,         \* calls that settle from outside and have no deadline
          StagesMayFail,    \* whether post or finalize middleware is installed
          MaxConcurrency

VARIABLES phase,        \* where each call is in the pipeline
          outcome,      \* how it ended, or "none"
          cancelled     \* batches whose cancellation was signalled

toolVars == <<phase, outcome, cancelled>>

CallsOf(b) == ToSet(Batched[b])
AllCalls == UNION {CallsOf(b) : b \in Batches}
BatchOf(c) == CHOOSE b \in Batches : c \in CallsOf(b)
Position(c) == CHOOSE i \in DOMAIN Batched[BatchOf(c)] : Batched[BatchOf(c)][i] = c

\* A call belongs to one batch; the engine makes a batch of the calls of one reply.
ToolAssumption ==
    /\ \A b \in Batches : Batched[b] \in Seq(CallsOf(b))
    /\ \A a, b \in Batches : a # b => CallsOf(a) \cap CallsOf(b) = {}
ASSUME ToolAssumption

Phases == {"waiting", "policy", "running", "cleanup", "done"}
\* "abandoned" is ToolFailureKind::CleanupTimeout; "failed" is every other failure kind.
Outcomes == {"none", "ok", "failed", "abandoned"}

ToolInit ==
    /\ phase = [c \in AllCalls |-> "waiting"]
    /\ outcome = [c \in AllCalls |-> "none"]
    /\ cancelled = {}

Active(b) == {c \in CallsOf(b) : phase[c] \notin {"waiting", "done"}}
Unstarted(b) == {c \in CallsOf(b) : phase[c] = "waiting"}
Before(c) == {d \in CallsOf(BatchOf(c)) : Position(d) < Position(c)}

Conflict(c, d) == \/ "exclusive" \in {Mode[c], Mode[d]}
                  \/ Mode[c] = "keyed" /\ Mode[d] = "keyed" /\ Key[c] = Key[d]

\* can_launch: nothing exclusive runs, and nothing this call excludes.
CanLaunch(c) == \A d \in Active(BatchOf(c)) : ~Conflict(c, d)

\* The first exclusive call that has not started holds back all the calls after it, and
\* starts itself only when nothing runs.
Behind(c) == \E d \in Before(c) : phase[d] = "waiting" /\ Mode[d] = "exclusive"
\* Mutant: the barrier does not wait for the calls that are running.
EagerReady(b) ==
    IF Cardinality(Active(b)) >= MaxConcurrency THEN {}
    ELSE {c \in Unstarted(b) : ~Behind(c) /\ (Mode[c] = "exclusive" \/ CanLaunch(c))}

Ready(b) ==
    IF Cardinality(Active(b)) >= MaxConcurrency THEN {}
    ELSE LET free == {c \in Unstarted(b) : Mode[c] # "exclusive" /\ ~Behind(c) /\ CanLaunch(c)}
             barrier == {c \in Unstarted(b) : Mode[c] = "exclusive" /\ ~Behind(c)}
         IN IF free = {} /\ Active(b) = {} THEN barrier ELSE free

To(c, next) == phase' = [phase EXCEPT ![c] = next]
IsCancelled(c) == BatchOf(c) \in cancelled

\* Post, finalize and observers follow: a stage that fails replaces the outcome, whatever it
\* was; none can turn a failure into a success.
Ends(c, how) ==
    /\ To(c, "done")
    /\ \E final \in {how} \union (IF StagesMayFail THEN {"failed"} ELSE {}) :
           outcome' = [outcome EXCEPT ![c] = final]

\* run_batch launches all it can before it waits for a completion, in model order.
Launch(b) ==
    /\ \E c \in Ready(b) : /\ \A d \in Ready(b) : Position(c) <= Position(d)
                           /\ To(c, "policy")
    /\ UNCHANGED <<outcome, cancelled>>

\* A call is polled only between two launches of its batch.
Polled(c, at) == phase[c] = at /\ Ready(BatchOf(c)) = {}

InHandler(c) == phase[c] \in {"running", "cleanup"}
PermitFree(c) ==
    \A d \in AllCalls \ {c} :
        /\ InHandler(d)
        /\ ExecutorOf[BatchOf(d)] = ExecutorOf[BatchOf(c)]
        => ~Conflict(c, d)

\* Lookup, validation, preflight and guards let the call pass, it gets its concurrency permit
\* and the lifecycle sink acknowledges its start: only now is the handler entered.  Guards
\* only restrict: what the registration requires stays required.
Admit(c) ==
    /\ Polled(c, "policy")
    /\ ~IsCancelled(c)
    /\ PermitFree(c)
    /\ To(c, "running")
    /\ UNCHANGED <<outcome, cancelled>>

\* A call that needs an approval is admitted by the one who answers for it.
Approve(c) == c \in NeedsApproval /\ Admit(c)
Allow(c) == c \notin NeedsApproval /\ Admit(c)

\* Refused by a stage, denied or left unanswered for the approval's five minutes, not
\* acknowledged, or cancelled before the handler is entered.
Refuse(c) ==
    /\ Polled(c, "policy")
    /\ Ends(c, "failed")
    /\ UNCHANGED cancelled

\* The handler's future is ready; a cancellation is looked at first (biased select).
Returns(c, how) ==
    /\ Polled(c, "running")
    /\ ~IsCancelled(c)
    /\ Ends(c, how)
    /\ UNCHANGED cancelled

\* Cancelled or past its deadline: the handler is told and has a grace to finish.
Interrupt(c) ==
    /\ Polled(c, "running")
    /\ IsCancelled(c) \/ c \notin External
    /\ To(c, "cleanup")
    /\ UNCHANGED <<outcome, cancelled>>

\* In the grace whatever the handler returns is dropped.
Quiesces(c) ==
    /\ Polled(c, "cleanup")
    /\ Ends(c, "failed")
    /\ UNCHANGED cancelled

\* The grace is over: the future is dropped and the permit given back.
Abandon(c) ==
    /\ Polled(c, "cleanup")
    /\ Ends(c, "abandoned")
    /\ UNCHANGED cancelled

\* ToolBatchRun::cancel, or its handle dropped.
Cancel(b) ==
    /\ b \notin cancelled
    /\ \E c \in CallsOf(b) : phase[c] # "done"
    /\ cancelled' = cancelled \union {b}
    /\ UNCHANGED <<phase, outcome>>

ToolTypeOK ==
    /\ phase \in [AllCalls -> Phases]
    /\ outcome \in [AllCalls -> Outcomes]
    /\ cancelled \subseteq Batches
    /\ \A c \in AllCalls : phase[c] = "done" <=> outcome[c] # "none"

\* The calls' side effects come in the model's order wherever the order can show: when a
\* call has left the queue, each earlier call of its batch that conflicts with it has ended.
\* (start_batch promises one implementation of parallel, keyed-FIFO and exclusive lanes.)
ModelOrder ==
    \A c \in AllCalls : phase[c] # "waiting" =>
        \A d \in Before(c) : Conflict(c, d) => phase[d] = "done"
==============================================================================
