------------------------------ MODULE TurnEngine ------------------------------
(* The turn engine of one session (xharness-core), with the batch runtime it *)
(* drives tools through (xharness-tools), the host's question hub, the user  *)
(* who decides, answers and cancels, and crashes.  Everything durable is the *)
(* folded log of SessionLog; the rest dies with the process.                 *)
EXTENDS SessionLog, FiniteSets

CONSTANTS MaxTurns,         \* bound on turns
          StepLimit,        \* config.max_steps of the run that makes each turn
          MaxCrashes        \* bound on crashes

ASSUME EngineAssumption ==
    /\ MaxTurns \in Nat /\ MaxCrashes \in Nat
    /\ StepLimit \in [1..MaxTurns -> Nat]

VARIABLES
    log,        \* the session's event log, folded
    pc,         \* where the run stands; "off": no run
    fresh,      \* the run carries new input (else: a recovery)
    turn, step, \* journal.turn and Runner::step
    then,       \* what follows the step: another, the end, a failure
    tried,      \* a compaction was attempted in this step
    buffer,     \* stream chunks of this step: none, held back, or written
    cancelled,  \* the run's cancellation token
    call,       \* the batch runtime's view of each call of the batch
    heard,      \* calls whose completion the engine received
    signals,    \* approval requests on their way to the engine
    open,       \* approvals the engine waits for
    subject,    \* the calls whose decision is journaled and not yet passed on
    attached,   \* this process has resumed the session
    known,      \* the hub's pending questions
    runs,       \* ghost: how often each handler was started
    refused,    \* ghost: why the log refused appends of the engine
    crashes     \* ghost: crashes so far

batch == <<call, heard, signals, open, subject>>
local == <<fresh, turn, step, then, tried, buffer, cancelled>>
host  == <<attached, known>>
ghost == <<runs, refused, crashes>>
vars  == <<log, pc, local, batch, host, ghost>>

Done == {"ok", "error", "unknown"}
InBatch == {c \in Calls : call[c] # "off"}

Init ==
    /\ log = EmptyLog
    /\ pc = "off" /\ fresh = FALSE /\ turn = 0 /\ step = 0
    /\ then = "step" /\ tried = FALSE /\ buffer = "none" /\ cancelled = FALSE
    /\ call = [c \in Calls |-> "off"]
    /\ heard = {} /\ signals = {} /\ open = {} /\ subject = {}
    /\ attached = TRUE /\ known = {}
    /\ runs = [c \in Calls |-> 0] /\ refused = {} /\ crashes = 0

--------------------------------------------------------------------------------
(* Helpers *)

NoBatch ==
    /\ call' = [c \in Calls |-> "off"]
    /\ heard' = {} /\ signals' = {} /\ open' = {} /\ subject' = {}

\* The run is over and nothing of it is left in memory.
RunOver ==
    /\ pc' = "off" /\ fresh' = FALSE /\ turn' = 0 /\ step' = 0
    /\ then' = "step" /\ tried' = FALSE /\ buffer' = "none" /\ cancelled' = FALSE
    /\ NoBatch

\* Every append of the run starts with the chunks held back.
Held(l) == IF buffer = "held" THEN Write(l, Chunk(turn, step)) ELSE l

\* journal_append accepted: the log becomes l and the run goes on at next.  A
\* new step has streamed nothing yet.
Accepted(l, next) ==
    /\ log' = l /\ pc' = next
    /\ buffer' = IF pc = "boundary" THEN "none"
                 ELSE IF buffer = "held" THEN "written" ELSE buffer
    /\ UNCHANGED refused

\* journal_append refused: the run fails.
Because == IF pc \in {"close", "finish"} /\ QuestionWaits(log)
           THEN "a question waits" ELSE "out of order"
Refused ==
    /\ pc' = "finish"
    /\ refused' = refused \cup {Because}
    /\ UNCHANGED <<log, buffer>>

JournalAppend(l, next) == IF l.bad THEN Refused ELSE Accepted(l, next)

--------------------------------------------------------------------------------
(* Starting a run *)

\* The driver hands the engine a claimed input.
StartRun ==
    /\ pc = "off" /\ attached /\ log.turn < MaxTurns
    /\ pc' = "init" /\ fresh' = TRUE
    /\ UNCHANGED <<log, turn, step, then, tried, buffer, cancelled, batch,
                   host, ghost>>

\* What initialize_journal looks for: interactions of the open step.
OpenInteractions ==
    {c \in Interactions(log) : log.inStep /\ log.at[c] = Here(log)}

\* resume_session after a restart: a recovery run if the log has undecided
\* approvals, or question calls without a result, all of one step.
Resumable ==
    Interactions(log) # {}
        /\ \A c, d \in Interactions(log) : log.at[c] = log.at[d]

HostResume ==
    /\ pc = "off" /\ ~attached
    /\ attached' = TRUE
    /\ pc' = IF Resumable /\ (OpenInteractions # {} \/ log.turn < MaxTurns)
             THEN "init" ELSE "off"
    /\ UNCHANGED <<log, local, batch, known, ghost>>

\* "resume it before admitting new input"
InitRefuses ==
    /\ pc = "init" /\ fresh /\ OpenInteractions # {}
    /\ RunOver
    /\ UNCHANGED <<log, host, ghost>>

ReplayAll(c) == TRUE        \* bug: calls with unknown outcome are run again
Replayed(c)  == c \in Interactions(log)

\* The interrupted batch is adopted: interactions are replayed, the outcome of
\* its other calls is unknown.
InitResumes ==
    LET calls == {c \in Incomplete(log) : log.at[c] = Here(log)}
    IN  /\ pc = "init" /\ ~fresh /\ OpenInteractions # {}
        /\ turn' = log.turn /\ step' = log.step
        /\ call' = [c \in Calls |-> IF c \notin calls THEN "off"
                                    ELSE IF Replayed(c) THEN "queued" ELSE "unknown"]
        /\ heard' = {c \in calls : ~Replayed(c)}
        /\ pc' = "batch"
        /\ UNCHANGED <<log, fresh, then, tried, buffer, cancelled, signals, open,
                       subject, host, ghost>>

NeedsRecovery == log.compacting \/ OutcomeUnknown(log) # {} \/ log.inTurn

Unfinished(l) == IF l.compacting THEN Write(l, CompactionFailed) ELSE l
Balanced(l) ==
    IF OutcomeUnknown(l) = {} THEN l
    ELSE Write(l, Results([c \in OutcomeUnknown(l) |-> "unknown"]))
StepClosed(l) == IF l.inStep THEN Write(l, StepEnd(l.turn, l.step)) ELSE l
TurnClosed(l) == IF l.inTurn THEN Write(l, TurnEnd(l.turn)) ELSE l

\* One append ends what an earlier process, or a failed run, left open.
InitCloses ==
    /\ pc = "init" /\ OpenInteractions = {} /\ NeedsRecovery
    /\ \E failed \in {Unfinished(log)} : \E balanced \in {Balanced(failed)} :
       \E l \in {TurnClosed(StepClosed(balanced))} :
          IF l.bad
          THEN RunOver /\ refused' = refused \cup {"out of order"} /\ UNCHANGED log
          ELSE log' = l /\ UNCHANGED <<pc, local, batch, refused>>
    /\ UNCHANGED <<host, runs, crashes>>

\* A foreign writer moved the revision: this append is not retried.
InitConflicts ==
    /\ pc = "init" /\ OpenInteractions = {} /\ NeedsRecovery
    /\ RunOver
    /\ UNCHANGED <<log, host, ghost>>

\* turn/start with the user messages the run carries.
InitStarts ==
    LET started == Write(log, TurnStart(log.turn + 1))
        l == IF fresh THEN Write(started, UserMessage) ELSE started
    IN  /\ pc = "init" /\ OpenInteractions = {} /\ ~NeedsRecovery
        /\ IF l.bad
           THEN RunOver /\ refused' = refused \cup {"out of order"} /\ UNCHANGED log
           ELSE /\ log' = l /\ pc' = "boundary"
                /\ turn' = log.turn + 1 /\ step' = 0
                /\ UNCHANGED <<fresh, then, tried, buffer, cancelled, batch, refused>>
        /\ UNCHANGED <<host, runs, crashes>>

--------------------------------------------------------------------------------
(* Steps *)

InStep == UNCHANGED <<fresh, turn, cancelled, batch, host, runs, crashes>>

\* settle_control_at_boundary writes steering that arrived, and a step begins,
\* unless the run is complete and nothing arrived.
NextStep ==
    /\ pc = "boundary" /\ step < StepLimit[turn]
    /\ \E steered \in BOOLEAN :
          /\ then = "done" => steered
          /\ JournalAppend(Write(IF steered THEN Write(log, UserMessage) ELSE log,
                                StepStart(turn, step + 1)), "prepare")
    /\ step' = step + 1 /\ then' = "step" /\ tried' = FALSE
    /\ InStep

\* Completed, the step limit, or a cancel command at the boundary.
LeaveLoop ==
    /\ pc = "boundary" /\ (then = "done" \/ step = StepLimit[turn] \/ cancelled)
    /\ pc' = "finish"
    /\ UNCHANGED <<log, step, then, tried, buffer, refused>> /\ InStep

Compact ==
    /\ pc = "prepare" /\ ~tried
    /\ JournalAppend(Write(log, CompactionStart), "compact")
    /\ tried' = TRUE
    /\ UNCHANGED <<step, then>> /\ InStep

\* The summary replaces its range, or fails or is cancelled.  A failure under
\* pressure is passed over, one after an overflow is not.
CompactionEnds ==
    /\ pc = "compact"
    /\ \/ JournalAppend(Write(log, CompactionApplied),
                        IF then = "overflow" THEN "close" ELSE "prepare")
       \/ JournalAppend(Write(log, CompactionFailed), "finish")
       \/ then = "step" /\ JournalAppend(Write(log, CompactionFailed), "prepare")
    /\ UNCHANGED <<step, then, tried>> /\ InStep

\* The budget check fails, or is interrupted by steering.
PrepareEnds ==
    /\ pc = "prepare"
    /\ pc' \in {"close", "finish"}
    /\ UNCHANGED <<log, step, then, tried, buffer, refused>> /\ InStep

SendRequest ==
    /\ pc = "prepare"
    /\ JournalAppend(Write(log, RequestHeader), "model")
    /\ UNCHANGED <<step, then, tried>> /\ InStep

\* journal_chunk holds chunks back, and writes them at a threshold.
Stream ==
    /\ pc = "model" /\ buffer # "held"
    /\ buffer' = "held"
    /\ UNCHANGED <<log, pc, step, then, tried, refused>> /\ InStep
Checkpoint ==
    /\ pc = "model" /\ buffer = "held"
    /\ JournalAppend(Held(log), "model")
    /\ UNCHANGED <<step, then, tried>> /\ InStep

StopModel ==
    /\ pc = "model" /\ cancelled
    /\ pc' = "finish"
    /\ UNCHANGED <<log, step, then, tried, buffer, refused>> /\ InStep

ModelFails ==
    /\ pc = "model"
    /\ pc' = "finish"
    /\ UNCHANGED <<log, step, then, tried, buffer, refused>> /\ InStep

\* A context overflow before any delta compacts and takes another step.
ModelOverflows ==
    /\ pc = "model" /\ buffer = "none"
    /\ JournalAppend(Write(log, CompactionStart), "compact")
    /\ then' = "overflow"
    /\ UNCHANGED <<step, tried>> /\ InStep

\* Interrupted before any text: no assistant message.
ModelInterrupted ==
    /\ pc = "model"
    /\ pc' = "close"
    /\ UNCHANGED <<log, step, then, tried, buffer, refused>> /\ InStep

\* A message without calls: another step, the end, or a protocol error.
ModelSays ==
    /\ pc = "model"
    /\ JournalAppend(Write(Held(log), Assistant(turn, step, {})), "close")
    /\ then' \in {"step", "done", "fail"}
    /\ UNCHANGED <<step, tried>> /\ InStep

\* A message with calls.  A batch that mixes a question with other calls is
\* refused by start_batch after the message is in the log.
ModelCalls ==
    /\ pc = "model"
    /\ \E S \in SUBSET {c \in Calls : ~Made(log, c)} \ {{}} :
          LET mixed == Cardinality(S) > 1 /\ S \cap Questions # {}
          IN  /\ JournalAppend(Write(Held(log), Assistant(turn, step, S)),
                               IF mixed THEN "finish" ELSE "batch")
              /\ call' = [c \in Calls |-> IF c \in S /\ ~mixed THEN "queued" ELSE "off"]
    /\ UNCHANGED <<step, then, tried, fresh, turn, cancelled, heard, signals,
                   open, subject, host, runs, crashes>>

\* journal_step_end after the batch or the message.
CloseStep ==
    /\ pc = "close"
    /\ JournalAppend(Write(Held(log), StepEnd(turn, step)),
                     IF then = "fail" THEN "finish" ELSE "boundary")
    /\ then' = IF then = "done" THEN "done" ELSE "step"
    /\ UNCHANGED <<step, tried>> /\ InStep

--------------------------------------------------------------------------------
(* finalize_journal *)

FinishStep ==
    LET l == Write(Held(log), StepEnd(turn, step))
    IN  /\ pc = "finish" /\ log.inStep
        /\ IF l.bad
           THEN RunOver /\ refused' = refused \cup {Because} /\ UNCHANGED log
           ELSE Accepted(l, "finish")
                /\ UNCHANGED <<fresh, turn, step, then, tried, cancelled, batch>>
        /\ UNCHANGED <<host, runs, crashes>>

FinishTurn ==
    LET l == Write(Held(log), TurnEnd(turn))
    IN  /\ pc = "finish" /\ ~log.inStep
        /\ IF l.bad THEN refused' = refused \cup {Because} /\ UNCHANGED log
                    ELSE log' = l /\ UNCHANGED refused
        /\ RunOver
        /\ UNCHANGED <<host, runs, crashes>>

--------------------------------------------------------------------------------
(* The batch runtime: one action per stage of ToolExecutor::execute *)

Live == pc \in {"batch", "decide", "drain"}

Stage(c, from, to) ==
    /\ Live /\ call[c] \in from
    /\ call' = [call EXCEPT ![c] = to]
    /\ UNCHANGED <<log, pc, local, heard, open, subject, attached, refused, crashes>>

\* Preflight and guards: refuse, allow, or ask; a recovered approval is asked
\* again whatever the guards say, and a question that was put once has passed.
Refuse(c) ==
    /\ Stage(c, {"queued"}, "error") /\ log.question[c] = "none"
    /\ UNCHANGED <<signals, known, runs>>
MayPass(c) == log.approval[c] = "none"
Pass(c)   == Stage(c, {"queued"}, "released") /\ MayPass(c)
             /\ UNCHANGED <<signals, known, runs>>
Ask(c)    == Stage(c, {"queued"}, "asking") /\ c \notin Questions
             /\ signals' = signals \cup {c} /\ UNCHANGED <<known, runs>>

ApprovalTimeout(c) ==
    Stage(c, {"asking", "awaiting"}, "error") /\ UNCHANGED <<signals, known, runs>>

\* Permit, lifecycle handshake with the engine, and the handler starts.
StartHandler(c) ==
    /\ pc = "batch" /\ ~cancelled
    /\ Stage(c, {"released"}, "running")
    /\ runs' = [runs EXCEPT ![c] = IF @ < 2 THEN @ + 1 ELSE @]
    /\ UNCHANGED <<signals, known>>

HandlerReturns(c) ==
    /\ c \notin Questions
    /\ Stage(c, {"running"}, "ok") \/ Stage(c, {"running"}, "error")
    /\ UNCHANGED <<signals, known, runs>>

\* Cancellation reaches a call that has not run to its end.
CallCancelled(c) ==
    /\ cancelled
    /\ Stage(c, {"queued", "asking", "awaiting", "released", "running", "waiting"}, "error")
    /\ UNCHANGED <<signals, known, runs>>

\* QuestionHub::ask: record the question unless it is, and wait for its end.
AskUser(c) ==
    /\ c \in Questions /\ Live /\ call[c] = "running"
    /\ LET l == IF log.question[c] = "none" THEN Write(log, Requested(c)) ELSE log
       IN  IF l.bad
           THEN call' = [call EXCEPT ![c] = "error"] /\ UNCHANGED <<log, known>>
           ELSE /\ log' = l
                /\ call' = [call EXCEPT ![c] = "waiting"]
                /\ known' = IF l.question[c] = "pending" THEN known \cup {c} ELSE known
    /\ UNCHANGED <<pc, local, heard, signals, open, subject, attached, ghost>>

QuestionEnds(c) ==
    /\ Stage(c, {"waiting"}, IF log.question[c] = "resolved" THEN "ok" ELSE "error")
    /\ log.question[c] # "pending"
    /\ UNCHANGED <<signals, known, runs>>

--------------------------------------------------------------------------------
(* The engine's side of the batch.  The cancellation token goes first.       *)

InLoop == pc = "batch" /\ ~cancelled

AskedBefore(c) == log.approval[c] = "asked"

\* An approval request arrives: journal it unless it is a recovered one.
HearApproval(c) ==
    /\ InLoop /\ c \in signals
    /\ LET l == IF AskedBefore(c) THEN log ELSE Write(log, Asked(c))
       IN  JournalAppend(l, "batch")
    /\ signals' = signals \ {c} /\ open' = open \cup {c}
    /\ call' = [call EXCEPT ![c] = IF @ = "asking" THEN "awaiting" ELSE @]
    /\ UNCHANGED <<fresh, turn, step, then, tried, cancelled, heard, subject,
                   host, runs, crashes>>

\* bug: the tool is told first
DecideUnwritten(c, outcome) ==
    /\ InLoop /\ c \in open /\ outcome = "allowed"
    /\ call' = [call EXCEPT ![c] = IF @ = "awaiting" THEN "released" ELSE @]
    /\ UNCHANGED <<log, pc, local, heard, signals, open, subject, host, ghost>>

\* The user's decision is journaled ...
Decide(c, outcome) ==
    /\ InLoop /\ c \in open
    /\ JournalAppend(Write(log, Decided({c}, outcome)), "decide")
    /\ open' = open \ {c} /\ subject' = {c}
    /\ UNCHANGED <<fresh, turn, step, then, tried, cancelled, call, heard,
                   signals, host, runs, crashes>>

\* ... and passed on.
Release(c) ==
    /\ pc = "decide" /\ c \in subject /\ call[c] = "awaiting"
    /\ call' = [call EXCEPT ![c] = IF log.approval[c] = "allowed"
                                   THEN "released" ELSE "error"]
    /\ subject' = {} /\ pc' = "batch"
    /\ UNCHANGED <<log, local, heard, signals, open, host, ghost>>

\* The tool is gone, by its timeout or a cancel: the run fails on the spot and
\* leaves the batch and the other open approvals as they are.
ReleaseFails(c) ==
    /\ pc = "decide" /\ c \in subject /\ call[c] \in Done
    /\ NoBatch
    /\ pc' = "finish"
    /\ UNCHANGED <<log, local, host, ghost>>

Hear(c) ==
    /\ InLoop /\ call[c] \in Done /\ c \notin heard
    /\ heard' = heard \cup {c}
    /\ UNCHANGED <<log, pc, local, call, signals, open, subject, host, ghost>>

\* All completions are in: the results are written together.
FinishBatch ==
    /\ pc = "batch" /\ heard = InBatch
    /\ JournalAppend(Write(log, Results([c \in InBatch |-> call[c]])), "close")
    /\ NoBatch
    /\ UNCHANGED <<fresh, turn, step, then, tried, cancelled, host, runs, crashes>>

\* cancel_runtime_tool_batch: the approvals the engine knows of are cancelled.
CancelBatch ==
    /\ pc = "batch" /\ cancelled /\ heard # InBatch
    /\ JournalAppend(IF open = {} THEN log ELSE Write(log, Decided(open, "cancelled")), "drain")
    /\ open' = {}
    /\ UNCHANGED <<fresh, turn, step, then, tried, cancelled, call, heard,
                   signals, subject, host, runs, crashes>>

GraceOver == TRUE
\* The calls settle, or the cleanup grace is over.
Drained ==
    /\ pc = "drain" /\ GraceOver
    /\ NoBatch
    /\ pc' = "finish"
    /\ UNCHANGED <<log, local, host, ghost>>

--------------------------------------------------------------------------------
(* The user, and crashes *)

Cancel ==
    /\ pc # "off" /\ ~cancelled
    /\ cancelled' = TRUE
    /\ UNCHANGED <<log, pc, fresh, turn, step, then, tried, buffer, batch,
                   host, ghost>>

\* An answer or a dismissal of a question this process knows of.
Settle(c, how) ==
    /\ c \in known /\ log.question[c] = "pending"
    /\ log' = Write(log, Settled(c, how))
    /\ known' = known \ {c}
    /\ UNCHANGED <<pc, local, batch, attached, ghost>>

Crash ==
    /\ crashes < MaxCrashes
    /\ crashes' = crashes + 1
    /\ RunOver
    /\ attached' = FALSE /\ known' = {}
    /\ UNCHANGED <<log, runs, refused>>

--------------------------------------------------------------------------------
InitJournal == InitRefuses \/ InitResumes \/ InitCloses \/ InitConflicts \/ InitStarts

EngineStep ==
    \/ InitJournal
    \/ NextStep \/ LeaveLoop \/ Compact \/ CompactionEnds \/ PrepareEnds \/ SendRequest
    \/ Stream \/ Checkpoint \/ StopModel \/ ModelFails \/ ModelOverflows
    \/ ModelInterrupted \/ ModelSays \/ ModelCalls
    \/ CloseStep \/ FinishStep \/ FinishTurn
    \/ FinishBatch \/ CancelBatch \/ Drained
    \/ \E c \in Calls : HearApproval(c) \/ Release(c) \/ ReleaseFails(c) \/ Hear(c)

ToolStep(c) ==
    \/ Refuse(c) \/ Pass(c) \/ Ask(c) \/ ApprovalTimeout(c) \/ StartHandler(c)
    \/ HandlerReturns(c) \/ CallCancelled(c) \/ AskUser(c) \/ QuestionEnds(c)

UserStep ==
    \/ Cancel
    \/ \E c \in Calls, o \in {"allowed", "rejected"} : Decide(c, o)
    \/ \E c \in Questions, how \in {"resolved", "cancelled"} : Settle(c, how)

Next ==
    \/ StartRun \/ HostResume \/ EngineStep \/ UserStep \/ Crash
    \/ \E c \in Calls : ToolStep(c)

Spec == Init /\ [][Next]_vars

\* Nothing makes a model or a tool answer.  A cancelled run no longer waits for
\* either: its task is polled, the select of the batch loop takes the
\* cancellation branch first, and that of the model stream chooses at random.
CancelledStep == cancelled /\ EngineStep
FairSpec == Spec /\ WF_vars(CancelledStep) /\ WF_vars(StopModel)

--------------------------------------------------------------------------------
(* Properties *)

TypeOK ==
    /\ log \in Logs(0..MaxTurns, Nat) /\ ~log.bad
    /\ pc \in {"off", "init", "boundary", "prepare", "compact", "model", "batch",
               "decide", "drain", "close", "finish"}
    /\ fresh \in BOOLEAN /\ attached \in BOOLEAN
    /\ turn \in 0..MaxTurns
    /\ step \in (IF turn = 0 THEN {0} ELSE 0..StepLimit[turn])
    /\ then \in {"step", "done", "fail", "overflow"} /\ tried \in BOOLEAN
    /\ buffer \in {"none", "held", "written"} /\ cancelled \in BOOLEAN
    /\ call \in [Calls -> Done \cup {"off", "queued", "asking", "awaiting", "released",
                                     "running", "waiting"}]
    /\ heard \subseteq InBatch /\ signals \subseteq InBatch
    /\ open \subseteq PendingApprovals(log) /\ subject \subseteq InBatch
    /\ known \subseteq Questions
    /\ runs \in [Calls -> 0..2] /\ crashes \in 0..MaxCrashes

\* The engine speaks the grammar of the log: whatever the user, the tools, the
\* question hub and crashes do, the one append of a run that is ever refused
\* is the end of a step over a question that still waits.
GrammarKept == refused \subseteq {"a question waits"}

\* A tool that had to be approved runs only once the approval is durable.
AllowedBeforeRun ==
    \A c \in Calls : runs[c] > 0 /\ log.approval[c] # "none" => log.approval[c] = "allowed"

\* A tool handler is started at most once, over crashes and recoveries; asking
\* the user again is the one thing a recovery repeats.
RunsOnce == \A c \in Calls \ Questions : runs[c] <= 1

\* The model is asked to go on only when every earlier call has a result,
\* those apart that are still an approval or a question in the log.
UnansweredAreInteractions == pc = "model" => Incomplete(log) \subseteq Interactions(log)

\* ... and, as the recovery means it, with no exception.
CallsAnswered == pc = "model" => Incomplete(log) = {}

\* A cancelled run ends.
CancelEnds == cancelled ~> pc = "off"

\* What the engine writes: appends that the log's grammar admits, and decisions
\* that are durable before the tool they gate runs.
JournalKept == TypeOK /\ GrammarKept /\ AllowedBeforeRun

\* What the engine runs: each handler once, and no request over a plain call
\* without a result.
CallsKept == RunsOnce /\ UnansweredAreInteractions
================================================================================
