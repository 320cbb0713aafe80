# XHarness RS in TLA+

XHarness RS (`src/`) is a local host for coding agents written in Rust: it keeps
long-lived sessions, runs model turns and tools for them, and survives crashes
by replaying one append-only log per session. This directory holds TLA+
specifications of the parts where the order of events decides whether that
works, their TLC configurations, and proofs checked by TLAPS.

1. [The system](#1-the-system): an inventory of its components
2. [The plan](#2-the-plan): modules, composition, what is left
3. [The modules](#3-the-modules): how each corresponds to the code
4. [The runs](#4-the-runs): what each checks, bounds, fairness
5. [Disagreements found](#5-disagreements-found)
6. [The proofs](#6-the-proofs)
7. [Limits](#7-limits): what is only model-checked, what is not modelled
8. [How to run it](#8-how-to-run-it)

Paths below are relative to `src/crates/` unless they start with `src/`.

## 1. The system

```
  browser --RPC/WebSocket--> server --> host (BasicHost)
                                         |  requests, projections, questions, delegation,
                                         |  schedules, control log
                                         v
                         agent: supervisor -> driver worker (one per session)
                                         |   durable inbox, claim, one turn at a time
                                         v
                         core: turn engine --> model rounds --> provider (model stream)
                                         |---> tool batches --> jobs, process, fs, ...
                                         v
                         session: event grammar, projections, recovery
                                         v
                         session-jsonl: one JSONL file per session
```

Everything durable about a session is one log of events. Several tasks append to
it: the engine, the inbox, the host's requests, the question hub and the schedule
tools. Each append states the revision it expects; the store refuses it when the
log has moved, and `validate_log` refuses it when it does not fit the grammar.
What a task does about a refusal differs from task to task, and most of the hard
behaviour of the system follows from that. The rest comes from what a process
keeps beside the log: projections of it in memory, tasks that follow a turn, and
requests whose future is dropped when their client goes away.

### Components with a model

| component | state | operations | modules |
|---|---|---|---|
| **inbox and driver**, `xharness-agent/src/{inbox,driver}.rs` | two pending lists folded from the log (`next-turn`, `next-step`); a worker with a wake flag, a recovery flag, a claim | append, remove, `prepare_claim`, `reconcile_consumed`; Wake, Followup, Steer, Inject, RecoverOpenTurn, Cancel | `InputLedger`, `AgentInbox`, `AgentProofs` |
| **supervisor, activations, leases**, `xharness-agent/src/{driver,activation,lease,lifecycle}.rs` | a map of handles, a weak map of activations, a lock file per agent | activate, shutdown, abort | `Supervisor`, `AgentProofs` |
| **turn engine**, `xharness-core` | the journal position, open approvals, cancellation | `initialize_journal`, steps, tool batches, `finalize_journal` | `SessionLog`, `TurnEngine`, `TurnEngineProofs` |
| **model rounds**, `xharness-core`, `xharness-provider-openai` | the reply so far, held deltas, retries | request, stream, journal, retry, pause, cancel | `ModelRound`, `AgentProofs` |
| **context and compaction**, `xharness-{context,token,compaction}`, `xharness-core` | the surface of messages, checkpoints, budgets | prepare, admit, summarise, replace, continue, recover from overflow | `Compaction` |
| **tool batches**, `xharness-tools` | lanes, permits, the stage of each call | schedule, preflight, approve, run, time out, cancel | `ToolBatch` |
| **files**, `xharness-fs`, `xharness-coding-tools` | observed versions per session and file, locks per target | read, write, edit | `FsService`, `FileTools`, `FileToolsProofs` |
| **processes and shell jobs**, `xharness-process`, `xharness-coding-tools` | a process tree, its pumps and its supervisor | spawn, exit, cancel, time out, kill, drain | `Process`, `ShellJobs`, `JobsProofs` |
| **job registry**, `xharness-jobs` | entries, reservations, counters, a watch channel per entry | reserve, commit, finish, kill, wait, list, prune, shutdown | `Jobs`, `JobsProofs` |
| **event grammar and recovery**, `xharness-session` | none of its own: a fold over the log | `validate_log`, the recovery projections | `SessionLog`, `Compaction`, `SessionView` |
| **session store**, `xharness-session-jsonl` | a file per session, an advisory lock, a cache per instance | create, append, load, flush | `AppendLog`, `JsonlStore`, `DurableProofs` |
| **reminders**, `xharness-schedule` | rules folded from the log, an owner task with a timer and a permit | create, delete, deliver, dispatch | `Schedule`, `DurableProofs` |
| **host driver**, `xharness-host/src/{driver,runtime,rpc,restore}.rs` | per session: queue, running flag, pause flag, subscriptions, a driver task | prompt, edit of the queue, steer, stop, follow a turn, restore | `HostDriver`, `HostProofs` |
| **control log**, `xharness-control`, `xharness-host/src/control.rs` | a file of mutations with receipts; its projection in each host | workspace and settings mutations, replay of receipts | `ControlLog`, `HostControl`, `HostControlProofs` |
| **delegation**, `xharness-host/src/delegation.rs` | child sessions, settlement markers in the child's log, a listener | start, send, stop, tell the parent | `Delegation`, `DelegationProofs` |
| **questions**, `xharness-interaction`, `xharness-host/src/questions.rs` | pending entries of this process, the question in the log, AGENTS.md | ask, answer, close, poll, detach | `Questions`, `HostProofs` |
| **session view**, `xharness-host/src/{rpc,driver,state,restore,metrics}.rs`, the browser's session runtime | a cursor and receipts per session, a mux connection, the browser's window of events | rename, model, preset, permission, plan and goal methods, history, subscription | `SessionView`, `DurableProofs` |

What is hard about them, and what makes each correct:

* **Inbox and driver.** Host calls, driver steps and engine appends interleave
  at every await; a claim is computed before the request factory is awaited and
  written after it. *Correct*: an acknowledged input is given to exactly one turn,
  in order, or was withdrawn; a wake is never lost; no claim starts a turn over an
  open approval.
* **Supervisor.** Activation races shutdown and other processes; futures that
  activate are dropped. *Correct*: whoever can write to a session holds its lease,
  and nobody can after a shutdown.
* **Turn engine, tools, hub.** The user cancels, decides and answers while the
  model streams and tools run; after a crash the next process finds a half-written
  turn. *Correct*: every append fits the grammar; a tool runs at most once and only
  after its approval is durable.
* **Model rounds and compaction.** Streams break, are retried, held back and
  journaled in pieces; summaries are computed from a surface that may have moved.
  *Correct*: a reply is one attempt's, journaled once; requests fit the window and
  forget nothing; a round ends.
* **Tools, files, processes.** Calls are cancelled while blocking work goes on;
  versions grow stale between check and rename; a tree outlives its root.
  *Correct*: the model's order holds where it matters, no session overwrites what it
  has not seen, what is reported as over is over.
* **Store.** Writes stop half-way; two processes have the file open; caches grow
  stale; power is lost. *Correct*: the file stays readable, one writer wins each
  revision, what was flushed survives power loss.
* **Jobs.** A lease, killers, waiters and shutdown race for one status.
  *Correct*: first outcome wins and is reported once; limits hold; shutdown leaves
  nothing live.
* **Reminders.** A delivery is two appends. *Correct*: no reminder is lost,
  forgotten by the timer or dispatched unsent; repeats are confined to crashes and to
  failed reads of the log.
* **Host driver.** A driver task, a background task and requests share a session's
  record. *Correct*: every turn is followed by exactly one of them, a stop returns,
  an accepted prompt runs once, across a restart too.
* **Control log, session view.** Requests are repeated, their handlers dropped,
  memory lags behind the log. *Correct*: a repeated request is answered by the first
  one's receipt; a browser at rest shows the log.
* **Delegation.** Settlements and failures are told by retry. *Correct*: each task
  runs once and its end is told once, unless an admission failed after its append.
* **Questions.** Several browsers, a waiter that polls, a file shared by sessions.
  *Correct*: the accepted answer stands, reaches the model and AGENTS.md, and leaves
  the screen.

### Components without a model

| component | state and operations | why not |
|---|---|---|
| **host application**, `xharness-host-app` | configuration, a directory lock at start | wiring; `Supervisor` and `HostControl` do without the lock's help |
| **terminals**, `xharness-terminal` | bounded scrollback with cursors over a pseudo-terminal | mostly input and output; its kill path is that of `Process` |
| **sandbox, win32** | operating-system policy | nothing a state machine would say |
| **web, server, api** | connections | transport; its one relevant habit, dropping handlers, is in the models |
| **prompt, debug** | text, a trace writer | not state machines of interest |
| **desktop shell** | the updater's phases, the sidecar's life | one sequential command at a time |
| **web UI (display), scripts, packaging** | | generated or build code |

The hazards this leaves for a test suite, each at its line and with the
properties that cover it, are listed in `PROJECT.json`. Those without a property
say why.

## 2. The plan

| # | modules | state of the work |
|---|---|---|
| 1 | `InputLedger`, `AgentInbox`, `AgentProofs` | done: checked; safety and the refinement proved |
| 2 | `Jobs`, `JobsProofs` | done: checked, its safety proved |
| 3 | `AppendLog`, `JsonlStore`, `DurableProofs` | done: checked; safety and the refinement proved |
| 4 | `Schedule`, `DurableProofs` | done: checked; safety proved |
| 5 | `SessionLog`, `TurnEngine`, `TurnEngineProofs` | done: checked; safety proved |
| 6 | `ModelRound` with `AgentProofs`, `Compaction` | done: checked; a round's safety proved |
| 7 | `ToolBatch`, `FsService`, `FileTools`, `FileToolsProofs` | done: composed, checked; safety proved |
| 8 | `Process`, `ShellJobs` over `Jobs` | done: composed, checked; safety proved in `JobsProofs` |
| 9 | `HostDriver`, `HostProofs` | done: checked; safety proved |
| 10 | `ControlLog`, `HostControl`, `HostControlProofs` | done: composed, checked; safety proved |
| 11 | `Delegation`, `DelegationProofs` | done: checked; safety proved |
| 12 | `Questions`, `HostProofs` | done: checked; safety proved |
| 13 | `SessionView`, `DurableProofs` | done: checked; safety proved |
| 14 | `Supervisor`, `AgentProofs` | done: checked; safety proved |
| 15 | proofs: `Compaction` | next |
| 16 | the terminal's scrollback, the updater's phases, the Windows process tree | new models, last |

Composition. `AgentInbox` contains the slice of host and engine that touches the
queues, because its properties are about all three. `TurnEngine` EXTENDS
`SessionLog` and folds every append through that module's `Write`, so the
grammar is written once. `FileTools` composes `ToolBatch` (who may run) with
`FsService` (what a run does). `ShellJobs` composes `Jobs` with `Process`: the
contract that `Jobs` assumes of a producer is there the work of a process
supervisor. `HostControl` EXTENDS `ControlLog`. `AgentInbox` implements
`InputLedger` and `JsonlStore` implements `AppendLog`, each by an INSTANCE with a
refinement mapping and the abstract specification as a PROPERTY. The models above
the store take an append to be atomic, which is what `JsonlStore` shows of one
append that is acknowledged; that an unflushed append may be taken back is modelled
where the code above reacts to it (`HostControl`, `Questions`, `SessionView`).

Abstract specifications: `InputLedger` (an input is new, pending, consumed or
cancelled, and the last two are final) and `AppendLog` (batches enter once, at
the end; only a loss of volatile memory removes some, from the end, and never
flushed ones).

Modules meant for proofs use no RECURSIVE operator, name the assumptions on
their constants, and keep one action per operation.

## 3. The modules

`PROJECT.json`, under "map", names the source lines each definition translates.
In most modules a few operators are marked `\* bug:`. They are plausible
mistakes, not used by the specification: each replaces one definition of the
model to show that a property notices (`PROJECT.json`, "mutants").

### InputLedger and AgentInbox

*State.* `nextTurn` and `nextStep` are the folds of `agent/inbox/spliced`;
`users` the `user/message` events that came from the inbox; `turn`, `turnOpen`,
`human` (an approval asked and not decided), `dispatchPaused` are folds too.
They survive a crash. `pc` is the worker's place in `run()`:

| `pc` | in `driver.rs` |
|---|---|
| `boot` | before the loop: reconcile |
| `idle` | the loop's select over commands |
| `check`, `acquire`, `build` | `drive_pending_inner`: the pause test, waiting for capacity, `prepare_claim` and then the factory |
| `init`, `run` | the engine, before and after `turn/start` is written |
| `settle` | reconciliation after the turn, and the decision to go on |
| `rebuild`, `rerun` | `drive_recovery`: the factory, then the resumed run |
| `dead` | an error returned from `run()` |

`claim` is what `prepare_claim` handed to the engine. Splices delete by
position, so the model deletes the claim's *length* from the front of each list
(`Drop`), as the log does. `mailbox` is the engine's command channel, which dies
with its run.

*Actions.* One per host call (`Admit`, `Wake`, `Followup`, `SteerIdle`,
`SteerActive`, `Inject`, `RemovePending`, `PauseDispatch`, `HostResume`,
`CancelWaiting`), worker step and engine append. Errors of the factory are
`WorkerDies`. `Steer` exists twice because `handle_idle` and `handle_active`
differ; where commands are received is `IdleReceive` and `ActiveReceive`.

*Ghosts.* `accepted` and `cancelled` are acknowledgements; `owed` is the set of
follow-ups pending when a wake was last acknowledged. Parking the queue and
death clear it, because then nothing is promised.

### Supervisor

Two processes share the lease directory. `lease` is who holds the agent's lock
file, `handles` who holds the lock of the supervisor's map, `mapped` whether the
map has a handle, `task` the worker and `engine` the task that `LoopEngine::start`
spawns. `Check`, `LockMap`, `Enter` and `Publish` are the awaits of `activate`;
`Goes` drops the request at any of them. The lease falls when nobody refers to the
activation any more (`Referred`): the map, the worker, a request, the shutdown that
drained the map. `Exit` is a crash or an orderly end, and the restart with it.

### Jobs

Each critical section of the code, under the registry lock or under one entry's
lock, is one action. `kill()` and `shutdown()` release their lock around the
producer's hook, so each is split there: look, hook, mark. `slot` says where an
admission attempt is (reserved, expired by shutdown, a job, pruned, dropped);
`status`, `lease`, `finished`, `number`, `at` are the entry's fields; `waiter`
has the unseen revision of the watch channel. Output only bumps the revision:
its buffers, cursors and the cut at a byte limit are not state the registry
branches on.

### AppendLog and JsonlStore

A file is its whole lines plus the state of its end: `ended` by a newline,
`bare` (a whole record, newline missing) or `torn`. That is all `parse_file` and
`truncate_torn_tail` distinguish. `append()` is check and load, repair, newline,
write; the lock is held from the first to the last, and an error or a kill may
stop it at each, leaving any prefix of what was being written (`Interrupted`).
`disk` is what a power loss leaves at least; `Survivors` is what it may leave.
A cache entry carries the content it was taken from, which stands for the
fingerprint (length, times, file identity); that two contents have different
fingerprints is assumed. Bytes, JSON and directory scans are not modelled.

### Schedule

Rules are folded from `schedule/change` events: `state`, `kind`, `at`, and
`corrupt`, which holds once the fold has refused an event (the code then disables the
session's reminders). The owner task is `pc`: `look` (drive_once up to its
decision), `send` (the follow-up), `settle` (the dispatch), and four ways to
sleep: `wait` (on a timer or nothing), `stall` (after a store error), `busy`
(until the turn ends) and `dormant` (after a fault). The rules' lock is held in
`send` and `settle`, which is why tools need `LockFree`. `sent` is the sequence
of reminders that reached the inbox and `taken` how many of them turns took.
After an error of the follow-up the owner reads the log again to see whether the
reminder is there after all (`AfterError`); a read that fails counts as no, and `unread`
counts the insertions hidden in this way (`NotRead`).
`Shutdown` merges the signal with the end of the task. Instants are small
numbers and intervals are in the same unit. The clock never goes back.

### SessionLog and TurnEngine

`SessionLog` represents the log by what `validate_log` knows after the last
event. `Write(l, e)` is an append: it applies the event or marks the log `bad`,
which refuses the whole batch. The projections at its end are those of
`recovery.rs`. A call's identity stands for its approval's id too, since that id
is made of the run, the step and the call's place in the batch.

`TurnEngine` is the run:

| `pc` | in `engine.rs` |
|---|---|
| `init` | `initialize_journal`: refuse, resume, close what is open, start |
| `boundary` | between steps: `settle_control_at_boundary`, limits |
| `prepare`, `compact` | the budget check, a compaction under way |
| `model` | the provider's stream |
| `batch`, `decide`, `drain` | the select over the tool batch; a decision journaled but not passed on; the cleanup after a cancel |
| `close` | `journal_step_end` |
| `finish` | `finalize_journal` |

`call[c]` is the stage of a call in `ToolExecutor::execute`. Messages between
the batch runtime and the engine are `signals` (an approval request not yet
heard) and `heard` (a completion that was). `subject` is the decision between
its append and its delivery. `known` is the hub's memory, which only a resumed
question refills.

Choices made in it:

* question calls are not gated by an approval and have valid arguments, and the
  guards do not refuse a question that was put before: production wires no
  guards, and the question tool needs no approval;
* steering is a free choice at the boundary: `AgentInbox` says where it comes
  from;
* one compaction under pressure per step, and one after an overflow;
* the log's other writers appear as refused appends and as `InitConflicts`;
* the reasons in `TurnEnd`, and the outcome reported after a forced cleanup, are
  not tracked.

### ModelRound and Compaction

`ModelRound` is one call of the model: the server's frames in either protocol
(`protocol`, `wire`, `line`), the adapter that turns them into deltas, the engine
that adds them up (`text`, `args`), shows them and journals them in batches (`held`,
`chunks`), and its retries. A reply is a sequence of pieces `<<attempt, call, number>>`
(call 0 is the text), so that a piece of another attempt or of another call, a repeated
or a missing one can be told. The user's
steer, pause and cancel are heard only where the code's select hears them. The server may
also send chunks that end no event, for ever (`KeepAlive`): each resets the idle timeout
and no deadline covers the whole stream.

`Compaction` is the turn around it. `history` holds the events that matter (user
and assistant messages, results, checkpoints) with a price of 1 or 2; `Surface`
is what `replace_surface` makes of them. The phases are `prepare` (context policy,
pressure check, admission), `summing` (a summary is asked for), `round` and `tools`.
What a round is, is an outcome here: said, continued, overflowed, interrupted.

### ToolBatch, FsService and FileTools

`phase` is where a call is in `ToolExecutor::execute`; `Ready` is the scheduling
rule of `run_batch`: parallel calls up to a limit, calls with equal keys in the
model's order, exclusive ones alone. A file's content is who wrote it last, which
stands for a version (metadata and digest). An operation is a blocking closure that
takes the target's lock, reads, checks the version against the observation, writes
a temporary file, checks again and renames; `Forgone` is a caller that stopped waiting for
it. `FileTools` connects them: a handler is an operation; a call cancelled or out of
time waits for it for the grace, and reports `abandoned` if that was not enough.

### Process and ShellJobs

The tree is its root, a descendant in the group and one that left it (`escaped`);
SIGKILL dooms and the death comes later. The supervisor (`sup`) selects between exit,
cancel and deadline, terminates, kills, and drains the pumps for a grace. `ShellJobs`
is what the bash tool makes of it: in the background a worker task that holds a job's
lease, in the foreground a call that waits; `told` is how much of the output the worker
has dealt with. A job's live output is a bounded window: what does not fit is counted as
dropped, said so in the registry, and dealt with all the same. `ReportedIsOver` claims no
more: no line may still come, not that every line can be read.

### HostDriver

One session's record (`queue`, `running`, `paused`, `known`) and log (`inbox`,
`steps`, `done`, `logPaused`, `open`), the runtime's worker (coarse: a claim and the
turn's start are one step), the driver task `dpc`, the background projection `bg` of
a timer's turn, requests `pc` and stops `stop`. Steering that reached a run waits in
`mailbox` for a boundary of the turn; there the engine gives it to the model and writes it
(`TurnSteers`), while its entry stays pending until the worker reconciles: after the turn
(`Reconciles`), when it starts, or, behind a recovered turn, not before the next claim
takes the entry. In that window a removal or a second steer of the queue still finds it.
`sub[i]` is what the broadcast subscription of input `i` would report next; it may lag.
`trouble` remembers what the exceptions of the properties name: a stop, an edit that raced
the driver or the run (`"raced"`), steering of a recovered turn (`"unreconciled"`), a
lagged buffer, a failed projection, a restart that left inputs out, a crash.

### ControlLog and HostControl

The control file is its header and the batches a load accepts; `synced` of them
survive power loss. A host's `memory` is more than a projection of the log. It begins
with a workspace for the directory the host is started in (`Fresh`), gets one for every
restored session whose directory has none (`Attached`), and the log is merged into it
(`Merged`): what the log defined or removed is as the log says, the rest stays, the log's
order goes first. So a host may hold a workspace the log has not, under a path the log
has given to another; renaming it passes the swap and is refused by the log's validator
(`Clashes`). A mutation goes, under the control gate, through the receipt check,
validation against memory, append, flush and reload; its handler may be dropped
between any two. Payloads are workspace creations, renames, deletions and moves, the order
of a workspace's sessions, a session's archiving, and settings changes that carry the
revision they expect.

### Delegation

A child's log is its outbox: its events and the markers that its ends and failures
were told. The parent is its pending notices `wait` and how often each was told.
`op` is a start call: creation and description, then delivery. The listener (`checked`,
`batch`, `at`, `todo`, `sent`) visits the children that do not run and whose logs have
grown. `live` says that a child's worker has a turn in hand, `follow` that the host's
driver follows it; a driver that lagged has lost sight of it, and the projection (`cursor`)
then stays behind until the host looks at that log again.

Every admission is an append to the inbox and a projection of it, and may fail between the
two (`Slips`): the input is in the log, the caller is told an error and the host's record
does not have it (`unsure`). Another message of the child then runs it, and a listener
that finds the task missing in its record appends it again. `faulted` counts these
failures, for the parent's notices as well. A restart resumes, of the turns that a log
leaves open, those that ask for an approval or an answer (`asking`, any subset of them), and
drives the sessions with pending inputs; the other open turns stay open until a later turn
closes them. A stop of the parent ends a start call under way.

Steered messages have no turn of their own, turns are identified by their message, and
setting the dispatch pause is atomic. A projection that fails *behind* a successful
admission is `SpawnFails` of `HostDriver` and not repeated here.

### Questions

`stands` is what the log says of a question and `flushed` what it says after a crash;
`hub` is the pending map with its watch channels `settlement`; `ask` is the tool call,
`reply` the requests that answer, answer differently or close. `memory` is AGENTS.md,
an entry per question and the user's own text, rewritten as a whole under `gate`.

### SessionView

`log` is the session's events; an event's place is its sequence, and a projection is
the last event of its kind. Each reader (`sync`) cuts the log, folds what is new into
`memory` under the projection lock and announces it. `handler` is a request from its
receipt check to its reply; a command (plan mode) is three commits. `line` is the mux
connection, `rows`, `page` and `reader` are the browser's store, its window of
events and its request for the history; `Stitched` is how the client joins them.
`upset` remembers a mixed history reply, an unannounced append and an overtaken reply.
`ViewSpec` starts from any choice of a watching browser and of handlers that have
requests; `MCSpec` of `MCSessionView` from the two choices the run needs.

## 4. The runs

Several runs hold two or three instances in one state graph, chosen by a rigid
variable: the initial states of each are separate and no step leads from one to
the other, so each is explored as if it were alone. States are distinct states;
times are for two workers, with coverage.

| run | instance | states | what it shows |
|---|---|---|---|
| `inbox_core` | (a) two follow-ups, two steering inputs, two crashes, two pauses, (b) three removable follow-ups, approvals, a crash, (c) two processes, three requests, two exits of `Supervisor` | 101 k, 50 s | (a) `LedgerInOrder`: implements `InputLedger`, and follow-ups run in order; `OwedIsServed`. (a, b) `ClaimsAreSound`: one follow-up per turn, no claim over an open approval, and an input is lost only where a removal raced the claim. (c) `SingleWriter` |
| `inbox_stale_claim` | two removable follow-ups | violation | `NoInputLost` fails |
| `shell_jobs` | (a) two jobs of arbitrary producers, (b) one shell command, background or foreground; a killer, a waiter, shutdown | 122 k, 85 s | `RegistryKept` (capacity, history, listing, identities, one event, stopping was asked, nothing after shutdown), `ReportedIsOver` (no outcome before the tree is dead and its output dealt with, graceful means stopped, no waiter asleep beside news), `FirstOutcomeWins`, `ReleasedEnds`, `ShutdownReturns` |
| `schedule_rules` | two rules of both kinds, clock to 4, one user turn, one fault, one crash | 778 k, 75 s | `RemindersKept` (the fold never refuses, repeats have causes, the timer covers every rule), `DispatchesAreTrue`, `DueIsServed` |
| `engine_and_store` | (a) a question and two ordinary calls, turns of two and one steps, one crash, (b) two store processes, three appends, one power loss | 1.5 M, 205 s | (a) `JournalKept` (every append fits, nothing runs unapproved), `CallsKept` (once, and what is unanswered is an interaction). (b) `FileKept` (readable, acknowledged appends stay), `ImplementsAppendLog` |
| `file_tools` | two sessions, a write and a read against an edit and a shell call on one file, one outside change | 696 k, 225 s | `ModelOrder`, `SettledMeansQuiet`, `OverwritesAreInformed` |
| `host_driver` | two prompts (one steerable), a timer's delivery, one stop, two upsets | 623 k, 65 s | `FollowedByOne`, `RunsOnce`, `CancelReturns`, `AcceptedRuns` |
| `host_control` | two hosts in different directories, three requests, two faults | 240 k, 150 s | `ControlKept`, `RepeatsAreAnswered` |
| `delegation` | two children, one message, limits of one, three events | 547 k, 160 s | `NoticesAreTold`, `StartsKept`, `OwedArrives` |
| `model_calls` | (a) a round of three frames, two calls, one retry, two faults, (b) a turn of three steps and six messages in a window of seven, two upsets | 782 k, 100 s | (a) `OneReply`, `ChunksOnce`, `RoundSettles`; (b) `NothingForgotten`, `RequestsAreSound` |
| `questions` | two questions, two requests, two runs of a call, one trouble | 204 k, 95 s | `AnswersStand`, `Remembered`, `AnswersArrive`, `CardsClear` |
| `session_view` | three requests (two without a browser's, one with), a turn, one slip | 1.6 M, 135 s | `ShowsTheLogUnlessMixed`, `AnnouncedInOrder`, `CommandsKept` |

Every action of every module fires in some passing run, and every property has a
mutant of the code, listed in `PROJECT.json`, that violates it.

### Why these bounds

* **Inbox.** Two follow-ups are needed for order and for a wrong deletion, two
  steering inputs for one in the queue and one in the mailbox, a second crash
  for a crash of the process that recovers from the first. An input's identity
  is used once, which is what the host's receipts ensure, so messages bound the
  run by themselves.
* **Supervisor.** Two requests in one process race for its map, a third in another
  for the lease; two exits let a process restart beside one that runs.
* **Jobs and processes.** Two attempts with capacity and history of one: one too
  many for each limit. One command with a descendant that obeys the group's signals
  and one that left it; one chunk of output tells a full from a cut capture. The
  theorems of section 6 hold for any number of jobs.
* **Store.** Three appends let one be cut short, one repair what it left, and one
  by the other process follow on the repaired file. One power loss
  makes one repair over lost data; a second power loss meets no state of the
  file the first cannot leave, but that is an argument, not a check.
* **Schedule.** `MaxTime` 4 with period 2 lets one periodic rule miss an
  occurrence. Two rules let a one-shot and a periodic one be due together.
* **Engine.** Three calls give a question alone, a pair asked together, and a
  call left for a second step or turn. The second turn is needed to see what the
  first left behind, the crash to see recovery. The ordinary calls are
  interchangeable, and the two processes of the store are; no liveness is checked
  under that symmetry.
* **File tools.** Two sessions are needed for a lost update, an outsider's change for
  a stale observation, an exclusive call behind a keyed one for a barrier.
* **Host driver.** Two prompts let one be queued behind the other, the delivery puts a
  turn between them that the driver did not start; two upsets let a crash or a stop
  meet what another upset left. `MaxUpsets` bounds stops, edits, timers, crashes and
  faults together.
* **Control.** One request creates the directory in which the other host was started, one
  renames the workspace a host made for itself or deletes the created one, one moves a
  workspace or updates the settings: that gives a clash, two payloads under one identity,
  an expected revision and an order. The order of a workspace's sessions, archiving and
  replacing settings are left to the theorem, which has all eight. Two faults let a repeat
  meet a second failure. No
  restored session brings a workspace along (`Strays` is empty there); the theorem
  has them.
* **Delegation.** One running child with two to start meets the limit; an inbox of one
  is full at once; three events of users and failures are an admission that slips, a message
  that runs the slipped task, and one more.
* **Model calls.** Three frames are a start, a delta and an end of an item; two upsets a
  failure and a command. A window of 7 with a minimum of 1, a target of 2 and a margin of 1
  lets prices of 1 and 2 fit, exceed the threshold, and overflow.
* **Questions.** Two questions share AGENTS.md and two requests race for one of them; the
  second run of a call is the one after a stop or restart.
* **Session view.** Two requests repeat or race beside a browser-less turn, one is
  watched; one slip (a dropped handler, a failed flush, a reconnection or a restart).

CHECK_DEADLOCK is off where the bounds, or an idle system waiting for its users,
stop an instance. `engine_and_store`, `file_tools` and `model_calls` keep it on
(the first allows the engine, which may rest, to stutter).

### Fairness

Nothing is assumed of users, models, tools, or errors, and nothing of the end of a turn: a
turn may wait for an approval, an answer or a resume, none of which has a deadline, or
read from a provider that keeps sending.

* `AgentInbox`: weak fairness of the driver's steps (`DriverMoves`), because its task is polled.
* `Jobs`: weak fairness of the shutdown pass, whose awaits all have a deadline;
  of each waiter's step once woken; and of a producer whose hook ran without
  error settling its lease, which is the contract of `JobCancel`. `ShellJobs` does
  not assume that contract: there the process supervisor and the worker are polled,
  and a doomed process dies.
* `Schedule`: the owner's task is polled, the clock runs, and the host attaches sessions with rules.
  `MaxUserTurns` bounds how often users can keep the agent busy: with no bound
  they could starve a reminder for ever, in the code as in the model.
* `HostDriver`: the driver, the background task, the worker up to the start of a turn
  (`WorkerMoves`), the restore, each request and each stop are tasks that are polled. Stops
  return whatever the turn does.
* `HostControl`: hosts go on with what they began, and clients repeat a request until
  it is answered; that is what they are promised an answer for.
* `Delegation`: the listener's tick, each start call, each child's driver (`ChildMoves`),
  and the restart of the process; not the parent's reading of its inbox, which needs its turn
  to go on.
* `ModelRound`: the engine's own steps. The server may stop talking: the stream's idle
  timeout is an engine step.
* `Questions`: one condition for all tasks (calls, requests, writers) together. Steps of
  a task are acyclic and few, so none can take the others' place for ever.
* `TurnEngine` (`EngineCancel.cfg`): the engine's steps *while cancelled*, and the
  step that leaves the model's stream. In the batch loop the select is biased towards the
  cancellation token; the one over the model's stream picks at random among ready
  branches, so it does not pass over a ready one for ever.

Liveness properties name their exceptions instead of assuming them away:
`OwedIsServed` ends when the queue is parked or the worker dies, `DueIsServed`
when the store failed or the host is stopping, `AcceptedRuns` while a turn waits for
its user or after an upset other than a crash; all three when a turn before never ends
(`TurnNeverEnds`). `RoundSettles` excepts a round that a user paused and never resumes
(`HeldByUser`) and a server that sends for ever (`DripsForEver`). `OwedArrives` excepts a child
whose turn, or the turns that hold the permits it needs, go on (`HeldUp`), an inbox that is
full or a task that only a user can wake (`Stuck`), and a turn the host lost sight of (`Blind`).

## 5. Disagreements found

One is a run, with the quoted statement in `PROJECT.json` under "findings":

1. **A stale claim deletes another input** (`inbox_stale_claim`). The driver drops
   the revision at which it prepared the claim; a removal before the turn's first
   append shifts the positions, the removed input runs and another is deleted
   unseen. `src/docs/specs/agent.md:47-48` requires the whole claim to fail.
   `ClaimsAreSound` says the loss is never larger than that.

The others are stated by properties that are not in the runs. Each can be seen by
checking the property named with the module and constants named, in place of the
run's own properties.

| property, module, configuration | what the code does | what the repository says |
|---|---|---|
| `ConsumedOnce`, `MCAgentInbox`, `InboxSteerRecovered.cfg` | `drive_recovery` ends without `reconcile_consumed`: steering of a recovered turn is given to the model again | reconciled by stable message ID, `src/docs/specs/agent.md:99-100` |
| `WritersHoldTheLease`, `MCInputs`, constants of `InboxCore.cfg` | a worker aborted at the shutdown's deadline drops the activation and its lease while the engine task it started still ends its turn; another host may activate the agent meanwhile | "Exclusive ownership token for one live agent activation", `xharness-agent/src/lease.rs:10`; "keep this guard until all Host work has stopped", `xharness-host-app/src/ownership.rs:6` |
| `DeliveredOnce`, `MCSchedule`, constants of `ScheduleRules.cfg` | a reminder whose dispatch a crash cut off is delivered again | excluded by `src/docs/specs/schedule.md:59,64-65` |
| `CallsAnswered`, `MCEngineAndStore`, constants of `EngineAndStore.cfg` | a step closed over an undecided approval or a recorded question leaves its call without a result for ever | every incomplete call is balanced, `xharness-session/src/recovery.rs:258-261` |
| `RestoredAreFollowed`, `MCHostDriver`, constants of `HostDriver.cfg` | the inputs of a session restored while paused are not reattached; they later run unfollowed | each later driver consumes the turn its frame names, `xharness-host/src/runtime.rs:1247-1250` |
| `SuccessIsFlushed`, `MCHostControl`, constants of `HostControl.cfg` | a repeat after a failed flush or a conflict is answered from a receipt that is not flushed | success only after `flush()`, `src/docs/specs/control-store.md:21` |
| `TaskRunsOnce`, `MCDelegation`, `DelegationForked.cfg` | a fork of a child copies its pending inputs, which run as its own | a start runs its task once |
| `Plannable`, `MCModelCalls`, constants of `ModelCalls.cfg` | a provider that repeats call ids across replies makes the planner refuse ("duplicate tool call id") | "providers only guarantee identity within a single response", `xharness-core/src/engine.rs:889` |
| `DifferentAnswersFail`, `MCQuestions`, constants of `Questions.cfg` | of two different answers between the two reads of `resolve_response` both are accepted; one is in the log, the other may be what the model is told | another answer under the same identity fails closed, `src/docs/specs/user-questions.md:104` |
| `UserTextKept`, `MCQuestions`, constants of `Questions.cfg` | AGENTS.md saved by the user between the writer's read and its rename is overwritten | the writer protects it with a compare-and-swap, `src/docs/specs/user-questions.md:126` |
| `ShowsTheLog`, `MCSessionView`, constants of `SessionView.cfg` | a history reply pairs the values of one cut with the sequence of a later one; the browser then ignores what would correct it | a history is what a fresh replay of the same log gives, and a restart changes no `projections.asOfSeq`, `src/docs/specs/web-session-projection.md:102-112` |

Observed on the way, and visible in the models as exceptions of properties or as
actions, with no property of their own:

* steering an idle agent wakes a worker that looks only at follow-ups; it goes
  back to sleep with its status left Running until the next input; nothing is lost;
* a worker that died of an error leaves its handle in the supervisor's map, and every
  later request is refused until the process restarts;
* an append is acknowledged after a flush without a sync, while
  `src/docs/specs/session-jsonl.md:19` says synced;
* a cancel with a question pending leaves the question pending, the end of its
  step is refused, and the turn stays open until the session is attached again;
  this is the one refusal `JournalKept` admits;
* the host's driver: a stale Parked after a stop ends a later follow at once; a prompt
  removed between the driver's pop and the start of its turn runs all the same; an
  accepted prompt stays queued when the driver rests without looking at the inbox; two
  stops and a prompt leave the pause flags of host and log apart; a failed projection
  leaves `running` set with no driver; the end of a turn withdraws the approval of a
  background turn that already asks; a steer cut by a crash or refused loses its prompt;
  steering that a turn has written is listed as pending until that turn is over, and may
  be removed, or steered again, although the model has read it;
* the control log: a workspace that a host made for itself, under a path the log has given
  to another, cannot be renamed: memory allows it, the swap succeeds, the log's validator
  refuses; a header torn by a crash while it is created makes every later load
  fail; the model router is not rebuilt after a replay, a conflict or a change by
  another host until the restart;
* delegation: a notice whose admission failed after its append is told twice once the first
  was consumed, and a child's task of which that is true may run twice; messages to idle
  children can exceed the limit of 16 running ones
  (`src/docs/specs/agent-delegation.md:52`); a lagging follower reports a failure and the
  turn's end later reports success; a crash between creation and description leaves a
  stray session;
* model rounds: `pending_continuation` is cleared by an interrupted round although the
  comment at `engine.rs:885` keeps it until a request completes; `continuation_text` is
  never reset, so that after steering a later answer's final text repeats an earlier one;
  errors of a compaction under pressure are swallowed, a cancel among them; the planner prices raw
  nodes while admission prices pruned ones;
* files: services, and so locks and observations, are per directory and preset, so two
  presets on one workspace do not exclude each other; the version recorded after the
  rename may be an outsider's; an error after the rename leaves the old observation;
* questions: a handler dropped during the blocking write of AGENTS.md releases the lock
  while the write goes on; a failed write of AGENTS.md reports BadResponse for an answer
  that stands and leaves its card;
* session view: a rename's reply takes its sequence from memory and is wrong when the turn
  appended first (`src/docs/specs/host-restore.md:104`); a reminder's turn starts before
  the host marks the session running, so a preset can change inside it; a baseline frame
  behind a newer page truncates it until the next event;
* reminders: an owner attached while the manager shuts down may be inserted after the
  handles were collected; nothing stops it then (not modelled).

## 6. The proofs

Each proof module EXTENDS the modules of its components and proves, for all values of the
constants that satisfy the component's assumption, that the invariant is kept by
every step. A liveness property is never proved, and no theorem rests on a bound:
the bounds of the models (`MaxFaults` and the like) are arbitrary numbers there.

| module | theorem | states |
|---|---|---|
| `JobsProofs` | `Kept` and the ten it is made of | `RegistryKept`, `TypeOK`, `FirstOutcomeWins` |
| | `ShellJobsAreJobs` | `ShellSpec` implements `Spec` |
| | `ShellReportsAreOver`, `ShellRegistryKept` | `ReportedIsOver`, and `RegistryKept` of shell jobs |
| `AgentProofs` | `TurnsAreInOrder` | types, `OneFollowupPerTurn`, `ClaimsWaitForApproval` |
| | `ClaimsHold` | `ClaimsAreSound`, under `SteersOrAsks` |
| | `InputsRunOnce`, `FollowupsRunInOrder` | `ConsumedOnce`, `NoOvertaking`, under `SteersOrAsks` |
| | `InboxImplementsLedger` | the refinement of `InputLedger`, under `SteersOrAsks` and `WithdrawsWaiting` |
| | `OneWriter` | `SingleWriter` |
| | `RepliesAreWhole` | `OneReply` |
| | `ChunksAreOnce` | `ChunksOnce` |
| `DurableProofs` | `FileIsKept` | `FileKept` |
| | `StoreImplementsLog` | `ImplementsAppendLog`: the refinement of `AppendLog` |
| | `RemindersAreKept` | `RemindersKept` |
| | `DispatchesHold` | `DispatchesAreTrue` |
| | `CommandsAreKept` | `CommandsKept` |
| | `EventsAreAnnouncedInOrder` | `AnnouncedInOrder` |
| | `BrowsersShowTheLog` | `ShowsTheLogUnlessMixed` |
| `TurnEngineProofs` | `JournalIsKept` | `JournalKept` |
| | `CallsAreKept` | `CallsKept` |
| `FileToolsProofs` | `OrderIsKept` | `ModelOrder` |
| | `ReportsAreHonest` | `SettledMeansQuiet`, under `~StagesMayFail` |
| | `NoUpdateIsLost` | `OverwritesAreInformed` |
| `HostProofs` | `IdentitiesRunOnce` | `RunsOnce` |
| | `TurnsAreFollowedByOne` | `FollowedByOne` |
| | `AnswersAreKept` | `AnswersStand` |
| | `LastingAnswersAreKept` | `Remembered` |
| `HostControlProofs` | `CommitsAreKept` | `ControlKept` |
| `DelegationProofs` | `SettlementsAreToldOnce` | `NoticesAreTold` |
| | `StartsAreLimited` | `StartsFit` |
| | `StartsAreKept` | `StartsKept`, when no session is forked |

The inductive invariants below were checked by TLC on the constants of the runs
before they were proved.

### Jobs

`JobsAssumption`: finitely many jobs, limits of at least one, `Failed` among the
outcomes; owners, killers and waiters are unbounded.

| theorem | states | rests on |
|---|---|---|
| `TypeCorrect` | `TypeOK` | `Consistent`, one lemma per group of actions |
| `FirstOutcome` | `FirstOutcomeWins` | `StatusSteps`: what a step does to a status |
| `OneEvent` | `OneFinishedEvent` | `StatusSteps` |
| `AskedBeforeStopping` | `StoppingWasAsked` | `AskedFirst` |
| `LiveListed` | `LiveJobsListed` | `ActiveSteps` and `SlotSteps`: what a step does to live jobs and slots |
| `UniqueIds` | `IdsUnique` | `Numbered` |
| `ShutdownComplete` | `ShutdownLeavesNothing` | `Closing` |
| `CapacityLimit` | `CapacityRespected` | `CommitSizes`, cardinality lemmas |
| `HistoryLimit` | `HistoryBounded` | `CapacityLimit`, `Sizes`, `SlotSteps` |
| `Kept` | `RegistryKept`, the property of the run | the others |
| `NobodyIsStranded` | `NoStrandedWaiter` | `WaitersWake` |
| `CleanShutdown` | `GracefulMeansStopped` | `CleanSoFar`, `ShutdownComplete` |
| `ShellJobsAreJobs` | `ShellSpec => Spec` | `ShellStepIsJobStep` |
| `ShellReportsAreOver` | `ReportedIsOver`, the property of the run | `ShellInv`, the four above |
| `ShellRegistryKept` | `RegistryKept` of shell jobs | `ShellJobsAreJobs`, `Kept` |

The argument. A few facts about single critical sections come first:
`SettleStatus` (settling gives a terminal status and keeps an earlier one) and
`MarkStatus` (marking never leaves a terminal status). From them follow what one
step does to statuses, slots and live jobs, and each invariant then needs only
these. None of the interesting invariants is inductive alone:

* **`Consistent`** (in `TypeOK`): a lease given up means a settled entry, and
  killers and shutdown hold committed jobs only. Otherwise `FinishLease` could
  meet an entry that is not there.
* **`AskedFirst`** adds that whoever stands between hook and mark has asked.
* **`Numbered`** adds that no number exceeds its kind's counter. Otherwise the
  next number could be taken already.
* **`Closing`** says that once admission is closed every live job is among those
  shutdown saw and, in the second pass, among those it has not seen stop. This
  carries the refusal of a late commit through all phases to the return.
* **`HistoryLimit`** uses the capacity theorem: when nothing settled is left to
  prune, the list consists of live jobs, whose number is limited.
* **`WaitersWake`** adds that a waiter's job is a job; `CleanSoFar`, that until a hook
  fails or a grace period ends no job settles but by its producer's lease.

Shell commands. `ShellAssumption`: a shell command may end in each of the three ways.
Every step of a command, its supervisor, its worker and the bash tool is a step of the
registry or none (`ShellStepIsJobStep`), so whatever is proved of arbitrary producers
holds of shell commands. What remains is the process (`Tree`: once the supervisor has
killed the tree, and after a result without error, nothing of the group is alive and,
with the result, everything written is captured) and the producer (`Producer`: the worker
holds the lease, ends it only behind the result and its last words, and reports completed
or killed only for a result without error). `Caught` links them: behind the result
nothing more is captured, so what was told last is all.

### AgentInbox

`InboxAssumption`: steering and removable inputs are inputs, the bounds are numbers.
Two hypotheses say where the code keeps its promise and where it does not:

* `SteersOrAsks` (`Approvals => Steerable = {}`): a session is steered or its turns
  stop at approvals, not both. With both, a turn recovered from its approval may write
  steering that `drive_recovery` does not reconcile; the next claim repeats it
  (`ConsumedOnce`, section 5), and an input that ran twice counts once among the
  withdrawn ones that ran. `TurnsAreInOrder` needs no such hypothesis.
* `WithdrawsWaiting`, an action: the host withdraws no input that is claimed, handed to
  the run, or written. `remove_pending_input` does not look; that the ledger fails
  without it is `NoInputLost` of section 5. TLC checked the refinement under it, with
  steering and with approvals, before it was proved; the run `inbox_core` checks it
  without any withdrawal (`LedgerInOrder`).

The argument has three layers.

* `DriverInv`: pending inputs were accepted; before the host resumes the session its
  worker sleeps, and afterwards an open approval is asked for again first
  (`ApprovalFirst`); a claim has at most one follow-up and no message belongs to a turn
  beyond the last (`TurnsKept`).
* `InboxInv`. No input is in two of the lists it may be in (`ListsKept`) or is about to
  be written again (`WrittenOnce`); only steering that a run wrote may linger in its
  list, and only until the run's end. `ClaimHeld`: a claimed input that was not
  withdrawn still stands among the first entries of its list, which the turn's first
  append deletes by number. `LossesKept` counts. The step that matters is `StartTurn`
  (`Deleted`, `LossesTurns`): it deletes a set D of as many inputs as the claim C
  has, so D \ C, which may become lost, is as large as C \ D, and these are
  withdrawn inputs that now run (`Exchange`).
* `LedgerInv` adds that what was withdrawn is in no one's hands. Then nobody ran in
  spite of a withdrawal, so by the count nobody is lost, and an input's place follows
  from what was accepted, written and withdrawn (`Places`). Every step accepts one
  input, withdraws one, consumes a batch or leaves these alone (`FateSteps`).

The lemmas on `Without` and `Drop` come first: what a filter keeps is shown by the least
counterexample of `Minimum`, since nothing here can use induction on sequences.

### Supervisor

`SupervisorAssumption`: a request belongs to one host; the two absent values are
neither a host nor a request. `SuperInv` adds to the types: the map's lock is held
by the one handler between its look and the publication (`LockHeld`); while a handler
opens the activation nothing else of its host refers to it and its shutdown has not
drained the map (`OpensAlone`); every reference keeps the lease (`ReferredHolds`);
the map has every worker until it is drained and nothing afterwards (`Mapped`); an
engine runs under a worker that drives or cancels it, unless it was aborted
(`EngineDriven`). `SingleWriter` follows from the third and fifth; the others are
there because `Publish` makes a reference, which is only sound while no one else has one.

### JsonlStore

`StoreAssumption`: nobody is not a handle, the bounds are numbers. `StoreInv` says of
the file and of what a power loss leaves of it that each is a header and whole batches
with at most one torn line behind them (`Sound`), and that the second is a prefix of the
first (`DiskBehind`); of a cache, that it is the parse of the contents it was taken from
(`CacheTrue`), however old those are; of an append between its writes, that its handle
works from the lines of the file, at the revision its caller was shown, and that its
batch is not there yet (`Appending`, `Attempted`); of promises, that the acknowledged
batches of this boot are at their revisions and the flushed ones on the disk
(`Promised`). The lemmas before it are about one line: what is read after a line was
written, cut or repaired (`PutWhole` and its neighbours). `FileKept` is then immediate.

The refinement takes `LogOf` of the file and of the disk for the abstract log and its
durable prefix. Each action of the store is either one step of `AppendLog` (the write
that completes a line, a sync, a power loss) or a stutter (locks, reads, repairs and
all that fails), shown one action at a time.

### TurnEngine

`EngineAssumption`: the limits are numbers, one step limit per turn. `EngineInv`
relates the run in memory to the log it writes: the log folds and its results,
approvals and questions belong to calls that were made (`LogKept`); each `pc` fixes
whether a turn, a step, a request and a compaction are open (`RunKept`); in its steps
every plain call without a result is in the batch at hand (`BatchKept`); what a call's
stage says of the log, of its approval and of how often its handler ran (`CallKept`).
With these every append meets the guard of `Write` in `SessionLog`, which is what
`JournalKept` claims, and the exception, the end of a step over a pending question,
shows where the invariant cannot be made stronger. `CallsKept` is an invariant of
several steps: that the model is not asked over a plain call without a result holds
because recovery, which begins with the log alone, gives each such call a result
before it leaves `init`.

### FileTools

`ToolAssumption` says that a batch lists its calls once and that no call belongs to two
batches, and `FileToolsAssumption` that every call has a kind.

* `OrderIsKept`. `ModelOrder` with the types is inductive once it is known that a call
  may be launched only if none of its batch before it that conflicts with it still
  waits. The lanes of `Ready` look at heads of queues only, so this needs that "before
  and in conflict" leads to the head of a lane (`LaunchIsFree`).
* `NoUpdateIsLost`. `ServiceInv` says that an operation has its call's session and
  file (`Owned`), that operations of one target exclude each other (`Exclusive`), and
  that what a session observed, what an authorised operation started from and what the
  file holds once that was compared may all be replaced by the session (`Informed`):
  it was shown to it, is no file, or came past its service. The last is not monotone
  by itself; `Exclusive` keeps others of the same service from changing the file
  between the comparison and the rename.
* `ReportsAreHonest` has the hypothesis `~StagesMayFail`, that there is no middleware
  after the handler. It holds of the program: outside of tests nothing calls
  `with_post` or `with_finalize` (`xharness-tools/src/executor.rs`). The run
  `file_tools` uses the same value.

### Questions

`QuestionAssumption`: answers, questions and requests are distinct from the markers for
their absence, and each request is about a question. `QuestionInv` says that what is
settled and flushed stands (`LogKept`); at which points of `ask` the call's view of the
log is the log's (`AskKept`); that a request behind its append wrote what the log says,
and that one which found the question settled is marked as skipped (`ReplyKept`); that a
channel carries the flushed settlement, or else two requests raced for it
(`EntriesKept`); and that the holder of the writer's mutex waits for its write
(`GateKept`). `Truthful` is the bridge to the property: a call that is told an error was
stopped or met a failure, and one that is told an answer is told the one that stands.

`Remembered` needs `MemoryInv`. In a behaviour that is `Quiet` so far (no request skipped
its append, nobody was stopped or dropped: the hypothesis of the property, which only
grows weaker with time, `QuietBefore`) a write under way holds the mutex and has read the
file's entries as they are (`WriteKept`): only a stop, a drop or a crash parts a write
from the mutex, and a crash ends the write. `Passed` names the places an answer is on its
way to the model: told, about to be recorded, in the channel of an entry, or in a request
that is to settle one. Whatever is passed on is in the file (`MemoryKept`). A later write
does not undo it, since its writer gives what stands (`WriterStands`) and what is passed
on stands too (`PassedStands`), so two writers of one question write the same. TLC checked
`MemoryInv` with two troubles, twice the run's bound.

### Schedule

`ScheduleAssumption`: at least one rule, a period of at least one, delays of at least
one, kinds among the two, bounds that are numbers. `RepeatsHaveCauses` counts, so its
strengthening does too: `Counted` says that an occurrence was sent at most once more
than there were causes (crashes, and insertions hidden by a failed read, `unread`), and
*not* more often than there were causes while it can still be sent (`CanBeSent`: its rule is
active, its time has not been passed, the owner
has not failed, and it is not the one being dispatched). A send uses that up, a crash
or a failed read gives it back, a failed dispatch leaves the owner dormant, and a dispatch moves the
rule past the occurrence. The last is where the arithmetic of the periods is needed
(`LatestOccurrence`: the occurrence of an instant is not after it and less than a
period before). `PlanKept` says that what is being delivered is due and active, which
is what makes its dispatch legal; it needs the rules' lock, which keeps the tools away
from `send` and `settle`. `Numbered` says that the rules were created without a gap, so
that a new rule, whose number is the count of the others, was never sent.
`TimerCoversRules` needs that the earliest of a nonempty set of rules exists: the
library's theorem on well-founded orders gives a minimum of a set of numbers without
induction (`Minimum`), and `EarliestIsFirst` uses it twice.

### ModelRound

`RoundAssumption`: calls are numbers from one, the bounds are numbers, a batch holds at
least one chunk. Both properties come from one invariant, `RoundInv`. What makes them
hard is that between the server's intention and the engine's text a piece is in one of
several places: not said yet, in a frame on the wire, in the delta at hand, heard. For
each slot (the text, or one call's arguments) `Reading` asks for a count along the wire:
`Counted` is a function that starts with what was heard and ends, once the server has
said all, with what it meant, and goes up by one at each frame that carries a piece of
the slot (`Carries`: a repeated item carries none once arguments were streamed). With
`InOrder` (pieces of a slot come in order) nothing is skipped or heard twice, and when
the round completes the wire is empty, so what was heard is what was meant.
`ToldOnce` and `LogTold` do the same for the journal: what the consumer was shown is
what is logged followed by what is held, but for the one batch whose append failed
(`behind`), which ends the round.

### HostDriver

`InputsAssumption`: prompts and deliveries are different and finitely many, steering is
done with prompts. `DriverInv` has five groups, thirty named parts in all.

* `LogInv`: an input is in one place of one list, logged, and done once it ran; the
  worker has a turn's input exactly while it runs that turn.
* `TaskInv`: the driver has an input in hand exactly in its three driving states;
  `OneDriver`; a host that is not up has no task and no request; a steering command
  belongs to one request that still waits for it; `"stopped"` is in `trouble` as soon as
  a stop is anywhere.
* `HandInv`: whatever the driver holds or will hold is known, so that a request at the
  admission gate is new or a repeat, and a request that may still put its input into the
  queue has none there. Kept subscriptions are open and nobody else's.
* `CalmInv`, as long as `RunsOnce` is claimed: an input is once in the queue, in the hands
  of one task, and one about to be taken out is in no list of the log. A follow-up is
  pending or done. Steering may be both, but only during the turn that wrote it or before
  a worker reconciles, never while a claim could take it again (`CalmLog`); what the
  run has still to write is pending and not done.
  The step that matters is `ResumeSession` with `RestoreRecord`: a restart builds
  queue and `known` from the log, and `CalmQueue` then says that the queue is the inbox.
* `EvenInv`, as long as `FollowedByOne` claims it: an input to come or under way has an
  open subscription and a task that reads it (`Attached`). While a session is being
  restored the subscriptions are made one by one before the worker starts, which is what
  `EvenRestored` follows.

Each action has a lemma that it keeps `DriverInv`; a part whose variables the action
leaves alone is kept by a frame lemma of that part (`QueuesOKSame` and its like).

### HostControl

`HostControlAssumption`: the absent value is no workspace, the bound is a number, the
workspaces that hosts make for themselves are a list with the default one in it and no
request among them, and a payload has the fields its operation reads. `ControlInv` says that
the log is `Derived`: the batch at every position is what the handler of its request would
make (`MadeFor`) of *some* memory that agrees with the projection of the batches before it,
it is accepted by that projection (`Accepted`), and no request has two. `Agrees` is what a
host's memory keeps of the log, however it was seeded: the workspaces of requests are the
log's, a workspace the log has is at the log's path, the settings' revision is the log's,
and the order names each of its members once, all of which memory has. `MemoryOK` says that
it holds of every host that is up, for the first `revision` batches; it survives `Merged`.
Of a mutation that holds a gate it says how far it has come (`Comes`): before the
append its batch fits the log of the length it expects, afterwards it stands there, and
once flushed within `synced`. An answer `committed` points into `synced`.

`SwapSuffices` is the deep one: a batch validated against a memory that agrees with the log's
first `expected` batches is accepted by the log's own validator, unless it defines a
workspace of the host's own that the log has not, under a path the log gave to another
(`Clashes`). The two differ in what they look at, so the proof shows that the projection
of every prefix is `Sound` (no two workspaces share a path, the order names each of its
members once, a workspace of a request was created by one in the log), one lemma per kind of
event, and that under a sound projection what `Handles` makes of such a memory is accepted (`Follows`).
The projection is a fold over the log, and where an induction would be used, the least
prefix that is not sound is refuted.

### Delegation

`DelegationAssumption`: finitely many sessions, limits of at least one, the first message
is no later one. Three invariants, one per theorem.

* `NoticeInv`: a worker has in hand only a turn its child's log leaves open (`LiveIsOpen`);
  what is about to be marked was told; a notice that may be told again was told only as
  often as its admission failed; with these the two parts of
  `NoticesAreTold` are inductive. The case to fear is a visit that finds the settlements
  of a log by filtering it: `Found` is that filter as a function of the length, and what
  it holds is shown by the least counterexample.
* `StartInv`: at most one start is between its steps (the creation lock), and while it is
  and counts, the others that run because they were started are below the limit.
* `TaskInv`: how often a child's task was put into its log (`Asked`) bounds how
  often a turn began with it (`Begun`), which is how often it ran; and each time but the
  one that the child's record knows of (`Given`), the admission failed. `StartsAreKept` has
  the hypothesis `Forks = {}`: a fork copies
  the source's events, and `TaskRunsOnce` is false of it (section 5). The run
  `delegation` has no forks either.

### SessionView

`AsksAreAsks`: a request has an id, one of the eleven methods, a payload and a goal
reference; the handlers are not the driver, the browser or nobody; the bound is a number.
One inductive invariant, `ViewInv`, in four parts. It is the conjunction that is
inductive: each part uses others before the step.

* `LogInv`, what the log and `memory` are: the log begins with a goal, its receipts are
  of requests and no request has two; `memory` holds a receipt exactly when its cut of the
  log does, and at its place unless the turn overtook it. Of the turn it says how far it has
  come and what of that the log shows.
* `TaskInv`, what a request under way may count on: it holds the `gate`, so it is the only
  one; since it read the log only the turn has appended (`Fresh`, only marks of a turn
  follow), so that what it committed stands there, together (`Landed`), and what it is
  about to append is still valid (`AppendsFit`): this is why `NeverRefused` holds although
  the turn appends without the gate.
* `FeedInv`, what is on its way: of the readers at most one is between its cut and its
  announcement; `Announced` is how far events were given to the connection, also in the middle of an
  announcement, and the newest event on its way is that one. A projection on its way says
  what the log says at its sequence. What memory does not show yet of a key is `Owed` by
  a request that carries it, or was left unannounced.
* `ShowInv`, what the browser has: a row says what the log said at its sequence or later.
  Each change it lacks is covered by a frame on its way (`Covers`), or owed. The next
  event to come is at most the one after the page's end (`Ahead`), and exactly the one after
  the buffered ones while a page is loading (`Following`): that no hole can be opened by
  stitching them is the page's part of it.

At rest nothing is on its way and nobody owes, so the rows and the page show the log.
`AnnouncedInOrder` compares consecutive events of the feed by their places, since what a
filtered copy holds is out of the provers' reach.

## 7. Limits

*Only model-checked.*

* Liveness: `ReleasedEnds`, `ShutdownReturns`, `OwedIsServed`, `DueIsServed`,
  `CancelReturns`, `AcceptedRuns`, `RepeatsAreAnswered`, `OwedArrives`, `RoundSettles`,
  `AnswersArrive` and `CardsClear`. TLAPS does not reason about fairness and ENABLED.
* Safety not proved: `NothingForgotten` and `RequestsAreSound` of `Compaction`, whose prices
  and cuts are folds over filtered histories. Sessions that are steered and ask for
  approvals are outside of the inbox's theorems, except `TurnsAreInOrder`.
* Facts that need induction over data, such as what a filter over a sequence computes,
  where no argument from a least counterexample was made.

*Left out of the modelled parts.*

* `AgentInbox`: the driver commands that touch no queue (pause, resume, status).
* `Supervisor`: the race of `ScheduleManager::attach` with its shutdown; the host's
  directory lock; the short refusal of an activation between the last reference and the
  lease's drop is in the model as an ordinary refusal.
* `JsonlStore`: `list_headers` and `inspect`, which only read.
* `Schedule`: `schedule_list`, the deliveries map of the host's projection, the
  user's removal of a queued reminder, time zones and the range of years.
* `SessionLog`: the shape of messages.
* `TurnEngine`: the event ring and snapshots; a resume that fails leaves the
  session attached, as a success does.
* `ModelRound`, `Compaction`: the bytes of frames and prompts, tokenizers, the merging of
  chunks, a server that completes with unfinished items.
* `ToolBatch`, `FsService`: middleware beyond approval and lifecycle, paths and symbolic
  links, listing and search.
* `Process`: Windows job objects, the end of the runtime before the supervisor's first poll,
  the bytes of the output.
* `HostDriver`: admission checks of attachments and models; several sessions at once; an
  activation whose reconciliation fails.
* `ControlLog`, `HostControl`: unknown settings namespaces, the secret filter, the
  payloads of responses, pushes to browsers. A workspace that
  a memory has and its order does not yet name is put behind the others at once, in the
  order of `Own`; the code may put it there only when the next order is merged.
* `Delegation`: children of children; the listing of children.
* `Questions`: drafts; a form's answers are one value; one host.
* `SessionView`: the lag of a mux connection, folding of chunks and the tail cache, methods
  that only read. A process crash keeps the whole log there; power loss is `JsonlStore`'s
  subject.

*Without a model.* The second table of section 1.

## 8. How to run it

In this directory, with `tlc` and `tlapm` able to find the TLA+ community
modules and the TLAPS library:

```
tlc -workers 2 -config InboxCore.cfg MCInputs      # any line of "runs"
tlapm JobsProofs.tla                               # any *Proofs.tla; a few minutes each; HostProofs about ten, DurableProofs about twenty
```

Three configurations belong to no run: `InboxSteerRecovered.cfg` and
`DelegationForked.cfg` reproduce disagreements of section 5, and
`EngineCancel.cfg` (with `MCTurnEngine`) checks `CancelEnds`, that a cancelled run ends.
For the other rows of section 5 replace the INVARIANT and PROPERTY lines of the named
configuration by the property.
