----------------------------- MODULE HostDriver -----------------------------
(* The host's handling of one session (xharness-host): prompts, queue edits, *)
(* stops and approvals arrive as requests, a driver task follows one turn    *)
(* after another, and the runtime's worker runs the turns.  The worker and   *)
(* its inbox are modelled in detail by AgentInbox; here a claim and the      *)
(* start of its turn are one step.  Host memory dies with the process.       *)
EXTENDS Sequences, SequencesExt, FiniteSets, Naturals

CONSTANTS Prompts,      \* prompt identities (the RPC ids of session.prompt)
          Steerable,    \* prompts a client may send or turn into steering
          Deliveries,   \* inputs a timer delivers
          Stops,        \* session.cancel calls in flight at once
          none, Free,   \* no input; the admission lock is free
          MaxUpsets     \* bound on stops, edits, timers, crashes and faults together

Inputs == Prompts \cup Deliveries
ASSUME InputsAssumption ==
    /\ Steerable \subseteq Prompts
    /\ Prompts \cap Deliveries = {} /\ IsFiniteSet(Inputs)
    /\ none \notin Inputs /\ Free \notin Inputs
    /\ MaxUpsets \in Nat

VARIABLES
    \* the session's log
    inbox,      \* pending next-turn inputs
    steps,      \* pending next-step inputs
    done,       \* inputs a turn has taken
    logged,     \* inputs ever inserted
    logPaused,  \* the last AgentDispatchPaused
    open,       \* the turn that waits for an approval
    \* the runtime's worker
    wpc, cur, wake,
    mailbox,    \* steering the run has received and not yet written
    prepared,   \* inputs with a PreparedDurableTurn in the runtime's map
    sub,        \* what each subscription would report next
    \* the host
    up,         \* "up", "restoring" or "down"
    queue, known, paused, running,    \* SessionRecord
    shown,      \* turns whose approval is registered in state.pending
    \* the driver task, and the task that projects a timer's turn
    dpc, work, bg,
    cmds,       \* the control channel
    \* requests
    pc, mode, admitting, stop,
    \* ghosts
    accepted, removed, lost, ran, trouble, budget

log     == <<inbox, steps, done, logged, logPaused, open>>
worker  == <<wpc, cur, wake, mailbox>>
runtime == <<worker, prepared, sub>>
record  == <<queue, known, paused, running>>
host    == <<up, record, shown>>
driver  == <<dpc, work, bg, cmds>>
rpc     == <<pc, mode, admitting, stop>>
ghost   == <<accepted, removed, lost, ran, trouble, budget>>
vars    == <<log, runtime, host, driver, rpc, ghost>>

Init ==
    /\ inbox = <<>> /\ steps = {} /\ done = {} /\ logged = {}
    /\ logPaused = FALSE /\ open = none
    /\ wpc = "off" /\ cur = none /\ wake = FALSE /\ mailbox = {}
    /\ prepared = {} /\ sub = [i \in Inputs |-> "none"]
    /\ up = "up" /\ queue = <<>> /\ known = {} /\ paused = FALSE /\ running = FALSE
    /\ shown = {}
    /\ dpc = "off" /\ work = none /\ bg = none /\ cmds = <<>>
    /\ pc = [i \in Inputs |-> "idle"] /\ mode = [i \in Inputs |-> "queue"]
    /\ admitting = Free /\ stop = [s \in Stops |-> "idle"]
    /\ accepted = {} /\ removed = {} /\ lost = {} /\ ran = [i \in Inputs |-> 0]
    /\ trouble = {} /\ budget = MaxUpsets

Pending    == ToSet(inbox) \cup steps
Without(s, out) ==
    LET kept[n \in 0..Len(s)] ==
          IF n = 0 THEN <<>> ELSE IF s[n] \in out THEN kept[n - 1] ELSE Append(kept[n - 1], s[n])
    IN  kept[Len(s)]
Minus(s, i) == Without(s, {i})
Upset(what) ==
    /\ budget > 0 /\ budget' = budget - 1
    /\ trouble' = trouble \cup what

\* Subscriptions: a receiver that has not been read keeps what it was sent.
\* Parked ends a follow whatever came before it; TurnFinished ends the turn
\* it saw start.
Live == {"open", "started"}
Parked(s)  == [i \in Inputs |-> IF s[i] \in Live /\ i \in ToSet(inbox) THEN "parked" ELSE s[i]]
Started(i) == [sub EXCEPT ![i] = IF @ = "open" THEN "started" ELSE @]
Over(i)    == [sub EXCEPT ![i] = IF @ = "started" THEN "over" ELSE @]

--------------------------------------------------------------------------------
(* Requests: session.prompt *)

\* A client sends a prompt, or sends it again because it saw no answer.
Prompt(i, m) ==
    /\ up = "up" /\ pc[i] = "idle"
    /\ i \notin accepted \cup removed
    /\ pc' = [pc EXCEPT ![i] = "gate"] /\ mode' = [mode EXCEPT ![i] = m]
    /\ UNCHANGED <<log, runtime, host, driver, admitting, stop, ghost>>

\* Under the admission lock: a known identity was accepted before.
Known(i) == i \in known
Admission(i) ==
    /\ pc[i] = "gate" /\ admitting = Free
    /\ IF Known(i)
       THEN /\ pc' = [pc EXCEPT ![i] = "idle"]
            /\ accepted' = accepted \cup {i} /\ UNCHANGED admitting
       ELSE /\ pc' = [pc EXCEPT ![i] = IF paused THEN "resume" ELSE "route"]
            /\ admitting' = i /\ UNCHANGED accepted
    /\ UNCHANGED <<log, runtime, host, driver, mode, stop,
                   removed, lost, ran, trouble, budget>>

\* set_dispatch_paused(false): the log first, the host's flag after it.
ResumeLog(i) ==
    /\ pc[i] = "resume"
    /\ logPaused' = FALSE
    /\ pc' = [pc EXCEPT ![i] = "unpause"]
    /\ UNCHANGED <<inbox, steps, done, logged, open, runtime, host, driver,
                   mode, admitting, stop, ghost>>
ResumeMemory(i) ==
    /\ pc[i] = "unpause"
    /\ paused' = FALSE
    /\ pc' = [pc EXCEPT ![i] = "route"]
    /\ UNCHANGED <<log, runtime, up, queue, known, running, shown, driver,
                   mode, admitting, stop, ghost>>

Answered(i) == admitting' = Free /\ pc' = [pc EXCEPT ![i] = "idle"]

\* A refused request: what a queue edit had taken off the queue is gone.
RefusedBy(i) == lost' = lost \cup ({i} \cap accepted)

\* enqueue_prompt: steer through the driver, or admit a turn.
Route(i) ==
    /\ pc[i] = "route"
    /\ IF mode[i] = "steer" /\ running
       THEN IF dpc = "off"
            THEN Answered(i) /\ RefusedBy(i) /\ UNCHANGED cmds
            ELSE /\ cmds' = Append(cmds, [kind |-> "steer", by |-> i])
                 /\ pc' = [pc EXCEPT ![i] = "steering"] /\ UNCHANGED <<admitting, lost>>
       ELSE pc' = [pc EXCEPT ![i] = "admit"] /\ UNCHANGED <<cmds, admitting, lost>>
    /\ UNCHANGED <<log, runtime, host, dpc, work, bg, mode, stop,
                   accepted, removed, ran, trouble, budget>>

\* reconcile_consumed: what a turn has written is no longer pending.
Unconsumed == Without(inbox, done)
Reconciles == inbox' = Unconsumed /\ steps' = steps \ done

\* prepare_turn: activate the agent, whose worker reconciles first, subscribe,
\* append to the inbox.
Prepare(i) ==
    /\ i \notin Pending
    /\ IF wpc = "off"
       THEN inbox' = Append(Unconsumed, i) /\ steps' = steps \ done /\ wpc' = "idle"
       ELSE inbox' = Append(inbox, i) /\ UNCHANGED <<steps, wpc>>
    /\ logged' = logged \cup {i}
    /\ UNCHANGED <<done, logPaused, open, cur, wake, mailbox>>

AdmitTurn(i) ==
    /\ pc[i] = "admit"
    /\ \/ /\ i \in prepared
          /\ pc' = [pc EXCEPT ![i] = "push"]
          /\ UNCHANGED <<log, runtime, admitting, lost>>
       \/ /\ i \notin prepared /\ Prepare(i)
          /\ sub' = [sub EXCEPT ![i] = "open"] /\ prepared' = prepared \cup {i}
          /\ pc' = [pc EXCEPT ![i] = "push"]
          /\ UNCHANGED <<admitting, lost>>
       \/ /\ i \notin prepared /\ i \in Pending
          /\ Answered(i) /\ RefusedBy(i)
          /\ UNCHANGED <<log, runtime>>
    /\ UNCHANGED <<host, driver, mode, stop, accepted, removed, ran, trouble, budget>>

\* The driver's attachment index and, if no driver runs, a new driver; it is
\* spawned only when the projection that follows has succeeded.
MayStart == ~running /\ ~paused
Push(i) ==
    /\ pc[i] = "push"
    /\ queue' = Append(queue, i) /\ known' = known \cup {i}
    /\ IF MayStart
       THEN /\ running' = TRUE /\ dpc' = "spawn"
            /\ trouble' = IF dpc = "off" THEN trouble ELSE trouble \cup {"two drivers"}
            /\ pc' = [pc EXCEPT ![i] = "sync"] /\ UNCHANGED <<admitting, accepted>>
       ELSE /\ Answered(i) /\ accepted' = accepted \cup {i}
            /\ UNCHANGED <<running, dpc, trouble>>
    /\ UNCHANGED <<log, runtime, up, paused, shown, work, bg, cmds, mode, stop,
                   removed, lost, ran, budget>>
Spawn(i) ==
    /\ pc[i] = "sync"
    /\ dpc' = "top"
    /\ Answered(i) /\ accepted' = accepted \cup {i}
    /\ UNCHANGED <<log, runtime, host, work, bg, cmds, mode, stop,
                   removed, lost, ran, trouble, budget>>

\* The control channel's receiver is dropped: every sender learns of it.
DropControl ==
    /\ cmds' = <<>>
    /\ stop' = [s \in Stops |-> IF stop[s] = "wait" THEN "idle" ELSE stop[s]]
    /\ LET failed == {i \in Inputs : pc[i] = "steering"} IN
       /\ pc' = [i \in Inputs |-> IF i \in failed THEN "idle" ELSE pc[i]]
       /\ admitting' = IF admitting \in failed THEN Free ELSE admitting
       /\ lost' = lost \cup (failed \cap accepted)

\* The projection fails on the store: the request errs and no driver starts.
SpawnFails(i) ==
    /\ pc[i] = "sync" /\ Upset({"fault"})
    /\ dpc' = "off" /\ cmds' = <<>>
    /\ stop' = [s \in Stops |-> IF stop[s] = "wait" THEN "idle" ELSE stop[s]]
    /\ Answered(i)
    /\ UNCHANGED <<log, runtime, host, work, bg, mode,
                   accepted, removed, lost, ran>>

--------------------------------------------------------------------------------
(* Requests: session.update_queue, session.cancel, approvals *)

\* remove and steer first take the input out of the durable inbox, where steering
\* stays after its run has received and even written it ...
TakeBack(i, m) ==
    /\ up = "up" /\ pc[i] = "idle" /\ admitting = Free /\ wpc # "off"
    /\ i \in Pending \cap accepted
    /\ inbox' = Minus(inbox, i) /\ steps' = steps \ {i}
    /\ prepared' = prepared \ {i}
    /\ sub' = IF i \in prepared THEN [sub EXCEPT ![i] = "none"] ELSE sub
    /\ admitting' = i /\ pc' = [pc EXCEPT ![i] = "unqueue"] /\ mode' = [mode EXCEPT ![i] = m]
    /\ Upset(IF work = i \/ i \in mailbox \cup done THEN {"raced"} ELSE {})
    /\ UNCHANGED <<done, logged, logPaused, open, worker, host, driver, stop,
                   accepted, removed, lost, ran>>

\* ... and then out of the host's queue; steer goes on as a new admission.
OffQueue(i) == Minus(queue, i)
Unqueue(i) ==
    /\ pc[i] = "unqueue"
    /\ queue' = OffQueue(i)
    /\ IF mode[i] = "steer"
       THEN /\ pc' = [pc EXCEPT ![i] = IF paused THEN "resume" ELSE "route"]
            /\ UNCHANGED <<admitting, removed>>
       ELSE Answered(i) /\ removed' = removed \cup {i}
    /\ UNCHANGED <<log, runtime, up, known, paused, running, shown, driver, mode,
                   stop, accepted, lost, ran, trouble, budget>>

\* session.cancel: pause the session, without the admission lock, then tell
\* the driver of the moment and wait for its acknowledgement.
Stop(s) ==
    /\ up = "up" /\ stop[s] = "idle" /\ Upset({"stopped"})
    /\ stop' = [stop EXCEPT ![s] = IF paused THEN "send" ELSE "pause"]
    /\ UNCHANGED <<log, runtime, host, driver, pc, mode, admitting,
                   accepted, removed, lost, ran>>
StopLog(s) ==
    /\ stop[s] = "pause"
    /\ logPaused' = TRUE /\ stop' = [stop EXCEPT ![s] = "set"]
    /\ UNCHANGED <<inbox, steps, done, logged, open, runtime, host, driver,
                   pc, mode, admitting, ghost>>
StopMemory(s) ==
    /\ stop[s] = "set"
    /\ paused' = TRUE /\ stop' = [stop EXCEPT ![s] = "send"]
    /\ UNCHANGED <<log, runtime, up, queue, known, running, shown, driver,
                   pc, mode, admitting, ghost>>
StopSend(s) ==
    /\ stop[s] = "send"
    /\ IF running /\ dpc # "off"
       THEN cmds' = Append(cmds, [kind |-> "stop", by |-> s])
            /\ stop' = [stop EXCEPT ![s] = "wait"]
       ELSE stop' = [stop EXCEPT ![s] = "idle"] /\ UNCHANGED cmds
    /\ UNCHANGED <<log, runtime, host, dpc, work, bg, pc, mode, admitting, ghost>>

\* respond_pending: the user answers an approval the host has shown.
Answer(i) ==
    /\ up = "up" /\ i \in shown /\ dpc # "off"
    /\ \A k \in DOMAIN cmds : cmds[k].kind # "answer"
    /\ cmds' = Append(cmds, [kind |-> "answer", by |-> i])
    /\ UNCHANGED <<log, runtime, host, dpc, work, bg, rpc, ghost>>

--------------------------------------------------------------------------------
(* The driver task *)

Goto(label) == dpc' = label

DriverTop ==
    /\ dpc = "top"
    /\ Goto(IF paused THEN "rest" ELSE "pop")
    /\ UNCHANGED <<log, runtime, host, work, bg, cmds, rpc, ghost>>

\* The driver ends; what waits in its channel is told so.
DriverExits ==
    /\ running' = FALSE /\ Goto("off") /\ DropControl
    /\ UNCHANGED <<log, runtime, up, queue, known, paused, shown, work, bg, mode,
                   accepted, removed, ran, trouble, budget>>

\* It saw the session paused: under a second lock, without looking again.
DriverRests == dpc = "rest" /\ DriverExits

Pops(label, i, q) ==
    /\ Goto(label) /\ work' = i /\ queue' = q
    /\ trouble' = IF i # none /\ pc[i] = "unqueue" THEN trouble \cup {"raced"} ELSE trouble
    /\ UNCHANGED <<log, runtime, up, known, paused, running, shown, bg, cmds, rpc,
                   accepted, removed, lost, ran, budget>>
DriverPops ==
    /\ dpc = "pop"
    /\ IF queue = <<>> THEN Pops("empty", none, queue)
                       ELSE Pops("start", Head(queue), Tail(queue))

\* The queue was empty: look again under the lock that ends the driver.
LooksOnce == FALSE    \* bug: the queue is not read again
LooksAgain == queue # <<>>
DriverEmpty ==
    /\ dpc = "empty"
    /\ IF LooksAgain
       THEN Goto("top") /\ UNCHANGED <<log, runtime, host, work, bg, cmds, rpc, ghost>>
       ELSE DriverExits

\* start_turn takes the prepared turn, or prepares the input once more.
StartTurn ==
    /\ dpc = "start"
    /\ \/ /\ work \in prepared /\ prepared' = prepared \ {work}
          /\ Goto("wake") /\ UNCHANGED <<log, worker, sub, work>>
       \/ /\ work \notin prepared /\ Prepare(work)
          /\ sub' = [sub EXCEPT ![work] = "open"]
          /\ Goto("wake") /\ UNCHANGED <<prepared, work>>
       \/ /\ work \notin prepared /\ work \in Pending    \* DuplicateMessage
          /\ Goto("top") /\ work' = none /\ UNCHANGED <<log, runtime>>
    /\ UNCHANGED <<host, bg, cmds, rpc, ghost>>

\* The worker's mailbox is read in its sleep, while it waits for capacity and
\* while a turn runs.
Turning == {"turn", "rerun"}
Ending  == {"turn ends", "rerun ends"}
Recovered == {"rerun", "rerun ends"}
HearsBetween == wpc \in {"idle", "acquire"}    \* bug: a turn keeps the mailbox shut
Hears == wpc \in {"idle", "acquire"} \cup Turning \cup Ending
WakesWorker ==
    /\ dpc = "wake" /\ Hears
    /\ wake' = TRUE /\ Goto("follow")
    /\ UNCHANGED <<log, wpc, cur, mailbox, prepared, sub, host, work, bg, cmds, rpc, ghost>>

\* The turn followed shows an approval.
Shows(i) ==
    /\ i # none /\ sub[i] = "started" /\ open = i /\ i \notin shown
    /\ shown' = shown \cup {i}
    /\ UNCHANGED <<log, runtime, up, record, driver, rpc, ghost>>
DriverShows == dpc = "follow" /\ Shows(work)

Ended(i) == sub[i] \in {"parked", "over", "lagged"}

\* The follow ends: every approval of the session is withdrawn.
Withdrawn == {}
FollowEnds ==
    /\ dpc = "follow" /\ Ended(work)
    /\ shown' = Withdrawn
    /\ sub' = [sub EXCEPT ![work] = "none"] /\ work' = none /\ Goto("top")
    /\ UNCHANGED <<log, worker, prepared, up, record, bg, cmds, rpc, ghost>>

\* A command reaches the worker, and its sender gets the worker's answer.
Park == wake' = FALSE /\ sub' = Parked(sub) /\ wpc' = "idle"
Forwards(kind) ==
    /\ dpc = "follow" /\ Hears
    /\ cmds # <<>> /\ Head(cmds).kind = kind /\ cmds' = Tail(cmds)
    /\ UNCHANGED <<dpc, work, bg, prepared, cur, up, queue, paused, running, mode, done, inbox,
                   logPaused>>
ForwardsStop ==
    /\ Forwards("stop")
    /\ IF wpc \in Turning \cup Ending
       THEN /\ open' = none
            /\ wpc' = IF wpc = "turn" THEN "turn ends"
                      ELSE IF wpc = "rerun" THEN "rerun ends" ELSE wpc
            /\ UNCHANGED <<wake, sub>>
       ELSE Park /\ UNCHANGED open
    /\ stop' = [stop EXCEPT ![Head(cmds).by] = "idle"]
    /\ UNCHANGED <<steps, logged, mailbox, known, shown, pc, admitting, ghost>>
ForwardsAnswer ==
    /\ Forwards("answer")
    /\ IF wpc \in Turning /\ open = Head(cmds).by
       THEN open' = none /\ shown' = shown \ {Head(cmds).by}
       ELSE UNCHANGED <<open, shown>>
    /\ UNCHANGED <<steps, logged, wpc, wake, mailbox, sub, known, pc, admitting, stop, ghost>>

\* Steering is persisted and, while a turn runs, sent to the run, which may
\* have closed its end: that too is reported as accepted.
ForwardsSteer ==
    /\ Forwards("steer")
    /\ LET i == Head(cmds).by IN
       IF i \in Pending
       THEN Answered(i) /\ RefusedBy(i)
            /\ UNCHANGED <<steps, logged, wake, mailbox, known, accepted>>
       ELSE /\ steps' = steps \cup {i} /\ logged' = logged \cup {i} /\ wake' = TRUE
            /\ \/ UNCHANGED mailbox
               \/ wpc \in Turning \cup Ending /\ mailbox' = mailbox \cup {i}
            /\ known' = known \cup {i}
            /\ Answered(i) /\ accepted' = accepted \cup {i} /\ UNCHANGED lost
    /\ UNCHANGED <<open, shown, wpc, sub, stop, removed, ran, trouble, budget>>

--------------------------------------------------------------------------------
(* A timer's delivery, with its own subscription *)

Deliver(i) ==
    /\ up = "up" /\ wpc # "off" /\ i \notin logged /\ Upset({})
    /\ inbox' = Append(inbox, i) /\ logged' = logged \cup {i}
    /\ sub' = [sub EXCEPT ![i] = "open"] /\ wake' = TRUE
    /\ pc' = [pc EXCEPT ![i] = "notice"]
    /\ UNCHANGED <<steps, done, logPaused, open, wpc, cur, mailbox, prepared, host, driver,
                   mode, admitting, stop, accepted, removed, lost, ran>>

\* start_background_turn: a driver of its own, or a projection beside one.
BackgroundTurn(i) ==
    /\ pc[i] = "notice" /\ bg = none
    /\ pc' = [pc EXCEPT ![i] = "idle"]
    /\ IF running
       THEN bg' = i /\ UNCHANGED <<running, dpc, work, trouble>>
       ELSE /\ running' = TRUE /\ dpc' = "follow" /\ work' = i
            /\ trouble' = IF dpc = "off" THEN trouble ELSE trouble \cup {"two drivers"}
            /\ UNCHANGED bg
    /\ UNCHANGED <<log, runtime, up, queue, known, paused, shown, cmds, mode, admitting,
                   stop, accepted, removed, lost, ran, budget>>
BackgroundShows == Shows(bg)
BackgroundEnds ==
    /\ bg # none /\ Ended(bg)
    /\ sub' = [sub EXCEPT ![bg] = "none"] /\ bg' = none
    /\ UNCHANGED <<log, worker, prepared, host, dpc, work, cmds, rpc, ghost>>

--------------------------------------------------------------------------------
(* The runtime's worker *)

WorkerWakes ==
    /\ wpc = "idle" /\ wake /\ cur = none
    /\ wake' = FALSE
    /\ wpc' = IF inbox # <<>> THEN "load" ELSE "idle"
    /\ UNCHANGED <<log, cur, mailbox, prepared, sub, host, driver, rpc, ghost>>
WorkerLoads ==
    /\ wpc = "load"
    /\ IF logPaused THEN Park ELSE wpc' = "acquire" /\ UNCHANGED <<wake, sub>>
    /\ UNCHANGED <<log, cur, mailbox, prepared, host, driver, rpc, ghost>>

\* prepare_claim and the turn's first append.
TurnStarts ==
    /\ wpc = "acquire" /\ open = none
    /\ IF inbox = <<>>
       THEN wpc' = "idle" /\ UNCHANGED <<inbox, steps, done, cur, sub, ran>>
       ELSE LET i == Head(inbox) IN
            /\ inbox' = Tail(inbox) /\ steps' = {} /\ done' = done \cup {i} \cup steps
            /\ cur' = i /\ wpc' = "turn" /\ sub' = Started(i)
            /\ ran' = [j \in Inputs |-> ran[j] + (IF j \in {i} \cup steps THEN 1 ELSE 0)]
    /\ UNCHANGED <<logged, logPaused, open, wake, mailbox, prepared, host, driver, rpc,
                   accepted, removed, lost, trouble, budget>>

\* flush_pending_messages, at a boundary of the turn: the steering is given to
\* the model and written, and its entries stay pending until the worker
\* reconciles -- which it does not do after a recovered turn.
TurnSteers ==
    /\ wpc \in Turning \cup Ending /\ open = none /\ mailbox # {}
    /\ done' = done \cup mailbox /\ mailbox' = {}
    /\ ran' = [i \in Inputs |-> ran[i] + (IF i \in mailbox THEN 1 ELSE 0)]
    /\ trouble' = IF wpc \in Recovered THEN trouble \cup {"unreconciled"} ELSE trouble
    /\ UNCHANGED <<inbox, steps, logged, logPaused, open, wpc, cur, wake, prepared, sub,
                   host, driver, rpc, accepted, removed, lost, budget>>

\* A turn of an earlier process still waits for its approval: the run fails
\* before its turn exists, and the worker, its queue not empty, goes again.
TurnFails ==
    /\ wpc = "acquire" /\ open # none /\ inbox # <<>>
    /\ sub' = [sub EXCEPT ![Head(inbox)] = IF @ \in Live THEN "over" ELSE @]
    /\ wpc' = "load" /\ wake' = FALSE
    /\ UNCHANGED <<log, cur, mailbox, prepared, host, driver, rpc, ghost>>

Asks ==
    /\ wpc \in Turning /\ open = none
    /\ open' = cur
    /\ UNCHANGED <<inbox, steps, done, logged, logPaused, runtime, host, driver,
                   rpc, ghost>>

\* The turn completes, fails or is cancelled, with what it has not written; a
\* recovered one leaves the queues as they are.
TurnEnds ==
    /\ wpc \in Turning \cup Ending /\ open = none
    /\ sub' = Over(cur) /\ cur' = none /\ mailbox' = {}
    /\ IF wpc \in Recovered THEN UNCHANGED <<inbox, steps>> ELSE Reconciles
    /\ IF wpc \in Recovered \/ (inbox' = <<>> /\ ~wake)
       THEN wpc' = "idle" /\ UNCHANGED wake
       ELSE wpc' = "load" /\ wake' = FALSE
    /\ UNCHANGED <<done, logged, logPaused, open, prepared, host, driver, rpc, ghost>>

\* The turn says more than a receiver's buffer holds.
Lags(i) ==
    /\ wpc \in Turning /\ sub[i] \in Live /\ Upset({"lagged"})
    /\ sub' = [sub EXCEPT ![i] = "lagged"]
    /\ UNCHANGED <<log, worker, prepared, host, driver, rpc, accepted, removed, lost, ran>>

--------------------------------------------------------------------------------
(* Crash and restoration *)

Crash ==
    /\ up = "up" /\ Upset({"crashed"})
    /\ up' = "down"
    /\ wpc' = "off" /\ cur' = none /\ wake' = FALSE /\ mailbox' = {}
    /\ prepared' = {} /\ sub' = [i \in Inputs |-> "none"]
    /\ queue' = <<>> /\ known' = {} /\ paused' = FALSE /\ running' = FALSE
    /\ shown' = {} /\ dpc' = "off" /\ work' = none /\ bg' = none /\ cmds' = <<>>
    /\ pc' = [i \in Inputs |-> "idle"] /\ admitting' = Free
    /\ stop' = [s \in Stops |-> "idle"]
    /\ lost' = lost \cup {i \in accepted : pc[i] # "idle" /\ i \notin Pending \cup done}
    /\ UNCHANGED <<log, mode, accepted, removed, ran>>

\* restore_from_store: the record is folded from the log.
RestoredPending == ToSet(inbox) \cap Prompts    \* bug: what has run is forgotten
RestoredAdmissions == logged \cap Prompts
RestoreRecord ==
    /\ up = "down"
    /\ queue' = inbox /\ known' = RestoredAdmissions /\ paused' = logPaused
    /\ up' = IF ~logPaused /\ (inbox # <<>> \/ open # none) THEN "restoring" ELSE "up"
    /\ trouble' = IF logPaused /\ inbox # <<>> THEN trouble \cup {"left out"} ELSE trouble
    /\ UNCHANGED <<log, runtime, running, shown, driver, rpc,
                   accepted, removed, lost, ran, budget>>

ReattachedNone == {}      \* bug: the driver is trusted to prepare what it pops
Reattached == ToSet(inbox)
Subscribed ==
    [i \in Inputs |-> IF i \in Reattached THEN "open"
                      ELSE IF i = open THEN "started" ELSE "none"]

\* resume_session: subscribe for every pending input and for the turn that
\* waits for an approval, then let the worker go, which reconciles first.  If it drops an
\* input the record holds the counts differ, and the host does not come up.
ResumeSession ==
    /\ up = "restoring" /\ wpc = "off" /\ ToSet(inbox) \cap done = {}
    /\ prepared' = Reattached
    /\ sub' = Subscribed
    /\ wake' = (inbox # <<>>)
    /\ cur' = open /\ wpc' = IF open = none THEN "idle" ELSE "rerun"
    /\ steps' = steps \ done
    /\ UNCHANGED <<inbox, done, logged, logPaused, open, mailbox, host, driver, rpc, ghost>>
StartsDriver ==
    /\ up = "restoring" /\ wpc # "off"
    /\ up' = "up" /\ running' = TRUE
    /\ IF \E i \in Inputs \ prepared : sub[i] # "none"
       THEN dpc' = "follow"
            /\ work' = CHOOSE i \in Inputs \ prepared : sub[i] # "none"
       ELSE dpc' = "top" /\ UNCHANGED work
    /\ UNCHANGED <<log, runtime, queue, known, paused, shown, bg, cmds, rpc, ghost>>

--------------------------------------------------------------------------------
DriverStep ==
    \/ DriverTop \/ DriverRests \/ DriverPops \/ DriverEmpty \/ StartTurn
    \/ WakesWorker \/ DriverShows \/ FollowEnds
    \/ ForwardsStop \/ ForwardsAnswer \/ ForwardsSteer
BackgroundStep == BackgroundShows \/ BackgroundEnds \/ \E i \in Deliveries : BackgroundTurn(i)
WorkerMoves == WorkerWakes \/ WorkerLoads \/ TurnStarts \/ TurnFails
WorkerStep == WorkerMoves \/ TurnSteers \/ TurnEnds
RequestStep(i) ==
    \/ Admission(i) \/ ResumeLog(i) \/ ResumeMemory(i) \/ Route(i)
    \/ AdmitTurn(i) \/ Push(i) \/ Spawn(i) \/ Unqueue(i)
StopStep(s) == StopLog(s) \/ StopMemory(s) \/ StopSend(s)
RestoreStep == RestoreRecord \/ ResumeSession \/ StartsDriver

Next ==
    \/ DriverStep \/ BackgroundStep \/ WorkerStep \/ RestoreStep
    \/ \E i \in Prompts : RequestStep(i) \/ SpawnFails(i)
    \/ \E i \in Prompts : Prompt(i, "queue") \/ TakeBack(i, "remove")
    \/ \E i \in Steerable : Prompt(i, "steer") \/ TakeBack(i, "steer")
    \/ \E s \in Stops : StopStep(s) \/ Stop(s)
    \/ \E i \in Deliveries : Deliver(i)
    \/ \E i \in Inputs : Lags(i)
    \/ \E i \in Inputs : Answer(i)
    \/ Asks \/ Crash

Spec == Init /\ [][Next]_vars

\* Every task of the host keeps being polled.  Nothing is assumed of users, of
\* approvals, of timers, or of turns: one may wait at a question or a pause, or
\* for a provider that keeps sending, and never end.
FairSpec ==
    /\ Spec /\ WF_vars(DriverStep) /\ WF_vars(BackgroundStep) /\ WF_vars(WorkerMoves)
    /\ WF_vars(RestoreStep)
    /\ \A i \in Prompts : WF_vars(RequestStep(i))
    /\ \A s \in Stops : WF_vars(StopStep(s))

--------------------------------------------------------------------------------
(* Properties *)

\* The session's record, its log and its tasks fit together: a turn that asks
\* or runs has taken its input, the admission lock is held by a request, what is
\* prepared is subscribed, and a prompt's approval is offered only while the
\* driver follows its turn.
HostTypeOK ==
    /\ inbox \in Seq(Inputs) /\ queue \in Seq(Inputs)
    /\ {logPaused, wake, paused, running} \subseteq BOOLEAN
    /\ sub \in [Inputs -> Live \cup {"none", "over", "parked", "lagged"}]
    /\ {open, cur} \subseteq done \cup {none} /\ done \cup Pending \subseteq logged
    /\ (cur # none) = (wpc \in Turning \cup Ending)
    /\ admitting # Free => pc[admitting] # "idle"
    /\ \A i \in prepared : sub[i] # "none"
    /\ shown \cap Prompts \subseteq {work}

\* One driver per session: whoever finds no driver running starts one, and
\* running says so until it ends.  Two drivers would follow and withdraw each
\* other's approvals.  (A failed projection leaves running without a driver.)
OneDriver ==
    /\ "two drivers" \notin trouble
    /\ dpc # "off" => running
    /\ (running /\ dpc = "off" /\ up = "up") => "fault" \in trouble

\* Whose task follows, or will follow, the turn of input i.
Followed(i) ==
    \/ work = i /\ ~Ended(i)
    \/ bg = i
    \/ i \in ToSet(queue) /\ i \in prepared
    \/ pc[i] \in {"push", "notice"}
    \/ up # "up"

\* Every turn is projected: "each later Web driver can then consume only the
\* turn whose TurnStarted frame names that input ID".
TurnsAreFollowed == cur # none => Followed(cur)

\* That holds until a stop, an edit of an input the driver or the run already
\* took, or a buffer that overflowed: what was subscribed before the worker wakes is read
\* to its end, across a restart too.
FollowedUnlessUpset ==
    trouble \cap {"stopped", "lagged", "raced", "fault"} = {} => TurnsAreFollowed

\* A turn is projected by one driver, neither by none nor by two.
FollowedByOne == HostTypeOK /\ OneDriver /\ FollowedUnlessUpset

\* "Reattach every pending next-turn input before starting any Agent worker":
\* after a restart every turn is followed, those of a session that was stopped
\* when the process died included.
RestoredAreFollowed ==
    ("left out" \in trouble /\ trouble \subseteq {"left out", "stopped", "crashed"})
        => TurnsAreFollowed

\* An identity is run once, and not at all once its removal was answered,
\* whatever is retried, steered, removed or restored after a crash.  Excepted
\* are an edit that raced -- with the driver, which had taken the input, or with
\* the run, which has it as steering and may have written it while it is still
\* listed as pending --, a restart that left the inputs of a stopped session
\* without a subscription, and steering written in a recovered turn, whose
\* entry no reconciliation deletes before the next claim takes it.
RunsOnce ==
    trouble \cap {"raced", "left out"} = {} =>
        /\ "unreconciled" \notin trouble => \A i \in Inputs : ran[i] <= 1
        /\ \A i \in removed : ran[i] = 0

\* A stop always returns, whatever the turn or its worker is waiting for.
CancelReturns == []<>(\A s \in Stops : stop[s] = "idle")

\* An accepted prompt is run, by this process or the next one, unless a turn
\* never ends, waits for its user or something else than a crash upset the session.
TurnNeverEnds == <>[](cur # none)
Stranded == accepted \ (done \cup removed \cup lost \cup steps)
AcceptedRuns == TurnNeverEnds \/ []<>(Stranded = {} \/ open # none \/ trouble \ {"crashed"} # {})
================================================================================
