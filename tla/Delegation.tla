----------------------------- MODULE Delegation -----------------------------
(* The host's delegation layer (xharness-host, delegation.rs): a parent      *)
(* session starts child sessions, writes to them and stops them; a listener  *)
(* reads the children's logs once a second and tells the parent of every     *)
(* turn that ended and every one that failed.  A child's log is the outbox,  *)
(* the parent's inbox receipts make a retry a duplicate.  HostDriver models  *)
(* one session's driver and AgentInbox its worker in detail; here a driver   *)
(* follows a turn or has lost sight of it.                                   *)
EXTENDS Sequences, SequencesExt, FiniteSets, Naturals

CONSTANTS Children,     \* start calls of the parent, each names one child
          Forks,        \* sessions a client may fork from a child
          Sends,        \* later messages of the parent or the user
          To,           \* the child a message is for
          initial,      \* the message that carries a child's task
          none,
          RunLimit,     \* children running at once when another one is started
          InboxLimit,   \* inputs that wait in a session
          Permits,      \* turns of children at once
          MaxEvents     \* bound on new starts, messages, stops, faults, crashes and forks

Sessions == Children \cup Forks
Messages == {initial} \cup Sends
ASSUME DelegationAssumption ==
    /\ To \in [Sends -> Children] /\ Children \cap Forks = {} /\ initial \notin Sends /\ none \notin Messages \cup Sessions
    /\ {RunLimit, InboxLimit, Permits} \subseteq Nat \ {0} /\ MaxEvents \in Nat
    /\ IsFiniteSet(Sessions)

VARIABLES
    log,        \* per child, what its log says: "created", "delegated", "in",
                \* "turn", "end", "fail", "told", "failtold", "pause", "resume"
    task,       \* the start call a child's AgentDelegated names
    told,       \* how often each notice was put into the parent's inbox
    wait,       \* the notices among the parent's pending inputs
    held,       \* the parent's dispatch is paused
    \* the host's memory
    up,
    op,         \* per start call: "idle", "describe" or "deliver"
    delegated,  \* SessionRecord.delegated
    running, known,
    cursor,     \* how much of a child's log the host has projected
    live,       \* the worker has a turn in hand
    follow,     \* and the driver follows it
    failing,    \* a failure is recorded, the pause that follows it is not
    unsure,     \* what an inbox was given by an admission that then reported an error
    \* the listener
    checked,    \* the length of the log each child was last checked at
    batch,      \* the children of this tick and the length it saw
    at, todo,   \* the child it visits and the notices it found unmarked
    sent,       \* the notice it has just told
    \* ghosts: faulted counts those errors
    ran, woken, faulted, budget

record   == <<op, delegated, running, known, cursor, live, follow, failing, unsure>>
listener == <<checked, batch, at, todo, sent>>
parent   == <<told, wait, held>>
ghosts   == <<ran, woken, faulted, budget>>
vars     == <<log, task, parent, up, record, listener, ghosts>>

Fact(k, m)     == [k |-> k, m |-> m]
Logs(c, k, m)  == Fact(k, m) \in ToSet(log[c])
Of(c, k)       == {f.m : f \in {g \in ToSet(log[c]) : g.k = k}}
Delegated(c)   == Of(c, "delegated") # {}
Count(c, f)    == Cardinality({i \in DOMAIN log[c] : log[c][i] = f})
Pending(c)     == {m \in Messages : Count(c, Fact("in", m)) > Count(c, Fact("turn", m))}
\* The turn a log leaves open, if any.
Rests(c, i, kinds) == \A j \in (i + 1)..Len(log[c]) : log[c][j].k \notin kinds
Open(c) ==
    LET open == {i \in DOMAIN log[c] : log[c][i].k = "turn" /\ Rests(c, i, {"turn", "end"})}
    IN  IF open = {} THEN none ELSE log[c][CHOOSE i \in open : TRUE].m
\* restored_dispatch_paused
Paused(c) == \E i \in DOMAIN log[c] : log[c][i].k = "pause" /\ Rests(c, i, {"resume"})
First(c, S) ==
    LET waits(i) == log[c][i].k = "in" /\ log[c][i].m \in S
    IN  log[c][CHOOSE i \in DOMAIN log[c] : waits(i) /\ \A j \in 1..(i - 1) : ~waits(j)].m
Log(c, s) == log' = [log EXCEPT ![c] = @ \o s]
\* A commit of the host is projected before it returns.
Commit(c, s) == Log(c, s) /\ cursor' = [cursor EXCEPT ![c] = Len(log[c]) + Len(s)]
Event == budget > 0 /\ budget' = budget - 1

\* What inboxes are given: the parent's notices, a child's messages.
Notices == [child : Sessions, kind : {"end", "fail"}, m : Messages]
Inputs  == [child : Sessions, kind : {"in"}, m : Messages]
Notice(c, k, m) == [child |-> c, kind |-> k, m |-> m]
Input(c, m)     == Notice(c, "in", m)
\* What the host's queue of a child holds, for its driver.
Queued(c) == {m \in Pending(c) : Input(c, m) \notin unsure}
Marker(n) == IF n.kind = "end" THEN "told" ELSE "failtold"
\* What deliver_child_settlements finds to tell, in the order of the log.
Unmarked(c) ==
    LET due(k) ==
            LET upto[i \in 0..Len(log[c])] ==
                    IF i = 0 THEN <<>>
                    ELSE IF log[c][i].k = k /\ ~Logs(c, Marker(Notice(c, k, none)), log[c][i].m)
                    THEN Append(upto[i - 1], Notice(c, k, log[c][i].m)) ELSE upto[i - 1]
            IN  upto[Len(log[c])]
    IN  due("end") \o due("fail")

Init ==
    /\ log = [c \in Sessions |-> <<>>] /\ task = [c \in Sessions |-> c]
    /\ told = [n \in Notices |-> 0] /\ wait = {} /\ held = FALSE
    /\ up = TRUE /\ op = [c \in Children |-> "idle"]
    /\ delegated = {} /\ running = {} /\ known = [c \in Sessions |-> {}]
    /\ cursor = [c \in Sessions |-> 0]
    /\ live = {} /\ follow = {} /\ failing = {} /\ unsure = {}
    /\ checked = [c \in Sessions |-> 0] /\ batch = <<>>
    /\ at = none /\ todo = <<>> /\ sent = FALSE
    /\ ran = [c \in Children |-> 0] /\ woken = {} /\ budget = MaxEvents
    /\ faulted = [n \in Notices \cup Inputs |-> 0]

--------------------------------------------------------------------------------
(* The agent tool *)

Fenced  == \A c \in Children : op[c] = "idle"
Room    == Cardinality(running \cap delegated) < RunLimit

\* create_delegated under the creation lock, in a turn of the parent: what it
\* checks, and a child that exists is not created again.
Start(c) ==
    /\ up /\ op[c] = "idle" /\ Fenced /\ ~held
    /\ IF c \in delegated
       THEN op' = [op EXCEPT ![c] = "deliver"] /\ woken' = woken \cup {c}
            /\ UNCHANGED <<log, cursor>>
            /\ UNCHANGED budget
       ELSE /\ Room /\ UNCHANGED woken
            /\ op' = [op EXCEPT ![c] = "describe"]
            /\ IF log[c] = <<>> THEN Commit(c, <<Fact("created", none)>>) /\ Event
               ELSE UNCHANGED <<log, cursor, budget>>
    /\ UNCHANGED <<task, parent, up, delegated, running, known, live, follow, failing,
                   unsure, listener, ran, faulted>>

\* The descriptor is one append; then the record says the child is delegated.
Describe(c) ==
    /\ op[c] = "describe"
    /\ Commit(c, <<Fact("delegated", none)>>)
    /\ delegated' = delegated \cup {c}
    /\ op' = [op EXCEPT ![c] = "deliver"]
    /\ UNCHANGED <<task, parent, up, running, known, live, follow, failing, unsure,
                   listener, ghosts>>

\* deliver_agent_message to a child, under its admission lock: an identity the
\* record knows was admitted before; otherwise it is appended, unless it is
\* pending, and a driver runs if the child is not paused.
KnownPending(c, m) == m \in known[c] \cap Pending(c)  \* bug: receipts end with the input
Known(c, m)        == m \in known[c] /\ Input(c, m) \notin unsure
Accepts(c, m) == Known(c, m) \/ (Cardinality(Pending(c)) < InboxLimit /\ m \notin Pending(c))
Learns(c, m)  == known' = [known EXCEPT ![c] = @ \cup {m}] /\ unsure' = unsure \ {Input(c, m)}
Receive(c, m) ==
    /\ Accepts(c, m)
    /\ IF Known(c, m) THEN UNCHANGED <<log, cursor, known, unsure, running>>
       ELSE
         /\ Commit(c, <<Fact("in", m)>>) /\ Learns(c, m)
         /\ running' = IF Paused(c) THEN running ELSE running \cup {c}

\* The append is written, then the admission fails (its flush, or what comes after
\* the append in prepare_turn): the host neither records nor projects the input
\* and starts no driver for it.
Slips(c, m) ==
    /\ ~Known(c, m) /\ Accepts(c, m)
    /\ known' = [known EXCEPT ![c] = @ \cup {m}] /\ unsure' = unsure \cup {Input(c, m)}
    /\ faulted' = [faulted EXCEPT ![Input(c, m)] = @ + 1]
    /\ UNCHANGED running

Deliver(c) ==
    /\ op[c] = "deliver"
    /\ op' = [op EXCEPT ![c] = "idle"]
    /\ \/ Receive(c, initial) /\ UNCHANGED <<faulted, budget>>
       \/ Slips(c, initial) /\ Log(c, <<Fact("in", initial)>>) /\ Event /\ UNCHANGED cursor
       \/ ~Accepts(c, initial) /\ UNCHANGED <<log, cursor, known, unsure, running, faulted, budget>>
    /\ UNCHANGED <<task, parent, up, delegated, live, follow, failing, listener, ran, woken>>

\* action=send.  While the child's turn runs the message steers it and has no
\* turn of its own; a stopped child keeps it.
Send(c, m) ==
    /\ up /\ c \in delegated /\ To[m] = c /\ ~Known(c, m) /\ m \notin Pending(c) /\ Event
    /\ IF c \in running /\ ~Paused(c)
       THEN Learns(c, m) /\ UNCHANGED <<log, cursor, running, woken, faulted>>
       ELSE \/ Receive(c, m) /\ woken' = woken \cup {c} /\ UNCHANGED faulted
            \/ Slips(c, m) /\ Log(c, <<Fact("in", m)>>) /\ UNCHANGED <<cursor, woken>>
    /\ UNCHANGED <<task, parent, up, op, delegated, live, follow, failing, listener, ran>>

\* action=stop, or the user's: dispatch is paused, then the turn is cancelled.
Stop(c) ==
    /\ up /\ c \in delegated /\ ~Paused(c) /\ Event
    /\ Commit(c, <<Fact("pause", none)>>)
    /\ UNCHANGED <<task, parent, up, op, delegated, running, known, live, follow, failing,
                   unsure, listener, ran, woken, faulted>>

\* A user's prompt to the child resumes it before it is admitted.
Prompt(c, m) ==
    /\ up /\ c \in delegated /\ Paused(c) /\ To[m] = c /\ ~Known(c, m) /\ Event
    /\ Accepts(c, m)
    /\ \/ /\ Commit(c, <<Fact("resume", none), Fact("in", m)>>) /\ Learns(c, m)
          /\ running' = running \cup {c} /\ woken' = woken \cup {c} /\ UNCHANGED faulted
       \/ /\ Slips(c, m) /\ Log(c, <<Fact("resume", none), Fact("in", m)>>)
          /\ cursor' = [cursor EXCEPT ![c] = Len(log[c]) + 1] /\ UNCHANGED woken
    /\ UNCHANGED <<task, parent, up, op, delegated, live, follow, failing, listener, ran>>

--------------------------------------------------------------------------------
(* A child's turns *)

\* A turn takes one of the permits children share before it claims its input; a
\* turn that a crash cut off and that was not resumed is ended first.  The driver
\* follows the turn of its input and passes over one that the host does not know.
BeginTurn(c) ==
    /\ c \in running \ failing /\ ~Paused(c) /\ Pending(c) # {}
    /\ c \notin live /\ Cardinality(live) < Permits
    /\ LET m == First(c, Pending(c))
           begins == IF Open(c) = none THEN <<Fact("turn", m)>>
                     ELSE <<Fact("end", Open(c)), Fact("turn", m)>>
       IN  /\ IF m \in Queued(c) THEN Commit(c, begins) /\ follow' = follow \cup {c}
              ELSE Log(c, begins) /\ UNCHANGED <<cursor, follow>>
           /\ ran' = IF m = initial THEN [ran EXCEPT ![task[c]] = @ + 1] ELSE ran
    /\ live' = live \cup {c}
    /\ UNCHANGED <<task, parent, up, op, delegated, running, known, failing, unsure,
                   listener, woken, faulted, budget>>

\* Its TurnEnd, whatever its reason.  The host projects it if it still follows.
EndTurn(c) ==
    /\ c \in live
    /\ Log(c, <<Fact("end", Open(c))>>)
    /\ cursor' = IF c \in follow THEN [cursor EXCEPT ![c] = Len(log[c]) + 1] ELSE cursor
    /\ live' = live \ {c} /\ follow' = follow \ {c}
    /\ UNCHANGED <<task, parent, up, op, delegated, running, known, failing, unsure,
                   listener, ghosts>>

\* record_delegation_failure: a turn that could not start, or whose driver lost
\* sight of it, is logged as failed; then dispatch is paused.
Fails(c, m) ==
    /\ IF c \in delegated /\ ~Logs(c, "fail", m)
       THEN Commit(c, <<Fact("fail", m)>>) ELSE UNCHANGED <<log, cursor>>
    /\ failing' = failing \cup {c}
TurnFails(c) ==
    /\ c \in running /\ Event /\ c \notin failing
    /\ \/ /\ c \notin follow /\ ~Paused(c) /\ Queued(c) # {}
          /\ Fails(c, First(c, Queued(c))) /\ UNCHANGED follow
       \/ c \in follow /\ Fails(c, Open(c)) /\ follow' = follow \ {c}
    /\ UNCHANGED <<task, parent, up, op, delegated, running, known, live, unsure, listener,
                   ran, woken, faulted>>
PauseAfter(c) ==
    /\ c \in failing
    /\ IF c \in delegated /\ ~Paused(c) THEN Commit(c, <<Fact("pause", none)>>)
       ELSE UNCHANGED <<log, cursor>>
    /\ failing' = failing \ {c}
    /\ UNCHANGED <<task, parent, up, op, delegated, running, known, live, follow, unsure,
                   listener, ghosts>>

\* The driver finds nothing to run.
Rest(c) ==
    /\ c \in running \ (follow \cup failing) /\ (Paused(c) \/ Queued(c) = {})
    /\ running' = running \ {c}
    /\ woken' = IF c \in Children /\ op[c] = "idle" THEN woken \ {c} ELSE woken
    /\ UNCHANGED <<log, task, parent, up, op, delegated, known, cursor, live, follow, failing,
                   unsure, listener, ran, faulted, budget>>

--------------------------------------------------------------------------------
(* The listener *)

Changed(c) == c \in delegated \ running /\ checked[c] # cursor[c]
Tick ==
    /\ up /\ batch = <<>> /\ at = none
    /\ \E c \in Sessions : Changed(c)
    /\ batch' = SetToSeq({<<c, cursor[c]>> : c \in {d \in Sessions : Changed(d)}})
    /\ UNCHANGED <<log, task, parent, up, record, checked, at, todo, sent, ghosts>>

\* It reads the child's log and delivers the task again if the host does not know
\* that it has it; an error ends the visit.
Visit ==
    /\ batch # <<>> /\ at = none
    /\ LET c == Head(batch)[1] IN
       \/ /\ at' = c /\ todo' = Unmarked(c)
          /\ Receive(c, initial)
          /\ woken' = IF Known(c, initial) THEN woken ELSE woken \cup {c}
          /\ UNCHANGED <<batch, faulted, budget>>
       \/ /\ \/ ~Accepts(c, initial)
                /\ UNCHANGED <<log, cursor, known, unsure, running, faulted, budget>>
             \/ Slips(c, initial) /\ Log(c, <<Fact("in", initial)>>) /\ Event /\ UNCHANGED cursor
          /\ batch' = Tail(batch) /\ UNCHANGED <<at, todo, woken>>
    /\ UNCHANGED <<task, parent, up, op, delegated, live, follow, failing, checked, sent, ran>>

GiveUp == batch' = Tail(batch) /\ at' = none /\ todo' = <<>>

\* deliver_agent_message to the parent (Tell): a duplicate is acknowledged, a full
\* inbox or an input that is still pending there is an error, and a new one is
\* appended.
ToldPending(n) == n \in wait           \* bug: receipts end with the input
Told(n) == told[n] > 0 /\ n \notin unsure
Full    == Cardinality(wait) >= InboxLimit
Tell ==
    /\ at # none /\ todo # <<>> /\ ~sent
    /\ LET n == Head(todo) IN
       \/ Told(n) /\ sent' = TRUE /\ UNCHANGED <<told, wait, unsure, batch, at, todo>>
       \/ /\ ~Told(n) /\ ~Full /\ n \notin wait
          /\ told' = [told EXCEPT ![n] = @ + 1] /\ wait' = wait \cup {n}
          /\ unsure' = unsure \ {n} /\ sent' = TRUE
          /\ UNCHANGED <<batch, at, todo>>
       \/ ~Told(n) /\ (Full \/ n \in wait) /\ GiveUp
          /\ UNCHANGED <<told, wait, unsure, sent>>
    /\ UNCHANGED <<log, task, held, up, op, delegated, running, known, cursor, live,
                   follow, failing, checked, ghosts>>
\* The append to the parent's inbox is written but its flush fails, or what
\* prepares its turn does: the notice waits there and the host does not know.
TellFails ==
    /\ at # none /\ todo # <<>> /\ ~sent /\ Event
    /\ LET n == Head(todo) IN
       /\ ~Told(n) /\ ~Full /\ n \notin wait
       /\ told' = [told EXCEPT ![n] = @ + 1] /\ wait' = wait \cup {n}
       /\ unsure' = unsure \cup {n} /\ faulted' = [faulted EXCEPT ![n] = @ + 1]
    /\ GiveUp
    /\ UNCHANGED <<log, task, held, up, op, delegated, running, known, cursor, live,
                   follow, failing, checked, sent, ran, woken>>

\* The marker in the child's log.
Mark ==
    /\ sent
    /\ LET n == Head(todo) IN Commit(n.child, <<Fact(Marker(n), n.m)>>)
    /\ sent' = FALSE /\ todo' = Tail(todo)
    /\ UNCHANGED <<task, parent, up, op, delegated, running, known, live, follow, failing,
                   unsure, checked, batch, at, ghosts>>

SeenAtLeave(c) == cursor[c]         \* bug: what came during the visit is not looked at
SeenAtTick(c)  == Head(batch)[2]
Leave ==
    /\ at # none /\ todo = <<>>
    /\ checked' = [checked EXCEPT ![at] = SeenAtTick(at)]
    /\ GiveUp
    /\ UNCHANGED <<log, task, parent, up, record, sent, ghosts>>

--------------------------------------------------------------------------------
(* The parent, the client, and the process *)

\* A turn of the parent claims a notice.
ParentReads ==
    /\ up /\ ~held
    /\ \E n \in wait : wait' = wait \ {n}
    /\ UNCHANGED <<log, task, told, held, up, record, listener, ghosts>>
\* Its user stops it, which may cut off a call that is under way.
ParentStops ==
    /\ ~held /\ Event /\ held' = TRUE
    /\ op' \in {op, [c \in Children |-> "idle"]}
    /\ UNCHANGED <<log, task, told, wait, up, delegated, running, known, cursor, live,
                   follow, failing, unsure, listener, ran, woken, faulted>>
ParentResumes == held /\ held' = FALSE
    /\ UNCHANGED <<log, task, told, wait, up, record, listener, ghosts>>

\* session_fork copies the source's log up to some event; the new record is not
\* a delegated one and has admitted nothing.
Fork(f, c) ==
    /\ up /\ log[f] = <<>> /\ c \in delegated /\ Event
    /\ \E k \in 1..Len(log[c]) :
          /\ log' = [log EXCEPT ![f] = SubSeq(log[c], 1, k)]
          /\ cursor' = [cursor EXCEPT ![f] = k]
    /\ task' = [task EXCEPT ![f] = task[c]]
    /\ UNCHANGED <<parent, up, op, delegated, running, known, live, follow, failing, unsure,
                   listener, ran, woken, faulted>>

Crash ==
    /\ up /\ Event /\ up' = FALSE
    /\ op' = [c \in Children |-> "idle"]
    /\ running' = {} /\ live' = {} /\ follow' = {} /\ failing' = {} /\ unsure' = {} /\ woken' = {}
    /\ checked' = [c \in Sessions |-> 0] /\ batch' = <<>>
    /\ at' = none /\ todo' = <<>> /\ sent' = FALSE
    /\ delegated' = {} /\ cursor' = [c \in Sessions |-> 0]
    /\ UNCHANGED <<log, task, parent, known, ran, faulted>>

\* restore: every record from its log, with the admissions it holds.  A session
\* that is not paused gets a driver if it has inputs or if a turn was open that
\* asks (an approval or a question is pending): that turn is resumed, another one
\* stays open.  A fork's admissions name another session and are not its own.
Restart ==
    /\ ~up /\ up' = TRUE
    /\ delegated' = {c \in Sessions : Delegated(c)}
    /\ cursor' = [c \in Sessions |-> Len(log[c])]
    /\ \E asking \in SUBSET {c \in Sessions : Open(c) # none /\ ~Paused(c)} :
          /\ running' = asking \cup {c \in Sessions : ~Paused(c) /\ Pending(c) # {}}
          /\ live' = asking /\ follow' = asking
    /\ woken' = running'
    /\ UNCHANGED <<log, task, parent, op, known, failing, unsure, listener,
                   ran, faulted, budget>>

--------------------------------------------------------------------------------
ToolStep  == \E c \in Children : Start(c) \/ Describe(c) \/ Deliver(c)
ChildMoves(c) == BeginTurn(c) \/ PauseAfter(c) \/ Rest(c)
ListenerStep == Tick \/ Visit \/ Tell \/ Mark \/ Leave
Next ==
    \/ ToolStep \/ ListenerStep \/ TellFails
    \/ \E c \in Sessions : ChildMoves(c) \/ EndTurn(c) \/ TurnFails(c) \/ Stop(c)
    \/ \E c \in Sessions, m \in Sends : Send(c, m) \/ Prompt(c, m)
    \/ \E f \in Forks, c \in Children : Fork(f, c)
    \/ ParentReads \/ ParentStops \/ ParentResumes \/ Crash \/ Restart

Spec == Init /\ [][Next]_vars
\* The listener's task and the children's drivers keep being polled, and a process
\* that died is started again.  That a turn ends, a child's or the parent's, is not
\* assumed: it may wait for a user, and for ever.
FairSpec ==
    /\ Spec /\ WF_vars(ListenerStep) /\ WF_vars(Restart)
    /\ \A c \in Children : WF_vars(Describe(c)) /\ WF_vars(Deliver(c))
    /\ \A c \in Sessions : WF_vars(ChildMoves(c))

--------------------------------------------------------------------------------
(* Properties *)

\* A notice is marked only after it is in the parent's inbox: "delivery is
\* retried until both the parent's deduplicated inbox receipt and child delivery
\* marker exist".
MarkedWereTold ==
    \A c \in Children, m \in Messages :
        /\ Logs(c, "told", m) => told[Notice(c, "end", m)] > 0
        /\ Logs(c, "failtold", m) => told[Notice(c, "fail", m)] > 0

\* Whatever is retried, and whenever the process dies between the two appends,
\* the parent is told once, and once more for each time the admission of the
\* notice failed after its append.
ToldOnce == \A n \in Notices : told[n] <= 1 + faulted[n]

\* A settlement is told once, and before it is marked as told.
NoticesAreTold == MarkedWereTold /\ ToldOnce

\* However often a start is retried or redelivered, its task is run once, and once
\* more for each time its admission failed after the append.
TaskRunsOnce == \A c \in Children : ran[c] <= 1 + faulted[Input(c, initial)]

\* The creation lock keeps concurrent starts within the limit: children that
\* run for another reason (a message, a retried start, a restart) may be more.
StartsFit == Cardinality((running \cap delegated) \ woken) <= RunLimit

\* What a start may do: run its task once, and within the limit.
StartsKept == TaskRunsOnce /\ StartsFit

\* A described child gets its task, and what ends or fails is told.  It may take
\* for ever where the host waits for what need not come: the end of the child's turn,
\* or of those that hold the permits it waits for; a turn of the parent, when its
\* inbox is full; a wake, when the child's inbox does not take the task and the child
\* is stopped or was given nothing but inputs whose admission failed.  A turn the
\* host lost sight of is told when the host next looks at that log.
Owed(c) ==
    \/ Delegated(c) /\ initial \notin Of(c, "in")
    \/ \E m \in Messages : \/ Logs(c, "end", m) /\ told[Notice(c, "end", m)] = 0
                           \/ Logs(c, "fail", m) /\ told[Notice(c, "fail", m)] = 0
HeldUp(c) == c \in running /\ (c \in live \/ Cardinality(live) >= Permits)
Stuck(c)  == \/ Full
             \/ ~Accepts(c, initial) /\ (Paused(c) \/ Queued(c) = {})
Blind(c)  == cursor[c] # Len(log[c])
OwedArrives == []<>(\A c \in Children : Owed(c) => HeldUp(c) \/ Stuck(c) \/ Blind(c))
================================================================================
