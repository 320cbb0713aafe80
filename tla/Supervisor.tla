------------------------------ MODULE Supervisor ------------------------------
(***************************************************************************)
(* Who may write to one agent's session: the supervisor of each host, its  *)
(* map of handles, the activation the registry makes under a lease that    *)
(* excludes other processes, the worker and the engine task it starts, the *)
(* requests that activate the agent, and the shutdown that stops it.       *)
(*                                                                         *)
(* The activation is kept alive by whoever refers to it (the map, the      *)
(* worker, a request, the shutdown that drained the map), and the lease    *)
(* falls with the last reference.  Its lifecycle (Idle, Running) is the    *)
(* worker's state here.                                                    *)
(***************************************************************************)
EXTENDS Naturals, FiniteSets

CONSTANTS
    Hosts,          \* processes that share the lease directory
    Requests,       \* handlers that activate the agent, one call each
    HostOf,         \* HostOf[r]: the process that serves request r
    NoHost, NoRequest,
    MaxExits        \* bound on processes that end

ASSUME SupervisorAssumption ==
    /\ HostOf \in [Requests -> Hosts] /\ MaxExits \in Nat
    /\ NoHost \notin Hosts /\ NoRequest \notin Requests

VARIABLES
    lease,          \* the process that holds the agent's lock file
    closed,         \* closed[h]: admission is stopped
    stage,          \* stage[h]: how far shutdown() has come
    handles,        \* handles[h]: who locks the supervisor's map
    mapped,         \* mapped[h]: the map has the agent's handle
    task,           \* task[h]: the task of DriverWorker::run
    engine,         \* engine[h]: the task of LoopEngine::start runs
    request,        \* request[r]: where the handler of r is
    forced,         \* processes whose shutdown aborted a worker
    exits

superVars == <<lease, closed, stage, handles, mapped, task, engine, request,
               forced, exits>>

Live == {"idle", "drives", "cancels"}

SuperTypeOK ==
    /\ lease \in Hosts \cup {NoHost}
    /\ forced \subseteq Hosts /\ exits \in 0..MaxExits
    /\ closed \in [Hosts -> BOOLEAN] /\ mapped \in [Hosts -> BOOLEAN]
    /\ engine \in [Hosts -> BOOLEAN]
    /\ stage \in [Hosts -> {"open", "drain", "wait", "over"}]
    /\ handles \in [Hosts -> Requests \cup {NoRequest}]
    /\ task \in [Hosts -> Live \cup {"none", "ended"}]
    /\ request \in [Requests -> {"idle", "checked", "inside", "opening", "holds", "gone"}]

SuperInit ==
    /\ lease = NoHost /\ forced = {} /\ exits = 0
    /\ closed = [h \in Hosts |-> FALSE] /\ mapped = [h \in Hosts |-> FALSE]
    /\ engine = [h \in Hosts |-> FALSE] /\ stage = [h \in Hosts |-> "open"]
    /\ handles = [h \in Hosts |-> NoRequest] /\ task = [h \in Hosts |-> "none"]
    /\ request = [r \in Requests |-> "idle"]

Moves(r, from, to) == request[r] = from /\ request' = [request EXCEPT ![r] = to]

\* Someone refers to the activation that process h published.
Referred(h) ==
    \/ mapped[h] \/ task[h] \in Live \/ stage[h] = "wait"
    \/ \E r \in Requests : HostOf[r] = h /\ request[r] \in {"opening", "holds"}

--------------------------------------------------------------------------------
(* Activation, by a prompt or by the restore *)

\* validate_turn_input and the first look of activate().
Check(r) ==
    LET h == HostOf[r] IN
    /\ Moves(r, "idle", IF closed[h] THEN "gone" ELSE "checked")
    /\ UNCHANGED <<lease, closed, stage, handles, mapped, task, engine, forced, exits>>

LockMap(r) ==
    LET h == HostOf[r] IN
    /\ handles[h] = NoRequest
    /\ Moves(r, "checked", "inside")
    /\ handles' = [handles EXCEPT ![h] = r]
    /\ UNCHANGED <<lease, closed, stage, mapped, task, engine, forced, exits>>

UnlockMap(h) == handles' = [handles EXCEPT ![h] = NoRequest]

TrustsCheck(h) == TRUE      \* bug: no second look under the lock
MayStillStart(h) == ~closed[h]

\* Under the lock: refused, given the handle there is, or on to the registry,
\* which asks for the lease.
Enter(r) ==
    LET h == HostOf[r] IN
    /\ IF ~MayStillStart(h)
       THEN Moves(r, "inside", "gone") /\ UnlockMap(h) /\ UNCHANGED lease
       ELSE IF mapped[h] THEN Moves(r, "inside", "holds") /\ UnlockMap(h) /\ UNCHANGED lease
       ELSE IF lease # NoHost THEN Moves(r, "inside", "gone") /\ UnlockMap(h) /\ UNCHANGED lease
       ELSE Moves(r, "inside", "opening") /\ lease' = h /\ UNCHANGED handles
    /\ UNCHANGED <<closed, stage, mapped, task, engine, forced, exits>>

\* The inbox is opened, the worker started and its handle published.
Publish(r) ==
    LET h == HostOf[r] IN
    /\ Moves(r, "opening", "holds") /\ UnlockMap(h)
    /\ task' = [task EXCEPT ![h] = "idle"]
    /\ mapped' = [mapped EXCEPT ![h] = TRUE]
    /\ UNCHANGED <<lease, closed, stage, engine, forced, exits>>

\* The handler goes, at any await: an error of open(), its client is gone, or
\* it has done its work.  The locks it holds go with it.
Goes(r) ==
    LET h == HostOf[r] IN
    /\ request[r] \in {"checked", "inside", "opening", "holds"}
    /\ request' = [request EXCEPT ![r] = "gone"]
    /\ handles' = [handles EXCEPT ![h] = IF @ = r THEN NoRequest ELSE @]
    /\ lease' = IF request[r] = "opening" THEN NoHost ELSE lease
    /\ UNCHANGED <<closed, stage, mapped, task, engine, forced, exits>>

\* The last reference is gone: the lease is dropped a moment after it.
Release(h) ==
    /\ lease = h /\ ~Referred(h)
    /\ lease' = NoHost
    /\ UNCHANGED <<closed, stage, handles, mapped, task, engine, request, forced, exits>>

--------------------------------------------------------------------------------
(* The worker *)

\* A command sent through a handle, or the recovered inbox, makes the worker
\* start a turn.
Drive(h) ==
    /\ task[h] = "idle"
    /\ task' = [task EXCEPT ![h] = "drives"]
    /\ engine' = [engine EXCEPT ![h] = TRUE]
    /\ UNCHANGED <<lease, closed, stage, handles, mapped, request, forced, exits>>

\* The engine's task ends by itself, or because it was cancelled; a worker
\* that waits for it goes on.
EngineEnds(h) ==
    /\ engine[h]
    /\ engine' = [engine EXCEPT ![h] = FALSE]
    /\ task' = [task EXCEPT ![h] = CASE @ = "drives" -> "idle" [] @ = "cancels" -> "ended"
                                         [] OTHER -> @]
    /\ UNCHANGED <<lease, closed, stage, handles, mapped, request, forced, exits>>

\* An error of the inbox or the factory ends the worker; its handle stays.
WorkerFails(h) ==
    /\ task[h] = "idle"
    /\ task' = [task EXCEPT ![h] = "ended"]
    /\ UNCHANGED <<lease, closed, stage, handles, mapped, engine, request, forced, exits>>

\* The shutdown token: an idle worker returns, a driving one cancels its run
\* and reads it to its end.
HearsShutdown(h) ==
    /\ stage[h] = "wait" /\ task[h] \in {"idle", "drives"}
    /\ task' = [task EXCEPT ![h] = IF @ = "drives" THEN "cancels" ELSE "ended"]
    /\ UNCHANGED <<lease, closed, stage, handles, mapped, engine, request, forced, exits>>

--------------------------------------------------------------------------------
(* Shutdown *)

Close(h) ==
    /\ stage[h] = "open"
    /\ closed' = [closed EXCEPT ![h] = TRUE]
    /\ stage' = [stage EXCEPT ![h] = "drain"]
    /\ UNCHANGED <<lease, handles, mapped, task, engine, request, forced, exits>>

\* The map is emptied under its lock, and every worker in it is signalled.
Drain(h) ==
    /\ stage[h] = "drain" /\ handles[h] = NoRequest
    /\ stage' = [stage EXCEPT ![h] = IF mapped[h] THEN "wait" ELSE "over"]
    /\ mapped' = [mapped EXCEPT ![h] = FALSE]
    /\ UNCHANGED <<lease, closed, handles, task, engine, request, forced, exits>>

Stopped(h) ==
    /\ stage[h] = "wait" /\ task[h] = "ended"
    /\ stage' = [stage EXCEPT ![h] = "over"]
    /\ UNCHANGED <<lease, closed, handles, mapped, task, engine, request, forced, exits>>

\* At the deadline the worker's task is aborted.  Dropping its run cancels the
\* engine's task, and nobody waits for that one.
Abort(h) ==
    /\ stage[h] = "wait" /\ task[h] # "ended"
    /\ task' = [task EXCEPT ![h] = "ended"]
    /\ stage' = [stage EXCEPT ![h] = "over"]
    /\ forced' = forced \cup {h}
    /\ UNCHANGED <<lease, closed, handles, mapped, engine, request, exits>>

\* The process ends, after its shutdown or in a crash, and a new one starts.
\* The kernel takes its locks.
Exit(h) ==
    /\ exits < MaxExits
    /\ exits' = exits + 1
    /\ lease' = IF lease = h THEN NoHost ELSE lease
    /\ closed' = [closed EXCEPT ![h] = FALSE] /\ stage' = [stage EXCEPT ![h] = "open"]
    /\ handles' = [handles EXCEPT ![h] = NoRequest] /\ mapped' = [mapped EXCEPT ![h] = FALSE]
    /\ task' = [task EXCEPT ![h] = "none"] /\ engine' = [engine EXCEPT ![h] = FALSE]
    /\ request' = [r \in Requests |-> IF HostOf[r] = h /\ request[r] # "idle"
                                      THEN "gone" ELSE request[r]]
    /\ forced' = forced \ {h}

SuperNext ==
    \/ \E r \in Requests : Check(r) \/ LockMap(r) \/ Enter(r) \/ Publish(r) \/ Goes(r)
    \/ \E h \in Hosts : \/ Release(h) \/ Drive(h) \/ EngineEnds(h) \/ WorkerFails(h)
                        \/ HearsShutdown(h) \/ Close(h) \/ Drain(h) \/ Stopped(h)
                        \/ Abort(h) \/ Exit(h)

SuperSpec == SuperInit /\ [][SuperNext]_superVars

--------------------------------------------------------------------------------
(* Properties *)

\* Who can append to the session as the agent: its worker and its engine.
Writes(h) == task[h] \in Live \/ engine[h]

\* "Exclusive ownership ... for one live agent activation": whatever can still
\* write holds the lease, so two processes never do.
WritersHoldTheLease == \A h \in Hosts : Writes(h) => lease = h

\* What the code keeps of it: all but the engine of a worker that was aborted.
WritersHoldUnlessForced == \A h \in Hosts \ forced : Writes(h) => lease = h

\* "A late worker is explicitly classified as forced cleanup instead of being
\* silently detached": when shutdown has returned no worker lives, none can
\* come, and without a forced cleanup no engine runs.
ShutdownIsFinal ==
    \A h \in Hosts : stage[h] = "over" =>
        /\ ~mapped[h] /\ task[h] \notin Live
        /\ h \notin forced => ~engine[h]

\* One writer at a time, and none after a shutdown.
SingleWriter == SuperTypeOK /\ WritersHoldUnlessForced /\ ShutdownIsFinal
================================================================================
