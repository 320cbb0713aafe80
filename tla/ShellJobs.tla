------------------------------- MODULE ShellJobs -------------------------------
(***************************************************************************)
(* Shell commands of xharness-coding-tools: a background job is a process  *)
(* whose worker task holds the lease of a Jobs entry, a foreground call    *)
(* (a member of Jobs that never asks for a slot) waits for its process.    *)
(* What Jobs assumes of a producer (asked to stop, it settles) is here the *)
(* work of the process supervisor.                                         *)
(***************************************************************************)
EXTENDS Jobs

CONSTANT MaxOutput

VARIABLES root, member, escaped, sup, cancel, why, result, wrote, caught,
          owner,      \* who holds the process handle, and where
          told        \* chunks of its output the job registry has dealt with

INSTANCE Process WITH Procs <- Jobs

\* A shell command ends in any of the three ways.
ASSUME ShellAssumption ==
    MaxOutput \in Nat /\ {"Completed", "Killed", "Failed"} \subseteq Outcomes

procState  == <<root, member, escaped, sup, cancel, why, result, wrote, caught>>
shellState == <<procState, owner, told>>
shellVars  == <<vars, shellState>>

ShellTypeOK ==
    /\ TypeOK /\ ProcTypeOK
    /\ owner \in [Jobs -> {"none", "handler", "refused", "worker", "final", "call", "done"}]
    /\ \A p \in Jobs : told[p] \in 0..caught[p]
    /\ \A j \in Jobs : owner[j] \in {"worker", "final"} => lease[j] = "held"

ShellInit ==
    /\ Init /\ ProcInit
    /\ owner = [p \in Jobs |-> "none"] /\ told = [p \in Jobs |-> 0]

Owned(p, from, to) == owner[p] = from /\ owner' = [owner EXCEPT ![p] = to]

(* The bash tool in the background *)

Admit(j) == owner[j] = "none" /\ Reserve(j) /\ UNCHANGED shellState

Start(j) ==
    /\ slot[j] \in {"reserved", "expired"}
    /\ Owned(j, "none", "handler") /\ Spawn(j)
    /\ UNCHANGED <<vars, told>>

\* The spawn fails or the handler is dropped before it: the reservation goes.
NeverStarts(j) == owner[j] = "none" /\ DropReservation(j) /\ UNCHANGED shellState

\* The committed job goes to its worker task.
Adopt(j) == Commit(j) /\ Owned(j, "handler", "worker") /\ UNCHANGED <<procState, told>>

\* Mutant: the process of a refused job is left running.
Forget(j) ==
    /\ ~MayCommit(j) /\ DropReservation(j) /\ Owned(j, "handler", "done")
    /\ UNCHANGED <<procState, told>>
\* Shutdown overtook the commit: the handler stops the process and waits for it.
Refused(j) ==
    /\ ~MayCommit(j) /\ DropReservation(j) /\ Owned(j, "handler", "refused")
    /\ RequestStop(j) /\ UNCHANGED told

\* run_background_process: publish what is new whenever the output changed.  The
\* live window is bounded: what was dropped from it is published as a line that
\* says so, and counts here as told.
Tell(j) == told' = [told EXCEPT ![j] = caught[j]]
Publish(j) ==
    /\ owner[j] = "worker" /\ told[j] < caught[j]
    /\ PublishOutput(j) /\ Tell(j)
    /\ UNCHANGED <<procState, owner>>

\* The result arrives: the last snapshot, then the outcome.
LastWords(j) ==
    /\ result[j] # "none" /\ Owned(j, "worker", "final")
    /\ PublishOutput(j) /\ Tell(j)
    /\ UNCHANGED procState

\* background_process_outcome; a process killed by a signal of its own counts as killed.
Ended(j) ==
    IF result[j] = "err" \/ why[j] = "timedout" THEN {"Failed"}
    ELSE IF why[j] = "cancelled" THEN {"Killed"}
    ELSE {"Completed", "Killed"}

Finish(j) ==
    /\ Owned(j, "final", "done")
    /\ \E o \in Ended(j) : FinishLease(j, o)
    /\ UNCHANGED <<procState, told>>

(* Foreground calls *)

CallShell(c) ==
    /\ slot[c] = "none"
    /\ Owned(c, "none", "call") /\ Spawn(c)
    /\ UNCHANGED <<vars, told>>

\* The call is cancelled: the process is stopped and still waited for.
CallCancelled(c) ==
    /\ owner[c] = "call" /\ ~cancel[c] /\ RequestStop(c)
    /\ UNCHANGED <<vars, owner, told>>

\* A waiting handler gets its result, or is dropped with its handle.
Returns(p, from) ==
    /\ result[p] # "none" /\ Owned(p, from, "done")
    /\ UNCHANGED <<vars, procState, told>>
Dropped(p, from) ==
    /\ Owned(p, from, "done") /\ RequestStop(p)
    /\ UNCHANGED <<vars, told>>

(* The cancel hook of a shell job sets its flag and never fails *)

KillShell(k) ==
    /\ KillHook(k) /\ killer'[k].pc = "mark"
    /\ RequestStop(killer[k].job) /\ UNCHANGED <<owner, told>>
ShutdownShell(j) == ShutdownHook(j) /\ RequestStop(j) /\ UNCHANGED <<owner, told>>

--------------------------------------------------------------------------------
RegistryPass ==
    \/ \E j \in Jobs : ShutdownShell(j)
    \/ /\ \/ \E j \in Jobs :
               ShutdownSkip(j) \/ ShutdownLook(j) \/ ShutdownMark(j)
               \/ ShutdownStopped(j) \/ ShutdownGraceOver(j)
          \/ ShutdownAwait \/ ShutdownDone
       /\ UNCHANGED shellState

Worker(j) == LastWords(j) \/ Finish(j)

ShellNext ==
    \/ \E j \in Jobs : \/ Admit(j) \/ NeverStarts(j) \/ Start(j) \/ Adopt(j) \/ Refused(j)
                       \/ Publish(j) \/ Worker(j)
                       \/ CallShell(j) \/ CallCancelled(j)
                       \/ \E from \in {"refused", "call"} : Returns(j, from) \/ Dropped(j, from)
                       \/ /\ (owner[j] = "call" /\ TimesOut(j)) \/ Lives(j) \/ Supervise(j)
                          /\ UNCHANGED <<vars, owner, told>>
    \/ \E k \in Killers : \/ KillShell(k)
                          \/ ((\E j \in Jobs : KillLook(k, j)) \/ KillMark(k))
                             /\ UNCHANGED shellState
    \/ \E w \in Waiters : (WaitStep(w) \/ WaitTimeout(w) \/ \E j \in Jobs : Subscribe(w, j))
                          /\ UNCHANGED shellState
    \/ ShutdownBegin /\ UNCHANGED shellState
    \/ RegistryPass

\* Tasks are polled, timers fire, a process that was sent KILL dies, and shutdown runs.
ShellFairness ==
    /\ WF_shellVars(RegistryPass)
    /\ \A p \in Jobs :
          WF_shellVars((Supervise(p) \/ (root[p] = "doomed" /\ RootEnds(p)))
                       /\ UNCHANGED <<vars, owner, told>>)
    /\ \A j \in Jobs : WF_shellVars(Worker(j))

ShellSpec == ShellInit /\ [][ShellNext]_shellVars /\ ShellFairness

--------------------------------------------------------------------------------
\* A job is reported completed or killed, and a call returns its output, only when nothing of
\* the process group is left that was not killed (a tool is a contained process tree).
DeadWhenReported ==
    \A j \in Jobs :
        \/ status[j] \in {"Completed", "Killed"}
        \/ slot[j] = "none" /\ owner[j] = "done" /\ result[j] = "ok"
        => ~Survives(j)

\* A job that ended well has accounted to the registry for all its command wrote:
\* published it, or said that the bounded window dropped it.
NothingUnsaid ==
    \A j \in Jobs : lease[j] = "done" /\ result[j] = "ok" => told[j] = wrote[j]

\* What the registry and the tool report as ended is over: nothing of the
\* command's process group is alive, nothing it wrote is unaccounted for, who
\* waited for it is woken, and a clean shutdown left no producer behind.
ReportedIsOver ==
    ShellTypeOK /\ DeadWhenReported /\ NothingUnsaid /\ NoStrandedWaiter /\ GracefulMeansStopped

\* A process nobody waits for any more (its handler was dropped, its commit refused, its job
\* finished) is stopped: its supervisor comes to an end.
ReleasedEnds == \A p \in Jobs : owner[p] = "done" ~> result[p] # "none" \/ root[p] = "none"
================================================================================
