-------------------------------- MODULE Process --------------------------------
(***************************************************************************)
(* A managed process tree and its supervisor task (xharness-process, on    *)
(* Unix).  The root and the descendants that stay in its process group are *)
(* the tree; a descendant that left the group is outside it, and keeps the *)
(* output pipes open.  SIGKILL dooms a process: it dies some time later.   *)
(***************************************************************************)
EXTENDS Naturals

CONSTANTS Procs,       \* spawned commands
          MaxOutput    \* chunks a command writes at most

VARIABLES
    root,       \* "none", "alive", "doomed" or "gone"
    member,     \* its descendants in the group, likewise
    escaped,    \* a descendant outside the group holds the pipes
    sup,        \* where the supervisor task is
    cancel,     \* the watch flag; dropping the handle sets it too
    why,        \* the trigger that ended the command
    result,     \* "none", "ok" or "err": what the handle's owner receives
    wrote,      \* chunks written to the pipes
    caught      \* chunks that reached the live window (which keeps the last of them)

procVars == <<root, member, escaped, sup, cancel, why, result, wrote, caught>>

Life == {"none", "alive", "doomed", "gone"}
ProcTypeOK ==
    /\ root \in [Procs -> Life] /\ member \in [Procs -> Life]
    /\ escaped \in [Procs -> BOOLEAN] /\ cancel \in [Procs -> BOOLEAN]
    /\ sup \in [Procs -> {"none", "select", "term", "kill", "failing", "drain", "ended"}]
    /\ why \in [Procs -> {"none", "exited", "cancelled", "timedout"}]
    /\ result \in [Procs -> {"none", "ok", "err"}]
    /\ wrote \in [Procs -> 0..MaxOutput]
    /\ \A p \in Procs : caught[p] \in 0..wrote[p]
    /\ \A p \in Procs : result[p] # "none" <=> sup[p] = "ended"

ProcInit ==
    /\ root = [p \in Procs |-> "none"] /\ member = root
    /\ escaped = [p \in Procs |-> FALSE] /\ cancel = escaped
    /\ sup = root /\ why = root /\ result = root
    /\ wrote = [p \in Procs |-> 0] /\ caught = wrote

Dies(life)  == IF life = "alive" THEN "doomed" ELSE life
Holds(p)    == root[p] \in {"alive", "doomed"} \/ member[p] \in {"alive", "doomed"}
Survives(p) == root[p] = "alive" \/ member[p] = "alive"

\* ProcessSupervisor::spawn: a root in a group of its own, a detached supervisor, a handle.
Spawn(p) ==
    /\ root[p] = "none"
    /\ root' = [root EXCEPT ![p] = "alive"]
    /\ sup' = [sup EXCEPT ![p] = "select"]
    /\ UNCHANGED <<member, escaped, cancel, why, result, wrote, caught>>

\* ProcessCancellation::cancel, and the drop of a handle.
RequestStop(p) ==
    /\ cancel' = [cancel EXCEPT ![p] = TRUE]
    /\ UNCHANGED <<root, member, escaped, sup, why, result, wrote, caught>>

(* The command *)

Fork(p) ==
    /\ Survives(p)
    /\ \/ member[p] = "none" /\ member' = [member EXCEPT ![p] = "alive"] /\ UNCHANGED escaped
       \/ ~escaped[p] /\ escaped' = [escaped EXCEPT ![p] = TRUE] /\ UNCHANGED member
    /\ UNCHANGED <<root, sup, cancel, why, result, wrote, caught>>

Writes(p) ==
    /\ Survives(p) \/ escaped[p]
    /\ sup[p] # "ended" /\ wrote[p] < MaxOutput
    /\ wrote' = [wrote EXCEPT ![p] = @ + 1]
    /\ UNCHANGED <<root, member, escaped, sup, cancel, why, result, caught>>

RootEnds(p) ==
    /\ root[p] \in {"alive", "doomed"}
    /\ root' = [root EXCEPT ![p] = "gone"]
    /\ UNCHANGED <<member, escaped, sup, cancel, why, result, wrote, caught>>

MemberEnds(p) ==
    /\ member[p] \in {"alive", "doomed"}
    /\ member' = [member EXCEPT ![p] = "gone"]
    /\ UNCHANGED <<root, escaped, sup, cancel, why, result, wrote, caught>>

(* The supervisor *)

\* SIGKILL to the group: every member is doomed, or the call is refused.
Killed(p) == root' = [root EXCEPT ![p] = Dies(@)] /\ member' = [member EXCEPT ![p] = Dies(@)]
Spared    == UNCHANGED <<root, member>>

\* The supervisor returns an error; the guard, still armed, tries to kill the tree once more.
Fails(p) ==
    /\ sup' = [sup EXCEPT ![p] = "ended"]
    /\ result' = [result EXCEPT ![p] = "err"]
    /\ Killed(p) \/ Spared
    /\ UNCHANGED <<escaped, cancel, wrote, caught>>

\* Mutant: descendants of a root that exited are left alone.
DrainOnly(p) ==
    /\ sup' = [sup EXCEPT ![p] = "drain"] /\ Spared
    /\ UNCHANGED <<escaped, cancel, result, wrote, caught>>
\* hard_kill_tree, then on to the drain; or the kill fails.
KillTree(p) ==
    \/ /\ sup' = [sup EXCEPT ![p] = "drain"]
       /\ Killed(p)
       /\ UNCHANGED <<escaped, cancel, result, wrote, caught>>
    \/ Fails(p)

Exited(p) ==
    /\ sup[p] = "select" /\ root[p] = "gone"
    /\ why' = [why EXCEPT ![p] = "exited"]
    /\ KillTree(p)

\* terminate_tree sends TERM; when that is refused it kills the root alone and fails.
Terminate(p, trigger) ==
    /\ sup[p] = "select"
    /\ why' = [why EXCEPT ![p] = trigger]
    /\ \/ sup' = [sup EXCEPT ![p] = "term"] /\ UNCHANGED root
       \/ sup' = [sup EXCEPT ![p] = "failing"] /\ root' = [root EXCEPT ![p] = Dies(@)]
    /\ UNCHANGED <<member, escaped, cancel, result, wrote, caught>>

Cancelled(p) == cancel[p] /\ Terminate(p, "cancelled")
TimesOut(p)  == Terminate(p, "timedout")

RootGoneAfterTerm(p) == sup[p] = "term" /\ root[p] = "gone" /\ KillTree(p) /\ UNCHANGED why

GraceOver(p) ==
    /\ sup[p] = "term" /\ root[p] # "gone"
    /\ \/ /\ sup' = [sup EXCEPT ![p] = "kill"]
          /\ Killed(p)
          /\ UNCHANGED <<escaped, cancel, result, wrote, caught>>
       \/ Fails(p)
    /\ UNCHANGED why

RootGoneAfterKill(p) ==
    /\ sup[p] \in {"kill", "failing"} /\ root[p] = "gone"
    /\ \/ /\ sup[p] = "kill" /\ sup' = [sup EXCEPT ![p] = "drain"]
          /\ UNCHANGED <<root, member, escaped, cancel, result, wrote, caught>>
       \/ sup[p] = "failing" /\ Fails(p)
    /\ UNCHANGED why

\* The capture workers move what is in the pipes to the live window.
Capture(p) ==
    /\ sup[p] \notin {"none", "ended"} /\ caught[p] < wrote[p]
    /\ caught' = [caught EXCEPT ![p] = @ + 1]
    /\ UNCHANGED <<root, member, escaped, sup, cancel, why, result, wrote>>

\* Both captures reach the end of file: the guard is disarmed and no output is to come.  A
\* member may have closed its output long before it dies.
Drained(p) ==
    /\ sup[p] = "drain" /\ ~escaped[p] /\ caught[p] = wrote[p]
    /\ sup' = [sup EXCEPT ![p] = "ended"]
    /\ result' = [result EXCEPT ![p] = "ok"]
    /\ UNCHANGED <<root, member, escaped, cancel, why, wrote, caught>>

DrainTimesOut(p) == sup[p] = "drain" /\ Fails(p) /\ UNCHANGED why

Supervise(p) ==
    \/ Exited(p) \/ Cancelled(p) \/ RootGoneAfterTerm(p) \/ GraceOver(p)
    \/ RootGoneAfterKill(p) \/ Drained(p) \/ DrainTimesOut(p)

Lives(p) == Fork(p) \/ Writes(p) \/ RootEnds(p) \/ MemberEnds(p) \/ Capture(p)
================================================================================
