---------------------------------- MODULE Jobs ----------------------------------
(***************************************************************************)
(* The in-process registry of background jobs (xharness-jobs): capacity is *)
(* reserved before a producer starts, a commit publishes the job, and from *)
(* then on the producer's lease, killers, waiters and shutdown race for    *)
(* its status.  Each critical section of the code (the registry lock or    *)
(* one entry's lock) is one step; a producer's cancel hook runs between    *)
(* two of them.                                                            *)
(***************************************************************************)
EXTENDS Naturals, FiniteSets

CONSTANTS
    Jobs,           \* admission attempts; a committed one is a job
    NoJob,          \* no attempt
    Owners,         \* sessions
    Kinds,          \* producer kinds; a public id is a kind and a number
    OwnerOf,        \* OwnerOf[j], KindOf[j]: what attempt j asks for
    KindOf,
    Killers,        \* threads inside kill()
    Waiters,        \* tasks inside wait()
    Outcomes,       \* the terminal statuses a producer may report
    MaxConcurrent,  \* max_concurrent_jobs_per_owner
    MaxRetained     \* max_retained_jobs_per_owner

ASSUME JobsAssumption ==
    /\ IsFiniteSet(Jobs)
    /\ NoJob \notin Jobs
    /\ OwnerOf \in [Jobs -> Owners]
    /\ KindOf \in [Jobs -> Kinds]
    /\ "Failed" \in Outcomes
    /\ Outcomes \subseteq {"Completed", "Killed", "Failed"}
    /\ MaxConcurrent \in Nat \ {0}
    /\ MaxRetained \in Nat \ {0}

VARIABLES
    accepting,      \* FALSE once shutdown has begun
    slot,           \* where attempt j is: in the reservation map, a job, ...
    status,         \* status of the entry; "None" before it is committed
    lease,          \* the producer's half: "none", "held" or "done"
    asked,          \* the producer's cancel hook has run successfully
    finished,       \* Finished events sent for j
    number,         \* number in the public id, 0 before the commit
    counters,       \* jobs committed of each kind
    at,             \* position in the registry's order, 0 before the commit
    published,      \* jobs committed
    killer,         \* each killer's place in kill(), and its job
    waiter,         \* each waiter's place in wait(), and whether its watch
                    \* receiver has an unseen revision
    shutdown,       \* "open", "cancel", "hook", "mark", "await", "done"
    seen,           \* the jobs listed when shutdown began
    left,           \* those of them its current pass has not dealt with
    marking,        \* the job whose hook shutdown is running or has run
    clean           \* no hook failed and no job outlived the grace period

entry == <<slot, status, lease, asked, finished, number, counters, at, published>>
stop  == <<accepting, shutdown, seen, left, marking, clean>>
vars  == <<entry, killer, waiter, stop>>

Terminal(s) == s \in {"Completed", "Killed", "Failed"}
Active(s)   == s \in {"Running", "Stopping"}
Slots       == {"none", "reserved", "expired", "job", "pruned", "dropped"}
KillerState == [pc : {"free", "hook", "mark"}, job : Jobs \cup {NoJob}]
WaiterState == [pc : {"free", "look", "sleep"}, job : Jobs \cup {NoJob}, unseen : BOOLEAN]
Statuses    == {"None", "Running", "Stopping"} \cup Outcomes

Types ==
    /\ accepting \in BOOLEAN
    /\ slot \in [Jobs -> Slots]
    /\ status \in [Jobs -> Statuses]
    /\ lease \in [Jobs -> {"none", "held", "done"}]
    /\ asked \in [Jobs -> BOOLEAN]
    /\ finished \in [Jobs -> Nat]
    /\ number \in [Jobs -> Nat]
    /\ counters \in [Kinds -> Nat]
    /\ at \in [Jobs -> Nat]
    /\ published \in Nat
    /\ killer \in [Killers -> KillerState]
    /\ waiter \in [Waiters -> WaiterState]
    /\ shutdown \in {"open", "cancel", "hook", "mark", "await", "done"}
    /\ seen \in SUBSET Jobs /\ left \in SUBSET Jobs /\ marking \in SUBSET Jobs
    /\ clean \in BOOLEAN

Committed(j) == status[j] # "None"

\* The parts of an entry fit together: a producer that gave up its lease has
\* settled, and killers and shutdown hold committed jobs only.
Consistent ==
    /\ \A j \in Jobs : slot[j] \in {"job", "pruned"} <=> Committed(j)
    /\ \A j \in Jobs : lease[j] = "none" <=> ~Committed(j)
    /\ \A j \in Jobs : lease[j] = "done" => Terminal(status[j])
    /\ \A k \in Killers :
          killer[k].pc # "free" => killer[k].job \in Jobs /\ Committed(killer[k].job)
    /\ \A j \in seen \cup left \cup marking : Committed(j)

TypeOK == Types /\ Consistent

Init ==
    /\ accepting = TRUE
    /\ slot = [j \in Jobs |-> "none"]
    /\ status = [j \in Jobs |-> "None"]
    /\ lease = [j \in Jobs |-> "none"]
    /\ asked = [j \in Jobs |-> FALSE]
    /\ finished = [j \in Jobs |-> 0]
    /\ number = [j \in Jobs |-> 0]
    /\ counters = [k \in Kinds |-> 0]
    /\ at = [j \in Jobs |-> 0]
    /\ published = 0
    /\ killer = [k \in Killers |-> [pc |-> "free", job |-> NoJob]]
    /\ waiter = [w \in Waiters |-> [pc |-> "free", job |-> NoJob, unseen |-> FALSE]]
    /\ shutdown = "open"
    /\ seen = {} /\ left = {} /\ marking = {} /\ clean = TRUE

--------------------------------------------------------------------------------
(* Admission *)

Listed(o)   == {j \in Jobs : slot[j] = "job" /\ OwnerOf[j] = o}
Reserved(o) == {j \in Jobs : slot[j] = "reserved" /\ OwnerOf[j] = o}
Running(o)  == {j \in Listed(o) : Active(status[j])}
Settled(o)  == {j \in Listed(o) : Terminal(status[j])}

HasCapacity(o) == Cardinality(Running(o)) + Cardinality(Reserved(o)) < MaxConcurrent

Reserve(j) ==
    /\ slot[j] = "none"
    /\ accepting
    /\ HasCapacity(OwnerOf[j])
    /\ slot' = [slot EXCEPT ![j] = "reserved"]
    /\ UNCHANGED <<status, lease, asked, finished, number, counters,
                   at, published, killer, waiter, stop>>

\* Drop of a JobReservation, also when commit refuses it after shutdown
\* cleared the reservation map: nothing was published.
DropReservation(j) ==
    /\ slot[j] \in {"reserved", "expired"}
    /\ slot' = [slot EXCEPT ![j] = "dropped"]
    /\ UNCHANGED <<status, lease, asked, finished, number, counters,
                   at, published, killer, waiter, stop>>

\* prune_history: settled jobs of the owner, oldest first, until fewer than
\* max_retained are listed or none is left to remove.
Excess(o) == IF Cardinality(Listed(o)) < MaxRetained
             THEN 0 ELSE Cardinality(Listed(o)) - MaxRetained + 1

Prunable(o, R) ==
    /\ R \subseteq Settled(o)
    /\ \A r \in R, s \in Settled(o) \ R : at[r] < at[s]
    /\ \/ Cardinality(R) = Excess(o)
       \/ R = Settled(o) /\ Cardinality(R) < Excess(o)

\* The next number of a kind.
NextNumber(k)   == counters[k] + 1

TrustsReservation(j) == slot[j] \in {"reserved", "expired"}   \* bug: no second look
MayCommit(j)         == slot[j] = "reserved" /\ accepting

\* commit: check, prune, number, publish, all under the registry lock.
Commit(j) ==
    /\ MayCommit(j)
    /\ \E R \in SUBSET Jobs :
          /\ Prunable(OwnerOf[j], R)
          /\ slot' = [i \in Jobs |-> IF i = j THEN "job"
                                     ELSE IF i \in R THEN "pruned" ELSE slot[i]]
    /\ status' = [status EXCEPT ![j] = "Running"]
    /\ lease' = [lease EXCEPT ![j] = "held"]
    /\ counters' = [counters EXCEPT ![KindOf[j]] = @ + 1]
    /\ number' = [number EXCEPT ![j] = NextNumber(KindOf[j])]
    /\ published' = published + 1
    /\ at' = [at EXCEPT ![j] = published + 1]
    /\ UNCHANGED <<asked, finished, killer, waiter, stop>>

--------------------------------------------------------------------------------
(* One entry's critical sections *)

\* bump_locked: every waiter subscribed to j has an unseen revision.
Bump(j) ==
    waiter' = [w \in Waiters |->
                 IF waiter[w].job = j THEN [waiter[w] EXCEPT !.unseen = TRUE]
                                      ELSE waiter[w]]

\* settle: the first terminal outcome wins and sends the Finished event.
SettleEntry(j, outcome) ==
    IF Terminal(status[j])
    THEN UNCHANGED <<status, finished, waiter>>
    ELSE /\ status' = [status EXCEPT ![j] = outcome]
         /\ finished' = [finished EXCEPT ![j] = @ + 1]
         /\ Bump(j)

\* bug: the status is not looked at again
MarkBlindly(j) == status' = [status EXCEPT ![j] = "Stopping"] /\ Bump(j)

\* The locked half of kill and of mark_stopping_and_reported: nothing once
\* the job has settled.
MarkStopping(j) ==
    IF Terminal(status[j])
    THEN UNCHANGED <<status, waiter>>
    ELSE status' = [status EXCEPT ![j] = "Stopping"] /\ Bump(j)

\* JobLease::finish, or its drop (outcome Failed).
FinishLease(j, outcome) ==
    /\ lease[j] = "held"
    /\ lease' = [lease EXCEPT ![j] = "done"]
    /\ SettleEntry(j, outcome)
    /\ UNCHANGED <<slot, asked, number, counters, at, published, killer, stop>>

\* publish_stdout / publish_stderr wake the waiters too.
PublishOutput(j) ==
    /\ lease[j] = "held"
    /\ Bump(j)
    /\ UNCHANGED <<entry, killer, stop>>

--------------------------------------------------------------------------------
(* kill(): look, run the hook unlocked, look again *)

KillLook(k, j) ==
    /\ killer[k].pc = "free" /\ slot[j] = "job" /\ ~Terminal(status[j])
    /\ killer' = [killer EXCEPT ![k] = [pc |-> "hook", job |-> j]]
    /\ UNCHANGED <<entry, waiter, stop>>

\* The hook fails and kill returns, or the producer is asked to stop.
KillHook(k) ==
    /\ killer[k].pc = "hook"
    /\ \/ /\ killer' = [killer EXCEPT ![k] = [pc |-> "free", job |-> NoJob]]
          /\ UNCHANGED asked
       \/ /\ killer' = [killer EXCEPT ![k].pc = "mark"]
          /\ asked' = [asked EXCEPT ![killer[k].job] = TRUE]
    /\ UNCHANGED <<slot, status, lease, finished, number, counters,
                   at, published, waiter, stop>>

KillMark(k) ==
    /\ killer[k].pc = "mark"
    /\ MarkStopping(killer[k].job)
    /\ killer' = [killer EXCEPT ![k] = [pc |-> "free", job |-> NoJob]]
    /\ UNCHANGED <<slot, lease, asked, finished, number, counters, at, published, stop>>

--------------------------------------------------------------------------------
(* wait() *)

Subscribe(w, j) ==
    /\ waiter[w].pc = "free" /\ slot[j] = "job"
    /\ waiter' = [waiter EXCEPT ![w] = [pc |-> "look", job |-> j, unseen |-> FALSE]]
    /\ UNCHANGED <<entry, killer, stop>>

Return(w) ==
    /\ waiter' = [waiter EXCEPT ![w] = [pc |-> "free", job |-> NoJob, unseen |-> FALSE]]
    /\ UNCHANGED <<entry, killer, stop>>

Look(w) ==
    /\ waiter[w].pc = "look"
    /\ IF Terminal(status[waiter[w].job])
       THEN Return(w)
       ELSE /\ waiter' = [waiter EXCEPT ![w].pc = "sleep"]
            /\ UNCHANGED <<entry, killer, stop>>

\* changed(): resolves at once when a revision is unseen, and marks it seen.
Awake(w) ==
    /\ waiter[w].pc = "sleep" /\ waiter[w].unseen
    /\ waiter' = [waiter EXCEPT ![w].pc = "look", ![w].unseen = FALSE]
    /\ UNCHANGED <<entry, killer, stop>>

WaitTimeout(w) == waiter[w].pc \in {"look", "sleep"} /\ Return(w)

--------------------------------------------------------------------------------
(* shutdown() *)

\* Close admission, forget reservations, take the list of jobs.
ShutdownBegin ==
    /\ shutdown = "open"
    /\ accepting' = FALSE
    /\ slot' = [j \in Jobs |-> IF slot[j] = "reserved" THEN "expired" ELSE slot[j]]
    /\ seen' = {j \in Jobs : slot[j] = "job"}
    /\ left' = seen'
    /\ shutdown' = "cancel"
    /\ UNCHANGED <<status, lease, asked, finished, number, counters,
                   at, published, killer, waiter, marking, clean>>

\* First pass: a settled job is skipped, a live one gets its hook.
ShutdownSkip(j) ==
    /\ shutdown = "cancel" /\ j \in left /\ Terminal(status[j])
    /\ left' = left \ {j}
    /\ UNCHANGED <<accepting, entry, killer, waiter, shutdown, seen, marking, clean>>

ShutdownLook(j) ==
    /\ shutdown = "cancel" /\ j \in left /\ ~Terminal(status[j])
    /\ shutdown' = "hook"
    /\ marking' = {j}
    /\ UNCHANGED <<accepting, entry, killer, waiter, seen, left, clean>>

ShutdownHook(j) ==
    /\ shutdown = "hook" /\ j \in marking
    /\ asked' = [asked EXCEPT ![j] = TRUE]
    /\ shutdown' = "mark"
    /\ UNCHANGED <<slot, status, lease, finished, number, counters, at, published,
                   killer, waiter, accepting, seen, left, marking, clean>>

\* The hook fails: the job is failed unless it has settled meanwhile.
ShutdownHookFails(j) ==
    /\ shutdown = "hook" /\ j \in marking
    /\ clean' = FALSE
    /\ SettleEntry(j, "Failed")
    /\ left' = left \ {j} /\ marking' = {} /\ shutdown' = "cancel"
    /\ UNCHANGED <<slot, lease, asked, number, counters, at, published, killer,
                   accepting, seen>>

\* bug: waits for the job to be live, as it was before the hook
ShutdownMarkLive(j) ==
    /\ shutdown = "mark" /\ j \in marking /\ ~Terminal(status[j])
    /\ MarkStopping(j)
    /\ left' = left \ {j} /\ marking' = {} /\ shutdown' = "cancel"
    /\ UNCHANGED <<slot, lease, asked, finished, number, counters, at, published,
                   killer, accepting, seen, clean>>

ShutdownMark(j) ==
    /\ shutdown = "mark" /\ j \in marking
    /\ MarkStopping(j)
    /\ left' = left \ {j} /\ marking' = {} /\ shutdown' = "cancel"
    /\ UNCHANGED <<slot, lease, asked, finished, number, counters, at, published,
                   killer, accepting, seen, clean>>

\* Second pass over the same list.
ShutdownAwait ==
    /\ shutdown = "cancel" /\ left = {}
    /\ shutdown' = "await"
    /\ left' = seen
    /\ UNCHANGED <<accepting, entry, killer, waiter, seen, marking, clean>>

ShutdownStopped(j) ==
    /\ shutdown = "await" /\ j \in left /\ Terminal(status[j])
    /\ left' = left \ {j}
    /\ UNCHANGED <<accepting, entry, killer, waiter, shutdown, seen, marking, clean>>

\* The deadline passes; the job may settle just before it is failed.
ShutdownGraceOver(j) ==
    /\ shutdown = "await" /\ j \in left
    /\ clean' = FALSE
    /\ left' = left \ {j}
    /\ SettleEntry(j, "Failed")
    /\ UNCHANGED <<slot, lease, asked, number, counters, at, published,
                   killer, accepting, shutdown, seen, marking>>

ShutdownDone ==
    /\ shutdown = "await" /\ left = {}
    /\ shutdown' = "done"
    /\ UNCHANGED <<accepting, entry, killer, waiter, seen, left, marking, clean>>

--------------------------------------------------------------------------------
ShutdownPass ==
    \/ \E j \in Jobs :
          ShutdownSkip(j) \/ ShutdownLook(j) \/ ShutdownHook(j) \/ ShutdownHookFails(j)
          \/ ShutdownMark(j) \/ ShutdownStopped(j) \/ ShutdownGraceOver(j)
    \/ ShutdownAwait \/ ShutdownDone

KillStep(k)  == (\E j \in Jobs : KillLook(k, j)) \/ KillHook(k) \/ KillMark(k)
WaitStep(w)  == Look(w) \/ Awake(w)
JobStep(j)   ==
    \/ Reserve(j) \/ DropReservation(j) \/ Commit(j)
    \/ (\E o \in Outcomes : FinishLease(j, o))
    \/ PublishOutput(j)

Next ==
    \/ \E j \in Jobs : JobStep(j)
    \/ \E k \in Killers : KillStep(k)
    \/ \E w \in Waiters : WaitStep(w) \/ WaitTimeout(w) \/ \E j \in Jobs : Subscribe(w, j)
    \/ ShutdownBegin \/ ShutdownPass

Spec == Init /\ [][Next]_vars

\* shutdown() runs to its end (every await in it has a deadline), a task in
\* wait() is polled when woken, and a producer whose hook ran settles its
\* lease, as the contract of JobCancel requires.
FairSpec ==
    /\ Spec
    /\ WF_vars(ShutdownPass)
    /\ \A w \in Waiters : WF_vars(WaitStep(w))
    /\ \A j \in Jobs : WF_vars(asked[j] /\ \E o \in Outcomes : FinishLease(j, o))

--------------------------------------------------------------------------------
(* Properties *)

\* The legal lives of a job: running, perhaps stopping, one terminal status
\* that no late finish, kill or shutdown overwrites (first outcome wins).
LegalSteps ==
    {<<"None", "Running">>, <<"Running", "Stopping">>}
        \cup {<<s, t>> : s \in {"Running", "Stopping"}, t \in {"Completed", "Killed", "Failed"}}

FirstOutcomeWins ==
    [][\A j \in Jobs : status'[j] # status[j] => <<status[j], status'[j]>> \in LegalSteps]_vars

\* Subscribers hear of the end of a job exactly once, whoever settles it.
OneFinishedEvent == \A j \in Jobs : finished[j] = IF Terminal(status[j]) THEN 1 ELSE 0

\* An owner never has more live jobs and reservations than its limit.
CapacityRespected ==
    \A o \in Owners :
        Cardinality(Running(o)) + Cardinality(Reserved(o)) <= MaxConcurrent

\* The history of an owner stays within the larger of its two limits: a live
\* job is never pruned, and only live jobs can push the list past retention.
HistoryBounded ==
    \A o \in Owners :
        Cardinality(Listed(o)) <= IF MaxRetained < MaxConcurrent
                                  THEN MaxConcurrent ELSE MaxRetained

\* No live job disappears from the registry.
LiveJobsListed == \A j \in Jobs : Active(status[j]) => slot[j] = "job"

\* A public id names one job for ever, also after pruning.
IdsUnique ==
    \A i, j \in Jobs :
        number[i] # 0 /\ number[i] = number[j] /\ KindOf[i] = KindOf[j] => i = j

\* A job is shown as stopping only after its producer was asked to stop.
StoppingWasAsked == \A j \in Jobs : status[j] = "Stopping" => asked[j]

\* When shutdown returns no job is live, not even one whose commit raced it.
ShutdownLeavesNothing == shutdown = "done" => \A j \in Jobs : ~Active(status[j])

\* A shutdown that reports no failure and no timeout really saw every
\* producer give up its lease.
GracefulMeansStopped ==
    shutdown = "done" /\ clean => \A j \in Jobs : lease[j] # "held"

\* A task asleep in wait() on a settled job has a wake-up pending.
NoStrandedWaiter ==
    \A w \in Waiters :
        waiter[w].pc = "sleep" /\ Terminal(status[waiter[w].job]) => waiter[w].unseen

\* What the registry keeps through every race of its critical sections: each owner's
\* limits, the live jobs in the list, an id for each job, one Finished event, a hook
\* that ran before "stopping" shows, and nothing live once shutdown has returned.
RegistryKept ==
    /\ CapacityRespected /\ HistoryBounded
    /\ LiveJobsListed /\ IdsUnique
    /\ OneFinishedEvent /\ StoppingWasAsked /\ ShutdownLeavesNothing

\* A shutdown that began returns.
ShutdownReturns == ~accepting ~> shutdown = "done"
================================================================================
