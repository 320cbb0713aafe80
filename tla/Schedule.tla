-------------------------------- MODULE Schedule --------------------------------
(***************************************************************************)
(* The durable reminders of one session: the rules folded from the         *)
(* schedule/change events of its log, the three tools that edit them, the  *)
(* owner task that sleeps until a rule is due and hands its reminder to    *)
(* the agent as an ordinary follow-up, and the agent that takes follow-ups *)
(* only while no turn runs.                                                *)
(*                                                                         *)
(* A delivery is two appends, the follow-up and then the dispatch that     *)
(* closes or advances the rule; a crash may come between them.  The rules' *)
(* lock is held from the decision to the dispatch.                         *)
(***************************************************************************)
EXTENDS Integers, Sequences, FiniteSets

CONSTANTS
    MaxRules,       \* bound on schedule_create calls
    KindsUsed,      \* kinds of rule created, of {"once", "every"}
    Delays,         \* delays of one-shot rules
    Period,         \* interval of a periodic rule
    MaxTime,        \* bound on the clock
    MaxUserTurns,   \* bound on turns that users start
    MaxFaults,      \* bound on store outages and worker deaths
    MaxCrashes      \* bound on process crashes

ASSUME ScheduleAssumption ==
    /\ MaxRules \in Nat \ {0} /\ Period \in Nat \ {0}
    /\ KindsUsed \subseteq {"once", "every"}
    /\ Delays \subseteq Nat \ {0}
    /\ {MaxTime, MaxUserTurns, MaxFaults, MaxCrashes} \subseteq Nat

Ids == 1..MaxRules
Never == -1                 \* no timer
NoPlan == [items |-> {}, stamp |-> 0]

VARIABLES
    now,            \* the wall clock
    \* folded from the log
    state,          \* state[r]: "free", "active" or "closed"
    kind, at,       \* of rule r: its kind and next scheduledAt
    corrupt,        \* the fold refused an event
    sent,           \* reminders inserted in the inbox, in order
    taken,          \* how many of them turns have taken
    \* the owner task
    pc, plan, target, permit, faulted, closing,
    worker,         \* the agent: "idle", "turn" or "gone"
    \* ghosts and bounds
    unsignalled,    \* rules stored by a create that could not report success
    unread,         \* insertions whose error hid them from the owner
    userTurns, faults, crashes

rules  == <<state, kind, at, corrupt>>
inbox  == <<sent, taken>>
owner  == <<pc, plan, target, permit, faulted, closing>>
bounds == <<userTurns, faults, crashes, unread>>
vars   == <<now, rules, inbox, owner, worker, unsignalled, bounds>>

Items == Ids \X (0..(MaxTime + Period))

Asleep == {"wait", "stall", "busy", "dormant"}

TypeOK ==
    /\ now \in 0..MaxTime
    /\ state \in [Ids -> {"free", "active", "closed"}]
    /\ kind \in [Ids -> {"once", "every"}]
    /\ at \in [Ids -> 0..(MaxTime + Period)]
    /\ corrupt \in BOOLEAN
    /\ \A i \in DOMAIN sent : sent[i].items \subseteq Items
    /\ taken \in 0..Len(sent)
    /\ pc \in {"off", "look", "send", "settle"} \cup Asleep
    /\ plan.items # {} <=> pc \in {"send", "settle"}
    /\ target \in {Never} \cup 0..(MaxTime + Period)
    /\ target # Never => pc = "wait"
    /\ permit \in BOOLEAN /\ faulted \in BOOLEAN /\ closing \in BOOLEAN
    /\ closing => pc = "off"
    /\ faulted => pc \in {"off", "look", "dormant"}
    /\ worker \in {"idle", "turn", "gone"}
    /\ unsignalled \subseteq Ids
    /\ userTurns \in 0..MaxUserTurns /\ faults \in 0..MaxFaults
    /\ crashes \in 0..MaxCrashes /\ unread \in Nat

Init ==
    /\ now = 0
    /\ state = [r \in Ids |-> "free"] /\ kind = [r \in Ids |-> "once"]
    /\ at = [r \in Ids |-> 0] /\ corrupt = FALSE
    /\ sent = <<>> /\ taken = 0
    /\ pc = "off" /\ plan = NoPlan /\ target = Never
    /\ permit = FALSE /\ faulted = FALSE /\ closing = FALSE
    /\ worker = "idle" /\ unsignalled = {}
    /\ userTurns = 0 /\ faults = 0 /\ crashes = 0 /\ unread = 0

Fault == faults < MaxFaults /\ faults' = faults + 1
NoFault == UNCHANGED faults

--------------------------------------------------------------------------------
(* The rules *)

Active == {r \in Ids : state[r] = "active"}
Seen   == {r \in Ids : state[r] # "free"}

\* resolve_every_occurrence: the latest occurrence of r not after t.
OccurrenceOf(r, t) == at[r] + ((t - at[r]) \div Period) * Period

Occurrence(r, t) == IF kind[r] = "once" THEN at[r] ELSE OccurrenceOf(r, t)

\* bug: a missed period is made up for one by one
EachOccurrence(r, t) == at[r] + Period
\* Where a dispatch accepted at t moves a periodic rule.
NextOccurrence(r, t) == OccurrenceOf(r, t) + Period

\* The fold of one dispatch event per rule of R, accepted at t.
Dispatch(R, t) ==
    LET legal == \A r \in R : state[r] = "active" /\ (kind[r] = "every" => t >= at[r])
    IN  /\ corrupt' = (corrupt \/ ~legal)
        /\ state' = [r \in Ids |-> IF legal /\ r \in R /\ kind[r] = "once"
                                   THEN "closed" ELSE state[r]]
        /\ at' = [r \in Ids |-> IF legal /\ r \in R /\ kind[r] = "every"
                                THEN NextOccurrence(r, t) ELSE at[r]]

--------------------------------------------------------------------------------
(* The tools, called by the model inside a turn.  Each holds the lock for   *)
(* its whole transaction, retries its append under a conflict, and signals  *)
(* the owner once the log is flushed.                                       *)

LockFree == pc \notin {"send", "settle"}

Signal == permit' = TRUE

\* allocate_id counts every id ever used; an error of the last flush leaves
\* the rule in the log and the owner without a signal.
Create(k, delay) ==
    LET r == Cardinality(Seen) + 1
    IN  /\ worker = "turn" /\ LockFree /\ ~closing /\ ~corrupt
        /\ r \in Ids
        /\ now + delay <= MaxTime
        /\ state' = [state EXCEPT ![r] = "active"]
        /\ kind' = [kind EXCEPT ![r] = k]
        /\ at' = [at EXCEPT ![r] = now + delay]
        /\ \/ Signal /\ NoFault /\ UNCHANGED unsignalled
           \/ Fault /\ unsignalled' = unsignalled \cup {r} /\ UNCHANGED permit
        /\ UNCHANGED <<now, corrupt, inbox, pc, plan, target, faulted, closing,
                       worker, userTurns, crashes, unread>>

Delete(r) ==
    /\ worker = "turn" /\ LockFree /\ ~closing /\ ~corrupt
    /\ state[r] = "active"
    /\ state' = [state EXCEPT ![r] = "closed"]
    /\ \/ Signal /\ NoFault
       \/ Fault /\ UNCHANGED permit
    /\ UNCHANGED <<now, kind, at, corrupt, inbox, pc, plan, target, faulted,
                   closing, worker, unsignalled, userTurns, crashes, unread>>

--------------------------------------------------------------------------------
(* The owner task *)

\* due_decision: the due one-shot rule that comes first, or all due periodic
\* rules together.
Due(k) == {r \in Active : kind[r] = k /\ at[r] <= now}

Earliest(R) == CHOOSE r \in R : \A s \in R : at[r] < at[s] \/ (at[r] = at[s] /\ r <= s)

Chosen == IF Due("once") # {} THEN {Earliest(Due("once"))} ELSE Due("every")

Reminder(R) == [items |-> {<<r, Occurrence(r, now)>> : r \in R},
                stamp |-> IF Due("once") # {} THEN at[Earliest(R)] ELSE now]

NextTarget == IF Active = {} THEN Never ELSE at[Earliest(Active)]

\* drive_once up to its decision, with the lock taken.
Look ==
    /\ pc = "look"
    /\ IF faulted \/ corrupt
       THEN pc' = "dormant" /\ faulted' = TRUE /\ UNCHANGED <<plan, target>>
       ELSE /\ IF Chosen = {}
               THEN pc' = "wait" /\ target' = NextTarget /\ UNCHANGED plan
               ELSE pc' = "send" /\ plan' = Reminder(Chosen) /\ UNCHANGED target
            /\ UNCHANGED faulted
    /\ UNCHANGED <<now, rules, inbox, permit, closing, worker, unsignalled, bounds>>

\* Its flush or load fails: sleep without a timer.
LookFails ==
    /\ pc = "look" /\ ~faulted /\ Fault
    /\ pc' = "stall"
    /\ UNCHANGED <<now, rules, inbox, plan, target, permit, faulted, closing,
                   worker, unsignalled, userTurns, crashes, unread>>

WasSent == \E i \in DOMAIN sent : sent[i] = plan
IsPending == \E i \in (taken + 1)..Len(sent) : sent[i] = plan

\* After an error of the follow-up: go on only if the log, read again, has the
\* reminder.  A log that cannot be read either counts as one that has not.
AfterError ==
    IF WasSent
    THEN pc' = "settle" /\ UNCHANGED plan
    ELSE pc' = "stall" /\ plan' = NoPlan
NotRead == pc' = "stall" /\ plan' = NoPlan

\* maintenance_followup at an agent without a turn: inserted unless it is
\* pending.  An error of the store may come before or after the insertion, and
\* the outage may last until the log is read again: the owner then takes a
\* reminder that is in the log for one that is not.
SendIdle ==
    /\ pc = "send" /\ worker = "idle"
    /\ \/ /\ ~IsPending
          /\ sent' = Append(sent, plan)
          /\ \/ pc' = "settle" /\ UNCHANGED <<plan, unread>> /\ (NoFault \/ Fault)
             \/ NotRead /\ unread' = unread + 1 /\ Fault
       \/ /\ \/ (IF IsPending THEN NoFault ELSE Fault) /\ AfterError
             \/ Fault /\ NotRead
          /\ UNCHANGED <<sent, unread>>
    /\ UNCHANGED <<now, rules, taken, target, permit, faulted, closing, worker,
                   unsignalled, userTurns, crashes>>

SendBusy ==
    /\ pc = "send" /\ worker = "turn"
    /\ pc' = "busy" /\ plan' = NoPlan
    /\ UNCHANGED <<now, rules, inbox, target, permit, faulted, closing, worker,
                   unsignalled, bounds>>

SendClosed ==
    /\ pc = "send" /\ worker = "gone"
    /\ \/ AfterError /\ NoFault
       \/ NotRead /\ Fault
    /\ UNCHANGED <<now, rules, inbox, target, permit, faulted, closing, worker,
                   unsignalled, userTurns, crashes, unread>>

\* append_dispatches.
Settle ==
    /\ pc = "settle"
    /\ Dispatch({i[1] : i \in plan.items}, plan.stamp)
    /\ pc' = "look" /\ plan' = NoPlan
    /\ UNCHANGED <<now, kind, inbox, target, permit, faulted, closing, worker,
                   unsignalled, bounds>>

\* bug: a failed dispatch is tried again
RetryDispatch ==
    /\ pc = "settle" /\ Fault
    /\ UNCHANGED rules
    /\ pc' = "look" /\ plan' = NoPlan
    /\ UNCHANGED <<now, inbox, target, permit, faulted, closing, worker,
                   unsignalled, userTurns, crashes, unread>>

\* It fails, by a store error or by too many conflicts, before or after the
\* append: the owner drives no more until the process restarts.
SettleFails ==
    /\ pc = "settle" /\ Fault
    /\ UNCHANGED rules \/ (Dispatch({i[1] : i \in plan.items}, plan.stamp) /\ UNCHANGED kind)
    /\ pc' = "dormant" /\ plan' = NoPlan /\ faulted' = TRUE
    /\ UNCHANGED <<now, inbox, target, permit, closing, worker, unsignalled,
                   userTurns, crashes, unread>>

\* run(): what ends each sleep.
TimerFires == pc = "wait" /\ target # Never /\ now >= target
SignalOnly == FALSE          \* bug: the end of the turn is not awaited
IdleAgain  == pc = "busy" /\ worker # "turn"
Stopped    == pc \in {"wait", "stall"} /\ worker = "gone"

Awake ==
    /\ \/ (TimerFires \/ IdleAgain \/ Stopped) /\ UNCHANGED permit
       \/ pc \in Asleep /\ permit /\ permit' = FALSE
    /\ pc' = "look" /\ target' = Never
    /\ UNCHANGED <<now, rules, inbox, plan, faulted, closing, worker,
                   unsignalled, bounds>>

\* shutdown(): admission closes, and the owner leaves at the top of its loop
\* or in its sleep; one that is delivering finishes first, as nobody can edit
\* a rule meanwhile.
Shutdown ==
    /\ pc \in Asleep \cup {"look"}
    /\ closing' = TRUE
    /\ pc' = "off" /\ target' = Never
    /\ UNCHANGED <<now, rules, inbox, plan, permit, faulted, worker,
                   unsignalled, bounds>>

--------------------------------------------------------------------------------
(* The agent and its host *)

\* attach(): the first one starts the owner, every one signals it.
Attach ==
    /\ pc = "off" /\ ~closing
    /\ pc' = "look" /\ permit' = TRUE
    /\ UNCHANGED <<now, rules, inbox, plan, target, faulted, closing, worker,
                   unsignalled, bounds>>

\* A user's turn begins; preparing it attaches the schedules again.
UserTurn ==
    /\ worker = "idle" /\ pc # "off" /\ userTurns < MaxUserTurns
    /\ userTurns' = userTurns + 1
    /\ worker' = "turn"
    /\ permit' = TRUE
    /\ UNCHANGED <<now, rules, inbox, pc, plan, target, faulted, closing,
                   unsignalled, faults, crashes, unread>>

\* A turn takes the first pending reminder.
TakeReminder ==
    /\ worker = "idle" /\ taken < Len(sent)
    /\ taken' = taken + 1
    /\ worker' = "turn"
    /\ UNCHANGED <<now, rules, sent, owner, unsignalled, bounds>>

EndTurn ==
    /\ worker = "turn"
    /\ worker' = "idle"
    /\ UNCHANGED <<now, rules, inbox, owner, unsignalled, bounds>>

WorkerDies ==
    /\ worker = "idle" /\ Fault
    /\ worker' = "gone"
    /\ UNCHANGED <<now, rules, inbox, owner, unsignalled, userTurns, crashes, unread>>

\* The process dies and another one opens the session.
Crash ==
    /\ crashes < MaxCrashes
    /\ crashes' = crashes + 1
    /\ pc' = "off" /\ plan' = NoPlan /\ target' = Never
    /\ permit' = FALSE /\ faulted' = FALSE /\ closing' = FALSE
    /\ worker' = "idle"
    /\ unsignalled' = {}
    /\ UNCHANGED <<now, rules, inbox, userTurns, faults, unread>>

Tick ==
    /\ now < MaxTime
    /\ now' = now + 1
    /\ UNCHANGED <<rules, inbox, owner, worker, unsignalled, bounds>>

--------------------------------------------------------------------------------
OwnerStep ==
    \/ Look \/ SendIdle \/ SendBusy \/ SendClosed \/ Settle \/ Awake

Next ==
    \/ OwnerStep \/ LookFails \/ SettleFails
    \/ \E k \in KindsUsed :
          \E delay \in IF k = "every" THEN {Period} ELSE Delays : Create(k, delay)
    \/ \E r \in Ids : Delete(r)
    \/ Attach \/ UserTurn \/ TakeReminder \/ EndTurn \/ WorkerDies
    \/ Shutdown \/ Crash \/ Tick

Spec == Init /\ [][Next]_vars

\* The owner's task keeps being polled, the clock runs, and the host activates
\* a session that has rules.  Nothing is assumed of turns: one that waits at an
\* approval, a question or a pause has no deadline and may never end.
FairSpec == Spec /\ WF_vars(OwnerStep) /\ WF_vars(Tick) /\ WF_vars(Attach)

--------------------------------------------------------------------------------
(* Properties *)

Deliveries(item) == {i \in DOMAIN sent : item \in sent[i].items}

\* Tools and the owner never write an event that the fold refuses, which
\* would disable the session's reminders for good: a rule is not deleted
\* between the decision to remind of it and its dispatch.
LogFolds == ~corrupt

\* A rule is closed or advanced by the owner only once the reminder of that
\* occurrence is in the inbox, whichever of the two appends failed.
DispatchedWasSent ==
    [][pc = "settle" =>
          \A r \in Ids : at'[r] # at[r] \/ state'[r] # state[r]
                            => Deliveries(<<r, Occurrence(r, plan.stamp)>>) # {}]_vars

\* A reminder is repeated only by a crash, or by an outage that hid its
\* insertion from the owner, and each of them repeats it once: a failed
\* dispatch, a duplicate or a busy agent never does.
RepeatsHaveCauses ==
    \A i \in DOMAIN sent : \A item \in sent[i].items :
        Cardinality(Deliveries(item)) <= 1 + crashes + unread

\* However long the host was away, one dispatch makes up for every missed
\* period: the rule is not due again at the instant it was accepted.
CatchesUpAtOnce ==
    [][pc = "settle" =>
          \A r \in Ids : at'[r] # at[r] => at'[r] > plan.stamp]_vars

\* An owner that sleeps on its timer has it set for the earliest rule, or a
\* signal is waiting for it: a rule made while it decided is not forgotten.
\* Only a create that could not report success is excepted.
TimerCoversRules ==
    pc = "wait" /\ ~permit =>
        \A r \in Active \ unsignalled : target # Never /\ target <= at[r]

IsDue(r) == r \in Active /\ at[r] <= now

\* A due rule is reminded of, unless the store failed, the worker died, the
\* host is stopping, or the turn before it never ends.
TurnNeverEnds == <>[](worker = "turn")
DueIsServed ==
    \/ TurnNeverEnds
    \/ \A r \in Ids : IsDue(r) ~> ~IsDue(r) \/ faults > 0 \/ closing

\* What the specification of reminders says: a one-shot rule is delivered
\* once, and recovery from a crash repeats nothing.
DeliveredOnce ==
    \A i \in 1..taken : \A item \in sent[i].items :
        Cardinality({j \in 1..taken : item \in sent[j].items}) <= 1

\* What the reminders of a session survive: their events always fold, only a
\* crash or an insertion the owner could not see repeats one, and the owner's
\* timer forgets none.
RemindersKept == TypeOK /\ LogFolds /\ RepeatsHaveCauses /\ TimerCoversRules

\* What a dispatch says is so: the reminder was sent, and nothing it missed is
\* still due.
DispatchesAreTrue == DispatchedWasSent /\ CatchesUpAtOnce
================================================================================
