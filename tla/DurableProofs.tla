----------------------------- MODULE DurableProofs -----------------------------
(***************************************************************************)
(* What is kept on the disk, and what is shown of it: the reminders of a   *)
(* session, the file of a session with its log, and the log under the      *)
(* requests of its users and in the pages that follow it.                  *)
(***************************************************************************)
EXTENDS Schedule, JsonlStore, SessionView, FiniteSetTheorems, SequenceTheorems,
        WellFoundedInduction, TLAPS

(***************************************************************************)
(* The reminders of a session, for any number of rules, any delays and     *)
(* period, any clock and any number of faults, turns and crashes.          *)
(***************************************************************************)

USE ScheduleAssumption DEF ScheduleAssumption, rules, inbox, owner, bounds

--------------------------------------------------------------------------------
(* Numbers *)

\* The occurrence a dispatch goes by is the latest one not after its instant.
LEMMA LatestOccurrence ==
    ASSUME NEW a \in Nat, NEW t \in Nat, a <= t
    PROVE  LET o == a + ((t - a) \div Period) * Period
           IN  o \in Nat /\ a <= o /\ o <= t /\ t < o + Period
<1> DEFINE d == t - a
           q == d \div Period
<1>1. d \in Nat /\ Period \in Nat \ {0}
  OBVIOUS
<1>2. q \in Nat /\ q * Period <= d /\ d < q * Period + Period
  BY <1>1
<1>3. q * Period \in Nat
  BY <1>1, <1>2
<1> HIDE DEF q
<1> QED
  BY <1>1, <1>2, <1>3

LEMMA Minimum ==
    ASSUME NEW S \in SUBSET Nat, S # {}
    PROVE  \E m \in S : \A n \in S : m <= n
<1>1. PICK m \in S : \A n \in S : ~ (<<n, m>> \in OpToRel(<, Nat))
  BY NatLessThanWellFounded, WFMin
<1>2. \A n \in S : ~ (n < m)
  BY <1>1 DEF OpToRel
<1> QED
  BY <1>2

LEMMA BoundsAreNumbers ==
    /\ MaxRules \in Nat /\ MaxTime \in Nat /\ MaxUserTurns \in Nat
    /\ MaxFaults \in Nat /\ MaxCrashes \in Nat
  OBVIOUS

--------------------------------------------------------------------------------
(* The inductive invariant *)

Times == 0..(MaxTime + Period)
Plans == [items: SUBSET Items, stamp: 0..MaxTime]

Typed == TypeOK /\ sent \in Seq(Plans) /\ plan \in Plans

\* The rules of a log are numbered without a gap, and only they were ever sent.
Numbered ==
    /\ \A r \in Seen : 1..r \subseteq Seen
    /\ \A i \in DOMAIN sent : \A item \in sent[i].items : item[1] \in Seen

\* What is being delivered is due, and nobody edits it meanwhile.
PlanKept ==
    /\ \A item \in plan.items :
          /\ item[1] \in Active
          /\ item[2] = Occurrence(item[1], plan.stamp) /\ at[item[1]] <= item[2]
          /\ kind[item[1]] = "every" => at[item[1]] <= plan.stamp
    /\ pc = "settle" => WasSent

\* Whether the occurrence t of rule r can still be sent in this life of the process.
CanBeSent(r, t) ==
    /\ r \in Active /\ at[r] <= t /\ ~faulted
    /\ pc = "settle" => <<r, t>> \notin plan.items

Counted(r, t) ==
    /\ Cardinality(Deliveries(<<r, t>>)) <= 1 + crashes + unread
    /\ CanBeSent(r, t) => Cardinality(Deliveries(<<r, t>>)) <= crashes + unread

ScheduleInv ==
    /\ Typed /\ Numbered /\ PlanKept
    /\ \A r \in Ids, t \in Times : Counted(r, t)
    /\ LogFolds /\ TimerCoversRules

\* Where an item was sent is a finite set of places.
LEMMA DeliveriesAreFinite ==
    ASSUME Typed, NEW item
    PROVE  IsFiniteSet(Deliveries(item)) /\ Cardinality(Deliveries(item)) \in Nat
<1>1. Len(sent) \in Nat /\ DOMAIN sent = 1..Len(sent)
  BY DEF Typed
<1>2. IsFiniteSet(1..Len(sent))
  <2>1. PICK n \in Nat : n = Len(sent)
    BY <1>1
  <2>2. IsFiniteSet(1..n)
    BY FS_Interval
  <2> QED
    BY <2>1, <2>2, SMTT(40)
<1>3. Deliveries(item) \in SUBSET (1..Len(sent))
  BY <1>1 DEF Deliveries
<1>4. IsFiniteSet(Deliveries(item))
  BY <1>2, <1>3, FS_Subset
<1> QED
  BY <1>4, FS_CardinalityType

LEMMA ScheduleStarts == Init => ScheduleInv
<1> SUFFICES ASSUME Init PROVE ScheduleInv
  OBVIOUS
<1> USE DEF Init
<1>1. Typed
  <2>1. Len(sent) = 0 /\ DOMAIN sent = {} /\ sent \in Seq(Plans)
    OBVIOUS
  <2>2. /\ now \in 0..MaxTime /\ 0 \in 0..(MaxTime + Period)
        /\ userTurns \in 0..MaxUserTurns /\ faults \in 0..MaxFaults /\ crashes \in 0..MaxCrashes
        /\ unread \in Nat
    BY BoundsAreNumbers
  <2>3. plan.items = {} /\ plan \in Plans
    BY <2>2, BoundsAreNumbers DEF NoPlan, Plans
  <2>4. /\ state \in [Ids -> {"free", "active", "closed"}]
        /\ kind \in [Ids -> {"once", "every"}] /\ at \in [Ids -> 0..(MaxTime + Period)]
    BY <2>2
  <2>5. taken \in 0..Len(sent) /\ \A i \in DOMAIN sent : sent[i].items \subseteq Items
    BY <2>1
  <2>6. /\ pc \in {"off", "look", "send", "settle"} \cup Asleep
        /\ plan.items # {} <=> pc \in {"send", "settle"}
    BY <2>3
  <2>7. /\ target \in {Never} \cup 0..(MaxTime + Period) /\ ~(target # Never)
        /\ corrupt \in BOOLEAN
        /\ permit \in BOOLEAN /\ faulted \in BOOLEAN /\ closing \in BOOLEAN
        /\ worker \in {"idle", "turn", "gone"} /\ unsignalled \subseteq Ids
    OBVIOUS
  <2>8. TypeOK
    BY <2>2, <2>4, <2>5, <2>6, <2>7 DEF TypeOK
  <2> QED
    BY <2>1, <2>3, <2>8 DEF Typed
<1>2. Numbered /\ PlanKept /\ LogFolds /\ TimerCoversRules
  BY DEF Numbered, PlanKept, LogFolds, TimerCoversRules, Seen, NoPlan
<1>3. ASSUME NEW r \in Ids, NEW t \in Times PROVE Counted(r, t)
  <2>1. Deliveries(<<r, t>>) = {}
    BY DEF Deliveries
  <2>2. Cardinality(Deliveries(<<r, t>>)) = 0
    BY <2>1, FS_EmptySet
  <2> QED
    BY <2>2 DEF Counted
<1> QED
  BY <1>1, <1>2, <1>3 DEF ScheduleInv

--------------------------------------------------------------------------------
(* Steps that send nothing and edit no rule *)

\* The inbox and the rules stay: what was counted is counted, and no more can be sent.
LEMMA RulesRest ==
    ASSUME ScheduleInv, UNCHANGED <<rules, sent, crashes, unread>>,
           faulted => faulted',
           pc = "settle" => faulted' \/ (pc' = "settle" /\ plan' = plan),
           Typed', PlanKept', TimerCoversRules'
    PROVE  ScheduleInv'
<1>1. Numbered' /\ LogFolds'
  BY DEF ScheduleInv, Numbered, LogFolds, Seen
<1>2. ASSUME NEW r \in Ids, NEW t \in Times PROVE Counted(r, t)'
  <2>1. Deliveries(<<r, t>>)' = Deliveries(<<r, t>>)
    BY DEF Deliveries
  <2>2. CanBeSent(r, t)' => CanBeSent(r, t)
    BY DEF CanBeSent, Active
  <2> QED
    BY <2>1, <2>2 DEF ScheduleInv, Counted
<1> QED
  BY <1>1, <1>2 DEF ScheduleInv

\* An edited rule is not one that is being delivered, and the owner is told of it.
LEMMA RulesMove ==
    ASSUME ScheduleInv, LockFree, UNCHANGED <<sent, pc, plan, faulted, crashes, unread, corrupt>>,
           NEW r \in Ids, \A s \in Ids \ {r} : state'[s] = state[s] /\ at'[s] = at[s],
           r \notin Seen => 1..(r - 1) \subseteq Seen,
           \/ state[r] = "active" /\ state'[r] = "closed"
           \/ state[r] = "free" /\ state'[r] = "active",
           Typed', TimerCoversRules'
    PROVE  ScheduleInv'
<1> USE DEF ScheduleInv
<1>1. Seen \subseteq Seen' /\ Seen' = Seen \union {r}
  BY DEF Seen
<1>2. Numbered'
  <2>1. \A i \in DOMAIN sent' : \A item \in sent'[i].items : item[1] \in Seen'
    BY <1>1 DEF Numbered
  <2>2. ASSUME NEW s \in Seen' PROVE 1..s \subseteq Seen'
    <3>1. CASE s \in Seen
      BY <3>1, <1>1 DEF Numbered
    <3>2. CASE s = r /\ r \notin Seen
      <4>1. 1..s \subseteq (1..(r - 1)) \union {r}
        BY <3>2 DEF Ids
      <4> QED
        BY <3>2, <4>1, <1>1
    <3> QED
      BY <3>1, <3>2, <1>1
  <2> QED
    BY <2>1, <2>2 DEF Numbered
<1>3. PlanKept'
  <2>1. plan.items = {} /\ pc # "settle"
    BY DEF LockFree, Typed, TypeOK
  <2> QED
    BY <2>1 DEF PlanKept
<1>4. LogFolds'
  BY DEF LogFolds
<1>5. ASSUME NEW s \in Ids, NEW t \in Times PROVE Counted(s, t)'
  <2>1. Deliveries(<<s, t>>)' = Deliveries(<<s, t>>)
    BY DEF Deliveries
  <2>2. Counted(s, t)
    OBVIOUS
  <2>3. CASE s \in Seen
    <3>1. CanBeSent(s, t)' => CanBeSent(s, t)
      BY <2>3 DEF CanBeSent, Active, LockFree, Seen
    <3> QED
      BY <2>1, <2>2, <3>1 DEF Counted
  <2>4. CASE s \notin Seen
    <3>1. Deliveries(<<s, t>>) = {}
      BY <2>4 DEF Numbered, Deliveries
    <3>2. Cardinality(Deliveries(<<s, t>>)) = 0
      BY <3>1, FS_EmptySet
    <3>3. crashes' \in Nat /\ unread' \in Nat
      BY DEF Typed, TypeOK
    <3> QED
      BY <2>1, <3>2, <3>3 DEF Counted
  <2> QED
    BY <2>3, <2>4
<1> QED
  BY <1>2, <1>3, <1>4, <1>5

LEMMA CreateKeeps ==
    ASSUME ScheduleInv, NEW k \in KindsUsed,
           NEW delay \in IF k = "every" THEN {Period} ELSE Delays, Create(k, delay)
    PROVE  ScheduleInv'
<1> DEFINE r == Cardinality(Seen) + 1
<1> USE DEF ScheduleInv
<1>1. r \in Ids /\ Seen = 1..Cardinality(Seen) /\ Cardinality(Seen) \in Nat
  <2>1. r \in Ids
    BY DEF Create
  <2>2. PICK n \in Nat : Seen = 1..n
    <3>1. CASE Seen = {}
      BY <3>1
    <3>2. CASE Seen # {}
      <4>1. Seen \subseteq 1..MaxRules
        BY DEF Seen, Ids
      <4>2. PICK d \in {MaxRules - s : s \in Seen} : \A e \in {MaxRules - s : s \in Seen} : d <= e
        <5>1. {MaxRules - s : s \in Seen} \in SUBSET Nat
          BY <4>1
        <5>2. {MaxRules - s : s \in Seen} # {}
          BY <3>2
        <5> QED
          BY <5>1, <5>2, Minimum
      <4>3. PICK n \in Seen : d = MaxRules - n
        BY <4>2
      <4>4. ASSUME NEW s \in Seen PROVE s \in 1..n
        <5>1. MaxRules - n <= MaxRules - s
          BY <4>2, <4>3
        <5> QED
          BY <5>1, <4>1
      <4>5. 1..n \subseteq Seen /\ n \in Nat
        BY <4>1 DEF Numbered
      <4> QED
        BY <4>4, <4>5
    <3> QED
      BY <3>1, <3>2
  <2>3. Cardinality(1..n) = n
    <3>1. n \in Int /\ 1 \in Int /\ (1 > n => n = 0) /\ n - 1 + 1 = n
      OBVIOUS
    <3>2. Cardinality(1..n) = IF 1 > n THEN 0 ELSE n - 1 + 1
      BY <3>1, FS_Interval
    <3> QED
      BY <3>1, <3>2
  <2> QED
    BY <2>1, <2>2, <2>3
<1> HIDE DEF r
<1>2. r \notin Seen /\ state[r] = "free" /\ 1..(r - 1) \subseteq Seen
  <2>1. PICK n \in Nat : n = Cardinality(Seen)
    BY <1>1
  <2>2. r = n + 1 /\ Seen = 1..n
    BY <1>1, <2>1 DEF r
  <2> QED
    BY <2>2, <1>1 DEF Seen
<1>3. /\ LockFree /\ now + delay <= MaxTime
      /\ state' = [state EXCEPT ![r] = "active"]
      /\ kind' = [kind EXCEPT ![r] = k]
      /\ at' = [at EXCEPT ![r] = now + delay]
      /\ \/ permit' = TRUE /\ UNCHANGED <<faults, unsignalled>>
         \/ /\ faults < MaxFaults /\ faults' = faults + 1
            /\ unsignalled' = unsignalled \cup {r} /\ UNCHANGED permit
      /\ UNCHANGED <<now, corrupt, inbox, pc, plan, target, faulted, closing,
                     worker, userTurns, crashes, unread>>
  BY DEF Create, Fault, NoFault, Signal, r
<1>4. delay \in Nat /\ now + delay \in Times
  BY <1>3 DEF Typed, TypeOK, Times
<1>5. Typed'
  <2>1. /\ state' \in [Ids -> {"free", "active", "closed"}]
        /\ kind' \in [Ids -> {"once", "every"}]
        /\ at' \in [Ids -> Times]
        /\ unsignalled' \subseteq Ids
    BY <1>1, <1>3, <1>4 DEF Typed, TypeOK, Times
  <2>2. permit' \in BOOLEAN
    BY <1>3 DEF Typed, TypeOK
  <2>3. faults' \in 0..MaxFaults
    BY <1>3, BoundsAreNumbers DEF Typed, TypeOK
  <2> QED
    BY <2>1, <2>2, <2>3, <1>3 DEF Typed, TypeOK, Times
<1>6. TimerCoversRules'
  BY <1>1, <1>3 DEF Typed, TypeOK, TimerCoversRules, Active
<1>7. \A s \in Ids \ {r} : state'[s] = state[s] /\ at'[s] = at[s]
  BY <1>3 DEF Typed, TypeOK
<1>8. state'[r] = "active"
  BY <1>1, <1>3 DEF Typed, TypeOK
<1> HIDE DEF ScheduleInv
<1> QED
  BY <1>1, <1>2, <1>3, <1>5, <1>6, <1>7, <1>8, RulesMove

LEMMA DeleteKeeps ==
    ASSUME ScheduleInv, NEW r \in Ids, Delete(r)
    PROVE  ScheduleInv'
<1>1. /\ LockFree /\ state[r] = "active"
      /\ state' = [state EXCEPT ![r] = "closed"]
      /\ \/ permit' = TRUE /\ UNCHANGED faults
         \/ faults < MaxFaults /\ faults' = faults + 1 /\ UNCHANGED permit
      /\ UNCHANGED <<now, kind, at, corrupt, inbox, pc, plan, target, faulted,
                     closing, worker, unsignalled, userTurns, crashes, unread>>
  BY DEF Delete, Fault, NoFault, Signal
<1>2. Typed'
  <2>1. state' \in [Ids -> {"free", "active", "closed"}]
    BY <1>1 DEF ScheduleInv, Typed, TypeOK
  <2>2. permit' \in BOOLEAN
    BY <1>1 DEF ScheduleInv, Typed, TypeOK
  <2>3. faults' \in 0..MaxFaults
    BY <1>1, BoundsAreNumbers DEF ScheduleInv, Typed, TypeOK
  <2> QED
    BY <2>1, <2>2, <2>3, <1>1 DEF ScheduleInv, Typed, TypeOK
<1>3. TimerCoversRules'
  BY <1>1 DEF ScheduleInv, Typed, TypeOK, TimerCoversRules, Active
<1>4. /\ \A s \in Ids \ {r} : state'[s] = state[s] /\ at'[s] = at[s]
      /\ state'[r] = "closed" /\ r \in Seen
  BY <1>1 DEF ScheduleInv, Typed, TypeOK, Seen
<1> QED
  BY <1>1, <1>2, <1>3, <1>4, RulesMove

--------------------------------------------------------------------------------
(* The owner's decision *)

\* Of any rules one comes first: by its time, and by its number among equals.
LEMMA EarliestIsFirst ==
    ASSUME Typed, NEW R \in SUBSET Ids, R # {}
    PROVE  Earliest(R) \in R /\ \A s \in R : at[Earliest(R)] <= at[s]
<1>1. at \in [Ids -> Nat] /\ Ids \subseteq Nat
  <2>1. Times \subseteq Nat
    BY DEF Times
  <2> QED
    BY <2>1, SMTT(40) DEF Typed, TypeOK, Times, Ids
<1>2. PICK t \in {at[r] : r \in R} : \A u \in {at[r] : r \in R} : t <= u
  <2>1. {at[r] : r \in R} \in SUBSET Nat /\ {at[r] : r \in R} # {}
    BY <1>1
  <2> QED
    BY <2>1, Minimum
<1>3. PICK m \in {r \in R : at[r] = t} : \A n \in {r \in R : at[r] = t} : m <= n
  <2>1. {r \in R : at[r] = t} \in SUBSET Nat /\ {r \in R : at[r] = t} # {}
    BY <1>1, <1>2
  <2> QED
    BY <2>1, Minimum
<1>4. m \in R /\ \A s \in R : at[m] < at[s] \/ (at[m] = at[s] /\ m <= s)
  <2>1. m \in R /\ at[m] = t
    BY <1>3
  <2>2. ASSUME NEW s \in R PROVE at[m] < at[s] \/ (at[m] = at[s] /\ m <= s)
    <3>1. t <= at[s] /\ t \in Nat /\ at[s] \in Nat
      BY <1>1, <1>2
    <3>2. at[s] = t => m <= s
      BY <1>3
    <3> QED
      BY <2>1, <3>1, <3>2
  <2> QED
    BY <2>1, <2>2
<1>5. Earliest(R) \in R /\ \A s \in R : \/ at[Earliest(R)] < at[s]
                                        \/ at[Earliest(R)] = at[s] /\ Earliest(R) <= s
  BY <1>4 DEF Earliest
<1>6. ASSUME NEW s \in R PROVE at[Earliest(R)] <= at[s]
  <2>1. at[Earliest(R)] \in Nat /\ at[s] \in Nat
    BY <1>1, <1>5
  <2> QED
    BY <2>1, <1>5
<1> QED
  BY <1>5, <1>6

\* The rules chosen are active and due, and one-shot rules come alone.
LEMMA ChosenAreDue ==
    ASSUME Typed, NEW r \in Chosen
    PROVE  /\ r \in Active /\ at[r] <= now
           /\ kind[r] = "once" => Chosen = {r} /\ r = Earliest(Due("once"))
           /\ kind[r] = "every" => Due("once") = {}
<1>1. CASE Due("once") # {}
  <2>1. Earliest(Due("once")) \in Due("once")
    <3>1. Due("once") \in SUBSET Ids
      BY DEF Due, Active
    <3> QED
      BY <1>1, <3>1, EarliestIsFirst
  <2> QED
    BY <1>1, <2>1 DEF Chosen, Due
<1>2. CASE Due("once") = {}
  BY <1>2 DEF Chosen, Due
<1> QED
  BY <1>1, <1>2

\* What the owner decides to send is what the rules chosen are due for.
LEMMA ReminderIsDue ==
    ASSUME ScheduleInv, Chosen # {}
    PROVE  /\ Reminder(Chosen) \in Plans /\ Reminder(Chosen).items # {}
           /\ \A item \in Reminder(Chosen).items :
                 /\ item[1] \in Chosen /\ item[1] \in Active
                 /\ item[2] = Occurrence(item[1], Reminder(Chosen).stamp)
                 /\ at[item[1]] <= item[2]
                 /\ kind[item[1]] = "every" => at[item[1]] <= Reminder(Chosen).stamp
<1> DEFINE p == Reminder(Chosen)
<1>1. Chosen \in SUBSET Ids /\ now \in Nat /\ now <= MaxTime /\ at \in [Ids -> Times]
  BY ChosenAreDue DEF ScheduleInv, Typed, TypeOK, Active, Times
<1>2. ASSUME NEW r \in Chosen
      PROVE  /\ p.stamp \in 0..MaxTime
             /\ Occurrence(r, now) \in Times
             /\ Occurrence(r, now) = Occurrence(r, p.stamp)
             /\ at[r] <= Occurrence(r, now)
             /\ kind[r] = "every" => at[r] <= p.stamp
  <2>1. /\ r \in Ids /\ r \in Active /\ at[r] \in Nat /\ at[r] \in Times
        /\ at[r] <= now /\ kind[r] \in {"once", "every"}
    BY <1>1, ChosenAreDue, SMTT(40) DEF ScheduleInv, Typed, TypeOK, Times
  <2>2. CASE kind[r] = "once"
    <3>1. Chosen = {r} /\ r = Earliest(Due("once")) /\ Due("once") # {}
      BY <2>2, ChosenAreDue DEF ScheduleInv, Chosen, Due
    <3>2. Earliest(Chosen) = r
      <4>1. Earliest({r}) \in {r}
        BY <2>1, EarliestIsFirst DEF ScheduleInv
      <4> QED
        BY <3>1, <4>1
    <3>3. p.stamp = at[r]
      BY <3>1, <3>2 DEF Reminder
    <3>4. Occurrence(r, now) = at[r] /\ Occurrence(r, p.stamp) = at[r]
      BY <2>2 DEF Occurrence
    <3>5. at[r] \in 0..MaxTime
      BY <1>1, <2>1
    <3> QED
      BY <2>1, <2>2, <3>3, <3>4, <3>5
  <2>3. CASE kind[r] = "every"
    <3>1. p.stamp = now
      BY <2>3, ChosenAreDue DEF ScheduleInv, Reminder
    <3>2. Occurrence(r, now) = at[r] + ((now - at[r]) \div Period) * Period
      BY <2>3 DEF Occurrence, OccurrenceOf
    <3>3. Occurrence(r, now) \in Nat /\ at[r] <= Occurrence(r, now) /\ Occurrence(r, now) <= now
      <4>1. PICK a \in Nat : a = at[r]
        BY <2>1
      <4>2. PICK t \in Nat : t = now
        BY <1>1
      <4>3. LET o == a + ((t - a) \div Period) * Period
            IN  o \in Nat /\ a <= o /\ o <= t /\ t < o + Period
        BY <2>1, <4>1, <4>2, LatestOccurrence
      <4> QED
        BY <3>2, <4>1, <4>2, <4>3
    <3>4. Occurrence(r, now) \in Times
      BY <1>1, <3>3 DEF Times
    <3>5. now \in 0..MaxTime
      BY <1>1
    <3> QED
      BY <2>1, <3>1, <3>3, <3>4, <3>5
  <2> QED
    BY <2>1, <2>2, <2>3
<1>3. p.items = {<<r, Occurrence(r, now)>> : r \in Chosen} /\ p = [items |-> p.items, stamp |-> p.stamp]
  BY DEF Reminder
<1>4. p.items \subseteq Items /\ p.items # {}
  <2>1. \A r \in Chosen : r \in Ids /\ Occurrence(r, now) \in Times
    BY <1>1, <1>2
  <2>2. {<<r, Occurrence(r, now)>> : r \in Chosen} \subseteq Ids \X Times
    BY <2>1
  <2>3. Items = Ids \X Times
    BY DEF Items, Times
  <2> HIDE DEF p
  <2> QED
    BY <1>3, <2>2, <2>3
<1>5. p \in Plans
  <2>1. p.stamp \in 0..MaxTime
    BY <1>2
  <2> QED
    BY <1>3, <1>4, <2>1 DEF Plans
<1>6. ASSUME NEW item \in p.items
      PROVE  /\ item[1] \in Chosen /\ item[1] \in Active
             /\ item[2] = Occurrence(item[1], p.stamp) /\ at[item[1]] <= item[2]
             /\ kind[item[1]] = "every" => at[item[1]] <= p.stamp
  <2>1. PICK r \in Chosen : item = <<r, Occurrence(r, now)>>
    BY <1>3
  <2>2. item[1] = r /\ item[2] = Occurrence(r, now)
    BY <2>1
  <2>3. r \in Active
    BY ChosenAreDue DEF ScheduleInv
  <2> HIDE DEF p
  <2> QED
    BY <1>2, <2>2, <2>3
<1> QED
  BY <1>4, <1>5, <1>6

LEMMA LookKeeps == ScheduleInv /\ Look => ScheduleInv'
<1> SUFFICES ASSUME ScheduleInv, Look PROVE ScheduleInv'
  OBVIOUS
<1>1. UNCHANGED <<now, rules, inbox, permit, closing, worker, unsignalled, bounds>> /\ pc = "look"
  BY DEF Look
<1>2. plan.items = {} /\ target = Never
  BY <1>1 DEF ScheduleInv, Typed, TypeOK
<1>3. CASE faulted \/ corrupt
  <2>1. pc' = "dormant" /\ faulted' = TRUE /\ UNCHANGED <<plan, target>>
    BY <1>3 DEF Look
  <2>2. Typed'
    BY <1>1, <1>2, <2>1 DEF ScheduleInv, Typed, TypeOK, Asleep
  <2>3. PlanKept' /\ TimerCoversRules'
    BY <1>2, <2>1 DEF PlanKept, TimerCoversRules
  <2> QED
    BY <1>1, <2>1, <2>2, <2>3, RulesRest
<1>4. CASE ~(faulted \/ corrupt) /\ Chosen = {}
  <2>1. pc' = "wait" /\ target' = NextTarget /\ UNCHANGED <<plan, faulted>>
    BY <1>4 DEF Look
  <2>2. Active \in SUBSET Ids /\ Active' = Active
    BY <1>1 DEF Active
  <2>3. CASE Active = {}
    <3>1. target' = Never
      BY <2>1, <2>3 DEF NextTarget
    <3>2. Typed'
      BY <1>1, <1>2, <1>4, <2>1, <3>1 DEF ScheduleInv, Typed, TypeOK, Asleep
    <3>3. PlanKept' /\ TimerCoversRules'
      BY <1>2, <2>1, <2>2, <2>3 DEF PlanKept, TimerCoversRules
    <3> QED
      BY <1>1, <2>1, <3>2, <3>3, RulesRest
  <2>4. CASE Active # {}
    <3>1. target' = at[Earliest(Active)]
      BY <2>1, <2>4 DEF NextTarget
    <3>2. Earliest(Active) \in Active /\ \A s \in Active : at[Earliest(Active)] <= at[s]
      BY <2>2, <2>4, EarliestIsFirst DEF ScheduleInv
    <3>3. target' \in 0..(MaxTime + Period) /\ target' # Never
      <4>1. target' \in 0..(MaxTime + Period)
        BY <2>2, <3>1, <3>2 DEF ScheduleInv, Typed, TypeOK
      <4> QED
        BY <4>1 DEF Never
    <3>4. Typed'
      BY <1>1, <1>2, <1>4, <2>1, <3>3 DEF ScheduleInv, Typed, TypeOK, Asleep
    <3>5. PlanKept'
      BY <1>2, <2>1 DEF PlanKept
    <3>6. TimerCoversRules'
      BY <1>1, <2>2, <3>1, <3>2, <3>3 DEF TimerCoversRules
    <3> QED
      BY <1>1, <2>1, <3>4, <3>5, <3>6, RulesRest
  <2> QED
    BY <2>3, <2>4
<1>5. CASE ~(faulted \/ corrupt) /\ Chosen # {}
  <2>1. pc' = "send" /\ plan' = Reminder(Chosen) /\ UNCHANGED <<target, faulted>>
    BY <1>5 DEF Look
  <2>2. plan' \in Plans /\ plan'.items # {}
    BY <1>5, <2>1, ReminderIsDue
  <2>3. Typed'
    BY <1>1, <1>2, <1>5, <2>1, <2>2 DEF ScheduleInv, Typed, TypeOK, Asleep
  <2>4. PlanKept'
    <3>1. PICK p \in Plans : p = plan'
      BY <2>2
    <3>2. \A item \in p.items :
             /\ item[1] \in Active
             /\ item[2] = Occurrence(item[1], p.stamp) /\ at[item[1]] <= item[2]
             /\ kind[item[1]] = "every" => at[item[1]] <= p.stamp
      BY <1>5, <2>1, <3>1, ReminderIsDue
    <3>3. \A item : Occurrence(item[1], p.stamp)' = Occurrence(item[1], p.stamp)
      BY <1>1 DEF Occurrence, OccurrenceOf
    <3> QED
      BY <1>1, <2>1, <3>1, <3>2, <3>3 DEF PlanKept, Active, Occurrence, OccurrenceOf
  <2>5. TimerCoversRules'
    BY <2>1 DEF TimerCoversRules
  <2> QED
    BY <1>1, <2>1, <2>3, <2>4, <2>5, RulesRest
<1> QED
  BY <1>3, <1>4, <1>5

--------------------------------------------------------------------------------
(* The delivery *)

LEMMA LookFailsKeeps == ScheduleInv /\ LookFails => ScheduleInv'
<1> SUFFICES ASSUME ScheduleInv, LookFails PROVE ScheduleInv'
  OBVIOUS
<1>1. /\ pc = "look" /\ ~faulted /\ pc' = "stall" /\ faults < MaxFaults /\ faults' = faults + 1
      /\ UNCHANGED <<now, rules, inbox, plan, target, permit, faulted, closing,
                     worker, unsignalled, userTurns, crashes, unread>>
  BY DEF LookFails, Fault
<1>2. faults' \in 0..MaxFaults
  BY <1>1, BoundsAreNumbers DEF ScheduleInv, Typed, TypeOK
<1>3. Typed'
  BY <1>1, <1>2 DEF ScheduleInv, Typed, TypeOK, Asleep
<1>4. PlanKept' /\ TimerCoversRules'
  BY <1>1 DEF ScheduleInv, Typed, TypeOK, PlanKept, TimerCoversRules
<1> QED
  BY <1>1, <1>3, <1>4, RulesRest

\* An owner that takes the reminder for not sent gives up the delivery.
LEMMA NotReadKeeps ==
    ASSUME ScheduleInv, pc = "send", NotRead, faults' \in 0..MaxFaults,
           UNCHANGED <<now, rules, inbox, target, permit, faulted, closing, worker,
                       unsignalled, userTurns, crashes, unread>>
    PROVE  ScheduleInv'
<1>1. pc' = "stall" /\ plan' = NoPlan /\ NoPlan.items = {} /\ NoPlan \in Plans
  BY BoundsAreNumbers DEF NotRead, NoPlan, Plans
<1>2. Typed'
  BY <1>1 DEF ScheduleInv, Typed, TypeOK, Asleep
<1>3. PlanKept' /\ TimerCoversRules'
  BY <1>1 DEF PlanKept, TimerCoversRules
<1> QED
  BY <1>1, <1>2, <1>3, RulesRest

\* After an error the owner goes on to the dispatch only with the reminder sent.
LEMMA AfterErrorKeeps ==
    ASSUME ScheduleInv, pc = "send", AfterError, faults' \in 0..MaxFaults,
           UNCHANGED <<now, rules, inbox, target, permit, faulted, closing, worker,
                       unsignalled, userTurns, crashes, unread>>
    PROVE  ScheduleInv'
<1>1. CASE WasSent
  <2>1. pc' = "settle" /\ plan' = plan
    BY <1>1 DEF AfterError
  <2>2. Typed'
    BY <2>1 DEF ScheduleInv, Typed, TypeOK, Asleep
  <2>3. PlanKept'
    <3>1. WasSent'
      BY <1>1, <2>1 DEF WasSent
    <3> QED
      BY <2>1, <3>1 DEF ScheduleInv, PlanKept, Active, Occurrence, OccurrenceOf
  <2>4. TimerCoversRules'
    BY <2>1 DEF TimerCoversRules
  <2> QED
    BY <2>1, <2>2, <2>3, <2>4, RulesRest
<1>2. CASE ~WasSent
  BY <1>2, NotReadKeeps DEF AfterError, NotRead
<1> QED
  BY <1>1, <1>2

\* What is inserted was sent at most once per crash and hidden insertion before.
\* It is not sent again, or the insertion is hidden and makes good for it.
LEMMA InsertKeeps ==
    ASSUME ScheduleInv, pc = "send", sent' = Append(sent, plan), faults' \in 0..MaxFaults,
           \/ pc' = "settle" /\ plan' = plan /\ unread' = unread
           \/ pc' = "stall" /\ plan' = NoPlan /\ unread' = unread + 1,
           UNCHANGED <<now, rules, taken, target, permit, faulted, closing,
                       worker, unsignalled, userTurns, crashes>>
    PROVE  ScheduleInv'
<1> DEFINE n == Len(sent) + 1
<1>1. /\ Len(sent) \in Nat /\ n \in Nat /\ DOMAIN sent = 1..Len(sent)
      /\ sent' \in Seq(Plans) /\ Len(sent') = n /\ DOMAIN sent' = 1..n
      /\ sent'[n] = plan /\ \A i \in 1..Len(sent) : sent'[i] = sent[i]
  BY DEF ScheduleInv, Typed
<1> HIDE DEF n
<1>2. n \notin DOMAIN sent /\ DOMAIN sent' = (DOMAIN sent) \union {n}
  BY <1>1 DEF n
<1>3. plan \in Plans /\ plan.items \subseteq Items /\ ~faulted
  BY DEF ScheduleInv, Typed, TypeOK, Plans, Asleep
<1>0. NoPlan.items = {} /\ NoPlan \in Plans
  BY BoundsAreNumbers DEF NoPlan, Plans
<1>4. Typed'
  <2>1. \A i \in DOMAIN sent' : sent'[i].items \subseteq Items
    BY <1>1, <1>2, <1>3 DEF ScheduleInv, Typed, TypeOK
  <2>2. taken' \in 0..Len(sent')
    BY <1>1 DEF ScheduleInv, Typed, TypeOK, n
  <2>3. unread' \in Nat
    BY DEF ScheduleInv, Typed, TypeOK
  <2> QED
    BY <1>0, <1>1, <1>3, <2>1, <2>2, <2>3 DEF ScheduleInv, Typed, TypeOK, Asleep
<1>5. Numbered'
  <2>1. \A item \in plan.items : item[1] \in Seen
    BY DEF ScheduleInv, PlanKept, Active, Seen
  <2> QED
    BY <1>1, <1>2, <2>1 DEF ScheduleInv, Numbered, Seen
<1>6. PlanKept'
  <2>1. CASE plan' = plan
    <3>1. WasSent'
      BY <1>1, <1>2, <2>1 DEF WasSent
    <3> QED
      BY <2>1, <3>1 DEF ScheduleInv, PlanKept, Active, Occurrence, OccurrenceOf
  <2>2. CASE pc' = "stall" /\ plan' = NoPlan
    BY <1>0, <2>2 DEF PlanKept
  <2> QED
    BY <2>1, <2>2
<1>7. LogFolds' /\ TimerCoversRules'
  BY DEF ScheduleInv, LogFolds, TimerCoversRules
<1>8. ASSUME NEW r \in Ids, NEW t \in Times PROVE Counted(r, t)'
  <2>1. Counted(r, t) /\ crashes \in Nat /\ unread \in Nat
    BY DEF ScheduleInv, Typed, TypeOK
  <2>2. CASE <<r, t>> \in plan.items
    <3>1. CanBeSent(r, t)
      BY <1>3, <2>2 DEF ScheduleInv, PlanKept, CanBeSent
    <3>2. PICK D : D = Deliveries(<<r, t>>)
      OBVIOUS
    <3>3. Deliveries(<<r, t>>)' = D \union {n} /\ n \notin D
      BY <1>1, <1>2, <2>2, <3>2 DEF Deliveries
    <3>4. IsFiniteSet(D) /\ Cardinality(D) \in Nat
      BY <3>2, DeliveriesAreFinite DEF ScheduleInv
    <3>5. Cardinality(D \union {n}) = Cardinality(D) + 1
      BY <3>3, <3>4, FS_AddElement
    <3>6. Cardinality(D) <= crashes + unread
      BY <2>1, <3>1, <3>2 DEF Counted
    <3>7. CanBeSent(r, t)' => unread' = unread + 1
      BY <2>2 DEF CanBeSent
    <3>8. /\ Cardinality(D \union {n}) <= 1 + crashes + unread'
          /\ CanBeSent(r, t)' => Cardinality(D \union {n}) <= crashes + unread'
      BY <2>1, <3>4, <3>5, <3>6, <3>7
    <3> QED
      BY <3>3, <3>8 DEF Counted
  <2>3. CASE <<r, t>> \notin plan.items
    <3>1. Deliveries(<<r, t>>)' = Deliveries(<<r, t>>)
      BY <1>1, <1>2, <2>3 DEF Deliveries
    <3>2. CanBeSent(r, t)' => CanBeSent(r, t)
      BY DEF CanBeSent, Active
    <3>3. unread <= unread' /\ unread' \in Nat /\ Cardinality(Deliveries(<<r, t>>)) \in Nat
      BY <2>1, DeliveriesAreFinite DEF ScheduleInv
    <3> QED
      BY <2>1, <3>1, <3>2, <3>3 DEF Counted
  <2> QED
    BY <2>2, <2>3
<1> QED
  BY <1>4, <1>5, <1>6, <1>7, <1>8 DEF ScheduleInv

LEMMA SendIdleKeeps == ScheduleInv /\ SendIdle => ScheduleInv'
<1> SUFFICES ASSUME ScheduleInv, SendIdle PROVE ScheduleInv'
  OBVIOUS
<1>1. /\ pc = "send"
      /\ UNCHANGED <<now, rules, taken, target, permit, faulted, closing, worker,
                     unsignalled, userTurns, crashes>>
  BY DEF SendIdle
<1>2. faults' \in 0..MaxFaults
  <2>1. faults' = faults \/ (faults < MaxFaults /\ faults' = faults + 1)
    BY DEF SendIdle, Fault, NoFault
  <2> QED
    BY <2>1, BoundsAreNumbers DEF ScheduleInv, Typed, TypeOK
<1>3. CASE /\ sent' = Append(sent, plan)
           /\ \/ pc' = "settle" /\ UNCHANGED <<plan, unread>>
              \/ NotRead /\ unread' = unread + 1
  BY <1>1, <1>2, <1>3, InsertKeeps DEF NotRead
<1>4. CASE AfterError /\ UNCHANGED <<sent, unread>>
  BY <1>1, <1>2, <1>4, AfterErrorKeeps
<1>5. CASE NotRead /\ UNCHANGED <<sent, unread>>
  BY <1>1, <1>2, <1>5, NotReadKeeps
<1> QED
  BY <1>3, <1>4, <1>5 DEF SendIdle

LEMMA SendBusyKeeps == ScheduleInv /\ SendBusy => ScheduleInv'
<1> SUFFICES ASSUME ScheduleInv, SendBusy PROVE ScheduleInv'
  OBVIOUS
<1>1. /\ pc = "send" /\ pc' = "busy" /\ plan' = NoPlan /\ NoPlan.items = {} /\ NoPlan \in Plans
      /\ UNCHANGED <<now, rules, inbox, target, permit, faulted, closing, worker,
                     unsignalled, bounds>>
  BY BoundsAreNumbers DEF SendBusy, NoPlan, Plans
<1>2. Typed'
  BY <1>1 DEF ScheduleInv, Typed, TypeOK, Asleep
<1>3. PlanKept' /\ TimerCoversRules'
  BY <1>1 DEF PlanKept, TimerCoversRules
<1> QED
  BY <1>1, <1>2, <1>3, RulesRest

LEMMA SendClosedKeeps == ScheduleInv /\ SendClosed => ScheduleInv'
<1> SUFFICES ASSUME ScheduleInv, SendClosed PROVE ScheduleInv'
  OBVIOUS
<1>1. faults' \in 0..MaxFaults
  BY BoundsAreNumbers DEF SendClosed, Fault, NoFault, ScheduleInv, Typed, TypeOK
<1> QED
  BY <1>1, AfterErrorKeeps, NotReadKeeps DEF SendClosed

--------------------------------------------------------------------------------
(* The dispatch *)

\* The rules of a delivery.
Delivered == {i[1] : i \in plan.items}

\* A dispatch is legal, and closes a one-shot rule or moves a periodic one past
\* the occurrence that was sent and the instant of the decision.
LEMMA DispatchMoves ==
    ASSUME ScheduleInv, pc = "settle", Dispatch(Delivered, plan.stamp)
    PROVE  /\ corrupt' = corrupt /\ Seen' = Seen
           /\ state' \in [Ids -> {"free", "active", "closed"}] /\ at' \in [Ids -> Times]
           /\ \A r \in Ids \ Delivered : state'[r] = state[r] /\ at'[r] = at[r]
           /\ \A r \in Delivered :
                 \/ kind[r] = "once" /\ state'[r] = "closed" /\ at'[r] = at[r]
                 \/ /\ kind[r] = "every"
                    /\ Occurrence(r, plan.stamp) \in Nat
                    /\ at[r] <= Occurrence(r, plan.stamp)
                    /\ at'[r] > Occurrence(r, plan.stamp) /\ at'[r] > plan.stamp
<1> USE DEF ScheduleInv
<1>1. /\ plan.items \subseteq Items /\ plan.stamp \in Nat /\ plan.stamp <= MaxTime
      /\ at \in [Ids -> Times] /\ state \in [Ids -> {"free", "active", "closed"}]
      /\ kind \in [Ids -> {"once", "every"}] /\ Times \subseteq Nat
  BY DEF Typed, TypeOK, Plans, Times
<1>2. ASSUME NEW r \in Delivered
      PROVE  /\ r \in Ids /\ state[r] = "active" /\ at[r] \in Nat
             /\ kind[r] = "every" => at[r] <= plan.stamp
  <2>1. PICK i \in plan.items : r = i[1]
    BY DEF Delivered
  <2>2. r \in Active /\ (kind[r] = "every" => at[r] <= plan.stamp)
    BY <2>1 DEF PlanKept
  <2> QED
    BY <1>1, <2>2 DEF Active
<1>3. /\ corrupt' = corrupt
      /\ state' = [r \in Ids |-> IF r \in Delivered /\ kind[r] = "once"
                                 THEN "closed" ELSE state[r]]
      /\ at' = [r \in Ids |-> IF r \in Delivered /\ kind[r] = "every"
                              THEN NextOccurrence(r, plan.stamp) ELSE at[r]]
  <2>1. \A r \in Delivered : state[r] = "active" /\ (kind[r] = "every" => plan.stamp >= at[r])
    BY <1>1, <1>2
  <2>2. corrupt = FALSE
    BY DEF LogFolds, Typed, TypeOK
  <2> QED
    BY <2>1, <2>2 DEF Dispatch
<1>4. Seen' = Seen /\ state' \in [Ids -> {"free", "active", "closed"}]
  <2>1. \A r \in Ids : state'[r] # "free" <=> state[r] # "free"
    BY <1>2, <1>3
  <2> QED
    BY <1>1, <1>3, <2>1 DEF Seen
<1>5. ASSUME NEW r \in Delivered, kind[r] = "every"
      PROVE  /\ Occurrence(r, plan.stamp) \in Nat
             /\ at[r] <= Occurrence(r, plan.stamp)
             /\ at'[r] > Occurrence(r, plan.stamp) /\ at'[r] > plan.stamp
             /\ NextOccurrence(r, plan.stamp) \in Times
  <2>1. PICK a \in Nat : a = at[r]
    BY <1>2
  <2>2. PICK t \in Nat : t = plan.stamp
    BY <1>1
  <2>3. a <= t
    BY <1>2, <1>5, <2>1, <2>2
  <2>4. PICK o : o = a + ((t - a) \div Period) * Period
    OBVIOUS
  <2>5. o \in Nat /\ a <= o /\ o <= t /\ t < o + Period
    BY <2>3, <2>4, LatestOccurrence
  <2>6. Occurrence(r, plan.stamp) = o /\ NextOccurrence(r, plan.stamp) = o + Period
    BY <1>5, <2>1, <2>2, <2>4 DEF Occurrence, OccurrenceOf, NextOccurrence
  <2>7. at'[r] = o + Period
    BY <1>2, <1>3, <1>5, <2>6
  <2>8. o + Period \in 0..(MaxTime + Period)
    BY <1>1, <2>2, <2>5
  <2> QED
    BY <2>1, <2>2, <2>5, <2>6, <2>7, <2>8 DEF Times
<1>6. at' \in [Ids -> Times]
  <2>1. \A r \in Ids : (IF r \in Delivered /\ kind[r] = "every"
                        THEN NextOccurrence(r, plan.stamp) ELSE at[r]) \in Times
    BY <1>1, <1>5
  <2> QED
    BY <1>3, <2>1
<1>7. \A r \in Ids \ Delivered : state'[r] = state[r] /\ at'[r] = at[r]
  BY <1>3
<1>8. \A r \in Delivered : kind[r] = "once" => state'[r] = "closed" /\ at'[r] = at[r]
  BY <1>2, <1>3
<1>9. \A r \in Delivered : kind[r] \in {"once", "every"}
  BY <1>1, <1>2
<1> QED
  BY <1>3, <1>4, <1>5, <1>6, <1>7, <1>8, <1>9

\* Nothing that was delivered can be sent once its dispatch is written.
LEMMA DispatchKeeps ==
    ASSUME ScheduleInv, pc = "settle", Dispatch(Delivered, plan.stamp),
           pc' \notin {"wait", "settle"}, plan' = NoPlan, faulted => faulted', Typed',
           UNCHANGED <<kind, sent, crashes, unread>>
    PROVE  ScheduleInv'
<1>1. NoPlan.items = {}
  BY DEF NoPlan
<1>2. Numbered' /\ LogFolds' /\ PlanKept' /\ TimerCoversRules'
  <2>1. Seen' = Seen /\ corrupt' = corrupt
    BY DispatchMoves
  <2> QED
    BY <1>1, <2>1 DEF ScheduleInv, Numbered, LogFolds, PlanKept, TimerCoversRules
<1>3. ASSUME NEW r \in Ids, NEW t \in Times PROVE Counted(r, t)'
  <2>1. Deliveries(<<r, t>>)' = Deliveries(<<r, t>>)
    BY DEF Deliveries
  <2>2. CanBeSent(r, t)' => CanBeSent(r, t)
    <3>1. CASE r \notin Delivered
      <4>1. state'[r] = state[r] /\ at'[r] = at[r]
        BY <3>1, DispatchMoves
      <4>2. <<r, t>> \notin plan.items
        BY <3>1 DEF Delivered
      <4> QED
        BY <4>1, <4>2 DEF CanBeSent, Active
    <3>2. CASE r \in Delivered
      <4>1. r \in Active
        BY <3>2 DEF Delivered, ScheduleInv, PlanKept
      <4>2. CASE state'[r] = "closed"
        BY <4>2 DEF CanBeSent, Active
      <4>3. CASE state'[r] # "closed"
        <5>1. PICK o \in Nat : o = Occurrence(r, plan.stamp)
          BY <3>2, <4>3, DispatchMoves
        <5>2. at[r] <= o /\ at'[r] > o /\ at[r] \in Nat /\ at'[r] \in Nat
          <6>1. at \in [Ids -> Times] /\ at' \in [Ids -> Times] /\ Times \subseteq Nat
            <7>1. at' \in [Ids -> Times]
              BY DispatchMoves
            <7>2. at \in [Ids -> Times]
              BY DEF ScheduleInv, Typed, TypeOK, Times
            <7>3. Times \subseteq Nat
              BY DEF Times
            <7> QED
              BY <7>1, <7>2, <7>3
          <6> QED
            BY <3>2, <4>3, <5>1, <6>1, DispatchMoves
        <5>3. <<r, t>> \in plan.items => t = o
          BY <5>1 DEF ScheduleInv, PlanKept
        <5>4. t \in Nat
          BY DEF Times
        <5>5. CanBeSent(r, t)' => at[r] <= t /\ t # o
          BY <5>2, <5>4 DEF CanBeSent
        <5>6. CanBeSent(r, t)' => ~faulted
          BY DEF CanBeSent
        <5> QED
          BY <4>1, <5>3, <5>5, <5>6 DEF CanBeSent
      <4> QED
        BY <4>2, <4>3
    <3> QED
      BY <3>1, <3>2
  <2> QED
    BY <2>1, <2>2 DEF ScheduleInv, Counted
<1> QED
  BY <1>2, <1>3 DEF ScheduleInv

LEMMA SettleKeeps == ScheduleInv /\ Settle => ScheduleInv'
<1> SUFFICES ASSUME ScheduleInv, Settle PROVE ScheduleInv'
  OBVIOUS
<1>1. /\ pc = "settle" /\ Dispatch(Delivered, plan.stamp)
      /\ pc' = "look" /\ plan' = NoPlan /\ NoPlan.items = {} /\ NoPlan \in Plans
      /\ UNCHANGED <<now, kind, inbox, target, permit, faulted, closing, worker,
                     unsignalled, bounds>>
  BY BoundsAreNumbers DEF Settle, Delivered, NoPlan, Plans
<1>2. Typed'
  <2>1. /\ corrupt' = corrupt /\ state' \in [Ids -> {"free", "active", "closed"}]
        /\ at' \in [Ids -> Times]
    BY <1>1, DispatchMoves
  <2> QED
    BY <1>1, <2>1 DEF ScheduleInv, Typed, TypeOK, Asleep, Times
<1> QED
  BY <1>1, <1>2, DispatchKeeps

LEMMA SettleFailsKeeps == ScheduleInv /\ SettleFails => ScheduleInv'
<1> SUFFICES ASSUME ScheduleInv, SettleFails PROVE ScheduleInv'
  OBVIOUS
<1>1. /\ pc = "settle" /\ faults < MaxFaults /\ faults' = faults + 1
      /\ pc' = "dormant" /\ plan' = NoPlan /\ NoPlan.items = {} /\ NoPlan \in Plans
      /\ faulted' = TRUE
      /\ UNCHANGED <<now, kind, inbox, target, permit, closing, worker,
                     unsignalled, userTurns, crashes, unread>>
  BY BoundsAreNumbers DEF SettleFails, Fault, NoPlan, Plans
<1>2. faults' \in 0..MaxFaults
  BY <1>1, BoundsAreNumbers DEF ScheduleInv, Typed, TypeOK
<1>3. CASE UNCHANGED rules
  <2>1. Typed'
    BY <1>1, <1>2, <1>3 DEF ScheduleInv, Typed, TypeOK, Asleep
  <2>2. PlanKept' /\ TimerCoversRules'
    BY <1>1 DEF PlanKept, TimerCoversRules
  <2> QED
    BY <1>1, <1>3, <2>1, <2>2, RulesRest
<1>4. CASE Dispatch(Delivered, plan.stamp)
  <2>1. Typed'
    <3>1. /\ corrupt' = corrupt /\ state' \in [Ids -> {"free", "active", "closed"}]
          /\ at' \in [Ids -> Times]
      BY <1>1, <1>4, DispatchMoves
    <3> QED
      BY <1>1, <1>2, <3>1 DEF ScheduleInv, Typed, TypeOK, Asleep, Times
  <2> QED
    BY <1>1, <1>4, <2>1, DispatchKeeps
<1> QED
  BY <1>3, <1>4 DEF SettleFails, Delivered

--------------------------------------------------------------------------------
(* The sleep, the agent and the host *)

LEMMA AwakeKeeps == ScheduleInv /\ Awake => ScheduleInv'
<1> SUFFICES ASSUME ScheduleInv, Awake PROVE ScheduleInv'
  OBVIOUS
<1>1. /\ pc \in Asleep /\ pc' = "look" /\ target' = Never /\ permit' \in BOOLEAN
      /\ UNCHANGED <<now, rules, inbox, plan, faulted, closing, worker,
                     unsignalled, bounds>>
  BY DEF Awake, TimerFires, IdleAgain, Stopped, Asleep, ScheduleInv, Typed, TypeOK
<1>2. plan.items = {}
  BY <1>1 DEF ScheduleInv, Typed, TypeOK, Asleep
<1>3. Typed'
  BY <1>1, <1>2 DEF ScheduleInv, Typed, TypeOK, Asleep
<1>4. PlanKept' /\ TimerCoversRules'
  BY <1>1, <1>2 DEF PlanKept, TimerCoversRules
<1>5. pc # "settle"
  BY <1>1 DEF Asleep
<1> QED
  BY <1>1, <1>3, <1>4, <1>5, RulesRest

LEMMA ShutdownKeeps == ScheduleInv /\ Shutdown => ScheduleInv'
<1> SUFFICES ASSUME ScheduleInv, Shutdown PROVE ScheduleInv'
  OBVIOUS
<1>1. /\ pc \in Asleep \cup {"look"} /\ pc' = "off" /\ target' = Never /\ closing' = TRUE
      /\ UNCHANGED <<now, rules, inbox, plan, permit, faulted, worker,
                     unsignalled, bounds>>
  BY DEF Shutdown
<1>2. plan.items = {} /\ pc # "settle"
  BY <1>1 DEF ScheduleInv, Typed, TypeOK, Asleep
<1>3. Typed'
  BY <1>1, <1>2 DEF ScheduleInv, Typed, TypeOK, Asleep
<1>4. PlanKept' /\ TimerCoversRules'
  BY <1>1, <1>2 DEF PlanKept, TimerCoversRules
<1> QED
  BY <1>1, <1>2, <1>3, <1>4, RulesRest

LEMMA AttachKeeps == ScheduleInv /\ Attach => ScheduleInv'
<1> SUFFICES ASSUME ScheduleInv, Attach PROVE ScheduleInv'
  OBVIOUS
<1>1. /\ pc = "off" /\ ~closing /\ pc' = "look" /\ permit' = TRUE
      /\ UNCHANGED <<now, rules, inbox, plan, target, faulted, closing, worker,
                     unsignalled, bounds>>
  BY DEF Attach
<1>2. plan.items = {} /\ target = Never
  BY <1>1 DEF ScheduleInv, Typed, TypeOK
<1>3. Typed'
  BY <1>1, <1>2 DEF ScheduleInv, Typed, TypeOK, Asleep
<1>4. PlanKept' /\ TimerCoversRules'
  BY <1>1, <1>2 DEF PlanKept, TimerCoversRules
<1> QED
  BY <1>1, <1>3, <1>4, RulesRest

LEMMA UserTurnKeeps == ScheduleInv /\ UserTurn => ScheduleInv'
<1> SUFFICES ASSUME ScheduleInv, UserTurn PROVE ScheduleInv'
  OBVIOUS
<1>1. /\ userTurns < MaxUserTurns /\ userTurns' = userTurns + 1
      /\ worker' = "turn" /\ permit' = TRUE
      /\ UNCHANGED <<now, rules, inbox, pc, plan, target, faulted, closing,
                     unsignalled, faults, crashes, unread>>
  BY DEF UserTurn
<1>2. userTurns' \in 0..MaxUserTurns
  BY <1>1, BoundsAreNumbers DEF ScheduleInv, Typed, TypeOK
<1>3. Typed'
  BY <1>1, <1>2 DEF ScheduleInv, Typed, TypeOK
<1>4. PlanKept' /\ TimerCoversRules'
  BY <1>1 DEF ScheduleInv, PlanKept, TimerCoversRules, WasSent, Active, Occurrence, OccurrenceOf
<1> QED
  BY <1>1, <1>3, <1>4, RulesRest

\* The agent's steps and the clock's touch neither the owner nor the log.
LEMMA OthersKeep ==
    ASSUME ScheduleInv, UNCHANGED <<rules, sent, owner, unsignalled, userTurns, crashes, unread>>,
           now' \in 0..MaxTime, taken' \in 0..Len(sent), worker' \in {"idle", "turn", "gone"},
           faults' \in 0..MaxFaults
    PROVE  ScheduleInv'
<1>1. Typed'
  BY DEF ScheduleInv, Typed, TypeOK
<1>2. PlanKept' /\ TimerCoversRules'
  BY DEF ScheduleInv, PlanKept, TimerCoversRules, WasSent, Active, Occurrence, OccurrenceOf
<1> QED
  BY <1>1, <1>2, RulesRest

LEMMA AgentKeeps ==
    ASSUME ScheduleInv, TakeReminder \/ EndTurn \/ WorkerDies \/ Tick
    PROVE  ScheduleInv'
<1>1. /\ now \in 0..MaxTime /\ taken \in 0..Len(sent) /\ Len(sent) \in Nat
      /\ worker \in {"idle", "turn", "gone"} /\ faults \in 0..MaxFaults
  BY DEF ScheduleInv, Typed, TypeOK
<1>2. CASE TakeReminder
  <2>1. taken' \in 0..Len(sent)
    BY <1>1, <1>2 DEF TakeReminder
  <2> QED
    BY <1>1, <1>2, <2>1, OthersKeep DEF TakeReminder
<1>3. CASE EndTurn
  BY <1>1, <1>3, OthersKeep DEF EndTurn
<1>4. CASE WorkerDies
  <2>1. faults' \in 0..MaxFaults
    BY <1>1, <1>4, BoundsAreNumbers DEF WorkerDies, Fault
  <2> QED
    BY <1>1, <1>4, <2>1, OthersKeep DEF WorkerDies
<1>5. CASE Tick
  <2>1. now' \in 0..MaxTime
    BY <1>1, <1>5, BoundsAreNumbers DEF Tick
  <2> QED
    BY <1>1, <1>5, <2>1, OthersKeep DEF Tick
<1> QED
  BY <1>2, <1>3, <1>4, <1>5

\* A crash forgets what was being delivered, and makes good for one repetition.
LEMMA CrashKeeps == ScheduleInv /\ Crash => ScheduleInv'
<1> SUFFICES ASSUME ScheduleInv, Crash PROVE ScheduleInv'
  OBVIOUS
<1>1. /\ crashes < MaxCrashes /\ crashes' = crashes + 1
      /\ pc' = "off" /\ plan' = NoPlan /\ target' = Never
      /\ NoPlan.items = {} /\ NoPlan \in Plans
      /\ permit' = FALSE /\ faulted' = FALSE /\ closing' = FALSE
      /\ worker' = "idle" /\ unsignalled' = {}
      /\ UNCHANGED <<now, rules, inbox, userTurns, faults, unread>>
  BY BoundsAreNumbers DEF Crash, NoPlan, Plans
<1>2. crashes' \in 0..MaxCrashes
  BY <1>1, BoundsAreNumbers DEF ScheduleInv, Typed, TypeOK
<1>3. Typed'
  BY <1>1, <1>2 DEF ScheduleInv, Typed, TypeOK
<1>4. PlanKept' /\ TimerCoversRules' /\ Numbered' /\ LogFolds'
  BY <1>1 DEF ScheduleInv, PlanKept, TimerCoversRules, Numbered, LogFolds, Seen
<1>5. ASSUME NEW r \in Ids, NEW t \in Times PROVE Counted(r, t)'
  <2>1. Deliveries(<<r, t>>)' = Deliveries(<<r, t>>)
    BY <1>1 DEF Deliveries
  <2>2. Cardinality(Deliveries(<<r, t>>)) <= 1 + crashes + unread
    BY DEF ScheduleInv, Counted
  <2>3. Cardinality(Deliveries(<<r, t>>)) \in Nat /\ crashes \in Nat /\ unread \in Nat
    BY DeliveriesAreFinite, SMTT(40) DEF ScheduleInv, Typed, TypeOK
  <2> QED
    BY <1>1, <2>1, <2>2, <2>3 DEF Counted
<1> QED
  BY <1>3, <1>4, <1>5 DEF ScheduleInv

LEMMA ScheduleRests == ScheduleInv /\ UNCHANGED vars => ScheduleInv'
<1> SUFFICES ASSUME ScheduleInv, UNCHANGED vars PROVE ScheduleInv'
  OBVIOUS
<1>1. UNCHANGED <<now, rules, inbox, owner, worker, unsignalled, bounds>>
  BY DEF vars
<1> QED
  BY <1>1, OthersKeep DEF ScheduleInv, Typed, TypeOK

--------------------------------------------------------------------------------
(* The theorems *)

LEMMA ScheduleStep == ScheduleInv /\ [Next]_vars => ScheduleInv'
<1> SUFFICES ASSUME ScheduleInv, [Next]_vars PROVE ScheduleInv'
  OBVIOUS
<1>1. CASE OwnerStep
  BY <1>1, LookKeeps, SendIdleKeeps, SendBusyKeeps, SendClosedKeeps, SettleKeeps,
     AwakeKeeps DEF OwnerStep
<1>2. CASE LookFails \/ SettleFails \/ Attach \/ UserTurn \/ Shutdown \/ Crash
  BY <1>2, LookFailsKeeps, SettleFailsKeeps, AttachKeeps, UserTurnKeeps, ShutdownKeeps,
     CrashKeeps
<1>3. CASE TakeReminder \/ EndTurn \/ WorkerDies \/ Tick
  BY <1>3, AgentKeeps
<1>4. CASE \E k \in KindsUsed :
              \E delay \in IF k = "every" THEN {Period} ELSE Delays : Create(k, delay)
  BY <1>4, CreateKeeps
<1>5. CASE \E r \in Ids : Delete(r)
  BY <1>5, DeleteKeeps
<1>6. CASE UNCHANGED vars
  BY <1>6, ScheduleRests
<1> QED
  BY <1>1, <1>2, <1>3, <1>4, <1>5, <1>6 DEF Next

LEMMA ScheduleHolds == Spec => []ScheduleInv
<1> QED
  BY ScheduleStarts, ScheduleStep, PTL DEF Spec

\* The events of a session's reminders always fold, a reminder is repeated at
\* most once for each crash and for each insertion that an outage hid from the
\* owner (drive_once takes a log it cannot read for one without the reminder),
\* and an owner asleep on its timer, with no signal waiting, wakes for every
\* rule it was told of: for any number of rules, any delays, period and clock,
\* and any store errors and crashes between the follow-up and the dispatch that
\* drive_once and append_dispatches write.
THEOREM RemindersAreKept == Spec => []RemindersKept
<1>1. ScheduleInv => RemindersKept
  <2> SUFFICES ASSUME ScheduleInv PROVE RemindersKept
    OBVIOUS
  <2>1. TypeOK /\ LogFolds /\ TimerCoversRules
    BY DEF ScheduleInv, Typed
  <2>2. RepeatsHaveCauses
    <3>1. ASSUME NEW i \in DOMAIN sent, NEW item \in sent[i].items
          PROVE  Cardinality(Deliveries(item)) <= 1 + crashes + unread
      <4>1. item \in Ids \X Times
        BY DEF ScheduleInv, Typed, TypeOK, Items, Times
      <4>2. PICK r \in Ids, t \in Times : item = <<r, t>>
        BY <4>1
      <4> QED
        BY <4>2 DEF ScheduleInv, Counted
    <3> QED
      BY <3>1 DEF RepeatsHaveCauses
  <2> QED
    BY <2>1, <2>2 DEF RemindersKept
<1> QED
  BY <1>1, ScheduleHolds, PTL

\* append_dispatches closes or moves a rule only with the reminder of that
\* occurrence in the inbox, and a periodic rule it moves is not due again at
\* the instant of the decision, however many periods were missed.
THEOREM DispatchesHold == Spec => DispatchesAreTrue
<1> DEFINE Sent == pc = "settle" =>
                      \A r \in Ids : at'[r] # at[r] \/ state'[r] # state[r]
                                        => Deliveries(<<r, Occurrence(r, plan.stamp)>>) # {}
           Past == pc = "settle" => \A r \in Ids : at'[r] # at[r] => at'[r] > plan.stamp
<1>1. ScheduleInv /\ [Next]_vars => [Sent]_vars /\ [Past]_vars
  <2> SUFFICES ASSUME ScheduleInv, Next, pc = "settle" PROVE Sent /\ Past
    OBVIOUS
  <2>1. UNCHANGED <<state, at>> \/ Dispatch(Delivered, plan.stamp)
    BY DEF Next, OwnerStep, Look, LookFails, SendIdle, SendBusy, SendClosed, Settle,
           SettleFails, Awake, TimerFires, IdleAgain, Stopped, Asleep, Create, Delete,
           LockFree, Attach, UserTurn, TakeReminder, EndTurn, WorkerDies, Shutdown,
           Crash, Tick, Delivered
  <2>2. CASE UNCHANGED <<state, at>>
    BY <2>2
  <2>3. CASE Dispatch(Delivered, plan.stamp)
    <3>1. ASSUME NEW r \in Ids, at'[r] # at[r] \/ state'[r] # state[r]
          PROVE  /\ Deliveries(<<r, Occurrence(r, plan.stamp)>>) # {}
                 /\ at'[r] # at[r] => at'[r] > plan.stamp
      <4>1. r \in Delivered
        BY <2>3, <3>1, DispatchMoves
      <4>2. PICK item \in plan.items : r = item[1]
        BY <4>1 DEF Delivered
      <4>3. item = <<r, Occurrence(r, plan.stamp)>>
        <5>1. item \in Items /\ item[2] = Occurrence(r, plan.stamp)
          BY <4>2 DEF ScheduleInv, Typed, Plans, PlanKept
        <5> QED
          BY <4>2, <5>1 DEF Items
      <4>4. WasSent
        BY DEF ScheduleInv, PlanKept
      <4>5. Deliveries(<<r, Occurrence(r, plan.stamp)>>) # {}
        BY <4>2, <4>3, <4>4 DEF WasSent, Deliveries
      <4>6. at'[r] # at[r] => at'[r] > plan.stamp
        BY <2>3, <4>1, DispatchMoves
      <4> QED
        BY <4>5, <4>6
    <3> QED
      BY <3>1
  <2> QED
    BY <2>1, <2>2, <2>3
<1>2. Spec => [][Sent]_vars /\ [][Past]_vars
  <2> HIDE DEF Sent, Past
  <2> QED
    BY <1>1, ScheduleHolds, PTL DEF Spec
<1> QED
  BY <1>2 DEF DispatchesAreTrue, DispatchedWasSent, CatchesUpAtOnce

HIDE ScheduleAssumption DEF ScheduleAssumption, rules, inbox, owner, bounds

(***************************************************************************)
(* What the session file keeps, for any number of handles, appends and     *)
(* power losses, and that the store implements the log it promises.        *)
(***************************************************************************)

USE StoreAssumption DEF StoreAssumption, promises

\* A file whose whole lines are those of a session, as far as they go.
Sound(f) ==
    /\ ~f.exists => f = Absent
    /\ f.lines # <<>> => Readable(f)

\* The disk never has what the file has not.
DiskBehind ==
    /\ disk.exists => file.exists
    /\ Len(disk.lines) <= Len(file.lines)
    /\ \A i \in 1..Len(disk.lines) : disk.lines[i] = file.lines[i]

\* A snapshot is what a parse of the contents it is for would give.
CacheTrue ==
    \A h \in Handles : cache[h].for.exists =>
        /\ cache[h].lines = cache[h].for.lines
        /\ cache[h].bare = (cache[h].for.tail = "bare")

\* A create() in progress has an empty file, which is not on the disk.
Creating ==
    \A h \in Handles : op[h] = "header" =>
        /\ file = [exists |-> TRUE, lines |-> <<>>, tail |-> "ended"]
        /\ disk = Absent

\* An append in progress works from the lines of the file, at the revision its
\* caller was shown, and its batch is not there yet.
Appending ==
    \A h \in Handles : op[h] \in {"repair", "separate", "write"} =>
        /\ file.exists /\ file.lines # <<>>
        /\ loaded[h].lines = file.lines
        /\ Len(file.lines) = Len(view[h]) + 1
        /\ tries > 0 /\ \A i \in 2..Len(file.lines) : file.lines[i].batch # tries
        /\ op[h] = "separate" => file.tail = IF loaded[h].bare THEN "bare" ELSE "ended"
        /\ op[h] = "write" => file.tail = "ended"

\* Every batch in the file is one of the attempts so far.
Attempted == \A i \in 2..Len(file.lines) : file.lines[i].batch \in 1..tries

\* What was promised is in the file, what was flushed on the disk.
Promised ==
    /\ created => file.lines # <<>> /\ disk.lines # <<>>
    /\ Len(flushed) > 0 => Len(flushed) < Len(disk.lines)
    /\ \A a \in acked :
          /\ a.boot <= losses
          /\ a.boot = losses => /\ a.at \in 1..(Len(file.lines) - 1)
                                /\ file.lines[a.at + 1].batch = a.batch

StoreInv ==
    /\ StoreTypeOK
    /\ Sound(file) /\ Sound(disk) /\ DiskBehind
    /\ CacheTrue /\ Creating /\ Appending /\ Attempted /\ Promised

--------------------------------------------------------------------------------
(* Writing a line *)

\* After a whole line a record is appended, a torn one leaves the lines alone.
LEMMA PutWhole ==
    ASSUME NEW f \in Files, f.tail = "ended", NEW r \in Record,
           NEW cut \in {"torn", "bare", "ended"}
    PROVE  /\ Put(f, r, cut) \in Files
           /\ Put(f, r, cut).exists = f.exists
           /\ Put(f, r, cut).tail = cut
           /\ Put(f, r, cut).lines = IF cut = "torn" THEN f.lines ELSE Append(f.lines, r)
BY DEF Put, Files

\* What a write that is cut short, or completes, leaves of the file.
LEMMA Cuts ==
    ASSUME StoreInv, NEW h \in Handles, NEW f \in Interrupted(h)
    PROVE  /\ f \in Files
           /\ \/ f = file
              \/ /\ op[h] = "header" /\ f.exists
                 /\ f.lines \in {file.lines, Append(file.lines, Header)}
              \/ /\ op[h] = "write" /\ f.exists
                 /\ f.lines \in {file.lines, Append(file.lines, NewBatch(h))}
<1>1. file \in Files
  BY DEF StoreInv, StoreTypeOK
<1>2. CASE op[h] = "header"
  <2>1. Header \in Record
    BY DEF Header, Record
  <2>2. file.exists /\ file.tail = "ended"
    BY <1>2 DEF StoreInv, Creating
  <2>3. f = file \/ \E c \in {"torn", "bare", "ended"} : f = Put(file, Header, c)
    BY <1>2 DEF Interrupted
  <2>4. ASSUME NEW c \in {"torn", "bare", "ended"}, f = Put(file, Header, c)
        PROVE  f \in Files /\ f.exists /\ f.lines \in {file.lines, Append(file.lines, Header)}
    BY <1>1, <2>1, <2>2, <2>4, PutWhole
  <2> QED
    BY <1>1, <1>2, <2>2, <2>3, <2>4
<1>3. CASE op[h] = "write"
  <2>1. NewBatch(h) \in Record
    BY <1>3 DEF NewBatch, Batch, Record, StoreInv, StoreTypeOK
  <2>2. file.tail = "ended" /\ file.exists
    BY <1>3 DEF StoreInv, Appending
  <2>3. f = file \/ \E c \in {"torn", "bare", "ended"} : f = Put(file, NewBatch(h), c)
    BY <1>3 DEF Interrupted
  <2>4. ASSUME NEW c \in {"torn", "bare", "ended"}, f = Put(file, NewBatch(h), c)
        PROVE  /\ f \in Files /\ f.exists
               /\ f.lines \in {file.lines, Append(file.lines, NewBatch(h))}
    BY <1>1, <2>1, <2>2, <2>4, PutWhole
  <2> QED
    BY <1>1, <1>3, <2>3, <2>4
<1>4. CASE op[h] \notin {"header", "write"}
  BY <1>1, <1>4 DEF Interrupted
<1> QED
  BY <1>2, <1>3, <1>4

\* The first record makes a file sound, and the next one keeps it so.
LEMMA SoundStarts ==
    ASSUME NEW f \in Files, NEW g \in Files, f.lines = <<>>, g.exists,
           g.lines = Append(f.lines, Header)
    PROVE  Sound(g) /\ Len(g.lines) = 1
<1>1. Len(f.lines) = 0 /\ f.lines \in Seq(Record) /\ Header \in Record
  BY DEF Files, Header, Record
<1>2. Len(g.lines) = 1 /\ g.lines[1] = Header
  BY <1>1, AppendProperties
<1> QED
  BY <1>2 DEF Sound, Readable

LEMMA SoundGrows ==
    ASSUME NEW f \in Files, NEW g \in Files, Sound(f), f.lines # <<>>, g.exists,
           NEW b \in Nat, g.lines = Append(f.lines, Batch(b, Len(f.lines) - 1))
    PROVE  Sound(g)
BY DEF Sound, Readable, Files, Batch

LEMMA SoundStays ==
    ASSUME NEW f \in Files, NEW g \in Files, Sound(f), f.exists, g.exists, g.lines = f.lines
    PROVE  Sound(g)
BY DEF Sound, Readable, Files

\* A snapshot that matches the file is what a parse of it gives.
LEMMA SnapshotTrue ==
    ASSUME StoreInv, NEW h \in Handles, Readable(file)
    PROVE  Snapshot(h) = Parse(file)
BY DEF StoreInv, CacheTrue, Snapshot, Parse, Readable

\* With the lock free no operation is in progress.
LEMMA FreeMeansIdle ==
    ASSUME StoreInv, lock = Nobody, NEW h \in Handles
    PROVE  op[h] = "idle"
BY DEF StoreInv, StoreTypeOK

LEMMA OneAtATime ==
    ASSUME StoreInv, NEW h \in Handles, op[h] # "idle", NEW g \in Handles, g # h
    PROVE  op[g] = "idle"
BY DEF StoreInv, StoreTypeOK

\* The revisions of the lines of a sound file are those of its batches.
LEMMA BatchesType ==
    ASSUME StoreInv, NEW ls \in Seq(Record), Len(ls) > 0,
           \A i \in 2..Len(ls) : ls[i].batch \in 1..tries
    PROVE  /\ BatchesOf(ls) \in Seq(1..MaxAppends)
           /\ Len(BatchesOf(ls)) = Len(ls) - 1
<1> DEFINE n == Len(ls) - 1
<1>1. n \in Nat /\ tries \in 0..MaxAppends
  BY DEF StoreInv, StoreTypeOK
<1>2. \A i \in 1..n : ls[i + 1].batch \in 1..MaxAppends
  BY <1>1
<1>3. BatchesOf(ls) \in [1..n -> 1..MaxAppends]
  BY <1>2 DEF BatchesOf
<1> QED
  BY <1>1, <1>3

\* What a reader of a readable file is given.
LEMMA ReadFacts ==
    ASSUME StoreInv, NEW h \in Handles, Readable(file)
    PROVE  /\ file \in Files /\ file.lines \in Seq(Record) /\ Len(file.lines) > 0
           /\ Snapshot(h).lines = file.lines /\ Snapshot(h).bare = (file.tail = "bare")
           /\ Snapshot(h) \in [lines : Seq(Record), bare : BOOLEAN]
           /\ BatchesOf(file.lines) \in Seq(1..MaxAppends)
           /\ Len(BatchesOf(file.lines)) = Len(file.lines) - 1
<1>1. file \in Files /\ file.lines \in Seq(Record)
  BY DEF StoreInv, StoreTypeOK, Files
<1>2. Len(file.lines) > 0
  BY <1>1, EmptySeq DEF Readable
<1>3. Snapshot(h) = [lines |-> file.lines, bare |-> file.tail = "bare"]
  BY SnapshotTrue DEF Parse
<1> QED
  BY <1>1, <1>2, <1>3, BatchesType DEF StoreInv, Attempted

CacheType == cache \in [Handles -> [for : Files, lines : Seq(Record), bare : BOOLEAN]]

\* A cache that is filled from the file, or emptied, stays true.
LEMMA RememberTrue ==
    ASSUME StoreInv, NEW h \in Handles, NEW f \in Files,
           NEW l \in [lines : Seq(Record), bare : BOOLEAN],
           l.lines = f.lines, l.bare = (f.tail = "bare"), Remember(h, f, l)
    PROVE  CacheTrue' /\ CacheType'
BY DEF StoreInv, StoreTypeOK, CacheTrue, CacheType, Remember

LEMMA AbsentType ==
    /\ Absent \in Files /\ ~Absent.exists /\ Absent.lines = <<>> /\ Len(Absent.lines) = 0
    /\ NoCache \in [for : Files, lines : Seq(Record), bare : BOOLEAN] /\ ~NoCache.for.exists
    /\ Nothing \in [lines : Seq(Record), bare : BOOLEAN]
BY DEF Absent, Files, NoCache, Nothing

LEMMA ForgetTrue ==
    ASSUME StoreInv, NEW h \in Handles, Forget(h)
    PROVE  CacheTrue' /\ CacheType'
BY AbsentType DEF StoreInv, StoreTypeOK, CacheTrue, CacheType, Forget

\* Nothing was promised of a file without lines.
LEMMA NothingPromised ==
    ASSUME StoreInv, Len(file.lines) = 0
    PROVE  /\ disk.lines = <<>> /\ file.lines = <<>> /\ Len(disk.lines) = 0
           /\ ~created /\ Len(flushed) = 0
           /\ \A a \in acked : a.boot <= losses /\ a.boot # losses
<1>1. file.lines \in Seq(Record) /\ disk.lines \in Seq(Record) /\ flushed \in Seq(1..MaxAppends)
  BY DEF StoreInv, StoreTypeOK, Files
<1>2. disk.lines = <<>> /\ file.lines = <<>> /\ Len(disk.lines) = 0
  BY <1>1, EmptySeq, LenProperties DEF StoreInv, DiskBehind
<1> QED
  BY <1>1, <1>2, LenProperties DEF StoreInv, Promised

--------------------------------------------------------------------------------
(* What a step does to the lines of the file *)

\* The part of the invariant that is about lines.
Contents == Sound(file) /\ Sound(disk) /\ DiskBehind /\ Attempted /\ Promised

LEMMA SameLines ==
    ASSUME StoreInv, file' \in Files, file.exists, file'.exists, file'.lines = file.lines,
           UNCHANGED <<disk, created, flushed, acked, losses>>,
           tries' \in Nat, tries <= tries'
    PROVE  Contents'
<1>1. file \in Files /\ Sound(file)
  BY DEF StoreInv, StoreTypeOK
<1>2. Sound(file)'
  BY <1>1, SoundStays DEF Sound, Readable
<1> QED
  BY <1>2 DEF StoreInv, StoreTypeOK, Contents, Sound, Readable, DiskBehind, Attempted, Promised

LEMMA MoreLines ==
    ASSUME StoreInv, NEW h \in Handles, op[h] = "write", file' \in Files, file'.exists,
           file'.lines = Append(file.lines, NewBatch(h)),
           UNCHANGED <<disk, created, flushed, tries, losses>>,
           acked' \subseteq acked \cup
                            {[batch |-> tries, at |-> Expected(h) + 1, boot |-> losses]}
    PROVE  Contents'
<1>1. /\ file \in Files /\ file.lines \in Seq(Record) /\ file.lines # <<>> /\ file.exists
      /\ Len(file.lines) = Len(view[h]) + 1 /\ tries \in Nat /\ tries > 0
      /\ NewBatch(h) \in Record
  BY DEF StoreInv, StoreTypeOK, Appending, Files, NewBatch, Batch, Record
<1>2. /\ Len(file'.lines) = Len(file.lines) + 1 /\ file'.lines[Len(file.lines) + 1] = NewBatch(h)
      /\ \A i \in 1..Len(file.lines) : file'.lines[i] = file.lines[i]
  BY <1>1, AppendProperties
<1>3. Sound(file)'
  BY <1>1, SoundGrows DEF StoreInv, NewBatch
<1>4. Sound(disk)' /\ DiskBehind'
  <2>1. disk.lines \in Seq(Record) /\ Len(disk.lines) \in Nat
    BY LenProperties DEF StoreInv, StoreTypeOK, Files
  <2>2. Sound(disk)'
    BY DEF StoreInv, Sound, Readable
  <2>3. DiskBehind'
    BY <1>1, <1>2, <2>1 DEF StoreInv, DiskBehind
  <2> QED
    BY <2>2, <2>3
<1>5. Attempted'
  <2>1. NewBatch(h).batch = tries /\ tries \in 1..tries
    BY <1>1 DEF NewBatch, Batch
  <2>2. \A i \in 2..Len(file.lines) : file.lines[i].batch \in 1..tries
    BY DEF StoreInv, Attempted
  <2>3. ASSUME NEW i \in 2..Len(file'.lines) PROVE file'.lines[i].batch \in 1..tries
    <3>1. i = Len(file.lines) + 1 \/ (i \in 2..Len(file.lines) /\ i \in 1..Len(file.lines))
      BY <1>1, <1>2
    <3> QED
      BY <1>2, <2>1, <2>2, <3>1
  <2> QED
    BY <2>3 DEF Attempted
<1>6. Promised'
  <2>1. file'.lines # <<>>
    BY <1>1, <1>2
  <2>2. Promised
    BY DEF StoreInv
  <2>3. ASSUME NEW a \in acked'
        PROVE  /\ a.boot <= losses
               /\ a.boot = losses => /\ a.at \in 1..(Len(file'.lines) - 1)
                                     /\ file'.lines[a.at + 1].batch = a.batch
    <3>1. losses \in Nat
      BY DEF StoreInv, StoreTypeOK
    <3>2. CASE a \in acked
      BY <1>1, <1>2, <2>2, <3>2 DEF Promised
    <3>3. CASE a = [batch |-> tries, at |-> Expected(h) + 1, boot |-> losses]
      <4>1. Expected(h) + 1 = Len(file.lines)
        BY <1>1 DEF Expected
      <4> QED
        BY <1>1, <1>2, <3>1, <3>3, <4>1 DEF NewBatch, Batch
    <3> QED
      BY <3>2, <3>3
  <2> QED
    BY <2>1, <2>2, <2>3 DEF Promised
<1> QED
  BY <1>3, <1>4, <1>5, <1>6 DEF Contents

\* With no operation left there is nothing to say about one.
LEMMA AllIdle ==
    ASSUME \A g \in Handles : op'[g] = "idle"
    PROVE  Creating' /\ Appending'
BY DEF Creating, Appending

LEMMA Together ==
    ASSUME StoreTypeOK', Contents', CacheTrue', Creating', Appending'
    PROVE  StoreInv'
BY DEF StoreInv, Contents

LEMMA LeaveFacts ==
    ASSUME StoreInv, NEW h \in Handles, op[h] # "idle", Leave(h)
    PROVE  /\ \A g \in Handles : op'[g] = "idle"
           /\ op' \in [Handles -> {"idle", "header", "repair", "separate", "write"}]
           /\ lock' = Nobody
           /\ loaded' \in [Handles -> [lines : Seq(Record), bare : BOOLEAN]]
BY OneAtATime, AbsentType DEF StoreInv, StoreTypeOK, Leave

--------------------------------------------------------------------------------
(* Every step keeps the invariant *)

LEMMA CreateFileKeeps ==
    ASSUME StoreInv, NEW h \in Handles, CreateFile(h)
    PROVE  StoreInv'
<1>1. /\ file = Absent /\ disk = Absent /\ Len(file.lines) = 0 /\ Len(disk.lines) = 0
  BY AbsentType DEF StoreInv, CreateFile, Sound, DiskBehind
<1>2. file' = [exists |-> TRUE, lines |-> <<>>, tail |-> "ended"]
  BY DEF CreateFile, Absent
<1>3. /\ file' \in Files /\ file'.exists /\ Len(file'.lines) = 0 /\ file'.lines = <<>>
  BY <1>2 DEF Files
<1>4. StoreTypeOK'
  BY <1>3, FreeMeansIdle DEF StoreInv, StoreTypeOK, CreateFile
<1>5. Sound(file)' /\ Sound(disk)' /\ DiskBehind'
  BY <1>1, <1>3 DEF StoreInv, CreateFile, Sound, Readable, DiskBehind
<1>6. Attempted' /\ Promised'
  BY <1>1, <1>3, NothingPromised DEF CreateFile, Attempted, Promised
<1>7. CacheTrue'
  BY DEF StoreInv, CreateFile, CacheTrue
<1>8. Creating' /\ Appending'
  BY <1>1, <1>2, FreeMeansIdle DEF CreateFile, Creating, Appending, StoreInv, StoreTypeOK
<1> QED
  BY <1>4, <1>5, <1>6, <1>7, <1>8 DEF StoreInv

\* A header that is written whole and synced.
LEMMA HeaderWritten ==
    ASSUME StoreInv, NEW h \in Handles, op[h] = "header",
           file' = Put(file, Header, "ended"), disk' = file',
           UNCHANGED <<acked, flushed, tries, losses>>
    PROVE  /\ file' \in Files /\ Contents' /\ Len(file'.lines) = 1
           /\ file'.lines \in Seq(Record)
<1>1. /\ file \in Files /\ file.tail = "ended" /\ file.exists /\ file.lines = <<>>
      /\ Len(file.lines) = 0 /\ Header \in Record
  BY DEF StoreInv, StoreTypeOK, Creating, Header, Record
<1>2. file' \in Files /\ file'.exists /\ file'.lines = Append(file.lines, Header)
  BY <1>1, PutWhole
<1>3. Sound(file)' /\ Len(file'.lines) = 1
  BY <1>1, <1>2, SoundStarts
<1>4. Sound(disk)' /\ DiskBehind' /\ file'.lines \in Seq(Record)
  BY <1>2, <1>3, LenProperties DEF Sound, Readable, DiskBehind, Files
<1>5. Attempted'
  BY <1>3, <1>4 DEF Attempted
<1>6. Promised'
  <2>1. file'.lines # <<>> /\ disk'.lines # <<>>
    BY <1>3
  <2> QED
    BY <1>1, <2>1, NothingPromised DEF Promised
<1> QED
  BY <1>2, <1>3, <1>4, <1>5, <1>6 DEF Contents

LEMMA CreateHeaderKeeps ==
    ASSUME StoreInv, NEW h \in Handles, CreateHeader(h)
    PROVE  StoreInv'
<1>1. file' \in Files /\ Contents' /\ Len(file'.lines) = 1 /\ file'.lines \in Seq(Record)
  BY HeaderWritten DEF CreateHeader
<1>2. CacheTrue' /\ CacheType'
  <2>1. Parse(file') \in [lines : Seq(Record), bare : BOOLEAN]
    BY <1>1 DEF Parse
  <2> QED
    BY <1>1, <2>1, RememberTrue DEF CreateHeader, Parse
<1>3. StoreTypeOK'
  <2>1. view' \in [Handles -> Seq(1..MaxAppends)]
    BY EmptySeq DEF StoreInv, StoreTypeOK, CreateHeader
  <2> QED
    BY <1>1, <1>2, <2>1, LeaveFacts DEF StoreInv, StoreTypeOK, CreateHeader, CacheType
<1> QED
  BY <1>1, <1>2, <1>3, LeaveFacts, AllIdle, Together DEF CreateHeader

\* Whatever an interrupted operation leaves of the file is sound and keeps
\* what was promised.
LEMMA CutKeeps ==
    ASSUME StoreInv, NEW h \in Handles, file' \in Interrupted(h),
           UNCHANGED <<disk, promises, tries, losses>>
    PROVE  file' \in Files /\ Contents'
<1>1. /\ file' \in Files
      /\ \/ file' = file
         \/ /\ op[h] = "header" /\ file'.exists
            /\ file'.lines \in {file.lines, Append(file.lines, Header)}
         \/ /\ op[h] = "write" /\ file'.exists
            /\ file'.lines \in {file.lines, Append(file.lines, NewBatch(h))}
  BY Cuts
<1>2. CASE file' = file
  <2>1. Sound(file)' /\ Sound(disk)' /\ DiskBehind'
    BY <1>2 DEF StoreInv, Sound, Readable, DiskBehind
  <2>2. Attempted' /\ Promised'
    BY <1>2 DEF StoreInv, Attempted, Promised
  <2> QED
    BY <1>1, <2>1, <2>2 DEF Contents
<1>3. CASE op[h] = "header" /\ file'.exists /\ file'.lines \in {file.lines, Append(file.lines, Header)}
  <2>1. /\ file \in Files /\ disk = Absent /\ file.exists /\ file.lines = <<>>
        /\ Len(file.lines) = 0
    BY <1>3 DEF StoreInv, StoreTypeOK, Creating
  <2>2. Sound(file)' /\ Len(file'.lines) < 2
    <3>1. CASE file'.lines = file.lines
      BY <1>1, <1>3, <2>1, <3>1, SoundStays DEF StoreInv
    <3>2. CASE file'.lines = Append(file.lines, Header)
      <4>1. Sound(file') /\ Len(file'.lines) = 1
        BY <1>1, <1>3, <2>1, <3>2, SoundStarts
      <4> QED
        BY <4>1
    <3> QED
      BY <1>3, <3>1, <3>2
  <2> QED
    BY <1>1, <1>3, <2>1, <2>2, AbsentType, NothingPromised
       DEF StoreInv, Contents, Sound, Readable, DiskBehind, Attempted, Promised
<1>4. CASE op[h] = "write" /\ file'.exists
           /\ file'.lines \in {file.lines, Append(file.lines, NewBatch(h))}
  <2>1. file.exists /\ tries \in Nat
    BY <1>4 DEF StoreInv, StoreTypeOK, Appending
  <2> QED
    BY <1>1, <1>4, <2>1, SameLines, MoreLines
<1> QED
  BY <1>1, <1>2, <1>3, <1>4

LEMMA CreateFailsKeeps ==
    ASSUME StoreInv, NEW h \in Handles, CreateFails(h)
    PROVE  StoreInv'
<1>1. /\ op[h] = "header" /\ Leave(h) /\ UNCHANGED <<cache, view, promises, tries, losses>>
      /\ file \in Files /\ disk = Absent /\ file.exists /\ file.lines = <<>> /\ Len(file.lines) = 0
  BY DEF CreateFails, StoreInv, StoreTypeOK, Creating
<1>2. file' \in Files /\ disk' \in Files /\ Contents'
  <2>1. CASE file' = Put(file, Header, "ended") /\ disk' = file'
    BY <1>1, <2>1, HeaderWritten
  <2>2. CASE file' = Absent /\ UNCHANGED disk
    BY <1>1, <2>2, AbsentType, NothingPromised
       DEF Contents, Sound, Readable, DiskBehind, Attempted, Promised
  <2>3. CASE file' \in Interrupted(h) /\ UNCHANGED disk
    BY <1>1, <2>3, CutKeeps DEF StoreInv, StoreTypeOK
  <2> QED
    BY <2>1, <2>2, <2>3 DEF CreateFails
<1>3. StoreTypeOK' /\ CacheTrue'
  BY <1>1, <1>2, LeaveFacts, SMTT(40) DEF StoreInv, StoreTypeOK, CacheTrue
<1> QED
  BY <1>1, <1>2, <1>3, LeaveFacts, AllIdle, Together

LEMMA ReadKeeps ==
    ASSUME StoreInv, NEW h \in Handles,
           Load(h) \/ Flush(h) \/ FlushFails(h) \/ AppendConflict(h)
    PROVE  StoreInv'
<1>1. /\ Readable(file) /\ lock = Nobody
      /\ UNCHANGED <<file, lock, op, loaded, created, acked, tries, losses>>
  BY DEF Load, Flush, FlushFails, AppendConflict
<1>2. /\ file \in Files /\ file.lines \in Seq(Record) /\ Len(file.lines) > 0
      /\ Snapshot(h).lines = file.lines /\ Snapshot(h).bare = (file.tail = "bare")
      /\ Snapshot(h) \in [lines : Seq(Record), bare : BOOLEAN]
      /\ BatchesOf(file.lines) \in Seq(1..MaxAppends)
      /\ Len(BatchesOf(file.lines)) = Len(file.lines) - 1
  BY <1>1, ReadFacts
<1>3. CacheTrue' /\ CacheType'
  BY <1>2, RememberTrue, ForgetTrue DEF Load, Flush, FlushFails, AppendConflict
<1>4. disk' \in Files /\ disk' \in {disk, file} /\ (flushed' # flushed => disk' = file)
  BY <1>2 DEF Load, Flush, FlushFails, AppendConflict, SyncAll, StoreInv, StoreTypeOK
<1>5. /\ flushed' \in Seq(1..MaxAppends)
      /\ flushed' # flushed => Len(flushed') = Len(file.lines) - 1
  BY <1>2 DEF Load, Flush, FlushFails, AppendConflict, StoreInv, StoreTypeOK
<1>6. view' \in [Handles -> Seq(1..MaxAppends)]
  BY <1>2 DEF Load, Flush, FlushFails, AppendConflict, StoreInv, StoreTypeOK
<1>7. StoreTypeOK'
  BY <1>1, <1>3, <1>4, <1>5, <1>6 DEF StoreInv, StoreTypeOK, CacheType
<1>8. Sound(file)' /\ Sound(disk)' /\ DiskBehind' /\ Attempted'
  <2>1. CASE disk' = disk
    BY <1>1, <2>1 DEF StoreInv, Sound, Readable, DiskBehind, Attempted
  <2>2. CASE disk' = file
    BY <1>1, <1>2, <2>2 DEF StoreInv, Sound, Readable, DiskBehind, Attempted
  <2> QED
    BY <1>4, <2>1, <2>2
<1>9. Promised'
  <2>1. flushed \in Seq(1..MaxAppends) /\ Len(flushed) \in Nat /\ Len(disk.lines) \in Nat
    BY LenProperties DEF StoreInv, StoreTypeOK, Files
  <2>2. Len(disk.lines) <= Len(disk'.lines) /\ (disk.lines # <<>> => disk'.lines # <<>>)
    BY <1>2, <1>4, <2>1 DEF StoreInv, DiskBehind
  <2>3. Len(flushed') > 0 => Len(flushed') < Len(disk'.lines)
    BY <1>2, <1>4, <1>5, <2>1, <2>2 DEF StoreInv, Promised
  <2> QED
    BY <1>1, <2>2, <2>3 DEF StoreInv, Promised
<1>10. Creating' /\ Appending'
  BY <1>1, FreeMeansIdle, AllIdle
<1> QED
  BY <1>3, <1>7, <1>8, <1>9, <1>10 DEF StoreInv

LEMMA AppendBeginKeeps ==
    ASSUME StoreInv, NEW h \in Handles, AppendBegin(h)
    PROVE  StoreInv'
<1>1. /\ Readable(file) /\ lock = Nobody /\ tries < MaxAppends /\ tries' = tries + 1
      /\ UNCHANGED <<file, disk, view, promises, losses>>
      /\ tries \in Nat /\ file.exists /\ file.lines # <<>>
  <2>1. tries \in 0..MaxAppends
    BY DEF StoreInv, StoreTypeOK
  <2>2. tries \in Nat
    BY <2>1
  <2>3. file.exists /\ file.lines # <<>>
    BY DEF AppendBegin, Readable
  <2> QED
    BY <2>2, <2>3 DEF AppendBegin
<1>2. /\ file \in Files /\ Snapshot(h).lines = file.lines
      /\ Snapshot(h) \in [lines : Seq(Record), bare : BOOLEAN]
      /\ Len(file.lines) = Len(view[h]) + 1
  <2>1. Len(file.lines) \in Nat /\ Len(view[h]) \in Nat
    BY LenProperties DEF StoreInv, StoreTypeOK, Files
  <2> QED
    BY <1>1, <2>1, ReadFacts DEF AppendBegin, Matches, Expected
<1>3. CacheTrue' /\ CacheType'
  BY ForgetTrue DEF AppendBegin
<1>4. /\ loaded' \in [Handles -> [lines : Seq(Record), bare : BOOLEAN]]
      /\ loaded'[h].lines = file.lines
  BY <1>2 DEF AppendBegin, StoreInv, StoreTypeOK
<1>5. /\ op' \in [Handles -> {"idle", "header", "repair", "separate", "write"}]
      /\ op'[h] = "repair" /\ lock' = h /\ \A g \in Handles : g # h => op'[g] = "idle"
  BY <1>1, FreeMeansIdle DEF AppendBegin, StoreInv, StoreTypeOK
<1>6. StoreTypeOK'
  <2>1. lock' \in Handles \cup {Nobody} /\ \A g \in Handles : op'[g] # "idle" <=> lock' = g
    BY <1>5
  <2>2. tries' \in 0..MaxAppends
    BY <1>1 DEF StoreInv, StoreTypeOK
  <2>3. cache' \in [Handles -> [for : Files, lines : Seq(Record), bare : BOOLEAN]]
    BY <1>3 DEF CacheType
  <2>4. op' \in [Handles -> {"idle", "header", "repair", "separate", "write"}]
    BY <1>5
  <2>5. loaded' \in [Handles -> [lines : Seq(Record), bare : BOOLEAN]]
    BY <1>4
  <2>6. StoreTypeOK
    BY DEF StoreInv
  <2> QED
    BY <1>1, <2>1, <2>2, <2>3, <2>4, <2>5, <2>6, Zenon DEF StoreTypeOK
<1>7. Contents'
  BY <1>1, <1>2, SameLines
<1>8. Creating' /\ Appending'
  <2>1. tries' > 0 /\ \A i \in 2..Len(file.lines) : file.lines[i].batch # tries'
    BY <1>1 DEF StoreInv, Attempted
  <2> QED
    BY <1>1, <1>2, <1>4, <1>5, <2>1 DEF Creating, Appending
<1> QED
  BY <1>3, <1>6, <1>7, <1>8, Together

LEMMA AppendRepairKeeps ==
    ASSUME StoreInv, NEW h \in Handles, AppendRepair(h) \/ AppendSeparate(h)
    PROVE  StoreInv'
<1>1. /\ UNCHANGED <<disk, lock, loaded, cache, view, promises, tries, losses>>
      /\ op[h] \in {"repair", "separate"} /\ file.exists /\ file \in Files /\ tries \in Nat
      /\ loaded[h].lines = file.lines /\ loaded[h].bare \in BOOLEAN
      /\ file.lines \in Seq(Record)
  BY DEF AppendRepair, AppendSeparate, StoreInv, StoreTypeOK, Appending, Files
<1>2. /\ file' \in Files /\ file'.exists /\ file'.lines = file.lines
      /\ op'[h] = "separate" => file'.tail = IF loaded[h].bare THEN "bare" ELSE "ended"
      /\ op'[h] = "write" => file'.tail = "ended"
      /\ op'[h] \in {"separate", "write"} /\ \A g \in Handles : g # h => op'[g] = op[g]
      /\ op' \in [Handles -> {"idle", "header", "repair", "separate", "write"}]
  <2>1. CASE AppendRepair(h)
    BY <1>1, <2>1 DEF AppendRepair, Truncated, Files, StoreInv, StoreTypeOK
  <2>2. CASE AppendSeparate(h)
    BY <1>1, <2>2 DEF AppendSeparate, Files, StoreInv, StoreTypeOK, Appending
  <2> QED
    BY <2>1, <2>2
<1>3. /\ op' \in [Handles -> {"idle", "header", "repair", "separate", "write"}]
      /\ \A g \in Handles : g # h => op'[g] = "idle"
  BY <1>1, <1>2, OneAtATime, SMTT(40) DEF StoreInv, StoreTypeOK
<1>4. StoreTypeOK'
  BY <1>1, <1>2, <1>3 DEF StoreInv, StoreTypeOK
<1>5. Contents'
  BY <1>1, <1>2, SameLines
<1>6. CacheTrue' /\ Creating' /\ Appending'
  BY <1>1, <1>2, <1>3 DEF StoreInv, CacheTrue, Creating, Appending
<1> QED
  BY <1>4, <1>5, <1>6, Together

LEMMA AppendWriteKeeps ==
    ASSUME StoreInv, NEW h \in Handles, AppendWrite(h)
    PROVE  StoreInv'
<1>1. /\ op[h] = "write" /\ file \in Files /\ file.exists /\ file.tail = "ended"
      /\ loaded[h].lines = file.lines /\ file.lines \in Seq(Record)
      /\ tries \in 1..MaxAppends /\ losses \in Nat /\ view[h] \in Seq(1..MaxAppends)
      /\ Len(view[h]) \in Nat
  BY LenProperties DEF AppendWrite, StoreInv, StoreTypeOK, Appending, Files
<1>2. NewBatch(h) \in Record
  BY <1>1 DEF NewBatch, Batch, Record
<1>3. /\ file' \in Files /\ file'.exists /\ file'.lines = Append(file.lines, NewBatch(h))
      /\ file'.tail = "ended"
  BY <1>1, <1>2, PutWhole DEF AppendWrite
<1>4. Contents'
  BY <1>1, <1>3, MoreLines DEF AppendWrite
<1> DEFINE l == [lines |-> Append(loaded[h].lines, NewBatch(h)), bare |-> FALSE]
<1>5. l \in [lines : Seq(Record), bare : BOOLEAN] /\ l.lines = file'.lines /\ l.bare = FALSE
  BY <1>1, <1>2, <1>3
<1>6. Remember(h, file', l) /\ view' = [view EXCEPT ![h] = BatchesOf(l.lines)]
  BY DEF AppendWrite
<1> HIDE DEF l
<1>7. CacheTrue' /\ CacheType'
  BY <1>3, <1>5, <1>6, RememberTrue
<1>8. view' \in [Handles -> Seq(1..MaxAppends)]
  <2>1. Len(file'.lines) > 0 /\ \A i \in 2..Len(file'.lines) : file'.lines[i].batch \in 1..tries
    BY <1>1, <1>2, <1>3, <1>4, AppendProperties DEF Contents, Attempted, AppendWrite
  <2>2. BatchesOf(l.lines) \in Seq(1..MaxAppends)
    BY <1>5, <2>1, BatchesType
  <2> QED
    BY <1>6, <2>2 DEF StoreInv, StoreTypeOK
<1>9. acked' \subseteq [batch : 1..MaxAppends, at : Nat, boot : Nat]
  BY <1>1 DEF AppendWrite, Expected, StoreInv, StoreTypeOK
<1>10. StoreTypeOK'
  BY <1>1, <1>3, <1>7, <1>8, <1>9, LeaveFacts, ZenonT(40)
     DEF AppendWrite, StoreInv, StoreTypeOK, CacheType
<1> QED
  BY <1>1, <1>4, <1>7, <1>10, LeaveFacts, AllIdle, Together DEF AppendWrite

LEMMA StopKeeps ==
    ASSUME StoreInv, NEW h \in Handles, AppendFails(h) \/ Kill(h)
    PROVE  StoreInv'
<1>1. file' \in Interrupted(h) /\ UNCHANGED <<disk, promises, tries, losses>>
  BY DEF AppendFails, Kill
<1>2. file' \in Files /\ Contents'
  BY <1>1, CutKeeps
<1>3. CASE AppendFails(h)
  <2>1. StoreTypeOK' /\ CacheTrue'
    BY <1>1, <1>2, <1>3, LeaveFacts, ZenonT(40) DEF AppendFails, StoreInv, StoreTypeOK, CacheTrue
  <2> QED
    BY <1>2, <1>3, <2>1, LeaveFacts, AllIdle, Together DEF AppendFails
<1>4. CASE Kill(h)
  <2>1. CacheTrue' /\ CacheType'
    BY <1>4, ForgetTrue DEF Kill
  <2>2. /\ loaded' \in [Handles -> [lines : Seq(Record), bare : BOOLEAN]]
        /\ view' \in [Handles -> Seq(1..MaxAppends)]
        /\ op' \in [Handles -> {"idle", "header", "repair", "separate", "write"}]
        /\ op'[h] = "idle"
        /\ \A g \in Handles : g # h => op'[g] = op[g] /\ loaded'[g] = loaded[g] /\ view'[g] = view[g]
    BY <1>4, AbsentType, EmptySeq DEF Kill, StoreInv, StoreTypeOK
  <2>3. \A g \in Handles : op'[g] # "idle" <=> lock' = g
    BY <1>4, <2>2 DEF Kill, StoreInv, StoreTypeOK
  <2>4. lock' \in Handles \cup {Nobody}
    BY <1>4 DEF Kill, StoreInv, StoreTypeOK
  <2>5. StoreTypeOK'
    BY <1>1, <1>2, <2>1, <2>2, <2>3, <2>4 DEF StoreInv, StoreTypeOK, CacheType
  <2>6. ASSUME NEW g \in Handles, op'[g] # "idle"
        PROVE  g # h /\ op[g] = op'[g] /\ file' = file
    <3>1. g # h /\ op[g] = op'[g]
      BY <2>2, <2>6
    <3>2. op[h] = "idle"
      BY <2>6, <3>1, OneAtATime
    <3> QED
      BY <1>1, <3>1, <3>2 DEF Interrupted
  <2>7. Creating' /\ Appending'
    <3>1. Creating'
      BY <1>1, <2>6 DEF StoreInv, Creating
    <3>2. ASSUME NEW g \in Handles, op'[g] # "idle"
          PROVE  loaded'[g] = loaded[g] /\ view'[g] = view[g]
      BY <2>2, <2>6, <3>2
    <3>3. Appending'
      BY <1>1, <2>6, <3>2 DEF StoreInv, Appending
    <3> QED
      BY <3>1, <3>3
  <2> QED
    BY <1>2, <2>1, <2>5, <2>7, Together
<1> QED
  BY <1>3, <1>4

\* What a power loss leaves is sound, behind the file and ahead of the disk.
LEMMA SurvivorFacts ==
    ASSUME StoreInv, NEW f \in Survivors
    PROVE  /\ f \in Files /\ Sound(f) /\ Len(f.lines) \in Nat
           /\ Len(disk.lines) <= Len(f.lines) /\ Len(f.lines) <= Len(file.lines)
           /\ \A i \in 1..Len(f.lines) : f.lines[i] = file.lines[i]
<1>1. /\ file \in Files /\ disk \in Files /\ file.lines \in Seq(Record)
      /\ Len(disk.lines) \in Nat /\ Len(file.lines) \in Nat
  BY LenProperties DEF StoreInv, StoreTypeOK, Files
<1>2. CASE f = disk
  BY <1>1, <1>2 DEF StoreInv, DiskBehind
<1>3. ASSUME NEW k \in Len(disk.lines)..Len(file.lines), NEW t \in {"ended", "bare", "torn"},
             f = [exists |-> file.exists, lines |-> SubSeq(file.lines, 1, k), tail |-> t],
             f.lines = <<>> => f.tail # "bare", ~f.exists => f.tail # "torn"
      PROVE  /\ f \in Files /\ Sound(f) /\ Len(f.lines) = k
             /\ \A i \in 1..Len(f.lines) : f.lines[i] = file.lines[i]
  <2>1. \A i \in 1..k : file.lines[i] \in Record
    BY <1>1
  <2>2. /\ f.lines \in Seq(Record) /\ Len(f.lines) = k
        /\ \A i \in 1..k : f.lines[i] = file.lines[i]
    BY <1>1, <1>3, <2>1, SubSeqProperties
  <2>3. f \in Files
    BY <1>1, <1>3, <2>2 DEF Files
  <2>4. ASSUME ~f.exists
        PROVE  f = Absent
    <3>1. f.exists = FALSE /\ ~file.exists
      BY <1>3, <2>3, <2>4 DEF Files
    <3>2. Len(file.lines) = 0
      BY <3>1, AbsentType DEF StoreInv, Sound
    <3>3. f.lines = <<>> /\ f.tail = "ended"
      BY <1>1, <1>3, <2>2, <2>4, <3>2, EmptySeq
    <3>4. f = [exists |-> f.exists, lines |-> f.lines, tail |-> f.tail]
      BY <2>3 DEF Files
    <3> QED
      BY <3>1, <3>3, <3>4 DEF Absent
  <2>5. f.lines # <<>> => Readable(f)
    <3> SUFFICES ASSUME f.lines # <<>> PROVE Readable(f)
      OBVIOUS
    <3>1. k > 0 /\ file.lines # <<>>
      BY <1>1, <2>2, EmptySeq
    <3>2. Readable(file)
      BY <3>1 DEF StoreInv, Sound
    <3>3. f.exists /\ f.lines[1] = Header
      <4>1. f.exists = file.exists /\ file.exists /\ file.lines[1] = Header /\ 1 \in 1..k
        BY <1>1, <1>3, <3>1, <3>2 DEF Readable
      <4> QED
        BY <2>2, <4>1
    <3>4. ASSUME NEW i \in 2..Len(f.lines)
          PROVE  f.lines[i].kind = "batch" /\ f.lines[i].prev = i - 2
      <4>1. i \in 1..k /\ i \in 2..Len(file.lines)
        BY <1>1, <1>3, <2>2
      <4>2. file.lines[i].kind = "batch" /\ file.lines[i].prev = i - 2
        BY <3>2, <4>1 DEF Readable
      <4>3. f.lines[i] = file.lines[i]
        BY <2>2, <4>1
      <4> QED
        BY <4>2, <4>3
    <3> QED
      BY <3>3, <3>4 DEF Readable
  <2> QED
    BY <2>2, <2>3, <2>4, <2>5 DEF Sound
<1>4. f = disk \/ \E k \in Len(disk.lines)..Len(file.lines), t \in {"ended", "bare", "torn"} :
         /\ f = [exists |-> file.exists, lines |-> SubSeq(file.lines, 1, k), tail |-> t]
         /\ f.lines = <<>> => f.tail # "bare"
         /\ ~f.exists => f.tail # "torn"
  BY DEF Survivors
<1> QED
  BY <1>1, <1>2, <1>3, <1>4

LEMMA PowerLossKeeps ==
    ASSUME StoreInv, PowerLoss
    PROVE  StoreInv'
<1>1. /\ file' \in Files /\ Sound(file') /\ Len(file'.lines) \in Nat
      /\ Len(disk.lines) <= Len(file'.lines) /\ Len(file'.lines) <= Len(file.lines)
      /\ \A i \in 1..Len(file'.lines) : file'.lines[i] = file.lines[i]
  BY SurvivorFacts DEF PowerLoss
<1>2. /\ disk' = file' /\ losses' = losses + 1 /\ losses \in Nat /\ losses' \in 0..MaxLosses
      /\ Len(file.lines) \in Nat /\ Len(disk.lines) \in Nat /\ Len(flushed) \in Nat
      /\ file'.lines \in Seq(Record) /\ disk.lines \in Seq(Record)
      /\ UNCHANGED <<promises, tries>>
  BY <1>1, LenProperties DEF PowerLoss, StoreInv, StoreTypeOK, Files
<1>3. StoreTypeOK'
  BY <1>1, <1>2, AbsentType, EmptySeq DEF PowerLoss, StoreInv, StoreTypeOK
<1>4. CacheTrue' /\ Creating' /\ Appending'
  BY AbsentType, AllIdle DEF PowerLoss, CacheTrue
<1>5. Sound(file)' /\ Sound(disk)' /\ DiskBehind'
  BY <1>1, <1>2 DEF DiskBehind, Sound, Readable
<1>6. Attempted'
  BY <1>1, <1>2 DEF StoreInv, Attempted
<1>7. Promised'
  <2>1. disk.lines # <<>> => file'.lines # <<>>
    BY <1>1, <1>2, EmptySeq
  <2>2. \A a \in acked : a.boot \in Nat /\ a.boot <= losses
    BY DEF StoreInv, StoreTypeOK, Promised
  <2> QED
    BY <1>1, <1>2, <2>1, <2>2 DEF StoreInv, Promised
<1> QED
  BY <1>3, <1>4, <1>5, <1>6, <1>7 DEF StoreInv

LEMMA InitHolds == StoreInit => StoreInv
<1> SUFFICES ASSUME StoreInit PROVE StoreInv
  OBVIOUS
<1>1. StoreTypeOK
  <2>1. view \in [Handles -> Seq(1..MaxAppends)] /\ flushed \in Seq(1..MaxAppends)
    BY EmptySeq DEF StoreInit
  <2>2. /\ loaded \in [Handles -> [lines : Seq(Record), bare : BOOLEAN]]
        /\ cache \in [Handles -> [for : Files, lines : Seq(Record), bare : BOOLEAN]]
        /\ file \in Files /\ disk \in Files
    BY AbsentType DEF StoreInit
  <2>3. lock \in Handles \cup {Nobody} /\ \A h \in Handles : op[h] # "idle" <=> lock = h
    BY DEF StoreInit
  <2>4. op \in [Handles -> {"idle", "header", "repair", "separate", "write"}]
    BY DEF StoreInit
  <2>5. created = FALSE /\ acked = {}
    BY DEF StoreInit
  <2>6. tries \in 0..MaxAppends /\ losses \in 0..MaxLosses
    BY DEF StoreInit
  <2> QED
    BY <2>1, <2>2, <2>3, <2>4, <2>5, <2>6 DEF StoreTypeOK
<1>2. Sound(file) /\ Sound(disk) /\ DiskBehind /\ CacheTrue /\ Creating /\ Appending
  BY AbsentType DEF StoreInit, Sound, DiskBehind, CacheTrue, Creating, Appending
<1>3. Attempted /\ Promised
  BY AbsentType DEF StoreInit, Attempted, Promised
<1> QED
  BY <1>1, <1>2, <1>3 DEF StoreInv

LEMMA StepKeeps == StoreInv /\ [StoreNext]_storeVars => StoreInv'
<1> SUFFICES ASSUME StoreInv, [StoreNext]_storeVars PROVE StoreInv'
  OBVIOUS
<1>1. CASE UNCHANGED storeVars
  <2>1. StoreTypeOK' /\ CacheTrue'
    BY <1>1 DEF storeVars, StoreInv, StoreTypeOK, CacheTrue
  <2>2. Sound(file)' /\ Sound(disk)' /\ DiskBehind'
    BY <1>1 DEF storeVars, StoreInv, Sound, Readable, DiskBehind
  <2>3. Creating' /\ Appending'
    BY <1>1 DEF storeVars, StoreInv, Creating, Appending
  <2>4. Attempted' /\ Promised'
    BY <1>1 DEF storeVars, StoreInv, Attempted, Promised
  <2> QED
    BY <2>1, <2>2, <2>3, <2>4 DEF StoreInv
<1>2. CASE PowerLoss
  BY <1>2, PowerLossKeeps
<1>3. ASSUME NEW h \in Handles, HandleStep(h) PROVE StoreInv'
  BY <1>3, CreateFileKeeps, CreateHeaderKeeps, CreateFailsKeeps, ReadKeeps, AppendBeginKeeps,
     AppendRepairKeeps, AppendWriteKeeps, StopKeeps DEF HandleStep
<1> QED
  BY <1>1, <1>2, <1>3 DEF StoreNext

--------------------------------------------------------------------------------
(* The log that readers see *)

LogOf(f) == IF Readable(f) THEN BatchesOf(f.lines) ELSE <<>>

LEMMA IsSequence ==
    ASSUME NEW S, NEW n \in Nat, NEW s \in [1..n -> S]
    PROVE  s \in Seq(S) /\ Len(s) = n
OBVIOUS

LEMMA LogFacts ==
    ASSUME NEW f \in Files, Sound(f), NEW n \in Nat,
           \A i \in 2..Len(f.lines) : f.lines[i].batch \in 1..n
    PROVE  /\ LogOf(f) \in Seq(1..n)
           /\ Len(LogOf(f)) = IF Len(f.lines) = 0 THEN 0 ELSE Len(f.lines) - 1
           /\ \A i \in 1..Len(LogOf(f)) : LogOf(f)[i] = f.lines[i + 1].batch
<1>1. f.lines \in Seq(Record) /\ Len(f.lines) \in Nat
  BY LenProperties DEF Files
<1>2. CASE Len(f.lines) = 0
  BY <1>1, <1>2, EmptySeq DEF LogOf, Readable
<1>3. CASE Len(f.lines) > 0
  <2>1. Readable(f)
    BY <1>3, EmptySeq DEF Sound
  <2> DEFINE m == Len(f.lines) - 1
  <2>2. m \in Nat /\ \A i \in 1..m : f.lines[i + 1].batch \in 1..n
    BY <1>1, <1>3
  <2>3. LogOf(f) \in [1..m -> 1..n] /\ \A i \in 1..m : LogOf(f)[i] = f.lines[i + 1].batch
    BY <2>1, <2>2 DEF LogOf, BatchesOf
  <2> HIDE DEF m
  <2>4. LogOf(f) \in Seq(1..n) /\ Len(LogOf(f)) = m
    BY <2>2, <2>3, IsSequence
  <2> QED
    BY <1>1, <1>3, <2>3, <2>4 DEF m
<1> QED
  BY <1>1, <1>2, <1>3

\* A file with a header only is an empty log.
LEMMA OneLine ==
    ASSUME NEW f \in Files, Sound(f), Len(f.lines) = 1
    PROVE  LogOf(f) = <<>>
<1> DEFINE n == 1
<1>1. n \in Nat /\ \A i \in 2..Len(f.lines) : f.lines[i].batch \in 1..n
  OBVIOUS
<1> HIDE DEF n
<1>2. /\ LogOf(f) \in Seq(1..n)
      /\ Len(LogOf(f)) = IF Len(f.lines) = 0 THEN 0 ELSE Len(f.lines) - 1
  BY <1>1, LogFacts
<1>3. Len(LogOf(f)) = 0
  BY <1>2
<1> QED
  BY <1>2, <1>3, EmptySeq

\* Through cut writes, kills, power losses and other processes a session that
\* create() returned can be read, and until power is lost an acknowledged batch
\* stays at its revision (append and load in session-jsonl/src/lib.rs).
THEOREM FileIsKept == StoreSpec => []FileKept
<1>1. StoreInv => FileKept
  <2> SUFFICES ASSUME StoreInv PROVE FileKept
    OBVIOUS
  <2>1. LogReadable
    BY DEF StoreInv, LogReadable, Promised, Sound
  <2>2. AckedStays
    <3> SUFFICES ASSUME NEW a \in acked, a.boot = losses
                 PROVE  a.at \in DOMAIN Log /\ Log[a.at] = a.batch
      BY DEF AckedStays
    <3>1. a.at \in 1..(Len(file.lines) - 1) /\ file.lines[a.at + 1].batch = a.batch
      BY DEF StoreInv, Promised
    <3>2. file \in Files /\ file.lines \in Seq(Record) /\ Len(file.lines) \in Nat /\ tries \in Nat
      BY LenProperties DEF StoreInv, StoreTypeOK, Files
    <3>3. /\ LogOf(file) \in Seq(1..tries) /\ Len(LogOf(file)) = Len(file.lines) - 1
          /\ \A i \in 1..Len(LogOf(file)) : LogOf(file)[i] = file.lines[i + 1].batch
      BY <3>1, <3>2, LogFacts DEF StoreInv, Attempted
    <3>4. Log = LogOf(file)
      BY DEF Log, LogOf
    <3>5. a.at \in 1..Len(LogOf(file)) /\ LogOf(file)[a.at] = a.batch
      BY <3>1, <3>2, <3>3
    <3>6. DOMAIN LogOf(file) = 1..Len(LogOf(file))
      BY <3>3, LenProperties
    <3> QED
      BY <3>4, <3>5, <3>6
  <2> QED
    BY <2>1, <2>2 DEF FileKept, StoreInv
<1> QED
  BY <1>1, InitHolds, StepKeeps, PTL DEF StoreSpec

\* A step that leaves the lines alone leaves the log alone.
LEMMA LogSame ==
    ASSUME NEW f \in Files, NEW g \in Files, g.lines = f.lines, g.exists = f.exists
    PROVE  LogOf(g) = LogOf(f)
BY DEF LogOf, Readable, BatchesOf

\* A written batch extends the log, once.
LEMMA LogGrows ==
    ASSUME StoreInv, Contents', NEW h \in Handles, op[h] = "write",
           file' \in Files, file'.lines = Append(file.lines, NewBatch(h)), UNCHANGED tries
    PROVE  /\ tries \in 1..MaxAppends
           /\ \A i \in DOMAIN Log : Log[i] # tries
           /\ Log' = Append(Log, tries)
<1>1. /\ file \in Files /\ file.lines \in Seq(Record) /\ Len(file.lines) \in Nat
      /\ Len(file.lines) > 0 /\ tries \in 1..MaxAppends /\ NewBatch(h) \in Record
      /\ \A i \in 2..Len(file.lines) : file.lines[i].batch # tries
  <2>1. file \in Files /\ file.lines \in Seq(Record) /\ file.lines # <<>>
    BY DEF StoreInv, StoreTypeOK, Files, Appending
  <2>2. Len(file.lines) \in Nat /\ Len(file.lines) > 0
    BY <2>1, LenProperties, EmptySeq
  <2>3. /\ tries \in 1..MaxAppends /\ view[h] \in Seq(1..MaxAppends)
        /\ \A i \in 2..Len(file.lines) : file.lines[i].batch # tries
    BY DEF StoreInv, StoreTypeOK, Appending
  <2>4. NewBatch(h) \in Record
    BY <2>3, LenProperties DEF NewBatch, Batch, Record
  <2> QED
    BY <2>1, <2>2, <2>3, <2>4
<1>2. /\ Len(file'.lines) = Len(file.lines) + 1
      /\ file'.lines[Len(file.lines) + 1].batch = tries
      /\ \A i \in 1..Len(file.lines) : file'.lines[i] = file.lines[i]
  BY <1>1, AppendProperties DEF NewBatch, Batch
<1>3. /\ Log \in Seq(1..tries) /\ Len(Log) = Len(file.lines) - 1
      /\ \A i \in 1..Len(Log) : Log[i] = file.lines[i + 1].batch
  <2>1. tries \in Nat /\ Sound(file) /\ \A i \in 2..Len(file.lines) : file.lines[i].batch \in 1..tries
    BY <1>1 DEF StoreInv, Attempted
  <2>2. Log = LogOf(file)
    BY DEF Log, LogOf
  <2>3. /\ LogOf(file) \in Seq(1..tries) /\ Len(LogOf(file)) = Len(file.lines) - 1
        /\ \A i \in 1..Len(LogOf(file)) : LogOf(file)[i] = file.lines[i + 1].batch
    <3>1. file \in Files /\ Len(file.lines) # 0
      BY <1>1
    <3> DEFINE n == tries
    <3>2. n \in Nat /\ Sound(file) /\ \A i \in 2..Len(file.lines) : file.lines[i].batch \in 1..n
      BY <2>1
    <3> HIDE DEF n
    <3>3. /\ LogOf(file) \in Seq(1..n)
          /\ Len(LogOf(file)) = IF Len(file.lines) = 0 THEN 0 ELSE Len(file.lines) - 1
          /\ \A i \in 1..Len(LogOf(file)) : LogOf(file)[i] = file.lines[i + 1].batch
      BY <3>1, <3>2, LogFacts, Zenon
    <3> QED
      BY <3>1, <3>3 DEF n
  <2> QED
    BY <2>2, <2>3
<1>4. /\ Log' \in Seq(1..tries) /\ Len(Log') = Len(file.lines)
      /\ \A i \in 1..Len(Log') : Log'[i] = file'.lines[i + 1].batch
  <2>1. Sound(file') /\ \A i \in 2..Len(file'.lines) : file'.lines[i].batch \in 1..tries
    BY DEF Contents, Attempted
  <2>2. Log' = LogOf(file')
    BY DEF Log, LogOf
  <2> QED
    <3> DEFINE n == tries
    <3>1. n \in Nat /\ file' \in Files /\ Len(file'.lines) # 0
      BY <1>1, <1>2
    <3>2. /\ LogOf(file') \in Seq(1..n) /\ Len(LogOf(file')) = Len(file'.lines) - 1
          /\ \A i \in 1..Len(LogOf(file')) : LogOf(file')[i] = file'.lines[i + 1].batch
      BY <2>1, <3>1, LogFacts
    <3>3. Len(file'.lines) - 1 = Len(file.lines)
      BY <1>1, <1>2
    <3> QED
      BY <2>2, <3>2, <3>3
<1> DEFINE longer == Append(Log, tries)
<1>5. /\ longer \in Seq(1..tries) /\ Len(longer) = Len(file.lines)
      /\ \A i \in 1..Len(Log) : longer[i] = Log[i]
      /\ longer[Len(file.lines)] = tries
  BY <1>1, <1>3, AppendProperties
<1> HIDE DEF longer
<1>6. ASSUME NEW i \in 1..Len(Log')
      PROVE  Log'[i] = longer[i]
  <2>1. Log'[i] = file'.lines[i + 1].batch /\ i \in 1..Len(file.lines)
    BY <1>4
  <2>2. CASE i = Len(file.lines)
    BY <1>2, <1>5, <2>1, <2>2
  <2>3. CASE i # Len(file.lines)
    <3>1. i \in 1..Len(Log) /\ i + 1 \in 1..Len(file.lines)
      BY <1>1, <1>3, <2>1, <2>3, SMTT(40)
    <3>2. Log[i] = file.lines[i + 1].batch
      BY <1>3, <3>1
    <3> QED
      BY <1>2, <1>5, <2>1, <3>1, <3>2
  <2> QED
    BY <2>2, <2>3
<1>7. Log' = longer
  BY <1>4, <1>5, <1>6, SeqEqual
<1>8. \A i \in DOMAIN Log : Log[i] # tries
  <2>1. DOMAIN Log = 1..Len(Log)
    BY <1>3, LenProperties
  <2>2. ASSUME NEW i \in 1..Len(Log)
        PROVE  Log[i] # tries
    <3>1. Log[i] = file.lines[i + 1].batch
      BY <1>3
    <3>2. i + 1 \in 2..Len(file.lines)
      BY <1>1, <1>3
    <3>3. file.lines[i + 1].batch # tries
      BY <1>1, <3>2
    <3> QED
      BY <3>1, <3>3
  <2> QED
    BY <2>1, <2>2
<1> QED
  BY <1>1, <1>7, <1>8 DEF longer

\* What a cut write leaves of the log: the same log, or one batch more.
LEMMA CutLog ==
    ASSUME StoreInv, NEW h \in Handles, file' \in Interrupted(h), UNCHANGED <<disk, promises, tries, losses>>
    PROVE  Log' = Log \/ \E b \in 1..MaxAppends : Abstract!Extend(b)
<1>1. file' \in Files /\ Contents' /\ file \in Files
  BY CutKeeps DEF StoreInv, StoreTypeOK
<1>2. CASE file' = file
  BY <1>2 DEF Log, Readable, BatchesOf
<1>3. CASE op[h] = "header" /\ file'.exists /\ file'.lines \in {file.lines, Append(file.lines, Header)}
  <2>1. file.lines = <<>> /\ Len(file.lines) = 0
    BY <1>3 DEF StoreInv, Creating
  <2>2. LogOf(file) = <<>>
    BY <2>1 DEF LogOf, Readable
  <2>3. LogOf(file') = <<>>
    <3>1. CASE file'.lines = file.lines
      BY <2>1, <3>1 DEF LogOf, Readable
    <3>2. CASE file'.lines = Append(file.lines, Header)
      BY <1>1, <1>3, <2>1, <3>2, SoundStarts, OneLine
    <3> QED
      BY <1>3, <3>1, <3>2
  <2> QED
    BY <2>2, <2>3 DEF Log, LogOf
<1>4. CASE op[h] = "write" /\ file'.exists
           /\ file'.lines \in {file.lines, Append(file.lines, NewBatch(h))}
  <2>1. file.exists
    BY <1>4 DEF StoreInv, Appending
  <2>2. CASE file'.lines = file.lines
    BY <1>4, <2>1, <2>2 DEF Log, Readable, BatchesOf
  <2>3. CASE file'.lines = Append(file.lines, NewBatch(h))
    <3>1. /\ tries \in 1..MaxAppends /\ \A i \in DOMAIN Log : Log[i] # tries
          /\ Log' = Append(Log, tries)
      BY <1>1, <1>4, <2>3, LogGrows, SMTT(40)
    <3> QED
      BY <3>1 DEF Abstract!Extend
  <2> QED
    BY <1>4, <2>2, <2>3
<1> QED
  BY <1>2, <1>3, <1>4, Cuts

LEMMA PowerLossLog ==
    ASSUME StoreInv, PowerLoss
    PROVE  Abstract!Lose
<1>1. /\ file' \in Files /\ Sound(file') /\ Len(file'.lines) \in Nat
      /\ Len(disk.lines) <= Len(file'.lines) /\ Len(file'.lines) <= Len(file.lines)
      /\ \A i \in 1..Len(file'.lines) : file'.lines[i] = file.lines[i]
  BY SurvivorFacts DEF PowerLoss
<1>2. /\ file \in Files /\ Sound(file) /\ tries \in Nat
      /\ \A i \in 2..Len(file.lines) : file.lines[i].batch \in 1..tries
      /\ Len(flushed) \in Nat /\ Len(disk.lines) \in Nat /\ Len(file.lines) \in Nat
      /\ Len(flushed) > 0 => Len(flushed) < Len(disk.lines)
  BY LenProperties DEF StoreInv, StoreTypeOK, Files, Attempted, Promised
<1>3. /\ Log \in Seq(1..tries) /\ Len(Log) = IF Len(file.lines) = 0 THEN 0 ELSE Len(file.lines) - 1
      /\ \A i \in 1..Len(Log) : Log[i] = file.lines[i + 1].batch
  BY <1>2, LogFacts DEF Log, LogOf
<1>4. /\ Log' \in Seq(1..tries)
      /\ Len(Log') = IF Len(file'.lines) = 0 THEN 0 ELSE Len(file'.lines) - 1
      /\ \A i \in 1..Len(Log') : Log'[i] = file'.lines[i + 1].batch
  <2>1. \A i \in 2..Len(file'.lines) : file'.lines[i].batch \in 1..tries
    BY <1>1, <1>2, SMTT(40)
  <2>2. Log' = LogOf(file')
    BY DEF Log, LogOf
  <2> QED
    BY <1>1, <1>2, <2>1, <2>2, LogFacts
<1> DEFINE k == Len(Log')
           cut == SubSeq(Log, 1, k)
<1>5. k \in Len(flushed)..Len(Log) /\ k \in Nat /\ Len(Log) \in Nat
  <2>1. k \in Nat /\ Len(Log) \in Nat /\ k <= Len(Log)
    <3>1. CASE Len(file'.lines) = 0
      BY <1>2, <1>3, <1>4, <3>1
    <3>2. CASE Len(file'.lines) > 0
      <4>1. Len(file.lines) > 0 /\ k = Len(file'.lines) - 1
        BY <1>1, <1>2, <1>4, <3>2
      <4>2. Len(Log) = Len(file.lines) - 1
        BY <1>2, <1>3, <4>1
      <4> QED
        BY <1>1, <1>2, <3>2, <4>1, <4>2
    <3> QED
      BY <1>1, <3>1, <3>2
  <2>2. Len(flushed) <= k
    BY <1>1, <1>2, <1>4
  <2> QED
    BY <1>2, <2>1, <2>2
<1>6. ASSUME NEW i \in 1..k
      PROVE  Log'[i] = Log[i]
  <2>1. i \in 1..Len(Log) /\ i + 1 \in 1..Len(file'.lines)
    BY <1>1, <1>4, <1>5
  <2>2. Log'[i] = file'.lines[i + 1].batch /\ Log[i] = file.lines[i + 1].batch
    BY <1>3, <1>4, <2>1
  <2> QED
    BY <1>1, <2>1, <2>2
<1>7. cut \in Seq(1..tries) /\ Len(cut) = k /\ \A i \in 1..k : cut[i] = Log[i]
  <2>1. ASSUME NEW i \in 1..k
        PROVE  Log[i] \in 1..tries
    <3>1. i \in 1..Len(Log)
      BY <1>5
    <3> QED
      BY <1>3, <3>1, LenProperties
  <2> QED
    BY <1>5, <2>1, SubSeqProperties
<1> HIDE DEF cut
<1>8. Log' = cut
  BY <1>4, <1>6, <1>7, SeqEqual
<1>9. losses' = losses + 1 /\ flushed' = flushed
  BY DEF PowerLoss
<1> QED
  BY <1>5, <1>8, <1>9 DEF Abstract!Lose, cut

LEMMA HandleLog ==
    ASSUME StoreInv, NEW h \in Handles, HandleStep(h)
    PROVE  \/ UNCHANGED <<Log, Len(flushed), losses>>
           \/ Abstract!Persist
           \/ \E b \in 1..MaxAppends : Abstract!Extend(b)
<1>1. CASE CreateFile(h)
  BY <1>1 DEF CreateFile, Log, Readable, Absent
<1>2. CASE CreateHeader(h)
  <2>1. /\ file \in Files /\ file.tail = "ended" /\ file.exists /\ file.lines = <<>>
        /\ Len(file.lines) = 0 /\ Header \in Record
    BY <1>2 DEF CreateHeader, StoreInv, StoreTypeOK, Creating, Header, Record
  <2>2. file' \in Files /\ Contents' /\ Len(file'.lines) = 1
    BY <1>2, HeaderWritten DEF CreateHeader
  <2>3. LogOf(file) = <<>> /\ LogOf(file') = <<>>
    BY <2>1, <2>2, OneLine DEF LogOf, Readable, Contents
  <2> QED
    BY <1>2, <2>3 DEF CreateHeader, Log, LogOf
<1>3. CASE CreateFails(h)
  <2>1. file.lines = <<>> /\ UNCHANGED <<promises, tries, losses>>
    BY <1>3 DEF CreateFails, StoreInv, Creating
  <2>2. CASE file' = Absent
    BY <2>1, <2>2, AbsentType DEF Log, Readable
  <2>3. CASE file' \in Interrupted(h) /\ UNCHANGED disk
    BY <2>1, <2>3, CutLog
  <2>4. CASE file' = Put(file, Header, "ended") /\ disk' = file'
    <3>1. file' \in Files /\ Contents' /\ Len(file'.lines) = 1
      BY <1>3, <2>4, HeaderWritten DEF CreateFails
    <3>2. LogOf(file) = <<>> /\ LogOf(file') = <<>>
      BY <2>1, <3>1, OneLine DEF LogOf, Readable, Contents
    <3> QED
      BY <2>1, <3>2 DEF Log, LogOf
  <2> QED
    BY <1>3, <2>2, <2>3, <2>4 DEF CreateFails
<1>4. CASE Load(h) \/ FlushFails(h) \/ AppendConflict(h) \/ AppendBegin(h)
  BY <1>4 DEF Load, FlushFails, AppendConflict, AppendBegin, Log
<1>5. CASE Flush(h)
  <2>1. /\ Readable(file) /\ flushed' = BatchesOf(Snapshot(h).lines)
        /\ UNCHANGED <<file, losses>> /\ Snapshot(h).lines = file.lines
    BY <1>5, ReadFacts DEF Flush
  <2> QED
    BY <2>1 DEF Log, Abstract!Persist
<1>6. CASE AppendRepair(h) \/ AppendSeparate(h)
  <2>1. file.exists /\ file \in Files /\ loaded[h].lines = file.lines
        /\ UNCHANGED <<promises, losses>>
    BY <1>6 DEF AppendRepair, AppendSeparate, StoreInv, StoreTypeOK, Appending
  <2>2. file'.exists /\ file'.lines = file.lines
    BY <1>6, <2>1 DEF AppendRepair, AppendSeparate, Truncated, Files
  <2> QED
    BY <2>1, <2>2 DEF Log, Readable, BatchesOf
<1>7. CASE AppendWrite(h)
  <2>1. StoreInv'
    BY <1>7, AppendWriteKeeps
  <2>2. /\ op[h] = "write" /\ file \in Files /\ file.tail = "ended" /\ NewBatch(h) \in Record
    BY <1>7, LenProperties
       DEF AppendWrite, StoreInv, StoreTypeOK, Appending, NewBatch, Batch, Record
  <2>3. file' \in Files /\ file'.lines = Append(file.lines, NewBatch(h))
    BY <1>7, <2>2, PutWhole DEF AppendWrite
  <2>4. /\ tries \in 1..MaxAppends /\ \A i \in DOMAIN Log : Log[i] # tries
        /\ Log' = Append(Log, tries) /\ UNCHANGED <<flushed, losses>>
    BY <1>7, <2>1, <2>2, <2>3, LogGrows DEF StoreInv, Contents, AppendWrite
  <2> QED
    BY <2>4 DEF Abstract!Extend
<1>8. CASE AppendFails(h) \/ Kill(h)
  BY <1>8, CutLog DEF AppendFails, Kill
<1> QED
  BY <1>1, <1>2, <1>3, <1>4, <1>5, <1>6, <1>7, <1>8 DEF HandleStep

\* The store implements the log it promises (session store contract in
\* core/src/session.rs): batches enter whole, at the end and once, and a power
\* loss takes none that a flush acknowledged.
THEOREM StoreImplementsLog == StoreSpec => ImplementsAppendLog
<1>1. StoreInit => Abstract!LogInit
  BY AbsentType DEF StoreInit, Abstract!LogInit, Log, Readable
<1>2. StoreInv /\ [StoreNext]_storeVars => [Abstract!LogNext]_(Abstract!logVars)
  <2> SUFFICES ASSUME StoreInv, [StoreNext]_storeVars
               PROVE  [Abstract!LogNext]_(Abstract!logVars)
    OBVIOUS
  <2>1. CASE UNCHANGED storeVars
    BY <2>1 DEF storeVars, Abstract!logVars, Log
  <2>2. CASE PowerLoss
    BY <2>2, PowerLossLog DEF Abstract!LogNext
  <2>3. ASSUME NEW h \in Handles, HandleStep(h)
        PROVE  [Abstract!LogNext]_(Abstract!logVars)
    BY <2>3, HandleLog DEF Abstract!LogNext, Abstract!logVars
  <2> QED
    BY <2>1, <2>2, <2>3 DEF StoreNext
<1> QED
  BY <1>1, <1>2, InitHolds, StepKeeps, PTL DEF StoreSpec, ImplementsAppendLog, Abstract!LogSpec

HIDE StoreAssumption DEF StoreAssumption, promises

(***************************************************************************)
(* A session's log under any requests, runs, crashes, event feeds and lost *)
(* connections: a request has one receipt, events are announced once and in *)
(* order, and a browser at rest shows the log.                             *)
(***************************************************************************)

USE DEF Free, Driver, Browser

Busy == {"sync", "replay", "append", "reply", "choose", "chosen", "said"}
Ready  == {"idle", "ok", "error", "lost"}
Kinds  == {"goal", "title", "model", "preset", "policy", "plan", "receipt", "run", "done", "start", "end"}
Marks  == {"start", "end"}
Goals  == [id : Nat, revision : Nat, phase : {"none", "active", "paused", "complete"}]
Says   == Goals \union AllAsks \union {ask.says : ask \in AllAsks} \union Handlers
            \union {"", "asked", "idle"}
Events == [is : Kinds, says : Says]
Frames == [is : {"event", "subscribed"}, seq : Nat]
            \union [is : {"projection"}, key : Keys, says : Says, seq : Nat]

\* The log begins with a goal, its receipts are of requests, and no request has two.
ReceiptOf(i, rpc) == log[i].is = "receipt" /\ log[i].says.rpc = rpc
LogOK ==
    /\ log \in Seq(Events) /\ Len(log) >= 1 /\ log[1].is = "goal"
    /\ \A i \in DOMAIN log : /\ log[i].is = "goal" => log[i].says \in Goals
                             /\ log[i].is = "receipt" => log[i].says \in AllAsks
ReceiptsOnce ==
    \A i, j \in DOMAIN log : \A rpc \in Rpcs : ReceiptOf(i, rpc) /\ ReceiptOf(j, rpc) => i = j

\* Memory knows the receipts of its cut, and where they stand unless one was overtaken.
MemoryOK ==
    /\ memory \in [cursor : Nat, receipts : [Rpcs -> [ask : AllAsks \union {<<>>}, seq : Nat]]]
    /\ memory.cursor \in 1..Len(log)
    /\ \A rpc \in Rpcs : memory.receipts[rpc].seq # 0 <=> \E i \in 1..memory.cursor : ReceiptOf(i, rpc)
ReceiptsTrue ==
    "overtaken" \notin upset => \A rpc \in Rpcs : memory.receipts[rpc].seq # 0 =>
        LET n == memory.receipts[rpc].seq + 1 IN
        n <= Len(log) /\ ReceiptOf(n, rpc) /\ log[n].says = memory.receipts[rpc].ask

\* A request under way holds the gate; what it commits goes with where it leads.
Toward(h) == IF handler[h].at \in {"append", "sync"} THEN handler[h].leads ELSE handler[h].at
ReplyBatch(h) ==
    /\ Len(handler[h].batch) = 2
    /\ handler[h].batch[1].is \in {"title", "model", "preset", "goal"}
    /\ handler[h].batch[1].is = "goal" => handler[h].batch[1].says \in Goals
    /\ handler[h].batch[2] = Event("receipt", handler[h].ask)
CommandBatch(h) ==
    \/ Toward(h) = "choose" /\ handler[h].batch = <<Event("run", h)>>
    \/ Toward(h) = "chosen" /\ handler[h].batch = <<Event(handler[h].ask.method, handler[h].ask.says)>>
    \/ Toward(h) = "said" /\ handler[h].batch = <<Event("done", h)>>
HandlersOK ==
    /\ handler \in [Handlers -> [at : Busy \union Ready, ask : AllAsks \union {"none"},
                                 batch : Seq(Events), leads : Busy \union {"none"}, told : Nat]]
    /\ gate \in Handlers \union {Free}
    /\ \A h \in Handlers : handler[h].at \in Busy =>
         /\ gate = h /\ handler[h].ask \in AllAsks
         /\ IF handler[h].ask.method \in Commands THEN CommandBatch(h)
            ELSE \/ Toward(h) = "replay" /\ handler[h].at # "append"
                 \/ Toward(h) = "reply" /\ ReplyBatch(h)
    /\ \A h \in Handlers : handler[h].at = "ok" => handler[h].ask \in AllAsks

\* Since a request committed, or read what it goes by, only the turn has appended.
Fresh(n) == \A i \in (n + 1)..Len(log) : log[i].is \in Marks
Landed(h) ==
    \E k \in 1..Len(log) :
        /\ k + Len(handler[h].batch) - 1 <= Len(log)
        /\ \A j \in DOMAIN handler[h].batch : log[k + j - 1] = handler[h].batch[j]
        /\ Fresh(k + Len(handler[h].batch) - 1)
Carrying(h) == handler[h].at \in {"sync", "reply", "chosen"} /\ Toward(h) \in {"reply", "chosen"}
LandedOK == \A h \in Handlers : Carrying(h) => Landed(h)
Informed(h) == \/ handler[h].at \in {"replay", "reply", "choose", "chosen", "said"}
               \/ handler[h].at = "append" /\ Toward(h) # "choose"
FreshOK == \A h \in Handlers : /\ Informed(h) => Fresh(memory.cursor)
                               /\ sync[h].at # "off" => Fresh(sync[h].to)
AppendsFit == \A h \in Handlers : At(h, "append") => Valid(handler[h].batch)

\* There is one turn, and a session whose turn was prompted is marked as running.
Begun(i) == log[i].is = "start"
EngineOK ==
    /\ engine = [at |-> engine.at, known |-> engine.known, followed |-> engine.followed]
    /\ engine.at \in {"idle", "asked", "open", "ended", "broken"} /\ engine.known \in Nat
    /\ running \in BOOLEAN /\ engine.known <= Len(log)
    /\ engine.at \in {"idle", "asked"} => \A i \in DOMAIN log : log[i].is \notin Marks
    /\ \A i, j \in DOMAIN log : Begun(i) /\ Begun(j) => i = j
    /\ engine.at = "asked" => running
    /\ engine.at = "open" =>
         /\ engine.known \in DOMAIN log /\ Begun(engine.known)
         /\ \A i \in (engine.known + 1)..Len(log) : log[i].is # "end"
         /\ log[engine.known].says \in {"asked", "idle"}
         /\ log[engine.known].says = "asked" => running
    /\ engine.at = "broken" => \A i \in DOMAIN log : Begun(i) => log[i].says = "idle"
    /\ engine.at = "ended" => \A i \in DOMAIN log : Begun(i) => \E e \in (i + 1)..Len(log) : log[e].is = "end"
Prompting == engine.at = "asked" \/ (engine.at = "open" /\ log[engine.known].says = "asked")
PoliciesOK ==
    /\ \A h \in Handlers : At(h, "append") /\ handler[h].batch[1].is \in {"preset", "policy"} => ~Prompting
    /\ PoliciesWait
\* What a rename was told is the place before its receipt.
ToldOK ==
    "overtaken" \notin upset => \A h \in Handlers : At(h, "ok") =>
        IF handler[h].ask.method = "title"
        THEN handler[h].told + 1 <= Len(log) /\ log[handler[h].told + 1] = Event("receipt", handler[h].ask)
        ELSE handler[h].told = 0

\* A reader between its cut and its announcement has the lock, and is still wanted.
Wanting(p) == CASE p = Driver -> running [] p = Browser -> reader.at = "sync" [] OTHER -> At(p, "sync")
SyncOK ==
    /\ sync \in [Readers -> [at : {"off", "loaded", "announce"}, from : Nat, to : Nat]]
    /\ window \in Readers \union {Free}
    /\ \A p \in Readers : sync[p].at # "off" =>
         /\ window = p /\ Wanting(p) /\ sync[p].to \in memory.cursor..Len(log)
         /\ sync[p].at = "announce" => sync[p].to = memory.cursor /\ sync[p].from <= sync[p].to

\* The frames on their way end with what was announced last.
Announcing == window # Free /\ sync[window].at = "announce"
Announced == IF Announcing THEN sync[window].from ELSE memory.cursor
IsEvent(i) == line.feed[i].is = "event"
FirstEvent(i) == IsEvent(i) /\ \A j \in 1..(i - 1) : ~IsEvent(j)
Newest(i) == IsEvent(i) /\ \A j \in (i + 1)..Len(line.feed) : ~IsEvent(j)
NoEvent == \A i \in DOMAIN line.feed : ~IsEvent(i)
FeedOK ==
    /\ line \in [at : {"down", "absent", "subscribed", "up"}, feed : Seq(Frames)]
    /\ line.at \in {"down", "absent"} => line.feed = <<>>
    /\ \A i \in DOMAIN line.feed :
         /\ line.feed[i].is = "subscribed" => i = 1 /\ line.at = "up"
         /\ line.feed[i].seq \in 1..memory.cursor
         /\ IsEvent(i) => line.feed[i].seq <= Announced
         /\ Newest(i) => line.feed[i].seq = Announced
    /\ AnnouncedInOrder

\* A projection on its way, and a row, says what the log said at its sequence or, the
\* row, later.
FramesTrue ==
    \A i \in DOMAIN line.feed : line.feed[i].is = "projection" =>
        line.feed[i].says = Shown(line.feed[i].key, line.feed[i].seq)
RowsOK ==
    /\ rows = [key \in Keys |-> [says |-> rows[key].says, seq |-> rows[key].seq]]
    /\ \A key \in Keys : rows[key].seq \in Nat
    /\ "mixed" \notin upset => \A key \in Keys :
         /\ rows[key].seq <= memory.cursor
         /\ \E v \in rows[key].seq..Len(log) : rows[key].says = Shown(key, v)

\* A change the browser does not show yet is in a frame on its way, or will be
\* announced by whoever made it.
Changes(key, e) == e.is = (IF key = "usage" THEN "end" ELSE key)
Unchanged(key, n) == \A i \in (n + 1)..Len(log) : ~Changes(key, log[i])
Owed(key) ==
    IF key = "usage" THEN ~Unchanged(key, Announced)
    ELSE "unannounced" \in upset \/ \E h \in Handlers : Carrying(h) /\ handler[h].batch[1].is = key
Covers(key, f) ==
    /\ \/ f.is = "subscribed" \/ (f.is = "projection" /\ f.key = key)
       \/ key = "usage" /\ f.is = "event" /\ log[f.seq].is = "end"
    /\ Unchanged(key, f.seq)
Rebasing == line.feed # <<>> /\ line.feed[1].is = "subscribed"
KnownOK == \A key \in Keys : Unchanged(key, memory.cursor) \/ Owed(key)
OwedOK ==
    "mixed" \notin upset /\ line.at = "up" => \A key \in Keys :
        \/ ~Rebasing /\ Unchanged(key, rows[key].seq)
        \/ \E i \in DOMAIN line.feed : Covers(key, line.feed[i])
        \/ Owed(key)

\* The next event to come is at most, or exactly, the one after n.
Ahead(n) == /\ \A i \in DOMAIN line.feed : FirstEvent(i) => line.feed[i].seq <= n + 1
            /\ NoEvent => Announced <= n
Following(n) == /\ \A i \in DOMAIN line.feed : FirstEvent(i) => line.feed[i].seq = n + 1
                /\ NoEvent => Announced = n
ReaderOK ==
    /\ reader \in [at : {"off", "sync", "load", "values", "back"}, asOf : Nat, values : Nat]
    /\ reader.asOf <= Len(log) /\ reader.values <= memory.cursor
    /\ reader.at = "off" <=> page.at \in {"cold", "open"}
PageOK ==
    /\ page = [at |-> page.at, tail |-> page.tail, later |-> page.later,
               baseline |-> page.baseline, again |-> page.again, hole |-> FALSE]
    /\ page.at \in {"cold", "loading", "repair", "open"} /\ page.tail \in Nat
    /\ page.later \in Seq(Nat) /\ page.baseline \in Nat
    /\ page.at # "cold" => line.at = "up"
    /\ page.at \notin {"loading", "repair"} => page.later = <<>>
    /\ page.at = "open" => page.tail <= Len(log) /\ Ahead(page.tail)
    /\ page.later # <<>> =>
         /\ \A k \in 1..Len(page.later) : page.later[k] = page.later[1] + k - 1
         /\ page.later[Len(page.later)] <= Len(log) /\ Following(page.later[Len(page.later)])
    /\ reader.at \in {"values", "back"} =>
         IF page.later = <<>> THEN Ahead(reader.asOf) ELSE page.later[1] <= reader.asOf + 1
Unbroken == upset \subseteq {"overtaken", "unannounced", "mixed"}

LogInv == LogOK /\ ReceiptsOnce /\ MemoryOK /\ ReceiptsTrue /\ EngineOK /\ Unbroken
TaskInv == HandlersOK /\ LandedOK /\ FreshOK /\ AppendsFit /\ PoliciesOK /\ ToldOK
FeedInv == SyncOK /\ FeedOK /\ FramesTrue /\ KnownOK
ShowInv == RowsOK /\ OwedOK /\ ReaderOK /\ PageOK
ViewInv == LogInv /\ TaskInv /\ FeedInv /\ ShowInv


-----------------------------------------------------------------------------
(* Numbers and the last event of a kind *)

LEMMA GreatestIs ==
    ASSUME NEW S \in SUBSET Int, NEW m \in S, \A n \in S : n <= m
    PROVE  Max(S) = m
<1>1. \A x \in S : (\A n \in S : x >= n) => x = m
  OBVIOUS
<1>2. \A n \in S : m >= n
  OBVIOUS
<1> QED
  BY <1>1, <1>2 DEF Max

LEMMA LeastOne ==
    ASSUME NEW S \in SUBSET Nat, S # {}
    PROVE  \E m \in S : \A n \in S : m <= n
<1>1. PICK m \in S : \A n \in S : ~ (<<n, m>> \in OpToRel(<, Nat))
  BY NatLessThanWellFounded, WFMin
<1>2. \A n \in S : ~ (n < m)
  BY <1>1 DEF OpToRel
<1> QED
  BY <1>2

LEMMA GreatestOf ==
    ASSUME NEW n \in Nat, NEW S \in SUBSET (0..n), S # {}
    PROVE  Max(S) \in S /\ \A i \in S : i <= Max(S)
<1> DEFINE U == {u \in 0..n : \A i \in S : i <= u}
<1>1. n \in U /\ U \in SUBSET Nat
  OBVIOUS
<1>2. PICK m \in U : \A u \in U : m <= u
  BY <1>1, LeastOne
<1>3. m \in S
  <2>1. SUFFICES ASSUME m \notin S PROVE FALSE
    OBVIOUS
  <2>2. \A i \in S : i <= m - 1
    BY <2>1
  <2>4. PICK i : i \in S
    OBVIOUS
  <2>5. m >= 1
    BY <2>2, <2>4
  <2>3. m - 1 \in U
    BY <2>2, <2>5
  <2> QED
    BY <1>2, <2>3
<1>4. \A i \in S : i <= m
  OBVIOUS
<1>5. Max(S) = m
  BY <1>3, <1>4, GreatestIs
<1> QED
  BY <1>3, <1>4, <1>5

LEMMA BoundOfIds ==
    ASSUME NEW n \in Nat, NEW f \in [1..n -> Nat]
    PROVE  \E b \in Nat : \A i \in 1..n : f[i] <= b
<1> DEFINE Bounded(k) == \E b \in Nat : \A i \in 1..k : f[i] <= b
           Unbound == {k \in 0..n : ~ Bounded(k)}
<1>1. SUFFICES ASSUME ~ Bounded(n) PROVE FALSE
  OBVIOUS
<1>2. PICK k \in Unbound : \A u \in Unbound : k <= u
  <2>1. Unbound \in SUBSET Nat /\ n \in Unbound
    BY <1>1
  <2> HIDE DEF Unbound
  <2> QED
    BY <2>1, LeastOne
<1>3. k >= 1
  <2>1. Bounded(0)
    <3>1. 0 \in Nat /\ \A i \in 1..0 : f[i] <= 0
      OBVIOUS
    <3> QED
      BY <3>1
  <2> QED
    BY <2>1
<1>4. Bounded(k - 1)
  <2> HIDE DEF Bounded
  <2>1. k - 1 \in 0..n /\ ~ (k <= k - 1)
    BY <1>3
  <2> QED
    BY <1>2, <2>1
<1>5. PICK b \in Nat : \A i \in 1..(k - 1) : f[i] <= b
  BY <1>3, <1>4
<1>6. PICK c \in Nat : b <= c /\ f[k] <= c
  <2>1. f[k] \in Nat
    BY <1>3
  <2>2. CASE b <= f[k]
    BY <2>1, <2>2
  <2>3. CASE f[k] <= b
    BY <2>3
  <2> QED
    BY <2>1, <2>2, <2>3
<1>7. \A i \in 1..k : f[i] <= c
  BY <1>3, <1>5, <1>6
<1> QED
  BY <1>7

-----------------------------------------------------------------------------
(* What the log says *)

LEMMA ShownKept ==
    ASSUME NEW key \in Keys, NEW n \in Nat, \A i \in 1..n : log'[i] = log[i]
    PROVE  Shown(key, n)' = Shown(key, n)
<1>1. Count("end", n)' = Count("end", n)
  <2>1. {i \in 1..n : log'[i].is = "end"} = {i \in 1..n : log[i].is = "end"}
    OBVIOUS
  <2> QED
    BY <2>1 DEF Count
<1>2. ASSUME NEW blank PROVE Latest(key, n, blank)' = Latest(key, n, blank)
  <2> DEFINE found == {i \in 1..n : log[i].is = key}
  <2>1. {i \in 1..n : log'[i].is = key} = found
    OBVIOUS
  <2>2. found # {} => Max(found) \in 1..n
    <3>1. found \in SUBSET (0..n)
      OBVIOUS
    <3> QED
      BY <3>1, GreatestOf
  <2>3. found # {} => log'[Max(found)] = log[Max(found)]
    BY <2>2
  <2> QED
    BY <2>1, <2>3 DEF Latest
<1>3. Latest(key, n, Blank(key))' = Latest(key, n, Blank(key))
  BY <1>2 DEF Blank
<1> QED
  BY <1>1, <1>3 DEF Shown

LEMMA ShownSame ==
    ASSUME NEW key \in Keys, NEW m \in Nat, NEW n \in Nat, m <= n,
           \A i \in (m + 1)..n : ~ Changes(key, log[i])
    PROVE  Shown(key, n) = Shown(key, m)
<1>1. CASE key = "usage"
  <2>1. {i \in 1..n : log[i].is = "end"} = {i \in 1..m : log[i].is = "end"}
    BY <1>1 DEF Changes
  <2> QED
    BY <1>1, <2>1 DEF Shown, Count
<1>2. CASE key # "usage"
  <2>1. {i \in 1..n : log[i].is = key} = {i \in 1..m : log[i].is = key}
    BY <1>2 DEF Changes
  <2>2. Latest(key, n, Blank(key)) = Latest(key, m, Blank(key))
    BY <2>1 DEF Latest
  <2> QED
    BY <1>2, <2>2 DEF Shown
<1> QED
  BY <1>1, <1>2

LEMMA ShownLast ==
    ASSUME NEW key \in Keys, key # "usage", NEW k \in Nat, NEW n \in Nat, 1 <= k, k <= n,
           log[k].is = key, \A i \in (k + 1)..n : ~ Changes(key, log[i])
    PROVE  Shown(key, n) = log[k].says
<1> DEFINE found == {i \in 1..n : log[i].is = key}
<1>1. found \in SUBSET Int /\ k \in found /\ \A i \in found : i <= k
  BY DEF Changes
<1>2. Max(found) = k
  BY <1>1, GreatestIs
<1>3. Latest(key, n, Blank(key)) = log[k].says
  BY <1>1, <1>2 DEF Latest
<1> QED
  BY <1>3 DEF Shown

LEMMA ShownGoal ==
    ASSUME LogOK, NEW n \in 0..Len(log)
    PROVE  Goal(n) \in Goals
<1> DEFINE found == {i \in 1..n : log[i].is = "goal"}
<1>1. found # {} => Max(found) \in found
  <2>1. n \in Nat /\ found \in SUBSET (0..n)
    BY DEF LogOK
  <2> QED
    BY <2>1, GreatestOf
<1>2. found # {} => log[Max(found)].says \in Goals
  BY <1>1 DEF LogOK
<1>3. NoGoal \in Goals
  BY DEF NoGoal, Goals
<1>4. Latest("goal", n, NoGoal) \in Goals
  BY <1>2, <1>3 DEF Latest
<1> QED
  BY <1>4 DEF Goal, Shown, Blank

LEMMA RestoredFacts ==
    ASSUME LogOK, NEW n \in 0..Len(log)
    PROVE  /\ Restored(n) \in [Rpcs -> [ask : AllAsks \union {<<>>}, seq : Nat]]
           /\ \A rpc \in Rpcs : Restored(n)[rpc].seq # 0 <=> \E i \in 1..n : ReceiptOf(i, rpc)
           /\ \A rpc \in Rpcs : Restored(n)[rpc].seq # 0 =>
                LET m == Restored(n)[rpc].seq + 1
                IN m <= n /\ ReceiptOf(m, rpc) /\ log[m].says = Restored(n)[rpc].ask
<1>1. ASSUME NEW rpc \in Rpcs
      PROVE  /\ Restored(n)[rpc] \in [ask : AllAsks \union {<<>>}, seq : Nat]
             /\ Restored(n)[rpc].seq # 0 <=> \E i \in 1..n : ReceiptOf(i, rpc)
             /\ Restored(n)[rpc].seq # 0 =>
                  LET m == Restored(n)[rpc].seq + 1
                  IN m <= n /\ ReceiptOf(m, rpc) /\ log[m].says = Restored(n)[rpc].ask
  <2> DEFINE found == {i \in 1..n : log[i].is = "receipt" /\ log[i].says.rpc = rpc}
  <2>1. Restored(n)[rpc] = IF found = {} THEN NoReceipt
                           ELSE [ask |-> log[Max(found)].says, seq |-> Max(found) - 1]
    BY SMTT(40) DEF Restored
  <2>2. CASE found = {}
    BY <2>1, <2>2 DEF NoReceipt, ReceiptOf
  <2>3. CASE found # {}
    <3>1. PICK m : m = Max(found)
      OBVIOUS
    <3>2. m \in found
      <4>1. n \in Nat /\ found \in SUBSET (0..n)
        BY DEF LogOK
      <4> QED
        BY <2>3, <3>1, <4>1, GreatestOf
    <3>3. m \in 2..n /\ log[m].says \in AllAsks
      BY <3>2 DEF LogOK
    <3>4. Restored(n)[rpc] = [ask |-> log[m].says, seq |-> m - 1]
      BY <2>1, <2>3, <3>1
    <3> QED
      BY <3>2, <3>3, <3>4 DEF ReceiptOf
  <2> QED
    BY <2>2, <2>3
<1>2. Restored(n) = [rpc \in Rpcs |-> Restored(n)[rpc]]
  BY DEF Restored
<1> QED
  BY <1>1, <1>2

LEMMA AskFacts ==
    /\ \A h \in Handlers : \A ask \in Asks[h] : ask \in AllAsks
    /\ \A ask \in AllAsks : ask.rpc \in Rpcs /\ ask.method \in Methods
    /\ Driver \notin Handlers /\ Browser \notin Handlers /\ Free \notin Readers /\ Driver # Browser
    /\ Driver \in Readers /\ Browser \in Readers /\ Handlers \subseteq Readers
  BY AsksAreAsks DEF AsksAreAsks, AllAsks, Rpcs, Readers

LEMMA ShownStays ==
    ASSUME log' = log, NEW key \in Keys, NEW n \in Nat
    PROVE  Shown(key, n)' = Shown(key, n)
  BY ShownKept

LEMMA ValidStays ==
    ASSUME log' = log, NEW batch, Valid(batch)
    PROVE  Valid(batch)'
<1>1. /\ Goal(Len(log))' = Goal(Len(log))
      /\ Restored(Len(log))' = Restored(Len(log))
  BY DEF Goal, Shown, Latest, Blank, Restored, NoReceipt, Rpcs
<1>2. ASSUME NEW old, NEW new PROVE ValidGoal(old, new)' <=> ValidGoal(old, new)
  BY DEF ValidGoal
<1>3. PICK goal, receipts : goal = Goal(Len(log)) /\ receipts = Restored(Len(log))
  OBVIOUS
<1> QED
  BY <1>1, <1>2, <1>3 DEF Valid
LEMMA LogOKSame ==
    ASSUME LogOK, UNCHANGED <<log>>
    PROVE  LogOK'
  BY DEF LogOK

LEMMA ReceiptsOnceSame ==
    ASSUME ReceiptsOnce, UNCHANGED <<log>>
    PROVE  ReceiptsOnce'
  BY DEF ReceiptsOnce, ReceiptOf

LEMMA MemoryOKSame ==
    ASSUME MemoryOK, UNCHANGED <<log, memory>>
    PROVE  MemoryOK'
  BY DEF MemoryOK, ReceiptOf

LEMMA ReceiptsTrueSame ==
    ASSUME ReceiptsTrue, UNCHANGED <<log, memory, upset>>
    PROVE  ReceiptsTrue'
  BY DEF ReceiptsTrue, ReceiptOf

LEMMA EngineOKSame ==
    ASSUME EngineOK, UNCHANGED <<engine, log, running>>
    PROVE  EngineOK'
  BY DEF EngineOK, Begun

LEMMA UnbrokenSame ==
    ASSUME Unbroken, UNCHANGED <<upset>>
    PROVE  Unbroken'
  BY DEF Unbroken

LEMMA HandlersOKSame ==
    ASSUME HandlersOK, UNCHANGED <<handler, gate>>
    PROVE  HandlersOK'
  BY DEF HandlersOK, CommandBatch, ReplyBatch, Toward

LEMMA LandedOKSame ==
    ASSUME LandedOK, UNCHANGED <<handler, log>>
    PROVE  LandedOK'
  BY DEF LandedOK, Carrying, Landed, Toward, Fresh

LEMMA FreshOKSame ==
    ASSUME FreshOK, UNCHANGED <<handler, log, memory.cursor, sync>>
    PROVE  FreshOK'
  BY DEF FreshOK, Informed, Toward, Fresh

LEMMA AppendsFitSame ==
    ASSUME AppendsFit, UNCHANGED <<handler, log>>
    PROVE  AppendsFit'
<1>1. SUFFICES ASSUME NEW h \in Handlers, At(h, "append")' PROVE Valid(handler[h].batch)'
  BY DEF AppendsFit
<1>2. PICK b : b = handler[h].batch /\ b = handler'[h].batch
  OBVIOUS
<1>3. Valid(b)
  BY <1>1, <1>2 DEF AppendsFit, At
<1>4. Valid(b)'
  BY <1>3, ValidStays
<1> QED
  BY <1>2, <1>4

LEMMA PoliciesOKSame ==
    ASSUME PoliciesOK, UNCHANGED <<handler, engine, log>>
    PROVE  PoliciesOK'
  BY DEF PoliciesOK, At, Prompting, PoliciesWait

LEMMA ToldOKSame ==
    ASSUME ToldOK, UNCHANGED <<handler, upset, log>>
    PROVE  ToldOK'
  BY DEF ToldOK, At

LEMMA SyncOKSame ==
    ASSUME SyncOK, UNCHANGED <<sync, window, memory.cursor, log, running, reader, handler>>
    PROVE  SyncOK'
  BY DEF SyncOK, Wanting, At

LEMMA FeedOKSame ==
    ASSUME FeedOK, UNCHANGED <<line, memory.cursor, Announced>>
    PROVE  FeedOK'
  BY DEF FeedOK, IsEvent, Newest, AnnouncedInOrder

LEMMA FramesTrueSame ==
    ASSUME FramesTrue, UNCHANGED <<line, log>>
    PROVE  FramesTrue'
  BY ZenonT(40) DEF FramesTrue, Shown, Latest, Count

LEMMA KnownOKSame ==
    ASSUME KnownOK, UNCHANGED <<log, memory.cursor, Announced, upset, handler>>
    PROVE  KnownOK'
  BY DEF KnownOK, Owed, Unchanged, Carrying, Toward

LEMMA RowsOKSame ==
    ASSUME LogOK, RowsOK, UNCHANGED <<rows, log, memory.cursor, upset>>
    PROVE  RowsOK'
<1>1. \A key \in Keys : rows[key].seq \in Nat
  BY DEF RowsOK
<1>2. ASSUME NEW key \in Keys, NEW v \in rows[key].seq..Len(log), rows[key].says = Shown(key, v)
      PROVE  v \in rows'[key].seq..Len(log') /\ rows'[key].says = Shown(key, v)'
  BY <1>1, <1>2, ShownStays DEF LogOK
<1> QED
  BY <1>2 DEF RowsOK

LEMMA OwedOKSame ==
    ASSUME OwedOK, UNCHANGED <<log, line, rows, Announced, upset, handler>>
    PROVE  OwedOK'
  BY DEF OwedOK, Rebasing, Unchanged, Covers, Owed, Carrying, Toward

LEMMA ReaderOKSame ==
    ASSUME ReaderOK, UNCHANGED <<reader, page, log, memory.cursor>>
    PROVE  ReaderOK'
  BY DEF ReaderOK

LEMMA PageOKSame ==
    ASSUME PageOK, UNCHANGED <<page, line, log, reader, Announced>>
    PROVE  PageOK'
  BY DEF PageOK, Ahead, Following, IsEvent, FirstEvent, NoEvent

-----------------------------------------------------------------------------
(* The log grows *)

Grown == /\ log' \in Seq(Events) /\ Len(log') >= Len(log)
         /\ \A i \in 1..Len(log) : log'[i] = log[i]
         /\ \A i \in (Len(log) + 1)..Len(log') :
              /\ log'[i].is = "goal" => log'[i].says \in Goals
              /\ log'[i].is = "receipt" => log'[i].says \in AllAsks

LEMMA ShownGrown ==
    ASSUME NEW key \in Keys, NEW m \in Nat, NEW n \in Nat, m <= n,
           \A i \in 1..m : log'[i] = log[i],
           \A i \in (m + 1)..n : ~ Changes(key, log'[i])
    PROVE  Shown(key, n)' = Shown(key, m)
<1>1. Shown(key, m)' = Shown(key, m)
  BY ShownKept
<1>2. CASE key = "usage"
  <2>1. {i \in 1..n : log'[i].is = "end"} = {i \in 1..m : log'[i].is = "end"}
    BY <1>2 DEF Changes
  <2>2. Count("end", n)' = Count("end", m)'
    BY <2>1 DEF Count
  <2> QED
    BY <1>1, <1>2, <2>2 DEF Shown
<1>3. CASE key # "usage"
  <2>1. {i \in 1..n : log'[i].is = key} = {i \in 1..m : log'[i].is = key}
    BY <1>3 DEF Changes
  <2>2. Latest(key, n, Blank(key))' = Latest(key, m, Blank(key))'
    BY <2>1 DEF Latest
  <2> QED
    BY <1>1, <1>3, <2>2 DEF Shown
<1> QED
  BY <1>2, <1>3

LEMMA RestoredGrown ==
    ASSUME NEW m \in Nat, NEW n \in Nat, m <= n, \A i \in 1..m : log'[i] = log[i],
           \A i \in (m + 1)..n : log'[i].is # "receipt"
    PROVE  Restored(n)' = Restored(m)
<1>1. ASSUME NEW rpc \in Rpcs PROVE Restored(n)'[rpc] = Restored(m)[rpc]
  <2> DEFINE found == {i \in 1..m : log[i].is = "receipt" /\ log[i].says.rpc = rpc}
  <2>1. {i \in 1..n : log'[i].is = "receipt" /\ log'[i].says.rpc = rpc} = found
    OBVIOUS
  <2>2. found # {} => Max(found) \in 1..m
    <3>1. found \in SUBSET (0..m)
      OBVIOUS
    <3> QED
      BY <3>1, GreatestOf
  <2>3. found # {} => log'[Max(found)] = log[Max(found)]
    BY <2>2
  <2>4. Restored(m)[rpc] = IF found = {} THEN NoReceipt
                           ELSE [ask |-> log[Max(found)].says, seq |-> Max(found) - 1]
    BY DEF Restored
  <2>5. Restored(n)'[rpc] = IF found = {} THEN NoReceipt
                            ELSE [ask |-> log'[Max(found)].says, seq |-> Max(found) - 1]
    BY <2>1 DEF Restored, NoReceipt, Rpcs
  <2> QED
    BY <2>3, <2>4, <2>5
<1>2. /\ Restored(m) = [rpc \in Rpcs |-> Restored(m)[rpc]]
      /\ Restored(n)' = [rpc \in Rpcs |-> Restored(n)'[rpc]]
  BY DEF Restored, Rpcs
<1> QED
  BY <1>1, <1>2

LEMMA ValidGrown ==
    ASSUME LogOK, LogOK', Grown, NEW batch, Valid(batch),
           \A i \in (Len(log) + 1)..Len(log') : log'[i].is \in Marks
    PROVE  Valid(batch)'
<1>1. /\ Len(log) \in Nat /\ Len(log') \in Nat
      /\ \A i \in (Len(log) + 1)..Len(log') : log'[i].is \notin {"goal", "receipt"}
  BY DEF LogOK, Marks
<1>2. PICK m, n : m = Len(log) /\ n = Len(log')
  OBVIOUS
<1>3. Goal(Len(log))' = Goal(Len(log))
  <2>1. Shown("goal", n)' = Shown("goal", m)
    BY <1>1, <1>2, ShownGrown DEF Grown, Keys, Changes
  <2> QED
    BY <1>2, <2>1 DEF Goal
<1>4. Restored(Len(log))' = Restored(Len(log))
  <2>1. Restored(n)' = Restored(m)
    BY <1>1, <1>2, RestoredGrown DEF Grown
  <2> QED
    BY <1>2, <2>1
<1>5. ASSUME NEW old, NEW new, ValidGoal(old, new) PROVE ValidGoal(old, new)'
  <2>1. ASSUME NEW i \in DOMAIN log', log'[i].is = "goal" PROVE i \in DOMAIN log /\ log'[i] = log[i]
    BY <1>1, <2>1 DEF Grown, LogOK
  <2> QED
    BY <1>5, <2>1 DEF ValidGoal
<1>6. PICK goal, receipts : goal = Goal(Len(log)) /\ receipts = Restored(Len(log))
  OBVIOUS
<1> QED
  BY <1>3, <1>4, <1>5, <1>6 DEF Valid

LEMMA GrownLogOK ==
    ASSUME LogOK, Grown
    PROVE  LogOK'
<1>1. Len(log) \in Nat /\ Len(log') \in Nat /\ DOMAIN log = 1..Len(log) /\ DOMAIN log' = 1..Len(log')
  BY DEF LogOK, Grown
<1>2. ASSUME NEW i \in DOMAIN log'
      PROVE  /\ log'[i].is = "goal" => log'[i].says \in Goals
             /\ log'[i].is = "receipt" => log'[i].says \in AllAsks
  <2>1. CASE i \in 1..Len(log)
    BY <1>1, <2>1 DEF LogOK, Grown
  <2>2. CASE i \notin 1..Len(log)
    <3>1. i \in (Len(log) + 1)..Len(log')
      BY <1>1, <2>2
    <3> QED
      BY <3>1 DEF Grown
  <2> QED
    BY <2>1, <2>2
<1> QED
  BY <1>1, <1>2 DEF LogOK, Grown

\* What holds of a log holds of what follows it.
LEMMA GrowthKeeps ==
    ASSUME LogOK, MemoryOK, ReceiptsTrue, FeedOK, FramesTrue, RowsOK, Grown,
           UNCHANGED <<memory, line, rows>>, upset \subseteq upset'
    PROVE  LogOK' /\ MemoryOK' /\ ReceiptsTrue' /\ FramesTrue' /\ RowsOK'
<1>1. LogOK'
  BY GrownLogOK
<1>2. ASSUME NEW i \in 1..Len(log), NEW rpc PROVE ReceiptOf(i, rpc)' <=> ReceiptOf(i, rpc)
  BY DEF ReceiptOf, Grown
<1>3. Len(log) \in Nat /\ Len(log') \in Nat /\ Len(log) <= Len(log')
  BY DEF LogOK, Grown
<1>4. MemoryOK'
  <2>1. memory.cursor \in 1..Len(log) /\ memory.cursor \in 1..Len(log')
    BY <1>3 DEF MemoryOK
  <2>2. \A rpc \in Rpcs : \A i \in 1..memory.cursor : ReceiptOf(i, rpc)' <=> ReceiptOf(i, rpc)
    BY <1>2, <1>3, <2>1
  <2> QED
    BY <2>1, <2>2 DEF MemoryOK
<1>5. ReceiptsTrue'
  <2>1. SUFFICES ASSUME "overtaken" \notin upset', NEW rpc \in Rpcs, memory.receipts[rpc].seq # 0,
                        NEW n, n = memory.receipts[rpc].seq + 1
                 PROVE  n <= Len(log') /\ ReceiptOf(n, rpc)' /\ log'[n].says = memory.receipts[rpc].ask
    BY DEF ReceiptsTrue
  <2>2. n <= Len(log) /\ ReceiptOf(n, rpc) /\ log[n].says = memory.receipts[rpc].ask
    BY <2>1 DEF ReceiptsTrue
  <2>3. n \in 1..Len(log)
    BY <1>3, <2>1, <2>2 DEF MemoryOK
  <2> QED
    BY <1>2, <1>3, <2>2, <2>3 DEF Grown
<1>6. FramesTrue'
  <2>1. SUFFICES ASSUME NEW i \in DOMAIN line.feed, line.feed[i].is = "projection",
                        NEW key, key = line.feed[i].key, NEW n, n = line.feed[i].seq
                 PROVE  line.feed[i].says = Shown(key, n)'
    BY DEF FramesTrue
  <2>2. n \in 1..memory.cursor /\ line.feed[i].says = Shown(key, n)
    BY <2>1 DEF FramesTrue, FeedOK
  <2>3. n \in Nat /\ \A j \in 1..n : log'[j] = log[j]
    BY <1>3, <2>2 DEF MemoryOK, Grown
  <2>4. key \in Keys
    <3>1. line.feed[i] \in Frames
      BY DEF FeedOK
    <3> QED
      BY <2>1, <3>1 DEF Frames
  <2> QED
    BY <2>2, <2>3, <2>4, ShownKept
<1>7. RowsOK'
  <2>1. \A key \in Keys : rows[key].seq \in Nat
    BY DEF RowsOK
  <2>2. ASSUME NEW key \in Keys, NEW v \in rows[key].seq..Len(log), rows[key].says = Shown(key, v)
        PROVE  v \in rows[key].seq..Len(log') /\ rows[key].says = Shown(key, v)'
    <3>1. v \in Nat /\ v <= Len(log)
      BY <1>3, <2>1
    <3>2. \A i \in 1..v : log'[i] = log[i]
      BY <1>3, <3>1 DEF Grown
    <3> QED
      BY <1>3, <2>1, <2>2, <3>1, <3>2, ShownKept
  <2> QED
    BY <2>1, <2>2 DEF RowsOK
<1> QED
  BY <1>1, <1>4, <1>5, <1>6, <1>7

-----------------------------------------------------------------------------
(* The turn *)

LEMMA OneBusy ==
    ASSUME HandlersOK, NEW h \in Handlers, handler[h].at \in Busy
    PROVE  /\ gate = h /\ h # Free /\ handler[h].ask \in AllAsks
           /\ \A g \in Handlers : g # h => handler[g].at \notin Busy
  BY AskFacts DEF HandlersOK, Readers

LEMMA CursorIn ==
    ASSUME LogOK, MemoryOK, SyncOK
    PROVE  /\ Len(log) \in Nat /\ memory.cursor \in Nat /\ Announced \in Nat
           /\ 1 <= memory.cursor /\ memory.cursor <= Len(log) /\ Announced <= memory.cursor
<1>1. Announcing => sync[window].from \in Nat /\ sync[window].from <= memory.cursor
  BY DEF Announcing, SyncOK
<1> QED
  BY <1>1 DEF LogOK, MemoryOK, Announced

\* A start or an end of the turn is none of the requests' business.
LEMMA MarkKeeps ==
    ASSUME ViewInv, NEW e \in Events, e.is \in Marks, log' = Append(log, e),
           UNCHANGED <<memory, running, handler, gate, window, sync, line, rows, page, reader, upset>>
    PROVE  /\ LogOK' /\ ReceiptsOnce' /\ MemoryOK' /\ ReceiptsTrue' /\ Unbroken'
           /\ HandlersOK' /\ LandedOK' /\ FreshOK' /\ AppendsFit' /\ PoliciesWait' /\ ToldOK'
           /\ FeedInv' /\ ShowInv'
           /\ Len(log') = Len(log) + 1 /\ \A i \in 1..Len(log) : log'[i] = log[i]
           /\ log'[Len(log) + 1] = e
<1>1. LogInv /\ TaskInv /\ FeedInv /\ ShowInv
  BY DEF ViewInv
<1>2. /\ LogOK /\ ReceiptsOnce /\ MemoryOK /\ ReceiptsTrue /\ EngineOK /\ Unbroken
      /\ HandlersOK /\ LandedOK /\ FreshOK /\ AppendsFit /\ PoliciesOK /\ ToldOK
      /\ SyncOK /\ FeedOK /\ FramesTrue /\ KnownOK /\ RowsOK /\ OwedOK /\ ReaderOK /\ PageOK
  BY <1>1 DEF LogInv, TaskInv, FeedInv, ShowInv
<1>4. /\ Len(log) \in Nat /\ log' \in Seq(Events) /\ Len(log') = Len(log) + 1
      /\ \A i \in 1..Len(log) : log'[i] = log[i]
      /\ log'[Len(log) + 1] = e /\ e.is \in Marks
      /\ DOMAIN log = 1..Len(log) /\ DOMAIN log' = 1..Len(log')
  <2>1. log \in Seq(Events)
    BY <1>2 DEF LogOK
  <2> QED
    BY <2>1
<1>5. \A i \in (Len(log) + 1)..Len(log') : i = Len(log) + 1 /\ log'[i] = e
  BY <1>2, <1>4
<1>6. Grown
  BY <1>2, <1>4, <1>5 DEF Grown, Marks
<1>7. LogOK' /\ MemoryOK' /\ ReceiptsTrue' /\ FramesTrue' /\ RowsOK'
  BY <1>2, <1>6, GrowthKeeps
<1>8. Unbroken' /\ HandlersOK' /\ SyncOK'
  <2>1. Unbroken' /\ HandlersOK'
    BY <1>2, UnbrokenSame, HandlersOKSame
  <2>2. Len(log) <= Len(log')
    BY <1>2, <1>4
  <2> QED
    BY <1>2, <1>4, <2>1, <2>2, CursorIn DEF SyncOK, Wanting, At
<1>9. FeedOK' /\ Announced' = Announced
  <2>1. Announced' = Announced
    BY <1>2 DEF Announced, Announcing
  <2> QED
    BY <1>2, <2>1, FeedOKSame
<1>10. ReceiptsOnce'
  <2>1. \A i \in DOMAIN log' : \A rpc : ReceiptOf(i, rpc)' => i \in DOMAIN log /\ ReceiptOf(i, rpc)
    BY <1>2, <1>4, <1>5 DEF ReceiptOf, Marks
  <2> QED
    BY <1>2, <2>1 DEF ReceiptsOnce
<1>11. ASSUME NEW n \in Nat, Fresh(n) PROVE Fresh(n)'
  BY <1>2, <1>4, <1>5, <1>11 DEF Fresh
<1>12. FreshOK'
  BY <1>2, <1>11, AskFacts DEF FreshOK, Informed, Toward, SyncOK, MemoryOK
<1>13. LandedOK'
  <2>1. SUFFICES ASSUME NEW h \in Handlers, Carrying(h) PROVE Landed(h)'
    BY <1>2 DEF LandedOK, Carrying, Toward
  <2>2. PICK b \in Seq(Events) : b = handler[h].batch
    BY <1>2 DEF HandlersOK
  <2>3. PICK k \in 1..Len(log) : /\ k + Len(b) - 1 <= Len(log)
                                 /\ \A j \in DOMAIN b : log[k + j - 1] = b[j]
                                 /\ Fresh(k + Len(b) - 1)
    BY <1>2, <2>1, <2>2 DEF LandedOK, Landed
  <2>4. \A j \in DOMAIN b : log'[k + j - 1] = b[j]
    BY <1>2, <1>4, <2>3
  <2>5. Fresh(k + Len(b) - 1)'
    BY <1>2, <1>4, <1>11, <2>3
  <2>6. k \in 1..Len(log') /\ k + Len(b) - 1 <= Len(log') /\ b = handler'[h].batch
    BY <1>4, <2>2, <2>3
  <2>7. \A i \in (k + Len(b) - 1 + 1)..Len(log') : log'[i].is \in Marks
    BY <2>5 DEF Fresh
  <2> QED
    BY <2>4, <2>6, <2>7 DEF Landed, Fresh
<1>14. AppendsFit'
  <2>1. SUFFICES ASSUME NEW h \in Handlers, At(h, "append") PROVE Valid(handler[h].batch)'
    BY <1>2 DEF AppendsFit, At
  <2>2. PICK b : b = handler[h].batch /\ b = handler'[h].batch
    OBVIOUS
  <2>3. Valid(b)
    BY <1>2, <2>1, <2>2 DEF AppendsFit
  <2>4. Valid(b)'
    BY <1>2, <1>4, <1>5, <1>6, <1>7, <2>3, ValidGrown
  <2> QED
    BY <1>2, <2>2, <2>4
<1>15. PoliciesWait'
  <2>1. SUFFICES ASSUME NEW i \in DOMAIN log', log'[i].is \in {"preset", "policy"},
                        NEW s \in 1..(i - 1), log'[s].is = "start"
                 PROVE  (\E t \in s..i : log'[t].is = "end") \/ log'[s].says = "idle"
    BY <1>2 DEF PoliciesWait
  <2>2. i \in 1..Len(log)
    BY <1>2, <1>4, <1>5, <2>1 DEF Marks
  <2>3. log'[i] = log[i] /\ log'[s] = log[s]
    BY <1>2, <1>4, <2>2
  <2>4. (\E t \in s..i : log[t].is = "end") \/ log[s].says = "idle"
    BY <1>2, <1>4, <2>1, <2>2, <2>3 DEF PoliciesOK, PoliciesWait
  <2>5. \A t \in s..i : log'[t] = log[t]
    BY <1>2, <1>4, <2>2
  <2> QED
    BY <1>2, <2>3, <2>4, <2>5
<1>16. ToldOK'
  <2>1. SUFFICES ASSUME "overtaken" \notin upset, NEW h \in Handlers, At(h, "ok"),
                        handler[h].ask.method = "title", NEW n, n = handler[h].told + 1
                 PROVE  n <= Len(log') /\ log'[n] = Event("receipt", handler[h].ask)
    BY <1>2 DEF ToldOK, At, Event
  <2>2. n <= Len(log) /\ log[n] = Event("receipt", handler[h].ask)
    BY <1>2, <2>1 DEF ToldOK
  <2>3. handler[h].told \in Nat
    BY <1>2 DEF HandlersOK
  <2> QED
    BY <1>2, <1>4, <2>1, <2>2, <2>3
<1>17. ASSUME NEW key \in Keys, NEW n \in Nat, n <= Len(log), ~ (key = "usage" /\ e.is = "end")
       PROVE  Unchanged(key, n)' <=> Unchanged(key, n)
  <2>1. ~ Changes(key, e)
    BY <1>2, <1>17 DEF Changes, Marks, Keys, Commands
  <2> QED
    BY <1>2, <1>4, <1>5, <1>17, <2>1 DEF Unchanged, Changes
<1>18. ASSUME NEW key \in Keys, Owed(key) PROVE Owed(key)'
  <2>1. CASE key = "usage"
    <3>1. PICK i \in (Announced + 1)..Len(log) : Changes(key, log[i])
      BY <1>2, <1>18, <2>1 DEF Owed, Unchanged
    <3>2. i \in (Announced + 1)..Len(log') /\ Changes(key, log'[i])
      BY <1>2, <1>4, <3>1, CursorIn DEF Changes
    <3> QED
      BY <1>2, <1>9, <2>1, <3>2 DEF Owed, Unchanged
  <2>2. CASE key # "usage"
    BY <1>2, <1>18, <2>2 DEF Owed, Carrying, Toward
  <2> QED
    BY <1>2, <2>1, <2>2
<1>19. e.is = "end" => Owed("usage")'
  <2>1. ASSUME e.is = "end" PROVE Len(log') \in (Announced + 1)..Len(log') /\ Changes("usage", log'[Len(log')])
    BY <1>2, <1>4, <2>1, CursorIn DEF Changes
  <2> QED
    BY <1>2, <1>9, <2>1 DEF Owed, Unchanged
<1>20. KnownOK'
  BY <1>2, <1>17, <1>18, <1>19, CursorIn DEF KnownOK
<1>21. OwedOK'
  <2>1. SUFFICES ASSUME "mixed" \notin upset, line.at = "up", NEW key \in Keys, ~ Owed(key)'
                 PROVE  \/ ~ Rebasing' /\ Unchanged(key, rows[key].seq)'
                        \/ \E i \in DOMAIN line.feed : Covers(key, line.feed[i])'
    BY <1>2 DEF OwedOK
  <2>2. \/ ~ Rebasing /\ Unchanged(key, rows[key].seq)
        \/ \E i \in DOMAIN line.feed : Covers(key, line.feed[i])
    BY <1>2, <1>18, <2>1 DEF OwedOK
  <2>3. ~ (key = "usage" /\ e.is = "end")
    BY <1>2, <1>19, <2>1
  <2>4. CASE ~ Rebasing /\ Unchanged(key, rows[key].seq)
    <3>1. PICK n \in Nat : n = rows[key].seq /\ n <= Len(log)
      BY <1>2, <2>1, CursorIn DEF RowsOK
    <3> QED
      BY <1>2, <1>17, <2>3, <2>4, <3>1 DEF Rebasing
  <2>5. ASSUME NEW i \in DOMAIN line.feed, Covers(key, line.feed[i]) PROVE Covers(key, line.feed[i])'
    <3>1. PICK f : f = line.feed[i] /\ f.seq \in Nat /\ 1 <= f.seq /\ f.seq <= Len(log)
      BY <1>2, CursorIn DEF FeedOK
    <3>2. Unchanged(key, f.seq)' /\ log'[f.seq] = log[f.seq]
      BY <1>2, <1>4, <1>17, <2>3, <2>5, <3>1 DEF Covers
    <3> QED
      BY <1>2, <2>5, <3>1, <3>2 DEF Covers
  <2> QED
    BY <1>2, <2>2, <2>4, <2>5
<1>22. ReaderOK' /\ PageOK'
  <2>1. ReaderOK'
    BY <1>2, <1>4 DEF ReaderOK
  <2>2. Len(log) <= Len(log')
    BY <1>4
  <2> QED
    BY <1>2, <1>4, <1>9, <2>1, <2>2 DEF PageOK, Ahead, Following, IsEvent, FirstEvent, NoEvent
<1> QED
  BY <1>2, <1>4, <1>7, <1>8, <1>9, <1>10, <1>12, <1>13, <1>14, <1>15, <1>16, <1>20, <1>21, <1>22
     DEF FeedInv, ShowInv

-----------------------------------------------------------------------------
(* The first state *)

LEMMA ViewStarts ==
    ASSUME NEW watched \in BOOLEAN, NEW asking \in SUBSET Handlers, ViewInit(watched, asking)
    PROVE  ViewInv
<1> DEFINE first == Event("goal", [id |-> 1, revision |-> 1, phase |-> "active"])
<1>1. /\ first \in Events /\ first.is = "goal" /\ first.says \in Goals
      /\ log = <<first>> /\ Len(log) = 1 /\ log[1] = first /\ DOMAIN log = {1}
  BY DEF ViewInit, Event, Events, Kinds, Says, Goals
<1> HIDE DEF first
<1>2. /\ memory = [cursor |-> 1, receipts |-> [rpc \in Rpcs |-> NoReceipt]]
      /\ gate = Free /\ window = Free /\ upset = {} /\ running = FALSE
      /\ line.at \in {"down", "absent"} /\ line = [at |-> line.at, feed |-> <<>>]
      /\ page = Closed /\ reader = Unread
      /\ engine = [at |-> "idle", known |-> 0, followed |-> FALSE]
      /\ sync = [p \in Readers |-> Synced]
      /\ rows = [key \in Keys |-> [says |-> Blank(key), seq |-> 0]]
  BY DEF ViewInit
<1>3. /\ \A h \in Handlers : handler[h].at \in {"idle", "lost"}
      /\ handler \in [Handlers -> [at : Busy \union Ready, ask : AllAsks \union {"none"},
                                   batch : Seq(Events), leads : Busy \union {"none"}, told : Nat]]
  <2>1. handler = [h \in Handlers |-> IF h \in asking THEN Idle ELSE [Idle EXCEPT !.at = "lost"]]
    BY DEF ViewInit
  <2>2. /\ Idle = [at |-> "idle", ask |-> "none", batch |-> <<>>, leads |-> "none", told |-> 0]
        /\ [Idle EXCEPT !.at = "lost"]
             = [at |-> "lost", ask |-> "none", batch |-> <<>>, leads |-> "none", told |-> 0]
    BY DEF Idle
  <2>3. <<>> \in Seq(Events)
    OBVIOUS
  <2> QED
    BY <2>1, <2>2, <2>3 DEF Ready
<1>4. LogOK
  BY <1>1 DEF LogOK
<1>5. ReceiptsOnce
  BY <1>1 DEF ReceiptsOnce
<1>6. MemoryOK
  <2>1. /\ memory.cursor = 1 /\ memory.cursor \in Nat
        /\ \A rpc \in Rpcs : memory.receipts[rpc] = [ask |-> <<>>, seq |-> 0]
        /\ memory \in [cursor : Nat, receipts : [Rpcs -> [ask : AllAsks \union {<<>>}, seq : Nat]]]
    BY <1>2 DEF NoReceipt
  <2>2. \A rpc \in Rpcs : \A i \in 1..1 : ~ ReceiptOf(i, rpc)
    BY <1>1 DEF ReceiptOf
  <2> QED
    BY <1>1, <2>1, <2>2 DEF MemoryOK
<1>7. ReceiptsTrue
  BY <1>2 DEF ReceiptsTrue, NoReceipt
<1>8. EngineOK
  <2>1. /\ engine.at = "idle" /\ engine.known = 0
        /\ engine = [at |-> engine.at, known |-> engine.known, followed |-> engine.followed]
    BY <1>2
  <2>2. \A i \in DOMAIN log : ~ Begun(i) /\ log[i].is \notin Marks
    BY <1>1 DEF Begun, Marks
  <2>3. running \in BOOLEAN /\ Len(log) = 1
    BY <1>1, <1>2
  <2> QED
    BY <2>1, <2>2, <2>3 DEF EngineOK
<1>9. Unbroken
  BY <1>2 DEF Unbroken
<1>10. HandlersOK
  BY <1>2, <1>3 DEF HandlersOK, Busy
<1>11. LandedOK /\ AppendsFit /\ ToldOK
  BY <1>3 DEF LandedOK, Carrying, AppendsFit, ToldOK, At
<1>12. \A p \in Readers : sync[p] = [at |-> "off", from |-> 0, to |-> 0]
  BY <1>2 DEF Synced
<1>13. FreshOK
  BY <1>3, <1>12, AskFacts, SMTT(40) DEF FreshOK, Informed
<1>14. PoliciesOK
  BY <1>1, <1>3, ZenonT(40) DEF PoliciesOK, PoliciesWait, At
<1>15. SyncOK
  BY <1>2, <1>12 DEF SyncOK, Synced
<1>16. FeedOK /\ FramesTrue
  <2>1. line.feed = <<>> /\ DOMAIN line.feed = {} /\ line.feed \in Seq(Frames)
    <3>1. PICK a : line = [at |-> a, feed |-> <<>>]
      BY <1>2
    <3> QED
      BY <3>1
  <2>2. line \in [at : {"down", "absent", "subscribed", "up"}, feed : Seq(Frames)]
    BY <1>2, <2>1
  <2> QED
    BY <2>1, <2>2 DEF FeedOK, FramesTrue, AnnouncedInOrder
<1>17. KnownOK
  BY <1>1, <1>2 DEF KnownOK, Unchanged
<1>18. RowsOK
  <2>1. \A key \in Keys : rows[key] = [says |-> Blank(key), seq |-> 0]
    BY <1>2
  <2>2. ASSUME NEW key \in Keys PROVE Shown(key, 0) = Blank(key)
    <3>1. {i \in 1..0 : log[i].is = key} = {} /\ {i \in 1..0 : log[i].is = "end"} = {}
      OBVIOUS
    <3>2. Count("end", 0) = 0
      BY <3>1, FS_EmptySet DEF Count
    <3>3. Latest(key, 0, Blank(key)) = Blank(key)
      BY <3>1 DEF Latest
    <3> QED
      BY <3>2, <3>3 DEF Shown, Blank
  <2> QED
    BY <1>1, <1>2, <2>1, <2>2 DEF RowsOK
<1>19. OwedOK
  BY <1>2 DEF OwedOK
<1>20. ReaderOK /\ PageOK
  BY <1>1, <1>2 DEF ReaderOK, PageOK, Unread, Closed
<1> QED
  BY <1>4, <1>5, <1>6, <1>7, <1>8, <1>9, <1>10, <1>11, <1>13, <1>14, <1>15, <1>16, <1>17, <1>18,
     <1>19, <1>20 DEF ViewInv, LogInv, TaskInv, FeedInv, ShowInv

LEMMA PartsOf ==
    ASSUME ViewInv
    PROVE  /\ LogOK /\ ReceiptsOnce /\ MemoryOK /\ ReceiptsTrue /\ EngineOK /\ Unbroken
           /\ HandlersOK /\ LandedOK /\ FreshOK /\ AppendsFit /\ PoliciesOK /\ ToldOK
           /\ SyncOK /\ FeedOK /\ FramesTrue /\ KnownOK /\ RowsOK /\ OwedOK /\ ReaderOK /\ PageOK
  BY DEF ViewInv, LogInv, TaskInv, FeedInv, ShowInv

LEMMA StartsKeeps ==
    ASSUME ViewInv, NEW from \in {"asked", "idle"}, Starts(from)
    PROVE  ViewInv'
<1>1. EngineOK /\ PoliciesOK /\ LogOK
  BY PartsOf
<1>2. PICK e \in Events : e.is = "start" /\ e.says = from /\ e.is \in Marks /\ log' = Append(log, e)
  <2>1. Event("start", from) \in Events
    BY DEF Event, Events, Kinds, Says
  <2>2. log' = Append(log, Event("start", from))
    BY DEF Starts
  <2> QED
    BY <2>1, <2>2 DEF Event, Marks
<1>3. UNCHANGED <<memory, running, handler, gate, window, sync, line, rows, page, reader, upset>>
  BY DEF Starts, browserVars
<1>4. /\ LogOK' /\ ReceiptsOnce' /\ MemoryOK' /\ ReceiptsTrue' /\ Unbroken'
      /\ HandlersOK' /\ LandedOK' /\ FreshOK' /\ AppendsFit' /\ PoliciesWait' /\ ToldOK'
      /\ FeedInv' /\ ShowInv'
      /\ Len(log') = Len(log) + 1 /\ \A i \in 1..Len(log) : log'[i] = log[i]
      /\ log'[Len(log) + 1] = e
  BY <1>2, <1>3, MarkKeeps
<1>5. /\ engine.at = from /\ engine'.at = "open" /\ engine'.known = Len(log) + 1
      /\ engine'.followed = engine.followed
      /\ engine' = [at |-> engine'.at, known |-> engine'.known, followed |-> engine'.followed]
  <2>1. engine.at = from /\ engine' = [engine EXCEPT !.at = "open", !.known = Len(log) + 1]
    BY DEF Starts
  <2>2. Len(log) \in Nat
    BY <1>1 DEF LogOK
  <2>3. engine = [at |-> engine.at, known |-> engine.known, followed |-> engine.followed]
    BY <1>1 DEF EngineOK
  <2> QED
    BY <2>1, <2>2, <2>3
<1>6. \A i \in DOMAIN log : log[i].is \notin Marks
  BY <1>1, <1>5 DEF EngineOK
<1>7. /\ DOMAIN log = 1..Len(log) /\ DOMAIN log' = 1..(Len(log) + 1) /\ Len(log) \in Nat
  BY <1>1, <1>4 DEF LogOK
<1>8. /\ \A i \in DOMAIN log' : Begun(i)' <=> i = Len(log) + 1
      /\ from = "asked" => running'
  <2>1. from = "asked" => running'
    BY <1>1, <1>3, <1>5 DEF EngineOK
  <2> QED
    BY <1>2, <1>4, <1>6, <1>7, <2>1 DEF Begun, Marks
<1>9. EngineOK'
  BY <1>1, <1>2, <1>3, <1>4, <1>5, <1>7, <1>8 DEF EngineOK
<1>10. PoliciesOK'
  <2>1. Prompting' => Prompting
    BY <1>2, <1>4, <1>5 DEF Prompting
  <2> QED
    BY <1>1, <1>3, <1>4, <2>1 DEF PoliciesOK, At
<1> QED
  BY <1>4, <1>9, <1>10 DEF ViewInv, LogInv, TaskInv

LEMMA EndsKeeps ==
    ASSUME ViewInv, Ends
    PROVE  ViewInv'
<1>1. EngineOK /\ PoliciesOK /\ LogOK /\ HandlersOK
  BY PartsOf
<1>2. UNCHANGED <<memory, running, handler, gate, window, sync, line, rows, page, reader, upset>>
  BY DEF Ends, browserVars
<1>3. CASE ~ Intervened
  <2>1. PICK e \in Events : e.is = "end" /\ e.is \in Marks /\ log' = Append(log, e)
    <3>1. Event("end", "") \in Events
      BY DEF Event, Events, Kinds, Says
    <3>2. log' = Append(log, Event("end", ""))
      BY <1>3 DEF Ends
    <3> QED
      BY <3>1, <3>2 DEF Event, Marks
  <2>2. /\ LogOK' /\ ReceiptsOnce' /\ MemoryOK' /\ ReceiptsTrue' /\ Unbroken'
        /\ HandlersOK' /\ LandedOK' /\ FreshOK' /\ AppendsFit' /\ PoliciesWait' /\ ToldOK'
        /\ FeedInv' /\ ShowInv'
        /\ Len(log') = Len(log) + 1 /\ \A i \in 1..Len(log) : log'[i] = log[i]
        /\ log'[Len(log) + 1] = e
    BY <1>2, <2>1, MarkKeeps
  <2>3. /\ engine.at = "open" /\ engine'.at = "ended" /\ engine'.known = Len(log) + 1
        /\ engine' = [at |-> engine'.at, known |-> engine'.known, followed |-> engine'.followed]
    <3>1. engine.at = "open" /\ engine' = [engine EXCEPT !.at = "ended", !.known = Len(log) + 1]
      BY <1>3 DEF Ends
    <3>2. Len(log) \in Nat
      BY <1>1 DEF LogOK
    <3>3. engine = [at |-> engine.at, known |-> engine.known, followed |-> engine.followed]
      BY <1>1 DEF EngineOK
    <3> QED
      BY <3>1, <3>2, <3>3
  <2>4. /\ DOMAIN log = 1..Len(log) /\ DOMAIN log' = 1..(Len(log) + 1) /\ Len(log) \in Nat
    BY <1>1, <2>2 DEF LogOK
  <2>5. \A i \in DOMAIN log' : Begun(i)' <=> i \in DOMAIN log /\ Begun(i)
    BY <2>1, <2>2, <2>4 DEF Begun
  <2>6. EngineOK'
    <3>1. \A i, j \in DOMAIN log' : Begun(i)' /\ Begun(j)' => i = j
      BY <1>1, <2>5 DEF EngineOK
    <3>2. ASSUME NEW i \in DOMAIN log', Begun(i)'
          PROVE  Len(log) + 1 \in (i + 1)..Len(log') /\ log'[Len(log) + 1].is = "end"
      BY <2>1, <2>2, <2>4, <2>5, <3>2
    <3>3. running' \in BOOLEAN
      BY <1>1, <1>2 DEF EngineOK
    <3> QED
      BY <2>2, <2>3, <2>4, <3>1, <3>2, <3>3 DEF EngineOK
  <2>7. PoliciesOK'
    <3>1. ~ Prompting'
      BY <2>3 DEF Prompting
    <3> QED
      BY <2>2, <3>1 DEF PoliciesOK
  <2> QED
    BY <2>2, <2>6, <2>7 DEF ViewInv, LogInv, TaskInv
<1>4. CASE Intervened
  <2>1. engine.at = "open" /\ engine' = [engine EXCEPT !.at = "broken"] /\ log' = log
    BY <1>4 DEF Ends
  <2>2. PICK i \in (engine.known + 1)..Len(log) : log[i].is \notin Allowed
    BY <1>4 DEF Intervened
  <2>3. log[engine.known].says = "idle"
    <3>1. SUFFICES ASSUME log[engine.known].says = "asked" PROVE FALSE
      BY <1>1, <2>1 DEF EngineOK
    <3>2. /\ engine.known \in 1..Len(log) /\ log[engine.known].is = "start" /\ Len(log) \in Nat
          /\ \A j \in (engine.known + 1)..Len(log) : log[j].is # "end"
          /\ \A j \in DOMAIN log : Begun(j) => j = engine.known
      BY <1>1, <2>1 DEF EngineOK, LogOK, Begun
    <3>3. i \in DOMAIN log /\ i # engine.known /\ log[i].is \in Kinds /\ engine.known \in 1..(i - 1)
      <4>1. i \in DOMAIN log /\ log[i] \in Events
        BY <1>1, <3>2 DEF LogOK
      <4> QED
        BY <3>2, <4>1 DEF Events
    <3>4. log[i].is \in {"preset", "policy", "goal", "start", "end"}
      BY <2>2, <3>3 DEF Allowed, Kinds
    <3>5. log[i].is \notin {"start", "end"}
      BY <3>2, <3>3 DEF Begun
    <3>6. log[i].is \in {"preset", "policy"}
      BY <2>2, <3>4, <3>5 DEF Allowed
    <3>7. PICK t \in engine.known..i : log[t].is = "end"
      BY <1>1, <3>1, <3>2, <3>3, <3>6 DEF PoliciesOK, PoliciesWait
    <3> QED
      BY <3>2, <3>3, <3>7
  <2>4. EngineOK'
    <3>1. /\ engine'.at = "broken" /\ engine'.known = engine.known /\ engine.known \in Nat
          /\ engine' = [at |-> engine'.at, known |-> engine'.known, followed |-> engine'.followed]
      BY <1>1, <2>1 DEF EngineOK
    <3>2. \A j \in DOMAIN log : Begun(j) => j = engine.known
      BY <1>1, <2>1 DEF EngineOK
    <3>3. running' \in BOOLEAN /\ engine.known <= Len(log) /\ \A j \in DOMAIN log : Begun(j)' <=> Begun(j)
      BY <1>1, <1>2, <2>1 DEF EngineOK, Begun
    <3>4. \A j \in DOMAIN log' : Begun(j)' => log'[j].says = "idle"
      BY <2>1, <2>3, <3>2, <3>3
    <3>5. \A i1, j1 \in DOMAIN log' : Begun(i1)' /\ Begun(j1)' => i1 = j1
      BY <2>1, <3>2, <3>3
    <3>6. engine.known <= Len(log')
      BY <2>1, <3>3
    <3> QED
      BY <3>1, <3>3, <3>4, <3>5, <3>6 DEF EngineOK
  <2>5. PoliciesOK'
    <3>1. ~ Prompting'
      BY <1>1, <2>1 DEF Prompting, EngineOK
    <3> QED
      BY <1>1, <2>1, <3>1 DEF PoliciesOK, PoliciesWait
  <2>6. /\ LogOK' /\ ReceiptsOnce' /\ MemoryOK' /\ ReceiptsTrue' /\ Unbroken'
        /\ HandlersOK' /\ LandedOK' /\ FreshOK' /\ AppendsFit' /\ ToldOK'
    BY <1>2, <2>1, PartsOf, LogOKSame, ReceiptsOnceSame, MemoryOKSame, ReceiptsTrueSame, UnbrokenSame,
       HandlersOKSame, LandedOKSame, FreshOKSame, AppendsFitSame, ToldOKSame
  <2>7. Announced' = Announced
    BY <1>2 DEF Announced, Announcing
  <2>8. /\ SyncOK' /\ FeedOK' /\ FramesTrue' /\ KnownOK' /\ RowsOK' /\ OwedOK' /\ ReaderOK' /\ PageOK'
    BY <1>2, <2>1, <2>7, PartsOf, SyncOKSame, FeedOKSame, FramesTrueSame, KnownOKSame, RowsOKSame,
       OwedOKSame, ReaderOKSame, PageOKSame
  <2> QED
    BY <2>4, <2>5, <2>6, <2>8 DEF ViewInv, LogInv, TaskInv, FeedInv, ShowInv
<1> QED
  BY <1>3, <1>4

LEMMA PromptedKeeps ==
    ASSUME ViewInv, Prompted
    PROVE  ViewInv'
<1>1. /\ LogOK /\ ReceiptsOnce /\ MemoryOK /\ ReceiptsTrue /\ EngineOK /\ Unbroken
      /\ HandlersOK /\ LandedOK /\ FreshOK /\ AppendsFit /\ PoliciesOK /\ ToldOK
      /\ SyncOK /\ FeedOK /\ FramesTrue /\ KnownOK /\ RowsOK /\ OwedOK /\ ReaderOK /\ PageOK
  BY PartsOf
<1>2. UNCHANGED <<log, memory, routable, handler, gate, window, sync, line, rows, page, reader, upset>>
  BY DEF Prompted, browserVars
<1>3. /\ engine.at = "idle" /\ running' /\ running' \in BOOLEAN /\ gate = Free
      /\ engine' = [engine EXCEPT !.at = "asked", !.followed = TRUE]
  BY DEF Prompted
<1>4. /\ \A h \in Handlers : handler[h].at \notin Busy
      /\ \A i \in DOMAIN log : log[i].is \notin Marks
  BY <1>1, <1>3, AskFacts DEF HandlersOK, EngineOK, Readers
<1>5. Announced' = Announced
  BY <1>2 DEF Announced, Announcing
<1>6. /\ LogOK' /\ ReceiptsOnce' /\ MemoryOK' /\ ReceiptsTrue' /\ Unbroken' /\ HandlersOK'
      /\ LandedOK' /\ FreshOK' /\ AppendsFit' /\ ToldOK' /\ FeedOK' /\ FramesTrue' /\ KnownOK'
      /\ RowsOK' /\ OwedOK' /\ ReaderOK' /\ PageOK'
  BY <1>1, <1>2, <1>3, <1>4, <1>5, LogOKSame, ReceiptsOnceSame, MemoryOKSame,
     ReceiptsTrueSame, UnbrokenSame, HandlersOKSame, LandedOKSame, FreshOKSame,
     AppendsFitSame, ToldOKSame, FeedOKSame, FramesTrueSame, KnownOKSame, RowsOKSame,
     OwedOKSame, ReaderOKSame, PageOKSame
<1>7. EngineOK'
  <2>1. /\ engine'.at = "asked" /\ engine'.known = engine.known
        /\ engine' = [at |-> engine'.at, known |-> engine'.known, followed |-> engine'.followed]
    BY <1>1, <1>3 DEF EngineOK
  <2>2. engine.known \in Nat /\ engine.known <= Len(log)
    BY <1>1 DEF EngineOK
  <2>3. \A i \in DOMAIN log : ~ Begun(i)'
    BY <1>2, <1>4 DEF Begun, Marks
  <2> QED
    BY <1>2, <1>3, <1>4, <2>1, <2>2, <2>3 DEF EngineOK
<1>8. PoliciesOK'
  BY <1>1, <1>2, <1>4 DEF PoliciesOK, PoliciesWait, At, Busy
<1>9. SyncOK'
  BY <1>1, <1>2, <1>3 DEF SyncOK, Wanting, At
<1> QED
  BY <1>6, <1>7, <1>8, <1>9 DEF ViewInv, LogInv, TaskInv, FeedInv, ShowInv

LEMMA FollowKeeps ==
    ASSUME ViewInv, Follow
    PROVE  ViewInv'
<1>1. /\ LogOK /\ ReceiptsOnce /\ MemoryOK /\ ReceiptsTrue /\ EngineOK /\ Unbroken
      /\ HandlersOK /\ LandedOK /\ FreshOK /\ AppendsFit /\ PoliciesOK /\ ToldOK
      /\ SyncOK /\ FeedOK /\ FramesTrue /\ KnownOK /\ RowsOK /\ OwedOK /\ ReaderOK /\ PageOK
  BY PartsOf
<1>2. UNCHANGED <<log, memory, routable, handler, gate, window, sync, line, rows, page, reader, upset>>
  BY DEF Follow, browserVars
<1>3. /\ engine.at \in {"open", "ended", "broken"} /\ running' /\ running' \in BOOLEAN
      /\ engine' = [engine EXCEPT !.followed = TRUE]
  BY DEF Follow
<1>4. /\ engine'.at = engine.at /\ engine'.known = engine.known
      /\ engine' = [at |-> engine'.at, known |-> engine'.known, followed |-> engine'.followed]
  BY <1>1, <1>3 DEF EngineOK
<1>5. Announced' = Announced
  BY <1>2 DEF Announced, Announcing
<1>6. /\ LogOK' /\ ReceiptsOnce' /\ MemoryOK' /\ ReceiptsTrue' /\ Unbroken' /\ HandlersOK'
      /\ LandedOK' /\ FreshOK' /\ AppendsFit' /\ ToldOK' /\ FeedOK' /\ FramesTrue' /\ KnownOK'
      /\ RowsOK' /\ OwedOK' /\ ReaderOK' /\ PageOK'
  BY <1>1, <1>2, <1>3, <1>4, <1>5, LogOKSame, ReceiptsOnceSame, MemoryOKSame,
     ReceiptsTrueSame, UnbrokenSame, HandlersOKSame, LandedOKSame, FreshOKSame,
     AppendsFitSame, ToldOKSame, FeedOKSame, FramesTrueSame, KnownOKSame, RowsOKSame,
     OwedOKSame, ReaderOKSame, PageOKSame
<1>7. EngineOK'
  BY <1>1, <1>2, <1>3, <1>4, <1>5 DEF EngineOK, Begun
<1>8. PoliciesOK'
  BY <1>1, <1>2, <1>4 DEF PoliciesOK, PoliciesWait, Prompting, At
<1>9. SyncOK'
  BY <1>1, <1>2, <1>3 DEF SyncOK, Wanting, At
<1> QED
  BY <1>6, <1>7, <1>8, <1>9 DEF ViewInv, LogInv, TaskInv, FeedInv, ShowInv

LEMMA RestKeeps ==
    ASSUME ViewInv, Rest
    PROVE  ViewInv'
<1>1. /\ LogOK /\ ReceiptsOnce /\ MemoryOK /\ ReceiptsTrue /\ EngineOK /\ Unbroken
      /\ HandlersOK /\ LandedOK /\ FreshOK /\ AppendsFit /\ PoliciesOK /\ ToldOK
      /\ SyncOK /\ FeedOK /\ FramesTrue /\ KnownOK /\ RowsOK /\ OwedOK /\ ReaderOK /\ PageOK
  BY PartsOf
<1>2. UNCHANGED <<log, memory, routable, handler, gate, window, sync, engine, line, rows, page, reader, upset>>
  BY DEF Rest, browserVars
<1>3. /\ engine.at \in {"ended", "broken"} /\ running' \in BOOLEAN /\ sync[Driver].at = "off"
  BY DEF Rest
<1>4. Announced' = Announced
  BY <1>2 DEF Announced, Announcing
<1>5. /\ LogOK' /\ ReceiptsOnce' /\ MemoryOK' /\ ReceiptsTrue' /\ Unbroken' /\ HandlersOK'
      /\ LandedOK' /\ FreshOK' /\ AppendsFit' /\ PoliciesOK' /\ ToldOK' /\ FeedOK'
      /\ FramesTrue' /\ KnownOK' /\ RowsOK' /\ OwedOK' /\ ReaderOK' /\ PageOK'
  BY <1>1, <1>2, <1>3, <1>4, LogOKSame, ReceiptsOnceSame, MemoryOKSame, ReceiptsTrueSame,
     UnbrokenSame, HandlersOKSame, LandedOKSame, FreshOKSame, AppendsFitSame,
     PoliciesOKSame, ToldOKSame, FeedOKSame, FramesTrueSame, KnownOKSame, RowsOKSame,
     OwedOKSame, ReaderOKSame, PageOKSame
<1>6. EngineOK'
  BY <1>1, <1>2, <1>3, <1>4 DEF EngineOK, Begun
<1>7. SyncOK'
  <2>1. ASSUME NEW p \in Readers, sync[p].at # "off" PROVE Wanting(p)'
    BY <1>1, <1>2, <1>3, <2>1 DEF SyncOK, Wanting, At
  <2> QED
    BY <1>1, <1>2, <2>1 DEF SyncOK
<1> QED
  BY <1>5, <1>6, <1>7 DEF ViewInv, LogInv, TaskInv, FeedInv, ShowInv

LEMMA RerouteKeeps ==
    ASSUME ViewInv, Reroute
    PROVE  ViewInv'
<1>1. /\ LogOK /\ ReceiptsOnce /\ MemoryOK /\ ReceiptsTrue /\ EngineOK /\ Unbroken
      /\ HandlersOK /\ LandedOK /\ FreshOK /\ AppendsFit /\ PoliciesOK /\ ToldOK
      /\ SyncOK /\ FeedOK /\ FramesTrue /\ KnownOK /\ RowsOK /\ OwedOK /\ ReaderOK /\ PageOK
  BY PartsOf
<1>2. UNCHANGED <<log, memory, running, handler, gate, window, sync, engine, line, rows, page, reader, upset>>
  BY DEF Reroute, browserVars
<1>3. Announced' = Announced
  BY <1>2 DEF Announced, Announcing
<1>4. /\ LogOK' /\ ReceiptsOnce' /\ MemoryOK' /\ ReceiptsTrue' /\ EngineOK' /\ Unbroken'
      /\ HandlersOK' /\ LandedOK' /\ FreshOK' /\ AppendsFit' /\ PoliciesOK' /\ ToldOK'
      /\ SyncOK' /\ FeedOK' /\ FramesTrue' /\ KnownOK' /\ RowsOK' /\ OwedOK' /\ ReaderOK'
      /\ PageOK'
  BY <1>1, <1>2, <1>3, LogOKSame, ReceiptsOnceSame, MemoryOKSame, ReceiptsTrueSame,
     EngineOKSame, UnbrokenSame, HandlersOKSame, LandedOKSame, FreshOKSame, AppendsFitSame,
     PoliciesOKSame, ToldOKSame, SyncOKSame, FeedOKSame, FramesTrueSame, KnownOKSame,
     RowsOKSame, OwedOKSame, ReaderOKSame, PageOKSame
<1> QED
  BY <1>4 DEF ViewInv, LogInv, TaskInv, FeedInv, ShowInv

-----------------------------------------------------------------------------
(* Requests *)

LEMMA EventIn ==
    ASSUME NEW sort \in Kinds, NEW what \in Says
    PROVE  /\ Event(sort, what) \in Events
           /\ Event(sort, what).is = sort /\ Event(sort, what).says = what
  BY DEF Event, Events

LEMMA SaysWhat ==
    /\ \A h \in Handlers : h \in Says
    /\ \A ask \in AllAsks : ask \in Says /\ ask.says \in Says
    /\ Goals \subseteq Says
  BY DEF Says

\* Only the request that holds the gate has anything to keep.
Alone(h) == \A g \in Handlers : g # h => handler'[g] = handler[g] /\ handler[g].at \notin Busy

LEMMA HolderRules ==
    ASSUME SyncOK, NEW h \in Handlers, Alone(h)
    PROVE  /\ (Carrying(h)' => Landed(h)') => LandedOK'
           /\ (At(h, "append")' => Valid(handler[h].batch)') => AppendsFit'
           /\ UNCHANGED sync /\ (Informed(h)' => Fresh(memory.cursor)')
                /\ (sync[h].at # "off" => Fresh(sync[h].to)') => FreshOK'
<1>1. \A g \in Handlers : g # h => handler'[g] = handler[g] /\ handler'[g].at \notin Busy
                                   /\ sync[g].at = "off"
  BY AskFacts DEF Alone, SyncOK, Wanting, At, Busy
<1>2. (Carrying(h)' => Landed(h)') => LandedOK'
  BY <1>1 DEF LandedOK, Carrying, Busy
<1>3. (At(h, "append")' => Valid(handler[h].batch)') => AppendsFit'
  BY <1>1 DEF AppendsFit, At, Busy
<1>4. UNCHANGED sync /\ (Informed(h)' => Fresh(memory.cursor)')
        /\ (sync[h].at # "off" => Fresh(sync[h].to)') => FreshOK'
  BY <1>1 DEF FreshOK, Informed, Busy
<1> QED
  BY <1>2, <1>3, <1>4

LEMMA HolderMoves ==
    ASSUME HandlersOK, NEW h \in Handlers, Alone(h), NEW new, handler' = [handler EXCEPT ![h] = new],
           new \in [at : Busy \union Ready, ask : AllAsks \union {"none"}, batch : Seq(Events),
                    leads : Busy \union {"none"}, told : Nat],
           gate' \in Handlers \union {Free},
           new.at \in Busy =>
             /\ gate' = h /\ new.ask \in AllAsks
             /\ IF new.ask.method \in Commands THEN CommandBatch(h)'
                ELSE \/ Toward(h)' = "replay" /\ new.at # "append"
                     \/ Toward(h)' = "reply" /\ ReplyBatch(h)',
           new.at = "ok" => new.ask \in AllAsks
    PROVE  HandlersOK'
<1>1. /\ handler'[h] = new
      /\ \A g \in Handlers : g # h => handler'[g] = handler[g] /\ handler'[g].at \notin Busy
  BY DEF Alone, HandlersOK
<1>2. handler' \in [Handlers -> [at : Busy \union Ready, ask : AllAsks \union {"none"},
                                 batch : Seq(Events), leads : Busy \union {"none"}, told : Nat]]
  BY DEF HandlersOK
<1>3. ASSUME NEW g \in Handlers, handler'[g].at \in Busy
      PROVE  /\ gate' = g /\ handler'[g].ask \in AllAsks
             /\ IF handler'[g].ask.method \in Commands THEN CommandBatch(g)'
                ELSE \/ Toward(g)' = "replay" /\ handler'[g].at # "append"
                     \/ Toward(g)' = "reply" /\ ReplyBatch(g)'
  <2>1. g = h
    BY <1>1, <1>3
  <2> QED
    BY <1>1, <1>3, <2>1
<1>4. \A g \in Handlers : handler'[g].at = "ok" => handler'[g].ask \in AllAsks
  BY <1>1 DEF HandlersOK
<1> QED
  BY <1>2, <1>3, <1>4 DEF HandlersOK

LEMMA HolderTold ==
    ASSUME ToldOK, NEW h \in Handlers, UNCHANGED log, upset \subseteq upset',
           \A g \in Handlers : g # h => handler'[g] = handler[g],
           "overtaken" \notin upset' /\ handler'[h].at = "ok" =>
             IF handler'[h].ask.method = "title"
             THEN /\ handler'[h].told + 1 <= Len(log)
                  /\ log[handler'[h].told + 1] = Event("receipt", handler'[h].ask)
             ELSE handler'[h].told = 0
    PROVE  ToldOK'
  BY DEF ToldOK, At

LEMMA HolderSync ==
    ASSUME SyncOK, NEW h \in Handlers, handler[h].at # "sync", LogOK,
           UNCHANGED <<sync, window, log, running, reader, memory.cursor>>,
           \A g \in Handlers : g # h => handler'[g] = handler[g]
    PROVE  SyncOK'
<1>1. sync[h].at = "off"
  BY AskFacts DEF SyncOK, Wanting, At
<1>2. ASSUME NEW p \in Readers, sync[p].at # "off" PROVE Wanting(p)'
  BY <1>1, <1>2, AskFacts DEF SyncOK, Wanting, At, Readers
<1> QED
  BY <1>2 DEF SyncOK

LEMMA OwedRules ==
    ASSUME KnownOK, OwedOK, UNCHANGED <<log, line, rows, memory.cursor>>, Announced' = Announced,
           upset \subseteq upset', \A key \in Keys : Owed(key) => Owed(key)'
    PROVE  KnownOK' /\ OwedOK'
<1>1. ASSUME NEW key \in Keys, NEW n PROVE Unchanged(key, n)' <=> Unchanged(key, n)
  BY DEF Unchanged, Changes
<1>2. ASSUME NEW key \in Keys, NEW i \in DOMAIN line.feed PROVE Covers(key, line.feed[i])' <=> Covers(key, line.feed[i])
  BY DEF Covers, Unchanged, Changes
<1>3. Rebasing' <=> Rebasing
  BY DEF Rebasing
<1>4. KnownOK'
  BY <1>1 DEF KnownOK
<1>5. OwedOK'
  BY <1>1, <1>2, <1>3 DEF OwedOK
<1> QED
  BY <1>4, <1>5

LEMMA OwedStays ==
    ASSUME NEW h \in Handlers, UNCHANGED log, Announced' = Announced, upset \subseteq upset', Alone(h),
           Carrying(h) => "unannounced" \in upset' \/ (Carrying(h)' /\ handler'[h].batch = handler[h].batch)
    PROVE  \A key \in Keys : Owed(key) => Owed(key)'
<1>1. SUFFICES ASSUME NEW key \in Keys, Owed(key) PROVE Owed(key)'
  OBVIOUS
<1>2. CASE key = "usage"
  BY <1>1, <1>2 DEF Owed, Unchanged, Changes
<1>3. CASE key # "usage"
  <2>1. \A g \in Handlers : g # h => ~ Carrying(g)
    BY DEF Alone, Carrying, Busy
  <2> QED
    BY <1>1, <1>3, <2>1 DEF Owed
<1> QED
  BY <1>2, <1>3

LEMMA FreshGoal ==
    ASSUME LogOK, MemoryOK, Fresh(memory.cursor)
    PROVE  /\ Goal(Len(log)) = Goal(memory.cursor) /\ Goal(memory.cursor) \in Goals
           /\ \A i \in DOMAIN log : log[i].is \notin Marks => i <= memory.cursor
<1>1. PICK m, n : m = memory.cursor /\ n = Len(log) /\ m \in Nat /\ n \in Nat /\ 1 <= m /\ m <= n
  BY DEF LogOK, MemoryOK
<1>2. \A i \in (m + 1)..n : log[i].is \in Marks
  BY <1>1 DEF Fresh
<1>3. Shown("goal", n) = Shown("goal", m)
  BY <1>1, <1>2, ShownSame DEF Keys, Changes, Marks
<1>4. Goal(m) \in Goals
  BY <1>1, ShownGoal
<1>5. \A i \in DOMAIN log : log[i].is \notin Marks => i <= m
  BY <1>1, <1>2 DEF LogOK
<1> QED
  BY <1>1, <1>3, <1>4, <1>5 DEF Goal

LEMMA NewId ==
    ASSUME LogOK, NEW ids, ids = {log[i].says.id : i \in {j \in DOMAIN log : log[j].is = "goal"}}
    PROVE  Max(ids) \in Nat /\ \A i \in DOMAIN log : log[i].is = "goal" => log[i].says.id # Max(ids) + 1
<1> DEFINE f == [i \in 1..Len(log) |-> IF log[i].is = "goal" THEN log[i].says.id ELSE 0]
<1>1. Len(log) \in Nat /\ DOMAIN log = 1..Len(log) /\ 1 \in DOMAIN log
  BY DEF LogOK
<1>2. \A i \in DOMAIN log : log[i].is = "goal" => log[i].says.id \in Nat
  BY DEF LogOK, Goals
<1>3. f \in [1..Len(log) -> Nat]
  BY <1>1, <1>2
<1>4. PICK b \in Nat : \A i \in 1..Len(log) : f[i] <= b
  BY <1>1, <1>3, BoundOfIds
<1>5. ids \in SUBSET (0..b)
  BY <1>1, <1>2, <1>4
<1>6. ids # {}
  BY <1>1 DEF LogOK
<1>7. PICK m : m = Max(ids) /\ m \in ids /\ \A n \in ids : n <= m
  BY <1>4, <1>5, <1>6, GreatestOf
<1>8. \A i \in DOMAIN log : log[i].is = "goal" => log[i].says.id \in ids
  OBVIOUS
<1>9. m \in Nat /\ m + 1 \notin ids
  <2>1. m \in 0..b
    BY <1>5, <1>7, Zenon
  <2>2. m \in Nat /\ ~ (m + 1 <= m)
    BY <1>4, <2>1
  <2> QED
    BY <1>7, <2>2, Zenon
<1> QED
  BY <1>7, <1>8, <1>9

LEMMA GoalMoves ==
    ASSUME NEW old \in Goals, NEW to
    PROVE  [old EXCEPT !.revision = @ + 1, !.phase = to]
             = [id |-> old.id, revision |-> old.revision + 1, phase |-> to]
<1>1. old = [id |-> old.id, revision |-> old.revision, phase |-> old.phase] /\ old.revision \in Nat
  BY DEF Goals
<1>2. PICK new : new = [old EXCEPT !.revision = @ + 1, !.phase = to]
  OBVIOUS
<1>3. DOMAIN new = {"id", "revision", "phase"} /\ new.id = old.id /\ new.phase = to
  BY <1>1, <1>2
<1>4. new.revision = old.revision + 1
  BY <1>1, <1>2
<1>5. new = [id |-> new.id, revision |-> new.revision, phase |-> new.phase]
  BY <1>2, <1>3
<1> QED
  BY <1>2, <1>3, <1>4, <1>5

\* What a request that was let through commits.
LEMMA StateIs ==
    ASSUME LogOK, MemoryOK, EngineOK, HandlersOK, NEW h \in Handlers, At(h, "replay"),
           Fresh(memory.cursor), State(h) # Refuses
    PROVE  \E e \in Events :
             /\ State(h) = <<e>> /\ e.is \in {"title", "model", "preset", "goal"}
             /\ e.is = "goal" => e.says \in Goals /\ ValidGoal(Goal(Len(log)), e.says)
             /\ e.is = "preset" => ~ running
<1> DEFINE ask == handler[h].ask
           goal == Goal(memory.cursor)
           fits == goal # NoGoal /\ ask.ref = [id |-> goal.id, revision |-> goal.revision]
<1>1. ask \in AllAsks /\ ask.method \in Methods \ Commands
  BY AskFacts DEF HandlersOK, At, Busy, CommandBatch, Toward
<1>2. /\ goal \in Goals /\ Goal(Len(log)) = goal
      /\ goal.id \in Nat /\ goal.revision \in Nat /\ goal.phase \in {"none", "active", "paused", "complete"}
      /\ goal = [id |-> goal.id, revision |-> goal.revision, phase |-> goal.phase]
  <2>1. goal \in Goals /\ Goal(Len(log)) = goal
    BY FreshGoal
  <2> HIDE DEF goal
  <2> QED
    BY <2>1 DEF Goals
<1> HIDE DEF goal
<1>3. ASSUME NEW sort \in {"title", "model", "preset"}, sort = "preset" => ~ running,
             State(h) = <<Event(sort, ask.says)>>
      PROVE  \E e \in Events :
               /\ State(h) = <<e>> /\ e.is \in {"title", "model", "preset", "goal"}
               /\ e.is = "goal" => e.says \in Goals /\ ValidGoal(Goal(Len(log)), e.says)
               /\ e.is = "preset" => ~ running
  <2>1. sort \in Kinds /\ ask.says \in Says
    BY <1>1, SaysWhat DEF Kinds
  <2>2. PICK e \in Events : e = Event(sort, ask.says) /\ e.is = sort
    BY <2>1, EventIn
  <2> QED
    BY <1>3, <2>2
<1>4. ASSUME NEW new \in Goals, ValidGoal(goal, new), State(h) = <<Event("goal", new)>>
      PROVE  \E e \in Events :
               /\ State(h) = <<e>> /\ e.is \in {"title", "model", "preset", "goal"}
               /\ e.is = "goal" => e.says \in Goals /\ ValidGoal(Goal(Len(log)), e.says)
               /\ e.is = "preset" => ~ running
  <2>1. "goal" \in Kinds /\ new \in Says
    BY SaysWhat DEF Kinds
  <2>2. PICK e \in Events : e = Event("goal", new) /\ e.is = "goal" /\ e.says = new
    BY <2>1, EventIn
  <2> QED
    BY <1>2, <1>4, <2>2
<1>5. CASE ask.method = "title"
  <2>1. State(h) = <<Event("title", ask.says)>>
    BY <1>5 DEF State, Renamed
  <2> QED
    BY <1>3, <2>1
<1>6. CASE ask.method = "model"
  <2>1. State(h) = <<Event("model", ask.says)>>
    BY <1>6 DEF State, ModelSelected
  <2> QED
    BY <1>3, <2>1
<1>7. CASE ask.method = "preset"
  <2>1. State(h) = IF running THEN Refuses ELSE <<Event("preset", ask.says)>>
    BY <1>7 DEF State, PresetSelected
  <2>2. ~ running /\ State(h) = <<Event("preset", ask.says)>>
    BY <2>1
  <2> QED
    BY <1>3, <2>2
<1>8. CASE ask.method = "create"
  <2>1. State(h) = GoalCreated(goal)
    BY <1>8 DEF State, goal
  <2>2. PICK ids : ids = {log[i].says.id : i \in {j \in DOMAIN log : log[j].is = "goal"}}
    OBVIOUS
  <2>3. PICK m \in Nat : m = Max(ids) /\ \A i \in DOMAIN log : log[i].is = "goal" => log[i].says.id # m + 1
    BY <2>2, NewId
  <2>4. PICK new : new = [id |-> m + 1, revision |-> 1, phase |-> "active"]
    OBVIOUS
  <2>5. (goal = NoGoal \/ goal.phase = "complete") /\ State(h) = <<Event("goal", new)>>
    BY <2>1, <2>2, <2>3, <2>4 DEF GoalCreated, GoalEvent
  <2>6. new \in Goals /\ new.revision = 1 /\ new.phase = "active" /\ new.id = m + 1
    BY <2>4 DEF Goals
  <2>7. ValidGoal(goal, new)
    BY <2>3, <2>5, <2>6 DEF ValidGoal
  <2> QED
    BY <1>4, <2>5, <2>6, <2>7
<1>9. CASE ask.method \in {"edit", "pause", "resume", "complete", "clear"}
  <2>1. fits
    <3>1. ~ fits => State(h) = Refuses
      BY <1>9 DEF State, goal
    <3> QED
      BY <3>1
  <2>2. goal # NoGoal
    BY <2>1
  <2>3. ASSUME NEW phase \in {"active", "paused", "complete"}, phase = goal.phase \/ goal.phase # "complete"
        PROVE  LET new == [id |-> goal.id, revision |-> goal.revision + 1, phase |-> phase]
               IN  new \in Goals /\ ValidGoal(goal, new)
    BY <1>2, <2>3 DEF Goals, ValidGoal
  <2>4. ASSUME NEW from, NEW to \in {"active", "paused", "complete"}, "complete" \notin from,
               State(h) = GoalMoved(goal, from, to)
        PROVE  \E new \in Goals : ValidGoal(goal, new) /\ State(h) = <<Event("goal", new)>>
    <3>1. goal.phase \in from /\ State(h) = GoalEvent([goal EXCEPT !.revision = @ + 1, !.phase = to])
      BY <2>4 DEF GoalMoved
    <3>2. PICK new : new = [id |-> goal.id, revision |-> goal.revision + 1, phase |-> to]
      OBVIOUS
    <3>3. [goal EXCEPT !.revision = @ + 1, !.phase = to] = new
      BY <1>2, <3>2, GoalMoves
    <3>4. new \in Goals /\ ValidGoal(goal, new)
      BY <2>3, <2>4, <3>1, <3>2
    <3> QED
      BY <3>1, <3>3, <3>4 DEF GoalEvent
  <2>5. CASE ask.method = "edit"
    <3>1. State(h) = GoalEvent([goal EXCEPT !.revision = @ + 1])
      BY <2>1, <2>5 DEF State, GoalChanged, GoalEdited, goal
    <3>2. PICK new : new = [id |-> goal.id, revision |-> goal.revision + 1, phase |-> goal.phase]
      OBVIOUS
    <3>3. [goal EXCEPT !.revision = @ + 1] = new
      BY <1>2, <3>2
    <3>4. new \in Goals /\ ValidGoal(goal, new)
      BY <1>2, <3>2 DEF Goals, ValidGoal
    <3> QED
      BY <1>4, <3>1, <3>3, <3>4 DEF GoalEvent
  <2>6. CASE ask.method = "pause"
    <3>1. State(h) = GoalMoved(goal, {"active"}, "paused")
      BY <2>1, <2>6 DEF State, GoalChanged, goal
    <3> QED
      BY <1>4, <2>4, <3>1
  <2>7. CASE ask.method = "resume"
    <3>1. State(h) = GoalMoved(goal, {"active", "paused"}, "active")
      BY <2>1, <2>7 DEF State, GoalChanged, goal
    <3> QED
      BY <1>4, <2>4, <3>1
  <2>8. CASE ask.method = "complete"
    <3>1. State(h) = GoalMoved(goal, {"active", "paused"}, "complete")
      BY <2>1, <2>8 DEF State, GoalChanged, goal
    <3> QED
      BY <1>4, <2>4, <3>1
  <2>9. CASE ask.method = "clear"
    <3>1. State(h) = <<Event("goal", NoGoal)>>
      BY <2>1, <2>9 DEF State, GoalChanged, GoalCleared, GoalEvent, goal
    <3>2. NoGoal \in Goals /\ ValidGoal(goal, NoGoal)
      BY <2>2 DEF NoGoal, Goals, ValidGoal
    <3> QED
      BY <1>4, <3>1, <3>2
  <2> QED
    BY <1>9, <2>5, <2>6, <2>7, <2>8, <2>9
<1> QED
  BY <1>1, <1>5, <1>6, <1>7, <1>8, <1>9 DEF Methods, Commands

LEMMA AdmitKeeps ==
    ASSUME ViewInv, NEW h \in Handlers, NEW ask \in Asks[h], Admit(h, ask)
    PROVE  ViewInv'
<1>1. /\ LogOK /\ ReceiptsOnce /\ MemoryOK /\ ReceiptsTrue /\ EngineOK /\ Unbroken
      /\ HandlersOK /\ LandedOK /\ FreshOK /\ AppendsFit /\ PoliciesOK /\ ToldOK
      /\ SyncOK /\ FeedOK /\ FramesTrue /\ KnownOK /\ RowsOK /\ OwedOK /\ ReaderOK /\ PageOK
  BY PartsOf
<1>2. UNCHANGED <<log, memory, running, routable, window, sync, engine, line, rows, page, reader, upset>>
  BY DEF Admit, browserVars
<1>3. ask \in AllAsks /\ ask.method \in Methods /\ handler[h].at = "idle" /\ Alone(h)
  <2>1. gate = Free /\ handler[h].at = "idle" /\ \A g \in Handlers : handler[g].at \notin Busy
    BY <1>1, AskFacts DEF Admit, At, HandlersOK, Readers
  <2>2. \E new : handler' = [handler EXCEPT ![h] = new]
    BY DEF Admit
  <2> QED
    BY <1>1, <2>1, <2>2, AskFacts DEF Alone, HandlersOK
<1>4. PICK new : /\ handler'[h] = new /\ new.ask = ask /\ new.told = 0
                 /\ \/ new.at = "error" /\ new.leads = "none" /\ new.batch = <<>> /\ gate' = gate
                    \/ /\ ask.method \in Commands /\ new.at = "append" /\ new.leads = "choose"
                       /\ new.batch = <<Event("run", h)>> /\ gate' = h
                    \/ /\ ask.method \notin Commands /\ new.at = "sync" /\ new.leads = "replay"
                       /\ new.batch = <<>> /\ gate' = h
                 /\ new = [at |-> new.at, ask |-> ask, batch |-> new.batch, leads |-> new.leads, told |-> 0]
  <2>1. [Idle EXCEPT !.ask = ask] = [at |-> "idle", ask |-> ask, batch |-> <<>>, leads |-> "none", told |-> 0]
    BY DEF Idle
  <2>2. PICK blank : blank = [Idle EXCEPT !.ask = ask]
    OBVIOUS
  <2>3. \/ handler' = [handler EXCEPT ![h] = [blank EXCEPT !.at = "error"]] /\ gate' = gate
        \/ /\ ask.method \in Commands /\ gate' = h
           /\ handler' = [handler EXCEPT ![h] = [blank EXCEPT !.at = "append", !.batch = <<Event("run", h)>>,
                                                              !.leads = "choose"]]
        \/ /\ ask.method \notin Commands /\ gate' = h
           /\ handler' = [handler EXCEPT ![h] = [blank EXCEPT !.at = "sync", !.leads = "replay"]]
    <3>1. CASE ask.method = "model" /\ ~ routable
      BY <2>2, <3>1 DEF Admit, Commands
    <3>2. CASE ask.method \in Commands
      BY <2>2, <3>2 DEF Admit, Commands
    <3>3. CASE ~ (ask.method = "model" /\ ~ routable) /\ ask.method \notin Commands
      BY <2>2, <3>3 DEF Admit, Commands
    <3> QED
      BY <3>1, <3>2, <3>3
  <2>4. DOMAIN handler = Handlers
    BY <1>1 DEF HandlersOK
  <2>5. PICK run : run = <<Event("run", h)>>
    OBVIOUS
  <2> QED
    BY <2>1, <2>2, <2>3, <2>4, <2>5, ZenonT(40)
<1>5. new.batch \in Seq(Events) /\ \A i \in DOMAIN new.batch : new.batch[i].is = "run"
  <2>1. PICK e \in Events : e = Event("run", h) /\ e.is = "run"
    BY EventIn, SaysWhat DEF Kinds
  <2>2. new.batch = <<>> \/ new.batch = <<e>>
    BY <1>4, <2>1
  <2>3. <<e>> \in Seq(Events) /\ DOMAIN <<e>> = {1} /\ <<e>>[1] = e
    BY <2>1
  <2>4. <<>> \in Seq(Events) /\ DOMAIN <<>> = {}
    OBVIOUS
  <2> QED
    BY <2>1, <2>2, <2>3, <2>4
<1>6. Announced' = Announced
  BY <1>2 DEF Announced, Announcing
<1>7. /\ LogOK' /\ ReceiptsOnce' /\ MemoryOK' /\ ReceiptsTrue' /\ EngineOK' /\ Unbroken'
      /\ FeedOK' /\ FramesTrue' /\ RowsOK' /\ ReaderOK' /\ PageOK'
  BY <1>1, <1>2, <1>3, <1>4, <1>5, <1>6, LogOKSame, ReceiptsOnceSame, MemoryOKSame,
     ReceiptsTrueSame, EngineOKSame, UnbrokenSame, FeedOKSame, FramesTrueSame, RowsOKSame,
     ReaderOKSame, PageOKSame
<1>8. HandlersOK'
  <2>1. new \in [at : Busy \union Ready, ask : AllAsks \union {"none"}, batch : Seq(Events),
                 leads : Busy \union {"none"}, told : Nat]
    BY <1>3, <1>4, <1>5 DEF Busy, Ready
  <2>2. handler' = [handler EXCEPT ![h] = new]
    BY <1>1, <1>4 DEF Admit, HandlersOK
  <2>3. gate' \in Handlers \union {Free}
    BY <1>1, <1>4 DEF HandlersOK
  <2>4. new.at \in Busy => /\ gate' = h
                           /\ IF ask.method \in Commands THEN CommandBatch(h)'
                              ELSE Toward(h)' = "replay" /\ new.at # "append"
    BY <1>4 DEF Busy, CommandBatch, Toward
  <2> QED
    BY <1>1, <1>3, <1>4, <2>1, <2>2, <2>3, <2>4, HolderMoves, ZenonT(40)
<1>9. LandedOK'
  BY <1>1, <1>3, <1>4, HolderRules DEF Carrying, Toward
<1>10. FreshOK'
  <2>1. sync[h].at = "off"
    BY <1>1, <1>3, AskFacts DEF SyncOK, Wanting, At
  <2>2. ~ Informed(h)'
    BY <1>4 DEF Informed, Toward
  <2> QED
    BY <1>1, <1>2, <1>3, <2>1, <2>2, HolderRules
<1>11. AppendsFit'
  <2>1. PICK b : b = new.batch
    OBVIOUS
  <2>2. Valid(b)'
    BY <1>5, <2>1 DEF Valid
  <2>3. Valid(handler[h].batch)'
    BY <1>4, <2>1, <2>2
  <2> QED
    BY <1>1, <1>3, <2>3, HolderRules
<1>12. PoliciesOK'
  <2>1. ~ (At(h, "append")' /\ handler'[h].batch[1].is \in {"preset", "policy"})
    BY <1>4, <1>5 DEF At
  <2> QED
    BY <1>1, <1>2, <1>3, <2>1 DEF PoliciesOK, PoliciesWait, Prompting, At, Alone
<1>13. ToldOK'
  BY <1>1, <1>2, <1>3, <1>4, HolderTold DEF Alone
<1>14. SyncOK'
  BY <1>1, <1>2, <1>3, HolderSync DEF Alone
<1>15. KnownOK'
  <2>1. ~ Carrying(h)
    BY <1>3 DEF Carrying
  <2>2. \A key \in Keys : Owed(key) => Owed(key)'
    BY <1>2, <1>3, <1>6, <2>1, OwedStays
  <2> QED
    BY <1>1, <1>2, <1>6, <2>2, OwedRules
<1>16. OwedOK'
  <2>1. ~ Carrying(h)
    BY <1>3 DEF Carrying
  <2>2. \A key \in Keys : Owed(key) => Owed(key)'
    BY <1>2, <1>3, <1>6, <2>1, OwedStays
  <2> QED
    BY <1>1, <1>2, <1>6, <2>2, OwedRules
<1> QED
  BY <1>7, <1>8, <1>9, <1>10, <1>11, <1>12, <1>13, <1>14, <1>15, <1>16 DEF ViewInv, LogInv,
     TaskInv, FeedInv, ShowInv

LEMMA TwoEvents ==
    ASSUME NEW S, NEW e \in S, NEW f \in S
    PROVE  /\ Append(<<e>>, f) = <<e, f>> /\ <<e, f>> \in Seq(S) /\ Len(<<e, f>>) = 2
           /\ <<e, f>>[1] = e /\ <<e, f>>[2] = f /\ DOMAIN <<e, f>> = {1, 2}
<1>1. /\ <<e, f>> \in Seq(S) /\ Len(<<e, f>>) = 2 /\ <<e, f>>[1] = e /\ <<e, f>>[2] = f
      /\ DOMAIN <<e, f>> = {1, 2} /\ DOMAIN <<e, f>> = 1..2
  OBVIOUS
<1>2. <<e>> \in Seq(S) /\ Len(<<e>>) = 1 /\ <<e>>[1] = e
  OBVIOUS
<1>3. PICK s : s = Append(<<e>>, f)
  OBVIOUS
<1>4. /\ s \in Seq(S) /\ Len(s) = 2 /\ s[1] = e /\ s[2] = f
  BY <1>2, <1>3, AppendProperties
<1>5. s = <<e, f>>
  BY <1>1, <1>4, SeqEqual
<1> QED
  BY <1>1, <1>3, <1>5

LEMMA OneEvent ==
    ASSUME NEW S, NEW e \in S
    PROVE  <<e>> \in Seq(S) /\ Len(<<e>>) = 1 /\ <<e>>[1] = e /\ DOMAIN <<e>> = {1}
  OBVIOUS

LEMMA TellsTo ==
    ASSUME HandlersOK, NEW h \in Handlers, NEW where, NEW told, Tells(h, where, told)
    PROVE  handler' = [handler EXCEPT ![h] = [at |-> where, ask |-> handler[h].ask, batch |-> handler[h].batch,
                                              leads |-> handler[h].leads, told |-> told]]
<1>1. handler[h] \in [at : Busy \union Ready, ask : AllAsks \union {"none"}, batch : Seq(Events),
                      leads : Busy \union {"none"}, told : Nat]
  BY DEF HandlersOK
<1>2. PICK new : new = [handler[h] EXCEPT !.at = where, !.told = told]
  OBVIOUS
<1>3. /\ DOMAIN new = {"at", "ask", "batch", "leads", "told"}
      /\ new.at = where /\ new.ask = handler[h].ask /\ new.batch = handler[h].batch
      /\ new.leads = handler[h].leads /\ new.told = told
  BY <1>1, <1>2
<1>4. new = [at |-> new.at, ask |-> new.ask, batch |-> new.batch, leads |-> new.leads, told |-> new.told]
  BY <1>2, <1>3
<1>5. handler' = [handler EXCEPT ![h] = [handler[h] EXCEPT !.at = where, !.told = told]]
  BY DEF Tells
<1> QED
  BY <1>2, <1>3, <1>4, <1>5

LEMMA CommitsTo ==
    ASSUME HandlersOK, NEW h \in Handlers, NEW batch, NEW leads, Commits(h, batch, leads)
    PROVE  handler' = [handler EXCEPT ![h] = [at |-> "append", ask |-> handler[h].ask, batch |-> batch,
                                              leads |-> leads, told |-> handler[h].told]]
<1>1. handler[h] \in [at : Busy \union Ready, ask : AllAsks \union {"none"}, batch : Seq(Events),
                      leads : Busy \union {"none"}, told : Nat]
  BY DEF HandlersOK
<1>2. PICK new : new = [handler[h] EXCEPT !.at = "append", !.batch = batch, !.leads = leads]
  OBVIOUS
<1>3. /\ DOMAIN new = {"at", "ask", "batch", "leads", "told"}
      /\ new.at = "append" /\ new.ask = handler[h].ask /\ new.batch = batch
      /\ new.leads = leads /\ new.told = handler[h].told
  BY <1>1, <1>2
<1>4. new = [at |-> new.at, ask |-> new.ask, batch |-> new.batch, leads |-> new.leads, told |-> new.told]
  BY <1>2, <1>3
<1>5. handler' = [handler EXCEPT ![h] = [handler[h] EXCEPT !.at = "append", !.batch = batch, !.leads = leads]]
  BY DEF Commits
<1> QED
  BY <1>2, <1>3, <1>4, <1>5

LEMMA GoesTo ==
    ASSUME HandlersOK, NEW h \in Handlers, NEW where, Goes(h, where)
    PROVE  handler' = [handler EXCEPT ![h] = [at |-> where, ask |-> handler[h].ask, batch |-> handler[h].batch,
                                              leads |-> handler[h].leads, told |-> handler[h].told]]
<1>1. handler[h] \in [at : Busy \union Ready, ask : AllAsks \union {"none"}, batch : Seq(Events),
                      leads : Busy \union {"none"}, told : Nat]
  BY DEF HandlersOK
<1>2. [handler[h] EXCEPT !.at = where]
        = [at |-> where, ask |-> handler[h].ask, batch |-> handler[h].batch,
           leads |-> handler[h].leads, told |-> handler[h].told]
  BY <1>1
<1>3. handler' = [handler EXCEPT ![h] = [handler[h] EXCEPT !.at = where]]
  BY DEF Goes
<1> QED
  BY <1>2, <1>3

LEMMA DecideKeeps ==
    ASSUME ViewInv, NEW h \in Handlers, Decide(h)
    PROVE  ViewInv'
<1>1. /\ LogOK /\ ReceiptsOnce /\ MemoryOK /\ ReceiptsTrue /\ EngineOK /\ Unbroken
      /\ HandlersOK /\ LandedOK /\ FreshOK /\ AppendsFit /\ PoliciesOK /\ ToldOK
      /\ SyncOK /\ FeedOK /\ FramesTrue /\ KnownOK /\ RowsOK /\ OwedOK /\ ReaderOK /\ PageOK
  BY PartsOf
<1>2. UNCHANGED <<log, memory, running, routable, window, sync, engine, line, rows, page, reader, upset>>
  BY DEF Decide, browserVars
<1>3. /\ handler[h].at = "replay" /\ handler[h].ask \in AllAsks /\ handler[h].ask.method \notin Commands
      /\ handler[h].ask.rpc \in Rpcs /\ handler[h].ask.method \in Methods /\ gate = h /\ h # Free
      /\ handler[h] \in [at : Busy \union Ready, ask : AllAsks \union {"none"}, batch : Seq(Events),
                         leads : Busy \union {"none"}, told : Nat]
      /\ \A g \in Handlers : g # h => handler[g].at \notin Busy
  <2>1. handler[h].at = "replay" /\ handler[h].at \in Busy
    BY DEF Decide, At, Busy
  <2> QED
    BY <1>1, <2>1, OneBusy, AskFacts DEF HandlersOK, CommandBatch, Toward
<1>4. PICK ask, receipt : /\ ask = handler[h].ask /\ receipt = memory.receipts[ask.rpc]
                          /\ receipt.seq \in Nat
  BY <1>1, <1>3 DEF MemoryOK
<1>5. Fresh(memory.cursor)
  BY <1>1, <1>3, SMTT(40) DEF FreshOK, Informed
<1>6. PICK new : /\ handler' = [handler EXCEPT ![h] = new]
                 /\ new = [at |-> new.at, ask |-> ask, batch |-> new.batch, leads |-> new.leads,
                           told |-> new.told]
                 /\ \/ /\ new.at \in {"ok", "error"} /\ gate' = Free
                       /\ new.batch = handler[h].batch /\ new.leads = handler[h].leads
                       /\ IF new.at = "error" THEN new.told = 0
                          ELSE /\ receipt.seq # 0 /\ receipt.ask = ask
                               /\ new.told = Reply(ask, receipt.seq)
                    \/ /\ new.at = "append" /\ gate' = gate /\ new.told = handler[h].told
                       /\ receipt.seq = 0 /\ State(h) # Refuses /\ new.leads = "reply"
                       /\ new.batch = Append(State(h), Event("receipt", ask))
  <2>1. CASE receipt.seq # 0 /\ receipt.ask = ask
    <3>1. Tells(h, "ok", Reply(ask, receipt.seq)) /\ Release(h)
      BY <1>4, <2>1 DEF Decide
    <3>2. PICK new : new = [at |-> "ok", ask |-> ask, batch |-> handler[h].batch,
                            leads |-> handler[h].leads, told |-> Reply(ask, receipt.seq)]
      OBVIOUS
    <3>3. handler' = [handler EXCEPT ![h] = new]
      BY <1>1, <1>4, <3>1, <3>2, TellsTo
    <3>4. gate' = Free
      BY <1>3, <3>1 DEF Release
    <3>5. /\ new.at = "ok" /\ new.told = Reply(ask, receipt.seq)
          /\ new.batch = handler[h].batch /\ new.leads = handler[h].leads
          /\ new = [at |-> new.at, ask |-> ask, batch |-> new.batch, leads |-> new.leads,
                    told |-> new.told]
      BY <3>2
    <3> QED
      BY <2>1, <3>3, <3>4, <3>5
  <2>2. CASE ~ (receipt.seq # 0 /\ receipt.ask = ask) /\ (receipt.seq # 0 \/ State(h) = Refuses)
    <3>1. Tells(h, "error", 0) /\ Release(h)
      BY <1>4, <2>2 DEF Decide
    <3>2. PICK new : new = [at |-> "error", ask |-> ask, batch |-> handler[h].batch,
                            leads |-> handler[h].leads, told |-> 0]
      OBVIOUS
    <3>3. handler' = [handler EXCEPT ![h] = new]
      BY <1>1, <1>4, <3>1, <3>2, TellsTo
    <3>4. gate' = Free
      BY <1>3, <3>1 DEF Release
    <3>5. /\ new.at = "error" /\ new.told = 0
          /\ new.batch = handler[h].batch /\ new.leads = handler[h].leads
          /\ new = [at |-> new.at, ask |-> ask, batch |-> new.batch, leads |-> new.leads,
                    told |-> new.told]
      BY <3>2
    <3> QED
      BY <3>3, <3>4, <3>5
  <2>3. CASE receipt.seq = 0 /\ State(h) # Refuses
    <3>1. PICK batch : batch = Append(State(h), Event("receipt", ask))
      OBVIOUS
    <3>2. Commits(h, batch, "reply") /\ gate' = gate
      BY <1>4, <2>3, <3>1 DEF Decide
    <3>3. PICK new : new = [at |-> "append", ask |-> ask, batch |-> batch, leads |-> "reply",
                            told |-> handler[h].told]
      OBVIOUS
    <3>4. handler' = [handler EXCEPT ![h] = new]
      BY <1>1, <1>4, <3>2, <3>3, CommitsTo
    <3>5. /\ new.at = "append" /\ new.told = handler[h].told /\ new.leads = "reply"
          /\ new.batch = Append(State(h), Event("receipt", ask))
          /\ new = [at |-> new.at, ask |-> ask, batch |-> new.batch, leads |-> new.leads,
                    told |-> new.told]
      BY <3>1, <3>3
    <3> QED
      BY <2>3, <3>2, <3>4, <3>5
  <2> QED
    BY <1>4, <2>1, <2>2, <2>3
<1>7. handler'[h] = new /\ Alone(h)
  BY <1>1, <1>3, <1>6 DEF Alone, HandlersOK
<1>8. PICK e, receipt1 :
        new.at = "append" =>
          /\ new.batch = <<e, receipt1>> /\ e \in Events /\ receipt1 \in Events
          /\ e.is \in {"title", "model", "preset", "goal"}
          /\ e.is = "goal" => e.says \in Goals /\ ValidGoal(Goal(Len(log)), e.says)
          /\ e.is = "preset" => ~ running
          /\ receipt1 = Event("receipt", ask) /\ receipt1.is = "receipt" /\ receipt1.says = ask
  <2>1. CASE new.at = "append"
    <3>1. State(h) # Refuses
      BY <1>6, <2>1
    <3>2. PICK e \in Events :
             /\ State(h) = <<e>> /\ e.is \in {"title", "model", "preset", "goal"}
             /\ e.is = "goal" => e.says \in Goals /\ ValidGoal(Goal(Len(log)), e.says)
             /\ e.is = "preset" => ~ running
      BY <1>1, <1>3, <1>5, <3>1, StateIs DEF At
    <3>3. "receipt" \in Kinds /\ ask \in Says
      BY <1>3, <1>4, SaysWhat DEF Kinds
    <3>4. PICK r \in Events : r = Event("receipt", ask) /\ r.is = "receipt" /\ r.says = ask
      BY <3>3, EventIn
    <3>5. new.batch = Append(<<e>>, r)
      BY <1>6, <2>1, <3>2, <3>4
    <3>6. new.batch = <<e, r>>
      BY <3>2, <3>4, <3>5, TwoEvents
    <3> QED
      BY <3>2, <3>4, <3>6
  <2> QED
    BY <2>1
<1>9. new.at = "append" =>
        new.batch \in Seq(Events) /\ Len(new.batch) = 2 /\ new.batch[1] = e /\ new.batch[2] = receipt1
          /\ DOMAIN new.batch = {1, 2}
  <2>1. CASE new.at = "append"
    <3>1. e \in Events /\ receipt1 \in Events /\ new.batch = <<e, receipt1>>
      BY <1>8, <2>1
    <3> QED
      BY <3>1, TwoEvents
  <2> QED
    BY <2>1
<1>10. Announced' = Announced
  BY <1>2 DEF Announced, Announcing
<1>11. /\ LogOK' /\ ReceiptsOnce' /\ MemoryOK' /\ ReceiptsTrue' /\ EngineOK' /\ Unbroken'
       /\ FeedOK' /\ FramesTrue' /\ RowsOK' /\ ReaderOK' /\ PageOK'
  BY <1>1, <1>2, <1>3, <1>4, <1>5, <1>6, <1>7, <1>8, <1>9, <1>10, LogOKSame,
     ReceiptsOnceSame, MemoryOKSame, ReceiptsTrueSame, EngineOKSame, UnbrokenSame,
     FeedOKSame, FramesTrueSame, RowsOKSame, ReaderOKSame, PageOKSame
<1>12. HandlersOK'
  <2>1. /\ new.at \in Busy \union Ready /\ ask \in AllAsks /\ new.batch \in Seq(Events)
        /\ new.leads \in Busy \union {"none"} /\ new.told \in Nat
    <3>1. Reply(ask, receipt.seq) \in Nat
      BY <1>4 DEF Reply
    <3>2. CASE new.at \in {"ok", "error"}
      BY <1>3, <1>4, <1>6, <3>1, <3>2 DEF Ready
    <3>3. CASE new.at = "append"
      BY <1>3, <1>4, <1>6, <1>9, <3>3 DEF Busy
    <3> QED
      BY <1>6, <3>2, <3>3
  <2>2. new \in [at : Busy \union Ready, ask : AllAsks \union {"none"}, batch : Seq(Events),
                 leads : Busy \union {"none"}, told : Nat]
    BY <1>6, <2>1
  <2>3. gate' \in Handlers \union {Free}
    BY <1>3, <1>6
  <2>4. new.at \in Busy => new.at = "append" /\ gate' = h
    BY <1>3, <1>6 DEF Busy
  <2>5. new.at = "append" => Toward(h)' = "reply" /\ ReplyBatch(h)'
    BY <1>4, <1>6, <1>7, <1>8, <1>9 DEF Toward, ReplyBatch
  <2> QED
    BY <1>1, <1>3, <1>4, <1>6, <1>7, <2>1, <2>2, <2>3, <2>4, <2>5, HolderMoves
<1>13. LandedOK'
  BY <1>1, <1>6, <1>7, HolderRules DEF Carrying
<1>14. FreshOK'
  <2>1. sync[h].at = "off"
    BY <1>1, <1>3, AskFacts DEF SyncOK, Wanting, At
  <2>2. Fresh(memory.cursor)'
    BY <1>2, <1>5 DEF Fresh
  <2> QED
    BY <1>1, <1>2, <1>7, <2>1, <2>2, HolderRules
<1>15. AppendsFit'
  <2>1. SUFFICES ASSUME new.at = "append" PROVE Valid(handler[h].batch)'
    BY <1>1, <1>7, HolderRules DEF At
  <2>2. Restored(Len(log))[ask.rpc].seq = 0
    <3>1. PICK m, n : m = memory.cursor /\ n = Len(log) /\ n \in 0..Len(log)
      BY <1>1 DEF LogOK
    <3>2. \A i \in 1..m : ~ ReceiptOf(i, ask.rpc)
      BY <1>1, <1>3, <1>4, <1>6, <2>1, <3>1 DEF MemoryOK
    <3>3. \A i \in 1..n : ~ ReceiptOf(i, ask.rpc)
      BY <1>1, <1>5, <3>1, <3>2, FreshGoal DEF LogOK, ReceiptOf, Marks
    <3> QED
      BY <1>1, <1>3, <1>4, <3>1, <3>3, RestoredFacts
  <2>3. PICK b : b = new.batch
    OBVIOUS
  <2>4. Valid(b)
    BY <1>8, <1>9, <2>1, <2>2, <2>3 DEF Valid
  <2>5. Valid(b)'
    BY <1>2, <2>4, ValidStays
  <2> QED
    BY <1>7, <2>3, <2>5
<1>16. PoliciesOK'
  <2>1. new.at = "append" /\ new.batch[1].is \in {"preset", "policy"} => ~ Prompting
    BY <1>1, <1>8, <1>9 DEF Prompting, EngineOK
  <2> QED
    BY <1>1, <1>2, <1>7, <2>1 DEF PoliciesOK, PoliciesWait, Prompting, At, Alone
<1>17. ToldOK'
  <2>1. ASSUME "overtaken" \notin upset, new.at = "ok"
        PROVE  IF ask.method = "title"
               THEN new.told + 1 <= Len(log) /\ log[new.told + 1] = Event("receipt", ask)
               ELSE new.told = 0
    <3>1. receipt.seq # 0 /\ receipt.ask = ask /\ new.told = Reply(ask, receipt.seq)
      BY <1>6, <2>1
    <3>2. PICK n \in Nat : n = receipt.seq + 1 /\ n >= 1
      BY <1>4
    <3>3. n <= Len(log) /\ ReceiptOf(n, ask.rpc) /\ log[n].says = ask
      BY <1>1, <1>3, <1>4, <2>1, <3>1, <3>2 DEF ReceiptsTrue
    <3>4. log[n] \in Events
      <4>1. log \in Seq(Events) /\ n \in DOMAIN log
        BY <1>1, <3>2, <3>3 DEF LogOK
      <4> QED
        BY <4>1
    <3>5. log[n] = Event("receipt", ask)
      BY <3>3, <3>4 DEF ReceiptOf, Event, Events
    <3> QED
      BY <3>1, <3>2, <3>3, <3>5 DEF Reply
  <2> QED
    BY <1>1, <1>2, <1>6, <1>7, <2>1, HolderTold DEF Alone
<1>18. SyncOK'
  BY <1>1, <1>2, <1>3, <1>7, HolderSync DEF Alone
<1>19. KnownOK'
  <2>1. ~ Carrying(h)
    BY <1>3 DEF Carrying
  <2>2. \A key \in Keys : Owed(key) => Owed(key)'
    BY <1>2, <1>7, <1>10, <2>1, OwedStays
  <2> QED
    BY <1>1, <1>2, <1>10, <2>2, OwedRules
<1>20. OwedOK'
  <2>1. ~ Carrying(h)
    BY <1>3 DEF Carrying
  <2>2. \A key \in Keys : Owed(key) => Owed(key)'
    BY <1>2, <1>7, <1>10, <2>1, OwedStays
  <2> QED
    BY <1>1, <1>2, <1>10, <2>2, OwedRules
<1> QED
  BY <1>11, <1>12, <1>13, <1>14, <1>15, <1>16, <1>17, <1>18, <1>19, <1>20 DEF ViewInv,
     LogInv, TaskInv, FeedInv, ShowInv

LEMMA ChooseKeeps ==
    ASSUME ViewInv, NEW h \in Handlers, Choose(h)
    PROVE  ViewInv'
<1>1. /\ LogOK /\ ReceiptsOnce /\ MemoryOK /\ ReceiptsTrue /\ EngineOK /\ Unbroken
      /\ HandlersOK /\ LandedOK /\ FreshOK /\ AppendsFit /\ PoliciesOK /\ ToldOK
      /\ SyncOK /\ FeedOK /\ FramesTrue /\ KnownOK /\ RowsOK /\ OwedOK /\ ReaderOK /\ PageOK
  BY PartsOf
<1>2. UNCHANGED <<log, memory, running, routable, gate, window, sync, engine, line, rows, page, reader, upset>>
  BY DEF Choose, browserVars
<1>3. /\ handler[h].at = "choose" /\ handler[h].ask \in AllAsks /\ handler[h].ask.method \in Commands
      /\ gate = h /\ h # Free /\ handler[h].batch \in Seq(Events) /\ handler[h].told \in Nat
      /\ handler[h].leads \in Busy \union {"none"}
      /\ \A g \in Handlers : g # h => handler[g].at \notin Busy
  <2>1. handler[h].at = "choose" /\ handler[h].at \in Busy
    BY DEF Choose, At, Busy
  <2> QED
    BY <1>1, <2>1, OneBusy, AskFacts DEF HandlersOK, Toward
<1>4. PICK new, e :
        /\ handler' = [handler EXCEPT ![h] = new] /\ e \in Events /\ new.batch = <<e>>
        /\ new.at = "append" /\ new.ask = handler[h].ask /\ new.told = handler[h].told
        /\ new = [at |-> new.at, ask |-> new.ask, batch |-> new.batch, leads |-> new.leads, told |-> new.told]
        /\ \/ new.leads = "said" /\ e = Event("done", h) /\ e.is = "done"
           \/ /\ new.leads = "chosen" /\ e = Event(new.ask.method, new.ask.says)
              /\ e.is \in Commands /\ ~ running
  <2>1. PICK ask : ask = handler[h].ask
    OBVIOUS
  <2>2. CASE running \/ (ask.method = "plan" /\ Shown("plan", memory.cursor) = ask.says)
    <3>1. PICK e \in Events : e = Event("done", h) /\ e.is = "done"
      BY EventIn, SaysWhat DEF Kinds
    <3>2. Commits(h, <<e>>, "said")
      BY <2>1, <2>2, <3>1 DEF Choose
    <3>3. PICK new : new = [at |-> "append", ask |-> handler[h].ask, batch |-> <<e>>, leads |-> "said",
                            told |-> handler[h].told]
      OBVIOUS
    <3>4. handler' = [handler EXCEPT ![h] = new]
      BY <1>1, <3>2, <3>3, CommitsTo
    <3>5. /\ new.batch = <<e>> /\ new.at = "append" /\ new.ask = handler[h].ask
          /\ new.told = handler[h].told /\ new.leads = "said"
          /\ new = [at |-> new.at, ask |-> new.ask, batch |-> new.batch, leads |-> new.leads,
                    told |-> new.told]
      BY <3>3
    <3> QED
      BY <3>1, <3>4, <3>5
  <2>3. CASE ~ (running \/ (ask.method = "plan" /\ Shown("plan", memory.cursor) = ask.says))
    <3>1. PICK e \in Events : e = Event(ask.method, ask.says) /\ e.is = ask.method
      BY <1>3, <2>1, EventIn, SaysWhat DEF Kinds, Commands
    <3>2. Commits(h, <<e>>, "chosen")
      BY <2>1, <2>3, <3>1 DEF Choose
    <3>3. PICK new : new = [at |-> "append", ask |-> handler[h].ask, batch |-> <<e>>, leads |-> "chosen",
                            told |-> handler[h].told]
      OBVIOUS
    <3>4. handler' = [handler EXCEPT ![h] = new]
      BY <1>1, <3>2, <3>3, CommitsTo
    <3>5. /\ new.batch = <<e>> /\ new.at = "append" /\ new.ask = handler[h].ask
          /\ new.told = handler[h].told /\ new.leads = "chosen"
          /\ new = [at |-> new.at, ask |-> new.ask, batch |-> new.batch, leads |-> new.leads,
                    told |-> new.told]
      BY <3>3
    <3> QED
      BY <1>3, <2>1, <2>3, <3>1, <3>4, <3>5
  <2> QED
    BY <2>2, <2>3
<1>5. handler'[h] = new /\ Alone(h)
  BY <1>1, <1>3, <1>4 DEF Alone, HandlersOK
<1>6. new.batch \in Seq(Events) /\ new.batch[1] = e /\ DOMAIN new.batch = {1}
  <2>1. e \in Events /\ new.batch = <<e>>
    BY <1>4
  <2> QED
    BY <2>1, OneEvent
<1>7. Announced' = Announced
  BY <1>2 DEF Announced, Announcing
<1>8. /\ LogOK' /\ ReceiptsOnce' /\ MemoryOK' /\ ReceiptsTrue' /\ EngineOK' /\ Unbroken'
      /\ FeedOK' /\ FramesTrue' /\ RowsOK' /\ ReaderOK' /\ PageOK'
  BY <1>1, <1>2, <1>3, <1>4, <1>5, <1>6, <1>7, LogOKSame, ReceiptsOnceSame, MemoryOKSame,
     ReceiptsTrueSame, EngineOKSame, UnbrokenSame, FeedOKSame, FramesTrueSame, RowsOKSame,
     ReaderOKSame, PageOKSame
<1>9. HandlersOK'
  <2>1. new \in [at : Busy \union Ready, ask : AllAsks \union {"none"}, batch : Seq(Events),
                 leads : Busy \union {"none"}, told : Nat]
    <3>1. new.at \in Busy \union Ready /\ new.leads \in Busy \union {"none"} /\ new.ask \in AllAsks
      BY <1>3, <1>4 DEF Busy
    <3> QED
      BY <1>3, <1>4, <1>6, <3>1
  <2>2. CommandBatch(h)'
    BY <1>4, <1>5 DEF CommandBatch, Toward
  <2>3. gate' = h /\ new.ask \in AllAsks /\ new.ask.method \in Commands /\ new.at # "ok"
    BY <1>2, <1>3, <1>4
  <2> QED
    BY <1>1, <1>4, <1>5, <2>1, <2>2, <2>3, HolderMoves
<1>10. LandedOK'
  BY <1>1, <1>4, <1>5, HolderRules DEF Carrying
<1>11. FreshOK'
  <2>1. sync[h].at = "off"
    BY <1>1, <1>3, AskFacts DEF SyncOK, Wanting, At
  <2>2. Fresh(memory.cursor)'
    BY <1>1, <1>2, <1>3 DEF Fresh, FreshOK, Informed
  <2> QED
    BY <1>1, <1>2, <1>5, <2>1, <2>2, HolderRules
<1>12. AppendsFit'
  <2>1. PICK b : b = new.batch
    OBVIOUS
  <2>2. Valid(b)'
    BY <1>4, <1>6, <2>1 DEF Valid, Commands
  <2>3. Valid(handler[h].batch)'
    BY <1>5, <2>1, <2>2
  <2> QED
    BY <1>1, <1>5, <2>3, HolderRules
<1>13. PoliciesOK'
  <2>1. new.batch[1].is \in {"preset", "policy"} => ~ Prompting
    BY <1>1, <1>4, <1>6 DEF Prompting, EngineOK
  <2> QED
    BY <1>1, <1>2, <1>5, <2>1 DEF PoliciesOK, PoliciesWait, Prompting, At, Alone
<1>14. ToldOK'
  BY <1>1, <1>2, <1>4, <1>5, HolderTold DEF Alone
<1>15. SyncOK'
  BY <1>1, <1>2, <1>3, <1>5, HolderSync DEF Alone
<1>16. KnownOK'
  <2>1. ~ Carrying(h)
    BY <1>3 DEF Carrying
  <2>2. \A key \in Keys : Owed(key) => Owed(key)'
    BY <1>2, <1>5, <1>7, <2>1, OwedStays
  <2> QED
    BY <1>1, <1>2, <1>7, <2>2, OwedRules
<1>17. OwedOK'
  <2>1. ~ Carrying(h)
    BY <1>3 DEF Carrying
  <2>2. \A key \in Keys : Owed(key) => Owed(key)'
    BY <1>2, <1>5, <1>7, <2>1, OwedStays
  <2> QED
    BY <1>1, <1>2, <1>7, <2>2, OwedRules
<1> QED
  BY <1>8, <1>9, <1>10, <1>11, <1>12, <1>13, <1>14, <1>15, <1>16, <1>17 DEF ViewInv, LogInv,
     TaskInv, FeedInv, ShowInv

LEMMA SaidKeeps ==
    ASSUME ViewInv, NEW h \in Handlers, Said(h)
    PROVE  ViewInv'
<1>1. /\ LogOK /\ ReceiptsOnce /\ MemoryOK /\ ReceiptsTrue /\ EngineOK /\ Unbroken
      /\ HandlersOK /\ LandedOK /\ FreshOK /\ AppendsFit /\ PoliciesOK /\ ToldOK
      /\ SyncOK /\ FeedOK /\ FramesTrue /\ KnownOK /\ RowsOK /\ OwedOK /\ ReaderOK /\ PageOK
  BY PartsOf
<1>2. UNCHANGED <<log, memory, running, routable, window, sync, engine, line, rows, page, reader, upset>>
  BY DEF Said, browserVars
<1>3. /\ handler[h].at = "said" /\ handler[h].ask \in AllAsks /\ handler[h].ask.method \in Commands
      /\ gate = h /\ h # Free /\ handler[h].batch \in Seq(Events) /\ handler[h].told \in Nat
      /\ handler[h].leads \in Busy \union {"none"}
      /\ \A g \in Handlers : g # h => handler[g].at \notin Busy
  <2>1. handler[h].at = "said" /\ handler[h].at \in Busy
    BY DEF Said, At, Busy
  <2> QED
    BY <1>1, <2>1, OneBusy, AskFacts DEF HandlersOK, Toward
<1>4. PICK new : /\ handler' = [handler EXCEPT ![h] = new] /\ gate' = Free
                 /\ new = [at |-> "ok", ask |-> handler[h].ask, batch |-> handler[h].batch,
                           leads |-> handler[h].leads, told |-> 0]
  <2>1. Tells(h, "ok", 0) /\ Release(h)
    BY DEF Said
  <2> QED
    BY <1>1, <1>3, <2>1, TellsTo DEF Release
<1>5. handler'[h] = new /\ Alone(h) /\ new.at = "ok" /\ new.told = 0 /\ new.ask = handler[h].ask
  BY <1>1, <1>3, <1>4 DEF Alone, HandlersOK
<1>6. Announced' = Announced
  BY <1>2 DEF Announced, Announcing
<1>7. /\ LogOK' /\ ReceiptsOnce' /\ MemoryOK' /\ ReceiptsTrue' /\ EngineOK' /\ Unbroken'
      /\ FeedOK' /\ FramesTrue' /\ RowsOK' /\ ReaderOK' /\ PageOK'
  BY <1>1, <1>2, <1>3, <1>4, <1>5, <1>6, LogOKSame, ReceiptsOnceSame, MemoryOKSame,
     ReceiptsTrueSame, EngineOKSame, UnbrokenSame, FeedOKSame, FramesTrueSame, RowsOKSame,
     ReaderOKSame, PageOKSame
<1>8. HandlersOK'
  <2>1. new \in [at : Busy \union Ready, ask : AllAsks \union {"none"}, batch : Seq(Events),
                 leads : Busy \union {"none"}, told : Nat]
    <3>1. "ok" \in Busy \union Ready
      BY DEF Ready
    <3> QED
      BY <1>3, <1>4, <3>1
  <2>2. new.at \notin Busy /\ gate' \in Handlers \union {Free}
    BY <1>4, <1>5 DEF Busy
  <2> QED
    BY <1>1, <1>3, <1>4, <1>5, <2>1, <2>2, HolderMoves
<1>9. LandedOK'
  BY <1>1, <1>5, HolderRules DEF Carrying
<1>10. FreshOK'
  <2>1. sync[h].at = "off"
    BY <1>1, <1>3, AskFacts DEF SyncOK, Wanting, At
  <2> QED
    BY <1>1, <1>2, <1>5, <2>1, HolderRules DEF Informed, Toward
<1>11. AppendsFit'
  BY <1>1, <1>5, HolderRules DEF At
<1>12. PoliciesOK'
  BY <1>1, <1>2, <1>5 DEF PoliciesOK, PoliciesWait, Prompting, At, Alone
<1>13. ToldOK'
  BY <1>1, <1>2, <1>3, <1>5, HolderTold DEF Alone, Commands
<1>14. SyncOK'
  BY <1>1, <1>2, <1>3, <1>5, HolderSync DEF Alone
<1>15. KnownOK'
  <2>1. ~ Carrying(h)
    BY <1>3 DEF Carrying
  <2>2. \A key \in Keys : Owed(key) => Owed(key)'
    BY <1>2, <1>5, <1>6, <2>1, OwedStays
  <2> QED
    BY <1>1, <1>2, <1>6, <2>2, OwedRules
<1>16. OwedOK'
  <2>1. ~ Carrying(h)
    BY <1>3 DEF Carrying
  <2>2. \A key \in Keys : Owed(key) => Owed(key)'
    BY <1>2, <1>5, <1>6, <2>1, OwedStays
  <2> QED
    BY <1>1, <1>2, <1>6, <2>2, OwedRules
<1> QED
  BY <1>7, <1>8, <1>9, <1>10, <1>11, <1>12, <1>13, <1>14, <1>15, <1>16 DEF ViewInv, LogInv,
     TaskInv, FeedInv, ShowInv

\* What a request appends, and what of it is the turn's or a projection's business.
LEMMA BatchIs ==
    ASSUME HandlersOK, NEW h \in Handlers, handler[h].at = "append"
    PROVE  LET b == handler[h].batch IN
           /\ b \in Seq(Events) /\ Len(b) \in {1, 2} /\ handler[h].leads \in {"choose", "chosen", "said", "reply"}
           /\ b[1].is \notin Marks \union {"receipt"} /\ (b[1].is = "goal" => b[1].says \in Goals)
           /\ b[1].is \in Keys => handler[h].leads \in {"chosen", "reply"}
           /\ Len(b) = 2 => b[2].is = "receipt" /\ b[2].says = handler[h].ask /\ handler[h].ask \in AllAsks
<1>1. PICK b \in Seq(Events) : b = handler[h].batch
  BY DEF HandlersOK
<1>2. /\ handler[h].ask \in AllAsks /\ Toward(h) = handler[h].leads
      /\ IF handler[h].ask.method \in Commands THEN CommandBatch(h)
         ELSE handler[h].leads = "reply" /\ ReplyBatch(h)
  BY DEF HandlersOK, Busy, Toward
<1>3. CASE handler[h].ask.method \in Commands
  <2>1. PICK e \in Events : /\ b = <<e>> /\ e.is \in {"run", "done"} \union Commands
                            /\ handler[h].leads \in {"choose", "chosen", "said"}
                            /\ e.is \in Commands => handler[h].leads = "chosen"
    <3>1. CASE handler[h].leads = "choose" /\ b = <<Event("run", h)>>
      <4>1. PICK e \in Events : e = Event("run", h) /\ e.is = "run"
        BY EventIn, SaysWhat DEF Kinds
      <4> QED
        BY <3>1, <4>1 DEF Commands
    <3>2. CASE handler[h].leads = "said" /\ b = <<Event("done", h)>>
      <4>1. PICK e \in Events : e = Event("done", h) /\ e.is = "done"
        BY EventIn, SaysWhat DEF Kinds
      <4> QED
        BY <3>2, <4>1 DEF Commands
    <3>3. CASE handler[h].leads = "chosen" /\ b = <<Event(handler[h].ask.method, handler[h].ask.says)>>
      <4>1. PICK e \in Events : /\ e = Event(handler[h].ask.method, handler[h].ask.says)
                                /\ e.is = handler[h].ask.method
        BY <1>2, <1>3, EventIn, SaysWhat DEF Kinds, Commands
      <4> QED
        BY <1>3, <3>3, <4>1
    <3> QED
      BY <1>1, <1>2, <1>3, <3>1, <3>2, <3>3 DEF CommandBatch
  <2>2. Len(b) = 1 /\ b[1] = e
    BY <2>1, OneEvent
  <2> QED
    BY <1>1, <2>1, <2>2 DEF Commands, Keys, Marks
<1>4. CASE handler[h].ask.method \notin Commands
  <2>1. /\ Len(b) = 2 /\ b[1].is \in {"title", "model", "preset", "goal"} /\ handler[h].leads = "reply"
        /\ b[1].is = "goal" => b[1].says \in Goals
        /\ b[2] = Event("receipt", handler[h].ask)
    BY <1>1, <1>2, <1>4 DEF ReplyBatch
  <2>2. b[2].is = "receipt" /\ b[2].says = handler[h].ask
    BY <2>1 DEF Event
  <2> QED
    BY <1>1, <1>2, <2>1, <2>2 DEF Marks
<1> QED
  BY <1>3, <1>4

LEMMA BatchKeeps ==
    ASSUME ViewInv, NEW h \in Handlers, handler[h].at = "append", log' = log \o handler[h].batch,
           Valid(handler[h].batch),
           UNCHANGED <<memory, running, window, sync, engine, line, rows, page, reader>>,
           upset \subseteq upset', upset' \subseteq upset \union {"unannounced"},
           NEW new, handler' = [handler EXCEPT ![h] = new],
           new = [at |-> new.at, ask |-> handler[h].ask, batch |-> handler[h].batch,
                  leads |-> handler[h].leads, told |-> new.told], new.told \in Nat,
           \/ new.at = "sync" /\ gate' = gate
           \/ new.at = "error" /\ gate' = Free /\ "unannounced" \in upset'
    PROVE  ViewInv'
<1>1. /\ LogOK /\ ReceiptsOnce /\ MemoryOK /\ ReceiptsTrue /\ EngineOK /\ Unbroken
      /\ HandlersOK /\ LandedOK /\ FreshOK /\ AppendsFit /\ PoliciesOK /\ ToldOK
      /\ SyncOK /\ FeedOK /\ FramesTrue /\ KnownOK /\ RowsOK /\ OwedOK /\ ReaderOK /\ PageOK
  BY PartsOf
<1>2. /\ handler'[h] = new /\ new.ask = handler[h].ask /\ new.batch = handler[h].batch
      /\ new.leads = handler[h].leads /\ Alone(h) /\ gate = h
  <2>1. handler[h].at \in Busy
    BY DEF Busy
  <2> QED
    BY <1>1, <2>1, OneBusy DEF Alone, HandlersOK
<1>3. PICK b \in Seq(Events) :
        /\ b = handler[h].batch /\ Len(b) \in {1, 2} /\ new.leads \in {"choose", "chosen", "said", "reply"}
        /\ b[1].is \notin Marks \union {"receipt"} /\ (b[1].is = "goal" => b[1].says \in Goals)
        /\ b[1].is \in Keys => new.leads \in {"chosen", "reply"}
        /\ Len(b) = 2 => b[2].is = "receipt" /\ b[2].says = new.ask /\ new.ask \in AllAsks
  BY <1>1, <1>2, BatchIs
<1>4. PICK n \in Nat : n = Len(log) /\ n >= 1
  BY <1>1 DEF LogOK
<1>5. /\ log' \in Seq(Events) /\ Len(log') = n + Len(b)
      /\ \A i \in 1..n : log'[i] = log[i]
      /\ \A j \in 1..Len(b) : log'[n + j] = b[j]
      /\ DOMAIN log = 1..n /\ DOMAIN log' = 1..Len(log')
  <2>1. log \in Seq(Events) /\ log' = log \o b
    BY <1>1, <1>3 DEF LogOK
  <2> QED
    BY <1>3, <1>4, <2>1, SMTT(40)
<1>6. \A i \in (n + 1)..Len(log') : \/ i = n + 1 /\ log'[i] = b[1]
                                    \/ i = n + 2 /\ Len(b) = 2 /\ log'[i] = b[2]
  <2>1. \A i \in (n + 1)..Len(log') : i = n + 1 \/ (i = n + 2 /\ Len(b) = 2)
    <3>1. CASE Len(b) = 1
      <4>1. Len(log') = n + 1
        BY <1>5, <3>1
      <4> QED
        BY <4>1
    <3>2. CASE Len(b) = 2
      <4>1. Len(log') = n + 2
        BY <1>5, <3>2
      <4> QED
        BY <3>2, <4>1
    <3> QED
      BY <1>3, <3>1, <3>2
  <2> QED
    BY <1>3, <1>5, <2>1, SMTT(40)
<1>7. Grown
  BY <1>3, <1>4, <1>5, <1>6, SMTT(40) DEF Grown
<1>8. LogOK' /\ MemoryOK' /\ ReceiptsTrue' /\ FramesTrue' /\ RowsOK'
  BY <1>1, <1>7, GrowthKeeps
<1>9. Announced' = Announced
  BY DEF Announced, Announcing
<1>10. FeedOK'
  BY <1>1, <1>9, FeedOKSame
<1>11. Unbroken'
  BY <1>1 DEF Unbroken
<1>12. ReceiptsOnce'
  <2>1. \A i \in DOMAIN log' : \A rpc \in Rpcs : ReceiptOf(i, rpc)' =>
           \/ i \in DOMAIN log /\ ReceiptOf(i, rpc)
           \/ i = n + 2 /\ Len(b) = 2 /\ b[2].says.rpc = rpc
    BY <1>3, <1>4, <1>5, <1>6 DEF ReceiptOf
  <2>2. ASSUME Len(b) = 2, NEW rpc \in Rpcs, b[2].says.rpc = rpc, NEW i \in DOMAIN log, ReceiptOf(i, rpc)
        PROVE  FALSE
    <3>1. Valid(b)
      BY <1>3
    <3>2. Restored(n)[rpc].seq = 0
      BY <1>3, <1>4, <2>2, <3>1 DEF Valid
    <3>3. n \in 0..Len(log)
      BY <1>4
    <3> QED
      BY <1>1, <1>5, <2>2, <3>2, <3>3, RestoredFacts
  <2> QED
    BY <1>1, <2>1, <2>2 DEF ReceiptsOnce
<1>13. \A i \in DOMAIN log' : log'[i].is \in Marks => i \in DOMAIN log /\ log[i] = log'[i]
  BY <1>3, <1>4, <1>5, <1>6 DEF Marks
<1>14. EngineOK'
  <2>1. \A i \in DOMAIN log' : Begun(i)' <=> i \in DOMAIN log /\ Begun(i)
    BY <1>5, <1>13 DEF Begun, Marks
  <2>2. engine.known <= Len(log') /\ engine.known \in Nat /\ running \in BOOLEAN
    BY <1>1, <1>3, <1>4, <1>5 DEF EngineOK
  <2>3. ASSUME engine.at \in {"idle", "asked"} PROVE \A i \in DOMAIN log' : log'[i].is \notin Marks
    BY <1>1, <1>13, <2>3 DEF EngineOK
  <2>4. ASSUME engine.at = "open"
        PROVE  /\ engine.known \in DOMAIN log' /\ Begun(engine.known)'
               /\ \A i \in (engine.known + 1)..Len(log') : log'[i].is # "end"
               /\ log'[engine.known].says \in {"asked", "idle"}
               /\ log'[engine.known].says = "asked" => running
    <3>1. /\ engine.known \in DOMAIN log /\ Begun(engine.known)
          /\ \A i \in (engine.known + 1)..n : log[i].is # "end"
          /\ log[engine.known].says \in {"asked", "idle"}
          /\ log[engine.known].says = "asked" => running
      BY <1>1, <1>4, <2>4 DEF EngineOK
    <3>2. engine.known \in DOMAIN log' /\ log'[engine.known] = log[engine.known]
      BY <1>3, <1>5, <3>1
    <3>3. \A i \in (engine.known + 1)..Len(log') : log'[i].is # "end"
      <4>1. SUFFICES ASSUME NEW i \in (engine.known + 1)..Len(log'), log'[i].is = "end" PROVE FALSE
        OBVIOUS
      <4>2. i \in DOMAIN log'
        BY <1>5, <3>1
      <4>3. i \in 1..n /\ log[i].is = "end"
        BY <1>5, <1>13, <4>1, <4>2 DEF Marks
      <4>4. i \in (engine.known + 1)..n
        BY <2>2, <4>1, <4>3
      <4> QED
        BY <3>1, <4>3, <4>4
    <3> QED
      BY <2>1, <3>1, <3>2, <3>3
  <2>5. ASSUME engine.at = "broken", NEW i \in DOMAIN log', Begun(i)' PROVE log'[i].says = "idle"
    BY <1>1, <1>5, <2>1, <2>5 DEF EngineOK
  <2>6. ASSUME engine.at = "ended", NEW i \in DOMAIN log', Begun(i)'
        PROVE  \E e \in (i + 1)..Len(log') : log'[e].is = "end"
    <3>1. i \in DOMAIN log /\ Begun(i)
      BY <2>1, <2>6
    <3>2. PICK e \in (i + 1)..n : log[e].is = "end"
      BY <1>1, <1>4, <2>6, <3>1 DEF EngineOK
    <3>3. e \in (i + 1)..Len(log') /\ log'[e] = log[e]
      BY <1>3, <1>5, <3>1, <3>2
    <3> QED
      BY <3>2, <3>3
  <2>7. \A i, j \in DOMAIN log' : Begun(i)' /\ Begun(j)' => i = j
    BY <1>1, <2>1 DEF EngineOK
  <2>8. /\ engine = [at |-> engine.at, known |-> engine.known, followed |-> engine.followed]
        /\ engine.at \in {"idle", "asked", "open", "ended", "broken"}
        /\ engine.at = "asked" => running
    BY <1>1 DEF EngineOK
  <2> QED
    BY <2>2, <2>3, <2>4, <2>5, <2>6, <2>7, <2>8 DEF EngineOK
<1>15. HandlersOK'
  <2>1. new \in [at : Busy \union Ready, ask : AllAsks \union {"none"}, batch : Seq(Events),
                 leads : Busy \union {"none"}, told : Nat]
    <3>1. /\ handler[h].ask \in AllAsks \union {"none"} /\ handler[h].batch \in Seq(Events)
          /\ handler[h].leads \in Busy \union {"none"} /\ new.at \in Busy \union Ready
      BY <1>1 DEF HandlersOK, Busy, Ready
    <3> QED
      BY <3>1
  <2>2. gate' \in Handlers \union {Free} /\ new.at # "ok"
    BY <1>2
  <2>3. ASSUME new.at \in Busy
        PROVE  /\ gate' = h /\ new.ask \in AllAsks
               /\ IF new.ask.method \in Commands THEN CommandBatch(h)'
                  ELSE Toward(h)' = "reply" /\ ReplyBatch(h)'
    <3>1. new.at = "sync" /\ gate' = h
      BY <1>2, <2>3 DEF Busy
    <3>2. /\ handler[h].ask \in AllAsks
          /\ IF handler[h].ask.method \in Commands THEN CommandBatch(h)
             ELSE Toward(h) = "reply" /\ ReplyBatch(h)
      BY <1>1 DEF HandlersOK, Busy
    <3>3. Toward(h)' = Toward(h)
      BY <1>2, <3>1 DEF Toward
    <3> QED
      BY <1>2, <3>1, <3>2, <3>3 DEF CommandBatch, ReplyBatch
  <2> QED
    BY <1>1, <1>2, <2>1, <2>2, <2>3, HolderMoves
<1>16. LandedOK'
  <2>1. SUFFICES ASSUME Carrying(h)' PROVE Landed(h)'
    BY <1>1, <1>2, HolderRules
  <2>2. PICK k : k = n + 1
    OBVIOUS
  <2>3. /\ k \in 1..Len(log') /\ k + Len(b) - 1 <= Len(log')
        /\ \A j \in DOMAIN b : log'[k + j - 1] = b[j]
        /\ \A i : i \notin (k + Len(b) - 1 + 1)..Len(log')
    <3>1. PICK m : m = Len(b)
      OBVIOUS
    <3>2. m \in {1, 2} /\ Len(log') = n + m /\ DOMAIN b = 1..m
      BY <1>3, <1>5, <3>1
    <3>3. \A j \in 1..m : log'[k + j - 1] = b[j]
      <4>1. \A j \in 1..m : k + j - 1 = n + j
        BY <2>2, <3>2
      <4> QED
        BY <1>5, <3>1, <4>1
    <3>4. k + m - 1 <= n + m /\ k \in 1..(n + m)
      BY <1>4, <2>2, <3>2
    <3>5. \A i : i \notin (k + m - 1 + 1)..(n + m)
      BY <2>2, <3>2
    <3> QED
      BY <3>1, <3>2, <3>3, <3>4, <3>5
  <2>4. \A i \in (k + Len(b) - 1 + 1)..Len(log') : log'[i].is \in Marks
    BY <2>3
  <2>5. b = handler'[h].batch
    BY <1>2, <1>3
  <2> QED
    BY <2>3, <2>4, <2>5 DEF Landed, Fresh
<1>17. sync[h].at = "off"
  BY <1>1, AskFacts DEF SyncOK, Wanting, At
<1>18. FreshOK'
  BY <1>1, <1>2, <1>17, HolderRules DEF Informed
<1>19. AppendsFit'
  BY <1>1, <1>2, HolderRules DEF At
<1>20. PoliciesOK'
  <2>1. \A g \in Handlers : ~ At(g, "append")'
    BY <1>2 DEF Alone, At, Busy
  <2>2. ASSUME NEW i \in DOMAIN log', log'[i].is \in {"preset", "policy"}, NEW s \in 1..(i - 1), log'[s].is = "start"
        PROVE  (\E t \in s..i : log'[t].is = "end") \/ log'[s].says = "idle"
    <3>1. s \in DOMAIN log /\ log[s] = log'[s] /\ Begun(s)
      <4>1. s \in DOMAIN log'
        BY <1>5, <2>2
      <4> QED
        BY <1>13, <2>2, <4>1 DEF Begun, Marks
    <3>2. CASE i \in DOMAIN log
      <4>1. (\E t \in s..i : log[t].is = "end") \/ log[s].says = "idle"
        BY <1>1, <1>5, <2>2, <3>1, <3>2 DEF PoliciesOK, PoliciesWait
      <4>2. \A t \in s..i : log'[t] = log[t]
        BY <1>5, <3>1, <3>2
      <4> QED
        BY <3>1, <4>1, <4>2
    <3>3. CASE i \notin DOMAIN log
      <4>1. i = n + 1 /\ log'[i] = b[1]
        <5>1. i \in (n + 1)..Len(log')
          BY <1>4, <1>5, <3>3
        <5> QED
          BY <1>3, <1>6, <2>2, <5>1
      <4>2. ~ Prompting
        BY <1>1, <1>3, <2>2, <4>1 DEF PoliciesOK, At
      <4>3. engine.at \notin {"idle", "asked"}
        BY <1>1, <3>1 DEF EngineOK, Begun, Marks
      <4>4. CASE engine.at = "open"
        <5>1. s = engine.known /\ log[s].says \in {"asked", "idle"}
          BY <1>1, <3>1, <4>4 DEF EngineOK
        <5> QED
          BY <3>1, <4>2, <4>4, <5>1 DEF Prompting
      <4>5. CASE engine.at = "broken"
        BY <1>1, <3>1, <4>5 DEF EngineOK
      <4>6. CASE engine.at = "ended"
        <5>1. PICK t \in (s + 1)..n : log[t].is = "end"
          BY <1>1, <1>4, <3>1, <4>6 DEF EngineOK
        <5>2. t \in s..i /\ log'[t] = log[t]
          BY <1>4, <1>5, <3>1, <4>1, <5>1
        <5> QED
          BY <5>1, <5>2
      <4> QED
        BY <1>1, <4>3, <4>4, <4>5, <4>6 DEF EngineOK
    <3> QED
      BY <3>2, <3>3
  <2>3. PoliciesWait'
    BY <2>2 DEF PoliciesWait
  <2> QED
    BY <2>1, <2>3 DEF PoliciesOK
<1>21. ToldOK'
  <2>1. SUFFICES ASSUME "overtaken" \notin upset', NEW g \in Handlers, At(g, "ok")'
                 PROVE  IF handler'[g].ask.method = "title"
                        THEN /\ handler'[g].told + 1 <= Len(log')
                             /\ log'[handler'[g].told + 1] = Event("receipt", handler'[g].ask)
                        ELSE handler'[g].told = 0
    BY DEF ToldOK, At, Event
  <2>2. handler'[g] = handler[g] /\ handler[g].at = "ok" /\ "overtaken" \notin upset
    BY <1>2, <2>1 DEF Alone, At
  <2>3. PICK m \in Nat : m = handler[g].told + 1 /\ m >= 1
    <3>1. handler[g].told \in Nat
      BY <1>1 DEF HandlersOK
    <3> QED
      BY <3>1
  <2>4. IF handler[g].ask.method = "title"
        THEN m <= Len(log) /\ log[m] = Event("receipt", handler[g].ask)
        ELSE handler[g].told = 0
    BY <1>1, <2>2, <2>3 DEF ToldOK, At
  <2>5. m <= Len(log) => m <= Len(log') /\ log'[m] = log[m]
    BY <1>3, <1>4, <1>5, <2>3
  <2> QED
    BY <2>2, <2>3, <2>4, <2>5
<1>22. SyncOK'
  <2>1. ASSUME NEW p \in Readers, sync[p].at # "off" PROVE Wanting(p)'
    BY <1>1, <1>2, <1>17, <2>1, AskFacts DEF SyncOK, Wanting, At, Readers, Alone
  <2>2. Len(log) <= Len(log') /\ Len(log') \in Nat
    BY <1>3, <1>4, <1>5
  <2> QED
    BY <1>1, <1>4, <2>1, <2>2, CursorIn DEF SyncOK
<1>23. ASSUME NEW key \in Keys, NEW m \in Nat, m <= n, ~ (b[1].is = key)
       PROVE  Unchanged(key, m)' <=> Unchanged(key, m)
  <2>1. \A i \in (n + 1)..Len(log') : ~ Changes(key, log'[i])
    BY <1>3, <1>6, <1>23 DEF Changes, Marks, Keys, Commands
  <2> QED
    BY <1>3, <1>4, <1>5, <1>23, <2>1, SMTT(40) DEF Unchanged, Changes
<1>24. ASSUME NEW key \in Keys, Owed(key) PROVE Owed(key)'
  <2>1. CASE key = "usage"
    <3>1. b[1].is # key /\ Announced \in Nat /\ Announced <= n
      <4>1. b[1] \in Events
        BY <1>3
      <4>2. b[1].is # key
        BY <2>1, <4>1 DEF Events, Kinds
      <4> QED
        BY <1>1, <1>4, <4>2, CursorIn
    <3> QED
      BY <1>9, <1>23, <1>24, <2>1, <3>1 DEF Owed
  <2>2. CASE key # "usage"
    BY <1>2, <1>24, <2>2 DEF Owed, Carrying, Alone, Busy
  <2> QED
    BY <2>1, <2>2
<1>25. ASSUME NEW key \in Keys, b[1].is = key PROVE Owed(key)'
  <2>1. key # "usage"
    <3>1. b[1] \in Events
      BY <1>3
    <3> QED
      BY <1>25, <3>1 DEF Events, Kinds
  <2>2. CASE new.at = "sync"
    <3>1. Carrying(h)' /\ handler'[h].batch[1].is = key
      BY <1>2, <1>3, <1>25, <2>2 DEF Carrying, Toward
    <3> QED
      BY <2>1, <3>1 DEF Owed
  <2>3. CASE new.at = "error"
    BY <2>1, <2>3 DEF Owed
  <2> QED
    BY <2>2, <2>3
<1>26. KnownOK'
  BY <1>1, <1>4, <1>23, <1>24, <1>25, CursorIn DEF KnownOK
<1>27. OwedOK'
  <2>1. SUFFICES ASSUME "mixed" \notin upset', line.at = "up", NEW key \in Keys, ~ Owed(key)'
                 PROVE  \/ ~ Rebasing' /\ Unchanged(key, rows[key].seq)'
                        \/ \E i \in DOMAIN line.feed : Covers(key, line.feed[i])'
    BY DEF OwedOK
  <2>2. b[1].is # key
    BY <1>25, <2>1
  <2>3. \/ ~ Rebasing /\ Unchanged(key, rows[key].seq)
        \/ \E i \in DOMAIN line.feed : Covers(key, line.feed[i])
    BY <1>1, <1>24, <2>1 DEF OwedOK
  <2>4. CASE ~ Rebasing /\ Unchanged(key, rows[key].seq)
    <3>1. PICK m \in Nat : m = rows[key].seq /\ m <= n
      BY <1>1, <1>4, <2>1, CursorIn DEF RowsOK
    <3> QED
      BY <1>23, <2>2, <2>4, <3>1 DEF Rebasing
  <2>5. ASSUME NEW i \in DOMAIN line.feed, Covers(key, line.feed[i]) PROVE Covers(key, line.feed[i])'
    <3>1. PICK f : f = line.feed[i] /\ f.seq \in Nat /\ 1 <= f.seq /\ f.seq <= n
      BY <1>1, <1>4, CursorIn DEF FeedOK
    <3>2. Unchanged(key, f.seq)' /\ log'[f.seq] = log[f.seq]
      BY <1>5, <1>23, <2>2, <2>5, <3>1 DEF Covers
    <3> QED
      BY <2>5, <3>1, <3>2 DEF Covers
  <2> QED
    BY <2>3, <2>4, <2>5
<1>28. ReaderOK' /\ PageOK'
  <2>1. Len(log) <= Len(log') /\ Len(log') \in Nat /\ Len(log) \in Nat
    BY <1>3, <1>4, <1>5
  <2>2. ReaderOK'
    BY <1>1, <2>1 DEF ReaderOK
  <2> QED
    BY <1>1, <1>9, <2>1, <2>2 DEF PageOK, Ahead, Following, IsEvent, FirstEvent, NoEvent
<1> QED
  BY <1>8, <1>10, <1>11, <1>12, <1>14, <1>15, <1>16, <1>18, <1>19, <1>20, <1>21, <1>22, <1>26, <1>27, <1>28
     DEF ViewInv, LogInv, TaskInv, FeedInv, ShowInv

LEMMA AppendBatchKeeps ==
    ASSUME ViewInv, NEW h \in Handlers, AppendBatch(h)
    PROVE  ViewInv'
<1>1. HandlersOK /\ AppendsFit
  BY PartsOf
<1>2. handler[h].at = "append" /\ Valid(handler[h].batch)
  BY <1>1 DEF AppendBatch, AppendsFit, At
<1>3. /\ log' = log \o handler[h].batch /\ Goes(h, "sync") /\ UNCHANGED <<gate, upset>>
      /\ UNCHANGED <<memory, running, window, sync, engine, line, rows, page, reader>>
  BY <1>2 DEF AppendBatch, browserVars
<1>4. handler[h].told \in Nat
  BY <1>1 DEF HandlersOK
<1>5. PICK new : new = [at |-> "sync", ask |-> handler[h].ask, batch |-> handler[h].batch,
                        leads |-> handler[h].leads, told |-> handler[h].told]
  OBVIOUS
<1>6. handler' = [handler EXCEPT ![h] = new]
  BY <1>1, <1>3, <1>5, GoesTo
<1>7. /\ new = [at |-> new.at, ask |-> handler[h].ask, batch |-> handler[h].batch,
                leads |-> handler[h].leads, told |-> new.told]
      /\ new.at = "sync" /\ new.told \in Nat
  BY <1>4, <1>5
<1> QED
  BY <1>2, <1>3, <1>6, <1>7, BatchKeeps

LEMMA SessionNotFlushedKeeps ==
    ASSUME ViewInv, NEW h \in Handlers, SessionNotFlushed(h)
    PROVE  ViewInv'
<1>1. HandlersOK
  BY PartsOf
<1>2. handler[h].at = "append" /\ Valid(handler[h].batch)
  BY DEF SessionNotFlushed, At
<1>3. /\ log' = log \o handler[h].batch /\ Tells(h, "error", 0) /\ Release(h)
      /\ upset' = upset \union {"unannounced"}
      /\ UNCHANGED <<memory, running, window, sync, engine, line, rows, page, reader>>
  BY DEF SessionNotFlushed, browserVars
<1>4. gate' = Free
  <2>1. handler[h].at \in Busy
    BY <1>2 DEF Busy
  <2> QED
    BY <1>1, <1>3, <2>1, OneBusy DEF Release
<1>5. PICK new : new = [at |-> "error", ask |-> handler[h].ask, batch |-> handler[h].batch,
                        leads |-> handler[h].leads, told |-> 0]
  OBVIOUS
<1>6. handler' = [handler EXCEPT ![h] = new]
  BY <1>1, <1>3, <1>5, TellsTo
<1>7. /\ new = [at |-> new.at, ask |-> handler[h].ask, batch |-> handler[h].batch,
                leads |-> handler[h].leads, told |-> new.told]
      /\ new.at = "error" /\ new.told \in Nat
  BY <1>5
<1> QED
  BY <1>2, <1>3, <1>4, <1>6, <1>7, BatchKeeps

-----------------------------------------------------------------------------
(* Replies and their projections *)

LEMMA RowsStay ==
    ASSUME LogOK, RowsOK, UNCHANGED <<rows, log, memory.cursor>>, upset \subseteq upset'
    PROVE  RowsOK'
<1>1. \A key \in Keys : rows[key].seq \in Nat
  BY DEF RowsOK
<1>2. ASSUME NEW key \in Keys, NEW v \in rows[key].seq..Len(log), rows[key].says = Shown(key, v)
      PROVE  v \in rows'[key].seq..Len(log') /\ rows'[key].says = Shown(key, v)'
  BY <1>1, <1>2, ShownStays DEF LogOK
<1> QED
  BY <1>2 DEF RowsOK

LEMMA OwedElsewhere ==
    ASSUME NEW h \in Handlers, UNCHANGED log, Announced' = Announced, upset \subseteq upset', Alone(h)
    PROVE  \A key \in Keys : key # handler[h].batch[1].is /\ Owed(key) => Owed(key)'
<1>1. SUFFICES ASSUME NEW key \in Keys, key # handler[h].batch[1].is, Owed(key) PROVE Owed(key)'
  OBVIOUS
<1>2. CASE key = "usage"
  BY <1>1, <1>2 DEF Owed, Unchanged, Changes
<1>3. CASE key # "usage"
  <2>1. \A g \in Handlers : g # h => ~ Carrying(g)
    BY DEF Alone, Carrying, Busy
  <2> QED
    BY <1>1, <1>3, <2>1 DEF Owed
<1> QED
  BY <1>2, <1>3

\* What a request committed is what its key shows at the cut that memory holds.
LEMMA ShowsItsOwn ==
    ASSUME LogOK, MemoryOK, HandlersOK, LandedOK, FreshOK, NEW h \in Handlers, Carrying(h),
           handler[h].at # "sync"
    PROVE  LET b == handler[h].batch IN
           \E k \in Nat :
             /\ 1 <= k /\ k + Len(b) - 1 <= memory.cursor /\ Fresh(k + Len(b) - 1)
             /\ \A j \in DOMAIN b : log[k + j - 1] = b[j]
<1>1. PICK b \in Seq(Events) : b = handler[h].batch
  BY DEF HandlersOK
<1>2. PICK k \in 1..Len(log) : /\ k + Len(b) - 1 <= Len(log) /\ Fresh(k + Len(b) - 1)
                               /\ \A j \in DOMAIN b : log[k + j - 1] = b[j]
  BY <1>1 DEF LandedOK, Landed
<1>3. Fresh(memory.cursor)
  BY DEF FreshOK, Informed, Carrying
<1>4. Len(b) \in Nat /\ Len(b) >= 1 /\ b[Len(b)].is \notin Marks
  <2>1. handler[h].at \in {"reply", "chosen"} /\ Toward(h) = handler[h].at /\ handler[h].at \in Busy
    BY DEF Carrying, Toward, Busy
  <2>2. CASE handler[h].at = "reply"
    <3>1. Len(b) = 2 /\ b[2] = Event("receipt", handler[h].ask)
      BY <1>1, <2>1, <2>2 DEF HandlersOK, CommandBatch, ReplyBatch
    <3> QED
      BY <3>1 DEF Event, Marks
  <2>3. CASE handler[h].at = "chosen"
    <3>1. b = <<Event(handler[h].ask.method, handler[h].ask.says)>> /\ handler[h].ask.method \in Commands
      BY <1>1, <2>1, <2>3 DEF HandlersOK, CommandBatch
    <3>2. PICK e : e = Event(handler[h].ask.method, handler[h].ask.says)
      OBVIOUS
    <3>3. e.is \notin Marks
      BY <3>1, <3>2 DEF Event, Marks, Commands
    <3>4. b = <<e>>
      BY <3>1, <3>2
    <3> QED
      BY <3>3, <3>4
  <2> QED
    BY <2>1, <2>2, <2>3
<1>5. k + Len(b) - 1 <= memory.cursor
  <2>1. PICK m \in Nat : m = k + Len(b) - 1
    BY <1>2, <1>4
  <2>2. log[m] = b[Len(b)]
    BY <1>1, <1>2, <1>4, <2>1
  <2>3. m \notin (memory.cursor + 1)..Len(log)
    BY <1>3, <1>4, <2>2 DEF Fresh
  <2>4. memory.cursor \in Nat /\ Len(log) \in Nat
    BY DEF MemoryOK, LogOK
  <2> QED
    BY <1>2, <2>1, <2>3, <2>4
<1>6. k \in Nat /\ 1 <= k
  OBVIOUS
<1> QED
  BY <1>1, <1>2, <1>5, <1>6

\* A projection of memory's cut follows what is on its way, and covers its key.
LEMMA ProjectionGoes ==
    ASSUME LogOK, MemoryOK, SyncOK, FeedOK, FramesTrue, PageOK, KnownOK, OwedOK,
           NEW key \in Keys, key # "usage", NEW says \in Says, says = Shown(key, memory.cursor),
           Unchanged(key, memory.cursor),
           Pushed(<<Projection(key, says, memory.cursor)>>),
           UNCHANGED <<log, memory.cursor, page, reader, rows>>, Announced' = Announced,
           upset \subseteq upset', \A other \in Keys : other # key /\ Owed(other) => Owed(other)'
    PROVE  FeedOK' /\ FramesTrue' /\ PageOK' /\ KnownOK' /\ OwedOK'
<1>1. ASSUME NEW k \in Keys, NEW m PROVE Unchanged(k, m)' <=> Unchanged(k, m)
  BY DEF Unchanged, Changes
<1>2. KnownOK'
  BY <1>1 DEF KnownOK
<1>3. CASE line.at \in {"down", "absent"}
  <2>1. line' = line
    BY <1>3 DEF Pushed
  <2>2. OwedOK'
    BY <1>3, <2>1 DEF OwedOK
  <2> QED
    BY <1>2, <2>1, <2>2, FeedOKSame, FramesTrueSame, PageOKSame
<1>4. CASE line.at \notin {"down", "absent"}
  <2>1. PICK f : f = [is |-> "projection", key |-> key, says |-> says, seq |-> memory.cursor]
    OBVIOUS
  <2>2. memory.cursor \in Nat /\ 1 <= memory.cursor /\ Len(log) \in Nat
    BY CursorIn
  <2>3. f \in Frames /\ f.is = "projection" /\ f.key = key /\ f.says = says /\ f.seq = memory.cursor
    BY <2>1, <2>2 DEF Frames
  <2>4. PICK n \in Nat : n = Len(line.feed) /\ DOMAIN line.feed = 1..n
    BY DEF FeedOK
  <2>5. /\ line'.at = line.at /\ line'.feed \in Seq(Frames) /\ Len(line'.feed) = n + 1
        /\ DOMAIN line'.feed = 1..(n + 1) /\ \A i \in 1..n : line'.feed[i] = line.feed[i]
        /\ line'.feed[n + 1] = f
        /\ line' \in [at : {"down", "absent", "subscribed", "up"}, feed : Seq(Frames)]
    <3>1. line.feed \in Seq(Frames) /\ line \in [at : {"down", "absent", "subscribed", "up"}, feed : Seq(Frames)]
      BY DEF FeedOK
    <3>2. line' = [line EXCEPT !.feed = line.feed \o <<f>>]
      BY <1>4, <2>1 DEF Pushed, Projection
    <3>3. PICK s : s = line.feed \o <<f>>
      OBVIOUS
    <3>4. /\ s \in Seq(Frames) /\ Len(s) = n + 1 /\ DOMAIN s = 1..(n + 1)
          /\ (\A i \in 1..n : s[i] = line.feed[i]) /\ s[n + 1] = f
      BY <2>3, <2>4, <3>1, <3>3
    <3>5. line'.at = line.at /\ line'.feed = s
      BY <3>1, <3>2, <3>3
    <3>6. line' \in [at : {"down", "absent", "subscribed", "up"}, feed : Seq(Frames)]
      BY <3>1, <3>2, <3>3, <3>4
    <3> QED
      BY <3>4, <3>5, <3>6
  <2>6. \A i \in 1..(n + 1) : IsEvent(i)' <=> i \in 1..n /\ IsEvent(i)
    <3>1. \A i \in 1..(n + 1) : i \in 1..n \/ i = n + 1
      OBVIOUS
    <3> QED
      BY <2>3, <2>5, <3>1 DEF IsEvent
  <2>7. FeedOK'
    <3>1. ASSUME NEW i \in 1..(n + 1)
          PROVE  /\ line'.feed[i].is = "subscribed" => i = 1 /\ line'.at = "up"
                 /\ line'.feed[i].seq \in 1..memory.cursor
                 /\ IsEvent(i)' => line'.feed[i].seq <= Announced
                 /\ Newest(i)' => line'.feed[i].seq = Announced
      <4>1. CASE i = n + 1
        BY <2>2, <2>3, <2>5, <2>6, <4>1 DEF Newest
      <4>2. CASE i \in 1..n
        <5>1. Newest(i)' => Newest(i)
          <6>1. \A j \in (i + 1)..n : j \in (i + 1)..(n + 1) /\ j \in 1..n
            BY <2>4, <4>2
          <6> QED
            BY <2>4, <2>5, <2>6, <4>2, <6>1 DEF Newest
        <5> QED
          BY <2>4, <2>5, <2>6, <4>2, <5>1 DEF FeedOK
      <4> QED
        BY <4>1, <4>2
    <3>2. AnnouncedInOrder'
      <4>1. SUFFICES ASSUME NEW i \in 1..(n + 1), NEW j \in 1..(n + 1), i < j,
                            line'.feed[i].is = "event", line'.feed[j].is = "event",
                            \A k \in (i + 1)..(j - 1) : line'.feed[k].is # "event"
                     PROVE  line'.feed[j].seq = line'.feed[i].seq + 1
        BY <2>5 DEF AnnouncedInOrder
      <4>2. i \in 1..n /\ j \in 1..n
        BY <2>6, <4>1 DEF IsEvent
      <4>3. \A k \in (i + 1)..(j - 1) : line.feed[k].is # "event"
        <5>1. \A k \in (i + 1)..(j - 1) : k \in 1..n
          BY <4>2
        <5> QED
          BY <2>5, <4>1, <5>1
      <4>4. line.feed[i].is = "event" /\ line.feed[j].is = "event"
        BY <2>5, <4>1, <4>2
      <4>5. line.feed[j].seq = line.feed[i].seq + 1
        BY <2>4, <4>1, <4>2, <4>3, <4>4 DEF FeedOK, AnnouncedInOrder
      <4> QED
        BY <2>5, <4>2, <4>5
    <3> QED
      BY <1>4, <2>5, <3>1, <3>2 DEF FeedOK
  <2>8. FramesTrue'
    <3>1. SUFFICES ASSUME NEW i \in 1..(n + 1), line'.feed[i].is = "projection"
                   PROVE  (line.feed[i].says = Shown(line.feed[i].key, line.feed[i].seq))'
      BY <2>5 DEF FramesTrue
    <3>2. CASE i = n + 1
      <4>1. Shown(key, memory.cursor)' = Shown(key, memory.cursor)
        BY <2>2, ShownStays
      <4> QED
        BY <2>2, <2>3, <2>5, <3>2, <4>1
    <3>3. CASE i \in 1..n
      <4>1. PICK g : g = line.feed[i] /\ g = line'.feed[i]
        BY <2>5, <3>3
      <4>2. g \in Frames /\ g.is = "projection"
        <5>1. line.feed \in Seq(Frames) /\ i \in DOMAIN line.feed
          BY <2>4, <3>3 DEF FeedOK
        <5>2. line.feed[i] \in Frames
          BY <5>1
        <5> QED
          BY <3>1, <4>1, <5>2
      <4>3. g.key \in Keys /\ g.seq \in Nat
        BY <4>2 DEF Frames
      <4>4. g.says = Shown(g.key, g.seq)
        BY <2>4, <3>3, <4>1, <4>2 DEF FramesTrue
      <4>5. PICK k, m : k = g.key /\ m = g.seq
        OBVIOUS
      <4>6. Shown(k, m)' = Shown(k, m)
        BY <4>3, <4>5, ShownStays
      <4>7. line'.feed[i].says = Shown(k, m)'
        BY <4>1, <4>4, <4>5, <4>6
      <4> QED
        BY <4>1, <4>5, <4>7
    <3> QED
      BY <3>2, <3>3
  <2>9. PageOK'
    <3>1. \A i \in 1..(n + 1) : FirstEvent(i)' => i \in 1..n /\ FirstEvent(i) /\ line'.feed[i] = line.feed[i]
      <4>1. SUFFICES ASSUME NEW i \in 1..(n + 1), FirstEvent(i)'
                     PROVE  i \in 1..n /\ FirstEvent(i) /\ line'.feed[i] = line.feed[i]
        OBVIOUS
      <4>2. IsEvent(i)' /\ \A j \in 1..(i - 1) : ~ IsEvent(j)'
        BY <4>1 DEF FirstEvent
      <4>3. i \in 1..n /\ IsEvent(i)
        BY <2>6, <4>2
      <4>4. \A j \in 1..(i - 1) : j \in 1..n /\ j \in 1..(n + 1)
        BY <4>3
      <4>5. \A j \in 1..(i - 1) : ~ IsEvent(j)
        BY <2>6, <4>2, <4>4
      <4>6. line'.feed[i] = line.feed[i]
        BY <2>5, <4>3
      <4> QED
        BY <4>3, <4>5, <4>6 DEF FirstEvent
    <3>2. NoEvent' => NoEvent
      BY <2>4, <2>5, <2>6 DEF NoEvent
    <3>3. ASSUME NEW m PROVE (Ahead(m) => Ahead(m)') /\ (Following(m) => Following(m)')
      <4>1. Ahead(m) => Ahead(m)'
        BY <2>4, <2>5, <3>1, <3>2 DEF Ahead
      <4>2. ASSUME Following(m) PROVE Following(m)'
        <5>1. \A i \in 1..(n + 1) : FirstEvent(i)' => line'.feed[i].seq = m + 1
          BY <2>4, <3>1, <4>2 DEF Following
        <5>2. NoEvent' => Announced' = m
          BY <3>2, <4>2 DEF Following
        <5> QED
          BY <2>5, <5>1, <5>2 DEF Following
      <4> QED
        BY <4>1, <4>2
    <3> QED
      BY <2>5, <3>3 DEF PageOK
  <2>10. OwedOK'
    <3>1. SUFFICES ASSUME "mixed" \notin upset', line.at = "up", NEW other \in Keys, ~ Owed(other)'
                   PROVE  \/ ~ Rebasing' /\ Unchanged(other, rows[other].seq)'
                          \/ \E i \in 1..(n + 1) : Covers(other, line.feed[i])'
      BY <2>5 DEF OwedOK
    <3>2. CASE other = key
      <4>1. Covers(key, line.feed[n + 1])'
        BY <1>1, <2>3, <2>5 DEF Covers
      <4> QED
        BY <3>2, <4>1
    <3>3. CASE other # key
      <4>1. \/ ~ Rebasing /\ Unchanged(other, rows[other].seq)
            \/ \E i \in DOMAIN line.feed : Covers(other, line.feed[i])
        BY <3>1, <3>3 DEF OwedOK
      <4>2. CASE ~ Rebasing /\ Unchanged(other, rows[other].seq)
        <5>1. ~ Rebasing'
          <6>1. CASE n = 0
            BY <2>3, <2>5, <6>1 DEF Rebasing
          <6>2. CASE n > 0
            <7>1. line'.feed[1] = line.feed[1] /\ line.feed # <<>>
              BY <2>4, <2>5, <6>2
            <7> QED
              BY <4>2, <7>1 DEF Rebasing
          <6> QED
            BY <6>1, <6>2
        <5> QED
          BY <1>1, <4>2, <5>1
      <4>3. ASSUME NEW i \in 1..n, Covers(other, line.feed[i]) PROVE i \in 1..(n + 1) /\ Covers(other, line.feed[i])'
        BY <1>1, <2>5, <4>3 DEF Covers
      <4> QED
        BY <2>4, <4>1, <4>2, <4>3
    <3> QED
      BY <3>2, <3>3
  <2> QED
    BY <1>2, <2>7, <2>8, <2>9, <2>10
<1> QED
  BY <1>3, <1>4

LEMMA DropHandlerKeeps ==
    ASSUME ViewInv, NEW h \in Handlers, DropHandler(h)
    PROVE  ViewInv'
<1>1. /\ LogOK /\ ReceiptsOnce /\ MemoryOK /\ ReceiptsTrue /\ EngineOK /\ Unbroken
      /\ HandlersOK /\ LandedOK /\ FreshOK /\ AppendsFit /\ PoliciesOK /\ ToldOK
      /\ SyncOK /\ FeedOK /\ FramesTrue /\ KnownOK /\ RowsOK /\ OwedOK /\ ReaderOK /\ PageOK
  BY PartsOf
<1>2. UNCHANGED <<log, memory, running, routable, engine, line, rows, page, reader>>
  BY DEF DropHandler, browserVars
<1>3. /\ handler[h].at \in Busy /\ gate = h /\ h # Free /\ gate' = Free /\ h \in Readers
      /\ upset' = upset \union {"unannounced"} /\ sync[h].at # "announce" /\ Goes(h, "lost")
      /\ window' = (IF window = h THEN Free ELSE window) /\ sync' = [sync EXCEPT ![h] = Synced]
      /\ \A g \in Handlers : g # h => handler[g].at \notin Busy
  <2>1. handler[h].at \in Busy
    BY <1>1 DEF DropHandler, HandlersOK, Ready
  <2> QED
    BY <1>1, <2>1, OneBusy, AskFacts DEF DropHandler, Release
<1>4. PICK new : /\ handler' = [handler EXCEPT ![h] = new]
                 /\ new = [at |-> "lost", ask |-> handler[h].ask, batch |-> handler[h].batch,
                           leads |-> handler[h].leads, told |-> handler[h].told]
  BY <1>1, <1>3, GoesTo
<1>5. handler'[h] = new /\ Alone(h) /\ new.at = "lost"
  BY <1>1, <1>3, <1>4 DEF Alone, HandlersOK
<1>6. sync'[h].at = "off" /\ \A p \in Readers : p # h => sync'[p] = sync[p]
  BY <1>1, <1>3 DEF SyncOK, Synced
<1>7. Announced' = Announced
  <2>1. window = h => ~ Announcing /\ ~ Announcing'
    BY <1>3 DEF Announcing
  <2>2. window # h => window' = window /\ (window \in Readers => sync'[window] = sync[window])
    BY <1>3, <1>6
  <2>3. window \in Readers \union {Free}
    BY <1>1 DEF SyncOK
  <2> QED
    BY <1>2, <2>1, <2>2, <2>3 DEF Announced, Announcing
<1>8. /\ LogOK' /\ ReceiptsOnce' /\ MemoryOK' /\ EngineOK' /\ FeedOK' /\ FramesTrue'
      /\ ReaderOK' /\ PageOK'
  BY <1>1, <1>2, <1>3, <1>4, <1>5, <1>6, <1>7, LogOKSame, ReceiptsOnceSame, MemoryOKSame,
     EngineOKSame, FeedOKSame, FramesTrueSame, ReaderOKSame, PageOKSame
<1>9. ReceiptsTrue'
  BY <1>1, <1>2, <1>3, <1>4, <1>5, <1>6, <1>7 DEF ReceiptsTrue, ReceiptOf
<1>10. Unbroken'
  BY <1>1, <1>2, <1>3, <1>4, <1>5, <1>6, <1>7 DEF Unbroken
<1>11. HandlersOK'
  <2>1. new \in [at : Busy \union Ready, ask : AllAsks \union {"none"}, batch : Seq(Events),
                 leads : Busy \union {"none"}, told : Nat]
    <3>1. /\ "lost" \in Busy \union Ready /\ handler[h].ask \in AllAsks \union {"none"}
          /\ handler[h].batch \in Seq(Events) /\ handler[h].leads \in Busy \union {"none"}
          /\ handler[h].told \in Nat
      BY <1>1 DEF HandlersOK, Ready
    <3> QED
      BY <1>4, <3>1
  <2>2. new.at \notin Busy /\ new.at # "ok" /\ gate' \in Handlers \union {Free}
    BY <1>3, <1>5 DEF Busy
  <2> QED
    BY <1>1, <1>4, <1>5, <2>1, <2>2, HolderMoves
<1>12. LandedOK'
  BY <1>1, <1>5, HolderRules DEF Carrying
<1>13. FreshOK'
  BY <1>1, <1>2, <1>5, <1>6, AskFacts DEF FreshOK, Informed, Toward, Fresh, Alone
<1>14. AppendsFit'
  BY <1>1, <1>5, HolderRules DEF At
<1>15. PoliciesOK'
  BY <1>1, <1>2, <1>5 DEF PoliciesOK, PoliciesWait, Prompting, At, Alone
<1>16. ToldOK'
  BY <1>1, <1>2, <1>3, <1>5, HolderTold DEF Alone
<1>17. SyncOK'
  <2>1. sync' \in [Readers -> [at : {"off", "loaded", "announce"}, from : Nat, to : Nat]]
    BY <1>1, <1>3 DEF SyncOK, Synced
  <2>2. ASSUME NEW p \in Readers, sync'[p].at # "off"
        PROVE  window' = p /\ Wanting(p)' /\ sync'[p] = sync[p] /\ sync[p].at # "off"
    <3>1. p # h /\ sync'[p] = sync[p]
      BY <1>6, <2>2
    <3>2. window = p /\ Wanting(p)
      BY <1>1, <2>2, <3>1 DEF SyncOK
    <3>3. Wanting(p)'
      BY <1>2, <1>5, <3>1, <3>2 DEF Wanting, At, Alone, Readers
    <3> QED
      BY <1>3, <2>2, <3>1, <3>2, <3>3
  <2>3. window' \in Readers \union {Free}
    BY <1>1, <1>3 DEF SyncOK
  <2> QED
    BY <1>1, <1>2, <2>1, <2>2, <2>3 DEF SyncOK
<1>18. KnownOK'
  <2>1. \A key \in Keys : Owed(key) => Owed(key)'
    BY <1>2, <1>3, <1>5, <1>7, OwedStays
  <2> QED
    BY <1>1, <1>2, <1>3, <1>7, <2>1, OwedRules
<1>19. RowsOK'
  BY <1>1, <1>2, <1>3, RowsStay
<1>20. OwedOK'
  <2>1. \A key \in Keys : Owed(key) => Owed(key)'
    BY <1>2, <1>3, <1>5, <1>7, OwedStays
  <2> QED
    BY <1>1, <1>2, <1>3, <1>7, <2>1, OwedRules
<1> QED
  BY <1>8, <1>9, <1>10, <1>11, <1>12, <1>13, <1>14, <1>15, <1>16, <1>17, <1>18, <1>19, <1>20
     DEF ViewInv, LogInv, TaskInv, FeedInv, ShowInv

LEMMA ChoiceShownKeeps ==
    ASSUME ViewInv, NEW h \in Handlers, ChoiceShown(h)
    PROVE  ViewInv'
<1>1. /\ LogOK /\ ReceiptsOnce /\ MemoryOK /\ ReceiptsTrue /\ EngineOK /\ Unbroken
      /\ HandlersOK /\ LandedOK /\ FreshOK /\ AppendsFit /\ PoliciesOK /\ ToldOK
      /\ SyncOK /\ FeedOK /\ FramesTrue /\ KnownOK /\ RowsOK /\ OwedOK /\ ReaderOK /\ PageOK
  BY PartsOf
<1>2. UNCHANGED <<log, memory, running, routable, gate, window, sync, engine, rows, page, reader, upset>>
  BY DEF ChoiceShown, browserVars
<1>3. /\ handler[h].at = "chosen" /\ handler[h].ask \in AllAsks /\ handler[h].ask.method \in Commands
      /\ gate = h /\ h # Free /\ handler[h].told \in Nat
      /\ handler[h].batch = <<Event(handler[h].ask.method, handler[h].ask.says)>>
      /\ \A g \in Handlers : g # h => handler[g].at \notin Busy
  <2>1. handler[h].at = "chosen" /\ handler[h].at \in Busy
    BY DEF ChoiceShown, At, Busy
  <2>2. handler[h].ask.method \in Commands
    BY <1>1, <2>1 DEF HandlersOK, Toward
  <2> QED
    BY <1>1, <2>1, <2>2, OneBusy DEF HandlersOK, Toward, CommandBatch
<1>4. PICK key, says : key = handler[h].ask.method /\ says = handler[h].ask.says
  OBVIOUS
<1>5. key \in Keys /\ key # "usage" /\ key \in Commands /\ says \in Says
  BY <1>3, <1>4, SaysWhat DEF Keys, Commands
<1>6. says = Shown(key, memory.cursor) /\ Unchanged(key, memory.cursor)
  <2>1. PICK e \in Events : e = Event(key, says) /\ e.is = key /\ e.says = says
    BY <1>5, EventIn DEF Kinds, Commands
  <2>2. PICK b : b = handler[h].batch /\ b = <<e>>
    BY <1>3, <1>4, <2>1
  <2>3. Len(b) = 1 /\ b[1] = e /\ DOMAIN b = {1}
    BY <2>1, <2>2, OneEvent
  <2>4. Carrying(h)
    BY <1>3 DEF Carrying, Toward
  <2>5. PICK k \in Nat : /\ 1 <= k /\ k + Len(b) - 1 <= memory.cursor /\ Fresh(k + Len(b) - 1)
                         /\ \A j \in DOMAIN b : log[k + j - 1] = b[j]
    BY <1>1, <1>3, <2>2, <2>4, ShowsItsOwn, ZenonT(40)
  <2>6. k <= memory.cursor /\ log[k] = e /\ Fresh(k)
    BY <2>3, <2>5
  <2>7. memory.cursor \in Nat /\ Len(log) \in Nat /\ memory.cursor <= Len(log)
    BY <1>1, CursorIn
  <2>8. \A i \in (k + 1)..Len(log) : ~ Changes(key, log[i])
    BY <1>5, <2>6 DEF Fresh, Changes, Marks, Commands
  <2>9. Shown(key, memory.cursor) = log[k].says
    BY <1>5, <2>1, <2>5, <2>6, <2>7, <2>8, ShownLast
  <2> QED
    BY <2>1, <2>6, <2>7, <2>8, <2>9 DEF Unchanged
<1>7. PICK new, e :
        /\ handler' = [handler EXCEPT ![h] = new] /\ e \in Events /\ e = Event("done", h) /\ e.is = "done"
        /\ new = [at |-> "append", ask |-> handler[h].ask, batch |-> <<e>>, leads |-> "said",
                  told |-> handler[h].told]
  <2>1. PICK e \in Events : e = Event("done", h) /\ e.is = "done"
    BY EventIn, SaysWhat DEF Kinds
  <2>2. Commits(h, <<e>>, "said")
    BY <2>1 DEF ChoiceShown
  <2>3. PICK new : new = [at |-> "append", ask |-> handler[h].ask, batch |-> <<e>>, leads |-> "said",
                          told |-> handler[h].told]
    OBVIOUS
  <2>4. handler' = [handler EXCEPT ![h] = new]
    BY <1>1, <2>2, <2>3, CommitsTo
  <2> QED
    BY <2>1, <2>3, <2>4
<1>8. /\ handler'[h] = new /\ Alone(h) /\ new.batch \in Seq(Events) /\ new.batch[1] = e
      /\ DOMAIN new.batch = {1} /\ new.at = "append" /\ new.leads = "said" /\ new.ask = handler[h].ask
      /\ new.batch = <<e>>
  <2>1. e \in Events /\ new.batch = <<e>>
    BY <1>7
  <2>2. handler'[h] = new
    BY <1>1, <1>7 DEF HandlersOK
  <2> QED
    BY <1>1, <1>3, <1>7, <2>1, <2>2, OneEvent DEF Alone, HandlersOK
<1>9. Announced' = Announced /\ Pushed(<<Projection(key, says, memory.cursor)>>)
  BY <1>2, <1>4 DEF Announced, Announcing, ChoiceShown
<1>10. FeedOK' /\ FramesTrue' /\ PageOK' /\ KnownOK' /\ OwedOK'
  <2>1. handler[h].batch[1].is = key
    <3>1. PICK d : d = Event(key, says)
      OBVIOUS
    <3>2. d.is = key /\ handler[h].batch = <<d>>
      BY <1>3, <1>4, <3>1 DEF Event
    <3> QED
      BY <3>2
  <2>2. \A other \in Keys : other # key /\ Owed(other) => Owed(other)'
    BY <1>2, <1>8, <1>9, <2>1, OwedElsewhere
  <2> QED
    BY <1>1, <1>2, <1>5, <1>6, <1>9, <2>2, ProjectionGoes
<1>11. /\ LogOK' /\ ReceiptsOnce' /\ MemoryOK' /\ ReceiptsTrue' /\ EngineOK' /\ Unbroken'
       /\ RowsOK' /\ ReaderOK'
  BY <1>1, <1>2, <1>3, <1>4, <1>5, <1>6, <1>7, <1>8, <1>9, <1>10, LogOKSame,
     ReceiptsOnceSame, MemoryOKSame, ReceiptsTrueSame, EngineOKSame, UnbrokenSame,
     RowsOKSame, ReaderOKSame
<1>12. HandlersOK'
  <2>1. new \in [at : Busy \union Ready, ask : AllAsks \union {"none"}, batch : Seq(Events),
                 leads : Busy \union {"none"}, told : Nat]
    <3>1. "append" \in Busy \union Ready /\ "said" \in Busy \union {"none"}
      BY DEF Busy
    <3> QED
      BY <1>3, <1>7, <1>8, <3>1
  <2>2. CommandBatch(h)'
    BY <1>7, <1>8 DEF CommandBatch, Toward
  <2>3. gate' = h /\ new.ask \in AllAsks /\ new.ask.method \in Commands /\ new.at # "ok"
    BY <1>2, <1>3, <1>8
  <2> QED
    BY <1>1, <1>7, <1>8, <2>1, <2>2, <2>3, HolderMoves
<1>13. LandedOK'
  BY <1>1, <1>8, HolderRules DEF Carrying
<1>14. FreshOK'
  <2>1. sync[h].at = "off"
    BY <1>1, <1>3, AskFacts, SMTT(40) DEF SyncOK, Wanting, At
  <2>2. Fresh(memory.cursor)'
    BY <1>1, <1>2, <1>3 DEF Fresh, FreshOK, Informed
  <2> QED
    BY <1>1, <1>2, <1>8, <2>1, <2>2, HolderRules
<1>15. AppendsFit'
  <2>1. PICK b : b = new.batch
    OBVIOUS
  <2>2. Valid(b)'
    BY <1>7, <1>8, <2>1 DEF Valid
  <2>3. Valid(handler[h].batch)'
    BY <1>8, <2>1, <2>2
  <2> QED
    BY <1>1, <1>8, <2>3, HolderRules
<1>16. PoliciesOK'
  BY <1>1, <1>2, <1>7, <1>8 DEF PoliciesOK, PoliciesWait, Prompting, At, Alone
<1>17. ToldOK'
  BY <1>1, <1>2, <1>8, HolderTold DEF Alone
<1>18. SyncOK'
  BY <1>1, <1>2, <1>3, <1>8, HolderSync DEF Alone
<1>19. FeedOK'
  BY <1>10
<1>20. FramesTrue'
  BY <1>10
<1>21. KnownOK'
  BY <1>10
<1>22. OwedOK'
  BY <1>10
<1>23. PageOK'
  BY <1>10
<1> QED
  BY <1>11, <1>12, <1>13, <1>14, <1>15, <1>16, <1>17, <1>18, <1>19, <1>20, <1>21, <1>22,
     <1>23 DEF ViewInv, LogInv, TaskInv, FeedInv, ShowInv

LEMMA RepliedKeeps ==
    ASSUME ViewInv, NEW h \in Handlers, Replied(h)
    PROVE  ViewInv'
<1>1. /\ LogOK /\ ReceiptsOnce /\ MemoryOK /\ ReceiptsTrue /\ EngineOK /\ Unbroken
      /\ HandlersOK /\ LandedOK /\ FreshOK /\ AppendsFit /\ PoliciesOK /\ ToldOK
      /\ SyncOK /\ FeedOK /\ FramesTrue /\ KnownOK /\ RowsOK /\ OwedOK /\ ReaderOK /\ PageOK
  BY PartsOf
<1>2. UNCHANGED <<log, running, routable, window, sync, engine, rows, page, reader>>
  BY DEF Replied, browserVars
<1>3. /\ handler[h].at = "reply" /\ handler[h].ask \in AllAsks /\ handler[h].ask.method \notin Commands
      /\ gate = h /\ h # Free /\ handler[h].ask.rpc \in Rpcs /\ ReplyBatch(h)
      /\ handler[h].batch \in Seq(Events) /\ handler[h].leads \in Busy \union {"none"}
      /\ \A g \in Handlers : g # h => handler[g].at \notin Busy
  <2>1. handler[h].at = "reply" /\ handler[h].at \in Busy
    BY DEF Replied, At, Busy
  <2>2. handler[h].ask.method \notin Commands
    BY <1>1, <2>1 DEF HandlersOK, Toward, CommandBatch
  <2> QED
    BY <1>1, <2>1, <2>2, OneBusy, AskFacts DEF HandlersOK, Toward
<1>4. PICK ask, change, receipt, b, c :
        /\ ask = handler[h].ask /\ b = handler[h].batch /\ change = b[1] /\ receipt = b[2] /\ c = memory.cursor
        /\ change \in Events /\ change.is \in {"title", "model", "preset", "goal"} /\ Len(b) = 2
        /\ DOMAIN b = 1..2 /\ receipt = Event("receipt", ask) /\ receipt.is = "receipt" /\ receipt.says = ask
  <2>1. /\ Len(handler[h].batch) = 2 /\ handler[h].batch[1].is \in {"title", "model", "preset", "goal"}
        /\ handler[h].batch[2] = Event("receipt", handler[h].ask)
    BY <1>3 DEF ReplyBatch
  <2>2. DOMAIN handler[h].batch = 1..2 /\ handler[h].batch[1] \in Events
    BY <1>3, <2>1
  <2>3. Event("receipt", handler[h].ask).is = "receipt" /\ Event("receipt", handler[h].ask).says = handler[h].ask
    BY DEF Event
  <2> QED
    BY <2>1, <2>2, <2>3
<1>5. PICK k \in Nat : /\ 1 <= k /\ k + 1 <= c /\ Fresh(k + 1) /\ log[k] = change /\ log[k + 1] = receipt
                       /\ c \in Nat /\ c <= Len(log) /\ Len(log) \in Nat
  <2>1. Carrying(h) /\ handler[h].at # "sync"
    BY <1>3 DEF Carrying, Toward
  <2>2. PICK k \in Nat : /\ 1 <= k /\ k + Len(b) - 1 <= c /\ Fresh(k + Len(b) - 1)
                         /\ \A j \in DOMAIN b : log[k + j - 1] = b[j]
    BY <1>1, <1>4, <2>1, ShowsItsOwn
  <2>3. k + Len(b) - 1 = k + 1 /\ k + 1 - 1 = k /\ k + 2 - 1 = k + 1
    BY <1>4
  <2>5. log[k + 1 - 1] = b[1] /\ log[k + 2 - 1] = b[2]
    <3>1. 1 \in DOMAIN b /\ 2 \in DOMAIN b
      BY <1>4
    <3> QED
      BY <2>2, <3>1
  <2>4. log[k] = change /\ log[k + 1] = receipt
    BY <1>4, <2>3, <2>5
  <2> QED
    BY <1>1, <1>4, <2>2, <2>3, <2>4, CursorIn
<1>6. /\ memory' = [memory EXCEPT !.receipts[ask.rpc] = [ask |-> ask, seq |-> c - 1]]
      /\ Tells(h, "ok", Reply(ask, c - 1))
      /\ upset' = upset \union (IF log[c - 1].is = change.is THEN {} ELSE {"overtaken"})
      /\ IF change.is \in Keys THEN Pushed(<<Projection(change.is, change.says, c)>>) ELSE line' = line
      /\ gate' = Free
  BY <1>3, <1>4 DEF Replied, Release
<1>7. PICK new : /\ handler' = [handler EXCEPT ![h] = new]
                 /\ new = [at |-> "ok", ask |-> ask, batch |-> handler[h].batch,
                           leads |-> handler[h].leads, told |-> Reply(ask, c - 1)]
  <2>1. PICK told : told = Reply(ask, c - 1)
    OBVIOUS
  <2>2. Tells(h, "ok", told)
    BY <1>6, <2>1
  <2>3. PICK new : new = [at |-> "ok", ask |-> ask, batch |-> handler[h].batch,
                          leads |-> handler[h].leads, told |-> told]
    OBVIOUS
  <2>4. handler' = [handler EXCEPT ![h] = [at |-> "ok", ask |-> handler[h].ask, batch |-> handler[h].batch,
                                           leads |-> handler[h].leads, told |-> told]]
    BY <1>1, <2>2, TellsTo
  <2>5. handler' = [handler EXCEPT ![h] = new]
    BY <1>4, <2>3, <2>4
  <2>6. new = [at |-> "ok", ask |-> ask, batch |-> handler[h].batch,
               leads |-> handler[h].leads, told |-> Reply(ask, c - 1)]
    BY <2>1, <2>3
  <2> QED
    BY <2>5, <2>6
<1>8. /\ handler'[h] = new /\ Alone(h) /\ new.at = "ok" /\ new.ask = ask
      /\ new.told = (IF ask.method = "title" THEN c - 1 ELSE 0)
  BY <1>1, <1>3, <1>7 DEF Alone, HandlersOK, Reply
<1>9. upset \subseteq upset' /\ memory'.cursor = memory.cursor /\ Announced' = Announced
      /\ UNCHANGED memory.cursor
  <2>1. memory'.cursor = memory.cursor
    BY <1>1, <1>6 DEF MemoryOK
  <2> QED
    BY <1>2, <1>6, <2>1 DEF Announced, Announcing
<1>10. "overtaken" \notin upset' => log[c] = receipt
  <2>1. SUFFICES ASSUME log[c - 1].is = change.is PROVE log[c] = receipt
    BY <1>6
  <2>2. c - 1 \notin (k + 2)..Len(log)
    <3>1. \A i \in (k + 2)..Len(log) : log[i].is \in Marks
      <4>1. k + 1 + 1 = k + 2
        BY <1>5
      <4> QED
        BY <1>5, <4>1 DEF Fresh
    <3> QED
      BY <1>4, <2>1, <3>1 DEF Marks
  <2>3. c - 1 # k + 1
    BY <1>4, <1>5, <2>1
  <2>4. c = k + 1
    BY <1>5, <2>2, <2>3
  <2> QED
    BY <1>5, <2>4
<1>11. /\ memory'.receipts = [memory.receipts EXCEPT ![ask.rpc] = [ask |-> ask, seq |-> c - 1]]
       /\ memory'.receipts[ask.rpc] = [ask |-> ask, seq |-> c - 1]
       /\ \A rpc \in Rpcs : rpc # ask.rpc => memory'.receipts[rpc] = memory.receipts[rpc]
       /\ memory' = [cursor |-> c, receipts |-> memory'.receipts] /\ c - 1 \in Nat /\ c - 1 >= 1
       /\ ask \in AllAsks /\ ask.rpc \in Rpcs
  <2>1. /\ ask \in AllAsks /\ ask.rpc \in Rpcs /\ memory = [cursor |-> c, receipts |-> memory.receipts]
        /\ DOMAIN memory.receipts = Rpcs
    BY <1>1, <1>3, <1>4 DEF MemoryOK
  <2> QED
    BY <1>5, <1>6, <2>1
<1>12. FeedOK' /\ FramesTrue' /\ PageOK' /\ KnownOK' /\ OwedOK'
  <2>1. \A key \in Keys : key # change.is /\ Owed(key) => Owed(key)'
    BY <1>2, <1>4, <1>8, <1>9, OwedElsewhere
  <2>2. CASE change.is \in Keys
    <3>1. \A i \in (k + 1)..Len(log) : ~ Changes(change.is, log[i])
      <4>1. \A i \in (k + 1)..Len(log) : i = k + 1 \/ i \in (k + 1 + 1)..Len(log)
        BY <1>5
      <4> QED
        BY <1>4, <1>5, <4>1 DEF Fresh, Changes, Marks
    <3>2. Shown(change.is, c) = log[k].says
      BY <1>4, <1>5, <2>2, <3>1, ShownLast
    <3>3. Unchanged(change.is, c)
      BY <1>5, <3>1 DEF Unchanged
    <3>4. change.says \in Says
      BY <1>4 DEF Events
    <3> QED
      BY <1>1, <1>2, <1>4, <1>5, <1>6, <1>9, <2>1, <2>2, <3>2, <3>3, <3>4, ProjectionGoes
  <2>3. CASE change.is \notin Keys
    <3>1. line' = line
      BY <1>6, <2>3
    <3>2. KnownOK' /\ OwedOK'
      BY <1>1, <1>2, <1>9, <2>1, <2>3, <3>1, OwedRules, SMTT(40)
    <3> QED
      BY <1>1, <1>2, <1>9, <3>1, <3>2, FeedOKSame, FramesTrueSame, PageOKSame
  <2> QED
    BY <2>2, <2>3
<1>13. /\ LogOK' /\ ReceiptsOnce' /\ EngineOK' /\ ReaderOK'
  BY <1>1, <1>2, <1>3, <1>4, <1>5, <1>6, <1>7, <1>8, <1>9, <1>10, <1>11, <1>12, LogOKSame,
     ReceiptsOnceSame, EngineOKSame, ReaderOKSame
<1>14. MemoryOK'
  <2>1. memory' \in [cursor : Nat, receipts : [Rpcs -> [ask : AllAsks \union {<<>>}, seq : Nat]]]
    <3>1. memory'.receipts \in [Rpcs -> [ask : AllAsks \union {<<>>}, seq : Nat]]
      BY <1>1, <1>11 DEF MemoryOK
    <3> QED
      BY <1>5, <1>11, <3>1
  <2>2. \E i \in 1..c : ReceiptOf(i, ask.rpc)
    BY <1>4, <1>5 DEF ReceiptOf
  <2>3. ASSUME NEW rpc \in Rpcs
        PROVE  memory'.receipts[rpc].seq # 0 <=> \E i \in 1..c : ReceiptOf(i, rpc)
    BY <1>1, <1>4, <1>11, <2>2 DEF MemoryOK
  <2> QED
    BY <1>1, <1>2, <1>4, <1>9, <2>1, <2>3 DEF MemoryOK, ReceiptOf
<1>15. ReceiptsTrue'
  <2>1. SUFFICES ASSUME "overtaken" \notin upset', NEW rpc \in Rpcs, memory'.receipts[rpc].seq # 0,
                        NEW n, n = memory'.receipts[rpc].seq + 1
                 PROVE  n <= Len(log) /\ ReceiptOf(n, rpc) /\ log[n].says = memory'.receipts[rpc].ask
    BY <1>2, SMTT(40) DEF ReceiptsTrue, ReceiptOf
  <2>2. CASE rpc = ask.rpc
    <3>1. n = c /\ memory'.receipts[rpc].ask = ask
      BY <1>5, <1>11, <2>1, <2>2
    <3> QED
      BY <1>4, <1>5, <1>10, <2>1, <2>2, <3>1 DEF ReceiptOf
  <2>3. CASE rpc # ask.rpc
    BY <1>1, <1>9, <1>11, <2>1, <2>3 DEF ReceiptsTrue
  <2> QED
    BY <2>2, <2>3
<1>16. Unbroken'
  BY <1>1, <1>6 DEF Unbroken
<1>17. HandlersOK'
  <2>1. new \in [at : Busy \union Ready, ask : AllAsks \union {"none"}, batch : Seq(Events),
                 leads : Busy \union {"none"}, told : Nat]
    <3>1. "ok" \in Busy \union Ready /\ Reply(ask, c - 1) \in Nat
      BY <1>11 DEF Ready, Reply
    <3> QED
      BY <1>3, <1>4, <1>7, <3>1
  <2>2. new.at \notin Busy /\ gate' \in Handlers \union {Free}
    BY <1>6, <1>8 DEF Busy
  <2> QED
    BY <1>1, <1>7, <1>8, <1>11, <2>1, <2>2, HolderMoves
<1>18. LandedOK'
  BY <1>1, <1>8, HolderRules DEF Carrying
<1>19. FreshOK'
  <2>1. sync[h].at = "off"
    BY <1>1, <1>3, AskFacts DEF SyncOK, Wanting, At
  <2> QED
    BY <1>1, <1>2, <1>8, <2>1, HolderRules DEF Informed
<1>20. AppendsFit'
  BY <1>1, <1>8, HolderRules DEF At
<1>21. PoliciesOK'
  BY <1>1, <1>2, <1>8 DEF PoliciesOK, PoliciesWait, Prompting, At, Alone
<1>22. ToldOK'
  <2>1. ASSUME "overtaken" \notin upset', ask.method = "title"
        PROVE  new.told + 1 <= Len(log) /\ log[new.told + 1] = Event("receipt", ask)
    <3>1. new.told + 1 = c
      BY <1>5, <1>8, <2>1
    <3> QED
      BY <1>4, <1>5, <1>10, <2>1, <3>1
  <2> QED
    BY <1>1, <1>2, <1>8, <1>9, <2>1, HolderTold DEF Alone
<1>23. SyncOK'
  BY <1>1, <1>2, <1>3, <1>8, <1>9, HolderSync DEF Alone
<1>24. FeedOK'
  BY <1>12
<1>25. FramesTrue'
  BY <1>12
<1>26. KnownOK'
  BY <1>12
<1>27. RowsOK'
  BY <1>1, <1>2, <1>9, RowsStay
<1>28. OwedOK'
  BY <1>12
<1>29. PageOK'
  BY <1>12
<1> QED
  BY <1>13, <1>14, <1>15, <1>16, <1>17, <1>18, <1>19, <1>20, <1>21, <1>22, <1>23, <1>24,
     <1>25, <1>26, <1>27, <1>28, <1>29 DEF ViewInv, LogInv, TaskInv, FeedInv, ShowInv

-----------------------------------------------------------------------------
(* Readers *)

LEMMA NoneReads ==
    ASSUME SyncOK, window = Free
    PROVE  \A p \in Readers : sync[p].at = "off"
  BY AskFacts DEF SyncOK

LEMMA OneReads ==
    ASSUME SyncOK, NEW p \in Readers, sync[p].at # "off"
    PROVE  /\ window = p /\ p # Free /\ Wanting(p)
           /\ sync[p].to \in Nat /\ memory.cursor <= sync[p].to /\ sync[p].to <= Len(log)
           /\ sync[p].from \in Nat /\ sync[p].at \in {"loaded", "announce"}
           /\ sync[p].at = "announce" => sync[p].to = memory.cursor /\ sync[p].from <= memory.cursor
           /\ \A q \in Readers : q # p => sync[q].at = "off"
  BY AskFacts DEF SyncOK

\* Where a request leads once it has read is where it was bound for.
LEMMA LeadsOn ==
    ASSUME HandlersOK, NEW h \in Handlers, handler[h].at = "sync"
    PROVE  /\ handler[h].leads \in {"replay", "reply", "choose", "chosen", "said"} /\ Toward(h) = handler[h].leads
           /\ handler[h].ask \in AllAsks /\ gate = h /\ h # Free
           /\ IF handler[h].ask.method \in Commands THEN CommandBatch(h)
              ELSE handler[h].leads = "replay" \/ (handler[h].leads = "reply" /\ ReplyBatch(h))
           /\ \A g \in Handlers : g # h => handler[g].at \notin Busy
<1>1. handler[h].at \in Busy
  BY DEF Busy
<1>2. /\ gate = h /\ h # Free /\ handler[h].ask \in AllAsks /\ \A g \in Handlers : g # h => handler[g].at \notin Busy
  BY <1>1, OneBusy
<1>3. Toward(h) = handler[h].leads
  BY DEF Toward
<1>4. IF handler[h].ask.method \in Commands THEN CommandBatch(h)
      ELSE handler[h].leads = "replay" \/ (handler[h].leads = "reply" /\ ReplyBatch(h))
  BY <1>1, <1>3 DEF HandlersOK
<1>5. handler[h].leads \in {"replay", "reply", "choose", "chosen", "said"}
  BY <1>3, <1>4 DEF CommandBatch
<1> QED
  BY <1>2, <1>3, <1>4, <1>5

LEMMA ProceedsTo ==
    ASSUME LogOK, MemoryOK, HandlersOK, LandedOK, FreshOK, AppendsFit, PoliciesOK, ToldOK, SyncOK, ReaderOK,
           NEW p \in Readers, Wanting(p), p \in Handlers => Fresh(memory.cursor), Proceeds(p),
           UNCHANGED <<log, memory, gate, engine, page, upset>>
    PROVE  /\ HandlersOK' /\ LandedOK' /\ AppendsFit' /\ PoliciesOK' /\ ToldOK' /\ ReaderOK'
           /\ \A h \in Handlers : Informed(h)' => Fresh(memory.cursor)'
           /\ \A h \in Handlers : Carrying(h) => Carrying(h)' /\ handler'[h].batch = handler[h].batch
           /\ \A q \in Readers : q # p /\ Wanting(q) /\ (q = Driver => UNCHANGED running) => Wanting(q)'
           /\ reader' = reader \/ (p = Browser /\ reader'.at = "load")
<1>1. CASE p \in Handlers
  <2>1. p # Driver /\ p # Browser /\ Driver # Browser
    BY <1>1, AskFacts
  <2>2. handler[p].at = "sync" /\ Goes(p, handler[p].leads) /\ reader' = reader
    BY <2>1 DEF Wanting, Proceeds, At
  <2>3. /\ handler[p].leads \in {"replay", "reply", "choose", "chosen", "said"} /\ Toward(p) = handler[p].leads
        /\ handler[p].ask \in AllAsks /\ gate = p /\ p # Free
        /\ IF handler[p].ask.method \in Commands THEN CommandBatch(p)
           ELSE handler[p].leads = "replay" \/ (handler[p].leads = "reply" /\ ReplyBatch(p))
        /\ \A g \in Handlers : g # p => handler[g].at \notin Busy
    BY <1>1, <2>2, LeadsOn
  <2>4. PICK new : /\ handler' = [handler EXCEPT ![p] = new]
                   /\ new = [at |-> handler[p].leads, ask |-> handler[p].ask, batch |-> handler[p].batch,
                             leads |-> handler[p].leads, told |-> handler[p].told]
    BY <1>1, <2>2, GoesTo
  <2>5. /\ handler'[p] = new /\ Alone(p) /\ new.at = handler[p].leads /\ new.ask = handler[p].ask
        /\ new.batch = handler[p].batch /\ new.leads = handler[p].leads
        /\ new.at \notin {"sync", "append", "ok"} /\ new.at \in Busy
    BY <1>1, <2>3, <2>4 DEF Alone, HandlersOK, Busy
  <2>6. Toward(p)' = Toward(p)
    BY <2>3, <2>5 DEF Toward
  <2>7. HandlersOK'
    <3>1. new \in [at : Busy \union Ready, ask : AllAsks \union {"none"}, batch : Seq(Events),
                   leads : Busy \union {"none"}, told : Nat]
      <4>1. /\ handler[p].batch \in Seq(Events) /\ handler[p].leads \in Busy \union {"none"}
            /\ handler[p].told \in Nat
        BY <1>1 DEF HandlersOK
      <4> QED
        BY <2>3, <2>4, <2>5, <4>1
    <3>2. /\ gate' = p /\ new.ask \in AllAsks
          /\ IF new.ask.method \in Commands THEN CommandBatch(p)'
             ELSE \/ Toward(p)' = "replay" /\ new.at # "append"
                  \/ Toward(p)' = "reply" /\ ReplyBatch(p)'
      BY <2>3, <2>5, <2>6 DEF CommandBatch, ReplyBatch
    <3>3. gate' \in Handlers \union {Free}
      BY <1>1, <3>2
    <3> QED
      BY <1>1, <2>4, <2>5, <3>1, <3>2, <3>3, HolderMoves
  <2>8. \A h \in Handlers : (Carrying(h) => Carrying(h)') /\ handler'[h].batch = handler[h].batch
    BY <2>2, <2>5, <2>6 DEF Carrying, Alone, Toward
  <2>9. LandedOK'
    <3>1. Carrying(p)' => Carrying(p)
      BY <2>2, <2>6 DEF Carrying
    <3>2. Landed(p) => Landed(p)'
      BY <2>5 DEF Landed, Fresh
    <3> QED
      BY <1>1, <2>5, <3>1, <3>2, HolderRules DEF LandedOK
  <2>10. AppendsFit'
    BY <1>1, <2>5, HolderRules DEF At
  <2>11. PoliciesOK'
    BY <2>5 DEF PoliciesOK, PoliciesWait, Prompting, At, Alone
  <2>12. ToldOK'
    BY <1>1, <2>5, HolderTold DEF Alone
  <2>13. ReaderOK'
    BY <2>2, ReaderOKSame
  <2>14. \A h \in Handlers : Informed(h)' => Fresh(memory.cursor)'
    <3>1. Fresh(memory.cursor)'
      BY <1>1 DEF Fresh
    <3> QED
      BY <3>1
  <2>15. \A q \in Readers : q # p /\ Wanting(q) /\ (q = Driver => UNCHANGED running) => Wanting(q)'
    BY <2>2, <2>5 DEF Wanting, At, Alone, Readers
  <2> QED
    BY <2>2, <2>7, <2>8, <2>9, <2>10, <2>11, <2>12, <2>13, <2>14, <2>15
<1>2. CASE p \notin Handlers
  <2>1. /\ handler' = handler
        /\ \/ reader' = reader
           \/ p = Browser /\ reader.at = "sync" /\ reader' = [reader EXCEPT !.at = "load"]
    BY <1>2, AskFacts DEF Proceeds, Wanting, Readers
  <2>2. HandlersOK' /\ LandedOK' /\ AppendsFit' /\ PoliciesOK' /\ ToldOK'
    BY <2>1, HandlersOKSame, LandedOKSame, AppendsFitSame, PoliciesOKSame, ToldOKSame
  <2>3. ReaderOK'
    BY <2>1 DEF ReaderOK
  <2>4. \A h \in Handlers : Informed(h)' => Fresh(memory.cursor)'
    BY <2>1 DEF FreshOK, Informed, Toward, Fresh
  <2>5. \A h \in Handlers : (Carrying(h) => Carrying(h)') /\ handler'[h].batch = handler[h].batch
    BY <2>1 DEF Carrying, Toward
  <2>6. \A q \in Readers : q # p /\ Wanting(q) /\ (q = Driver => UNCHANGED running) => Wanting(q)'
    BY <2>1 DEF Wanting, At
  <2>7. reader' = reader \/ (p = Browser /\ reader'.at = "load")
    BY <2>1 DEF ReaderOK
  <2> QED
    BY <2>2, <2>3, <2>4, <2>5, <2>6, <2>7
<1> QED
  BY <1>1, <1>2

LEMMA LoadLogKeeps ==
    ASSUME ViewInv, NEW p \in Readers, LoadLog(p)
    PROVE  ViewInv'
<1>1. /\ LogOK /\ ReceiptsOnce /\ MemoryOK /\ ReceiptsTrue /\ EngineOK /\ Unbroken
      /\ HandlersOK /\ LandedOK /\ FreshOK /\ AppendsFit /\ PoliciesOK /\ ToldOK
      /\ SyncOK /\ FeedOK /\ FramesTrue /\ KnownOK /\ RowsOK /\ OwedOK /\ ReaderOK /\ PageOK
  BY PartsOf
<1>2. UNCHANGED <<log, memory, running, routable, handler, gate, engine, line, rows, page, reader, upset>>
  BY DEF LoadLog, browserVars
<1>3. /\ Wanting(p) /\ window = Free /\ window' = p /\ p # Free /\ Driver # Browser
      /\ sync' = [sync EXCEPT ![p] = [at |-> "loaded", from |-> 0, to |-> Len(log)]]
      /\ \A q \in Readers : sync[q].at = "off"
  <2>1. Wants(p) => Wanting(p)
    BY DEF Wants, Wanting
  <2> QED
    BY <1>1, <2>1, AskFacts, NoneReads DEF LoadLog
<1>4. /\ sync'[p] = [at |-> "loaded", from |-> 0, to |-> Len(log)]
      /\ \A q \in Readers : q # p => sync'[q].at = "off"
  BY <1>1, <1>3 DEF SyncOK
<1>5. Announced' = Announced
  BY <1>2, <1>3, <1>4 DEF Announced, Announcing
<1>6. /\ LogOK' /\ ReceiptsOnce' /\ MemoryOK' /\ ReceiptsTrue' /\ EngineOK' /\ Unbroken'
      /\ HandlersOK' /\ LandedOK' /\ AppendsFit' /\ PoliciesOK' /\ ToldOK' /\ FeedOK'
      /\ FramesTrue' /\ KnownOK' /\ RowsOK' /\ OwedOK' /\ ReaderOK' /\ PageOK'
  BY <1>1, <1>2, <1>3, <1>4, <1>5, LogOKSame, ReceiptsOnceSame, MemoryOKSame,
     ReceiptsTrueSame, EngineOKSame, UnbrokenSame, HandlersOKSame, LandedOKSame,
     AppendsFitSame, PoliciesOKSame, ToldOKSame, FeedOKSame, FramesTrueSame, KnownOKSame,
     RowsOKSame, OwedOKSame, ReaderOKSame, PageOKSame
<1>7. FreshOK'
  <2>1. Fresh(Len(log))'
    BY <1>1, <1>2 DEF Fresh, LogOK
  <2>2. ASSUME NEW h \in Handlers, sync'[h].at # "off" PROVE Fresh(sync[h].to)'
    <3>1. h = p
      BY <1>4, <2>2, AskFacts
    <3> QED
      BY <1>2, <1>4, <2>1, <3>1
  <2> QED
    BY <1>1, <1>2, <2>2 DEF FreshOK, Informed, Toward, Fresh
<1>8. SyncOK'
  <2>1. /\ Len(log) \in Nat /\ memory.cursor \in Nat /\ memory.cursor <= Len(log)
    BY <1>1, CursorIn
  <2>2. Wanting(p)'
    BY <1>2, <1>3 DEF Wanting, At
  <2>3. sync' \in [Readers -> [at : {"off", "loaded", "announce"}, from : Nat, to : Nat]]
    BY <1>1, <1>3, <2>1 DEF SyncOK
  <2> QED
    BY <1>2, <1>3, <1>4, <2>1, <2>2, <2>3 DEF SyncOK
<1> QED
  BY <1>6, <1>7, <1>8 DEF ViewInv, LogInv, TaskInv, FeedInv, ShowInv

LEMMA NothingNewKeeps ==
    ASSUME ViewInv, NEW p \in Readers, NothingNew(p)
    PROVE  ViewInv'
<1>1. /\ LogOK /\ ReceiptsOnce /\ MemoryOK /\ ReceiptsTrue /\ EngineOK /\ Unbroken
      /\ HandlersOK /\ LandedOK /\ FreshOK /\ AppendsFit /\ PoliciesOK /\ ToldOK
      /\ SyncOK /\ FeedOK /\ FramesTrue /\ KnownOK /\ RowsOK /\ OwedOK /\ ReaderOK /\ PageOK
  BY PartsOf
<1>2. UNCHANGED <<log, memory, running, routable, gate, window, sync, engine, line, rows, page, upset>>
  BY DEF NothingNew, browserVars
<1>3. /\ Wanting(p) /\ window = Free /\ Proceeds(p) /\ memory.cursor = Len(log) /\ Driver # Browser
      /\ \A q \in Readers : sync[q].at = "off"
  <2>1. Wants(p) => Wanting(p)
    BY DEF Wants, Wanting
  <2> QED
    BY <1>1, <2>1, AskFacts, NoneReads DEF NothingNew
<1>4. Fresh(memory.cursor)
  BY <1>1, <1>3 DEF Fresh, LogOK
<1>5. Announced' = Announced
  BY <1>2 DEF Announced, Announcing
<1>6. /\ HandlersOK' /\ LandedOK' /\ AppendsFit' /\ PoliciesOK' /\ ToldOK' /\ ReaderOK'
      /\ \A h \in Handlers : Informed(h)' => Fresh(memory.cursor)'
      /\ \A h \in Handlers : Carrying(h) => Carrying(h)' /\ handler'[h].batch = handler[h].batch
      /\ reader' = reader \/ (p = Browser /\ reader'.at = "load")
  BY <1>1, <1>2, <1>3, <1>4, ProceedsTo
<1>7. \A key \in Keys : Owed(key) => Owed(key)'
  BY <1>2, <1>5, <1>6 DEF Owed, Unchanged, Changes
<1>8. /\ LogOK' /\ ReceiptsOnce' /\ MemoryOK' /\ ReceiptsTrue' /\ EngineOK' /\ Unbroken'
      /\ FeedOK' /\ FramesTrue' /\ RowsOK'
  BY <1>1, <1>2, <1>3, <1>4, <1>5, <1>6, <1>7, LogOKSame, ReceiptsOnceSame, MemoryOKSame,
     ReceiptsTrueSame, EngineOKSame, UnbrokenSame, FeedOKSame, FramesTrueSame, RowsOKSame
<1>9. HandlersOK'
  BY <1>6
<1>10. LandedOK'
  BY <1>6
<1>11. FreshOK'
  BY <1>2, <1>3, <1>6, AskFacts DEF FreshOK
<1>12. AppendsFit'
  BY <1>6
<1>13. PoliciesOK'
  BY <1>6
<1>14. ToldOK'
  BY <1>6
<1>15. SyncOK'
  BY <1>1, <1>2, <1>3 DEF SyncOK
<1>16. KnownOK'
  BY <1>1, <1>2, <1>5, <1>7, OwedRules
<1>17. OwedOK'
  BY <1>1, <1>2, <1>5, <1>7, OwedRules
<1>18. ReaderOK'
  BY <1>6
<1>19. PageOK'
  <2>1. CASE reader' = reader
    BY <1>1, <1>2, <1>5, <2>1, PageOKSame
  <2>2. CASE reader'.at = "load"
    BY <1>1, <1>2, <1>5, <2>2 DEF PageOK, Ahead, Following, IsEvent, FirstEvent, NoEvent
  <2> QED
    BY <1>6, <2>1, <2>2
<1> QED
  BY <1>8, <1>9, <1>10, <1>11, <1>12, <1>13, <1>14, <1>15, <1>16, <1>17, <1>18, <1>19 DEF
     ViewInv, LogInv, TaskInv, FeedInv, ShowInv

LEMMA ProjectKeeps ==
    ASSUME ViewInv, NEW p \in Readers, Project(p)
    PROVE  ViewInv'
<1>1. /\ LogOK /\ ReceiptsOnce /\ MemoryOK /\ ReceiptsTrue /\ EngineOK /\ Unbroken
      /\ HandlersOK /\ LandedOK /\ FreshOK /\ AppendsFit /\ PoliciesOK /\ ToldOK
      /\ SyncOK /\ FeedOK /\ FramesTrue /\ KnownOK /\ RowsOK /\ OwedOK /\ ReaderOK /\ PageOK
  BY PartsOf
<1>2. UNCHANGED <<log, running, routable, handler, gate, window, engine, line, rows, page, reader, upset>>
  BY DEF Project, browserVars
<1>3. /\ sync[p].at = "loaded" /\ window = p /\ p # Free /\ Wanting(p)
      /\ sync[p].to \in Nat /\ memory.cursor <= sync[p].to /\ sync[p].to <= Len(log)
      /\ \A q \in Readers : q # p => sync[q].at = "off"
  <2>1. sync[p].at = "loaded"
    BY DEF Project
  <2> QED
    BY <1>1, <2>1, OneReads
<1>4. PICK c, to : c = memory.cursor /\ to = sync[p].to /\ c \in Nat /\ to \in Nat /\ 1 <= c /\ c <= to
                   /\ to <= Len(log) /\ Len(log) \in Nat
  BY <1>1, <1>3, CursorIn
<1>5. memory' = [cursor |-> to, receipts |-> Restored(to)]
      /\ sync' = [sync EXCEPT ![p].at = "announce", ![p].from = c]
  BY <1>4 DEF Project
<1>6. /\ memory'.cursor = to /\ memory'.receipts = Restored(to)
      /\ sync'[p] = [at |-> "announce", from |-> c, to |-> to]
      /\ \A q \in Readers : q # p => sync'[q] = sync[q]
  <2>1. sync \in [Readers -> [at : {"off", "loaded", "announce"}, from : Nat, to : Nat]]
    BY <1>1 DEF SyncOK
  <2>2. PICK old : old = sync[p] /\ old = [at |-> old.at, from |-> old.from, to |-> to]
    BY <1>4, <2>1
  <2>3. sync'[p] = [old EXCEPT !.at = "announce", !.from = c]
    BY <1>5, <2>1, <2>2
  <2>4. sync'[p] = [at |-> "announce", from |-> c, to |-> to]
    <3>1. PICK new : new = [old EXCEPT !.at = "announce", !.from = c]
      OBVIOUS
    <3>2. DOMAIN new = {"at", "from", "to"} /\ new.from = c /\ new.to = to
      BY <2>2, <3>1
    <3>3. new.at = "announce"
      BY <2>2, <3>1
    <3>4. new = [at |-> new.at, from |-> new.from, to |-> new.to]
      BY <3>1, <3>2
    <3> QED
      BY <2>3, <3>1, <3>2, <3>3, <3>4
  <2>5. \A q \in Readers : q # p => sync'[q] = sync[q]
    BY <1>5, <2>1
  <2>6. memory'.cursor = to /\ memory'.receipts = Restored(to)
    BY <1>5
  <2> QED
    BY <2>4, <2>5, <2>6
<1>7. Announced' = Announced
  BY <1>2, <1>3, <1>4, <1>6 DEF Announced, Announcing
<1>8. /\ Restored(to) \in [Rpcs -> [ask : AllAsks \union {<<>>}, seq : Nat]]
      /\ \A rpc \in Rpcs : Restored(to)[rpc].seq # 0 <=> \E i \in 1..to : ReceiptOf(i, rpc)
      /\ \A rpc \in Rpcs : Restored(to)[rpc].seq # 0 =>
           LET m == Restored(to)[rpc].seq + 1
           IN m <= to /\ ReceiptOf(m, rpc) /\ log[m].says = Restored(to)[rpc].ask
  <2>1. to \in 0..Len(log)
    BY <1>4
  <2> QED
    BY <1>1, <2>1, RestoredFacts
<1>9. PICK receipts : receipts = Restored(to) /\ memory' = [cursor |-> to, receipts |-> receipts]
  BY <1>5
<1>10. /\ LogOK' /\ ReceiptsOnce' /\ EngineOK' /\ Unbroken' /\ HandlersOK' /\ LandedOK'
       /\ AppendsFit' /\ PoliciesOK' /\ ToldOK' /\ FramesTrue' /\ OwedOK' /\ PageOK'
  BY <1>1, <1>2, <1>3, <1>4, <1>5, <1>6, <1>7, <1>8, <1>9, LogOKSame, ReceiptsOnceSame,
     EngineOKSame, UnbrokenSame, HandlersOKSame, LandedOKSame, AppendsFitSame,
     PoliciesOKSame, ToldOKSame, FramesTrueSame, OwedOKSame, PageOKSame
<1>11. MemoryOK'
  BY <1>2, <1>4, <1>6, <1>8, <1>9 DEF MemoryOK, ReceiptOf
<1>12. ReceiptsTrue'
  <2>1. SUFFICES ASSUME NEW rpc \in Rpcs, receipts[rpc].seq # 0, NEW n, n = receipts[rpc].seq + 1
                 PROVE  n <= Len(log) /\ ReceiptOf(n, rpc) /\ log[n].says = receipts[rpc].ask
    BY <1>2, <1>9 DEF ReceiptsTrue, ReceiptOf
  <2>2. receipts[rpc].seq \in Nat
    BY <1>8, <1>9
  <2> QED
    BY <1>4, <1>8, <1>9, <2>1, <2>2
<1>13. FreshOK'
  <2>1. ASSUME Fresh(c) PROVE Fresh(to)'
    BY <1>2, <1>4, <2>1 DEF Fresh
  <2>2. ASSUME Fresh(to) PROVE Fresh(to)'
    BY <1>2, <2>2 DEF Fresh
  <2>3. ASSUME NEW h \in Handlers, Informed(h)' PROVE Fresh(memory.cursor)'
    BY <1>1, <1>2, <1>4, <1>6, <2>1, <2>3 DEF FreshOK, Informed, Toward
  <2>4. ASSUME NEW h \in Handlers, sync'[h].at # "off" PROVE Fresh(sync[h].to)'
    <3>1. h = p
      BY <1>3, <1>6, <2>4, AskFacts
    <3>2. Fresh(to)
      BY <1>1, <1>3, <1>4, <3>1 DEF FreshOK
    <3> QED
      BY <1>6, <2>2, <3>1, <3>2
  <2> QED
    BY <2>3, <2>4 DEF FreshOK
<1>14. SyncOK'
  <2>1. sync' \in [Readers -> [at : {"off", "loaded", "announce"}, from : Nat, to : Nat]]
    <3>1. sync \in [Readers -> [at : {"off", "loaded", "announce"}, from : Nat, to : Nat]]
      BY <1>1 DEF SyncOK
    <3>2. sync' = [sync EXCEPT ![p] = [at |-> "announce", from |-> c, to |-> to]]
      BY <1>5, <1>6, <3>1
    <3> QED
      BY <1>4, <3>1, <3>2
  <2>2. Wanting(p)'
    BY <1>2, <1>3 DEF Wanting, At
  <2> QED
    BY <1>1, <1>2, <1>3, <1>4, <1>6, <2>1, <2>2 DEF SyncOK
<1>15. FeedOK'
  <2>1. \A i \in DOMAIN line.feed : line.feed[i].seq \in 1..to
    BY <1>1, <1>4 DEF FeedOK
  <2> QED
    BY <1>1, <1>2, <1>6, <1>7, <2>1 DEF FeedOK, IsEvent, Newest, AnnouncedInOrder
<1>16. KnownOK'
  <2>1. ASSUME NEW key \in Keys, Unchanged(key, c) PROVE Unchanged(key, to)'
    BY <1>2, <1>4, <2>1 DEF Unchanged, Changes
  <2>2. ASSUME NEW key \in Keys, Owed(key) PROVE Owed(key)'
    BY <1>2, <1>7, <2>2 DEF Owed, Unchanged, Changes, Carrying, Toward
  <2> QED
    BY <1>1, <1>4, <1>6, <2>1, <2>2 DEF KnownOK
<1>17. RowsOK'
  <2>1. ASSUME NEW key \in Keys, NEW v \in rows[key].seq..Len(log), rows[key].says = Shown(key, v)
        PROVE  v \in rows'[key].seq..Len(log') /\ rows'[key].says = Shown(key, v)'
    <3>1. v \in Nat
      BY <1>1, <2>1 DEF RowsOK
    <3> QED
      BY <1>2, <2>1, <3>1, ShownStays
  <2>2. \A key \in Keys : rows[key].seq \in Nat
    BY <1>1 DEF RowsOK
  <2> QED
    BY <1>1, <1>2, <1>4, <1>6, <2>1, <2>2 DEF RowsOK
<1>18. ReaderOK'
  BY <1>1, <1>2, <1>4, <1>6 DEF ReaderOK
<1> QED
  BY <1>10, <1>11, <1>12, <1>13, <1>14, <1>15, <1>16, <1>17, <1>18 DEF ViewInv, LogInv,
     TaskInv, FeedInv, ShowInv

LEMMA AnnounceKeeps ==
    ASSUME ViewInv, NEW p \in Readers, Announce(p)
    PROVE  ViewInv'
<1>1. /\ LogOK /\ ReceiptsOnce /\ MemoryOK /\ ReceiptsTrue /\ EngineOK /\ Unbroken
      /\ HandlersOK /\ LandedOK /\ FreshOK /\ AppendsFit /\ PoliciesOK /\ ToldOK
      /\ SyncOK /\ FeedOK /\ FramesTrue /\ KnownOK /\ RowsOK /\ OwedOK /\ ReaderOK /\ PageOK
  BY PartsOf
<1>2. UNCHANGED <<log, memory, running, routable, gate, engine, rows, page, upset>>
  BY DEF Announce, browserVars
<1>3. /\ sync[p].at = "announce" /\ window = p /\ p # Free /\ Wanting(p) /\ Proceeds(p) /\ Driver # Browser
      /\ window' = Free /\ sync' = [sync EXCEPT ![p] = Synced]
      /\ sync[p].from \in Nat /\ sync[p].to = memory.cursor /\ sync[p].from <= memory.cursor
      /\ \A q \in Readers : q # p => sync[q].at = "off"
  <2>1. sync[p].at = "announce"
    BY DEF Announce
  <2> QED
    BY <1>1, <2>1, AskFacts, OneReads DEF Announce
<1>4. PICK c \in Nat, from \in Nat, count \in Nat :
        /\ c = memory.cursor /\ from = sync[p].from /\ c = from + count /\ 1 <= c
        /\ c <= Len(log) /\ Len(log) \in Nat
  <2>1. PICK c \in Nat, from \in Nat : /\ c = memory.cursor /\ from = sync[p].from /\ from <= c
                                       /\ 1 <= c /\ c <= Len(log) /\ Len(log) \in Nat
    BY <1>1, <1>3, CursorIn
  <2>2. PICK count \in Nat : c = from + count
    <3>1. c - from \in Nat /\ c = from + (c - from)
      BY <2>1
    <3> QED
      BY <3>1
  <2> QED
    BY <2>1, <2>2
<1>5. \A q \in Readers : sync'[q].at = "off"
  BY <1>1, <1>3 DEF SyncOK, Synced
<1>6. Announced = from /\ Announced' = c
  BY <1>2, <1>3, <1>4 DEF Announced, Announcing
<1>7. p \in Handlers => Fresh(memory.cursor)
  BY <1>1, <1>3 DEF FreshOK
<1>8. /\ HandlersOK' /\ LandedOK' /\ AppendsFit' /\ PoliciesOK' /\ ToldOK' /\ ReaderOK'
      /\ \A h \in Handlers : Informed(h)' => Fresh(memory.cursor)'
      /\ \A h \in Handlers : Carrying(h) => Carrying(h)' /\ handler'[h].batch = handler[h].batch
      /\ reader' = reader \/ (p = Browser /\ reader'.at = "load")
  BY <1>1, <1>2, <1>3, <1>7, ProceedsTo
<1>9. \A key \in Keys : key # "usage" /\ Owed(key) => Owed(key)'
  BY <1>2, <1>8 DEF Owed
<1>10. PICK n \in Nat : n = Len(line.feed) /\ DOMAIN line.feed = 1..n
  BY <1>1 DEF FeedOK
<1>11. PICK told : /\ told = [i \in 1..count |-> [is |-> "event", seq |-> from + i]]
                   /\ Pushed(told)
  <2>1. sync[p].to - sync[p].from = count
    BY <1>3, <1>4
  <2> QED
    BY <1>4, <2>1 DEF Announce
<1>12. ASSUME line.at \notin {"down", "absent"}
       PROVE  /\ line'.at = line.at /\ line'.feed \in Seq(Frames) /\ Len(line'.feed) = n + count
              /\ line' \in [at : {"down", "absent", "subscribed", "up"}, feed : Seq(Frames)]
              /\ DOMAIN line'.feed = 1..(n + count) /\ \A i \in 1..n : line'.feed[i] = line.feed[i]
              /\ \A i \in (n + 1)..(n + count) : line'.feed[i].is = "event" /\ line'.feed[i].seq = from + i - n
  <2>1. told \in Seq(Frames) /\ Len(told) = count /\ DOMAIN told = 1..count
        /\ \A i \in 1..count : told[i].is = "event" /\ told[i].seq = from + i
    <3>1. \A i \in 1..count : [is |-> "event", seq |-> from + i] \in Frames
      BY <1>4 DEF Frames
    <3>2. \A i \in 1..count : told[i] = [is |-> "event", seq |-> from + i]
      BY <1>11
    <3>3. told \in [1..count -> Frames]
      BY <1>11, <3>1
    <3>4. told \in Seq(Frames) /\ Len(told) = count
      <4>1. told \in Seq(Frames)
        BY <3>3
      <4> QED
        BY <3>3, <4>1
    <3> QED
      BY <3>2, <3>3, <3>4
  <2>2. line.feed \in Seq(Frames) /\ line \in [at : {"down", "absent", "subscribed", "up"}, feed : Seq(Frames)]
    BY <1>1 DEF FeedOK
  <2>3. line' = [line EXCEPT !.feed = line.feed \o told]
    BY <1>11, <1>12 DEF Pushed
  <2>4. PICK s : s = line.feed \o told
    OBVIOUS
  <2>5. /\ s \in Seq(Frames) /\ Len(s) = n + count /\ DOMAIN s = 1..(n + count)
        /\ (\A i \in 1..n : s[i] = line.feed[i]) /\ \A i \in (n + 1)..(n + count) : s[i] = told[i - n]
    <3>1. s \in Seq(Frames) /\ Len(s) = n + count /\ DOMAIN s = 1..(n + count)
      <4>1. s \in Seq(Frames) /\ Len(s) = n + count
        <5>1. PICK old : old = line.feed /\ old \in Seq(Frames) /\ Len(old) = n
          BY <1>10, <2>2
        <5>2. told \in Seq(Frames) /\ Len(told) = count
          BY <2>1
        <5>3. old \o told \in Seq(Frames)
          BY <5>1, <5>2
        <5>4. Len(old \o told) = n + count
          BY <5>1, <5>2
        <5> QED
          BY <2>4, <5>1, <5>3, <5>4
      <4> QED
        BY <4>1
    <3>2. \A i \in 1..n : s[i] = line.feed[i]
      BY <1>10, <2>1, <2>2, <2>4
    <3>3. \A i \in (n + 1)..(n + count) : s[i] = told[i - n]
      BY <1>10, <2>1, <2>2, <2>4
    <3> QED
      BY <3>1, <3>2, <3>3
  <2>6. \A i \in (n + 1)..(n + count) : i - n \in 1..count /\ from + (i - n) = from + i - n
    BY <1>4
  <2>7. line'.at = line.at /\ line'.feed = s
    BY <2>2, <2>3, <2>4
  <2>8. line' \in [at : {"down", "absent", "subscribed", "up"}, feed : Seq(Frames)]
    BY <2>2, <2>3, <2>4, <2>5
  <2>9. \A i \in (n + 1)..(n + count) : s[i].is = "event" /\ s[i].seq = from + i - n
    BY <2>1, <2>5, <2>6
  <2> QED
    BY <2>5, <2>7, <2>8, <2>9
<1>13. ASSUME line.at \in {"down", "absent"} PROVE line' = line /\ line.feed = <<>> /\ page.at = "cold"
  BY <1>1, <1>11, <1>13 DEF Pushed, FeedOK, PageOK
<1>14. ASSUME line.at \notin {"down", "absent"}, NEW i \in 1..(n + count)
       PROVE  /\ i \in 1..n => (IsEvent(i)' <=> IsEvent(i))
              /\ i \in (n + 1)..(n + count) => IsEvent(i)'
              /\ i \in 1..n \/ i \in (n + 1)..(n + count)
  BY <1>4, <1>12, <1>14 DEF IsEvent
<1>15. /\ LogOK' /\ ReceiptsOnce' /\ MemoryOK' /\ ReceiptsTrue' /\ EngineOK' /\ Unbroken'
       /\ RowsOK'
  BY <1>1, <1>2, <1>3, <1>4, <1>5, <1>6, <1>7, <1>8, <1>9, <1>10, <1>11, <1>12, <1>13,
     <1>14, LogOKSame, ReceiptsOnceSame, MemoryOKSame, ReceiptsTrueSame, EngineOKSame,
     UnbrokenSame, RowsOKSame
<1>16. HandlersOK'
  BY <1>8
<1>17. LandedOK'
  BY <1>8
<1>18. FreshOK'
  BY <1>5, <1>8, AskFacts DEF FreshOK
<1>19. AppendsFit'
  BY <1>8
<1>20. PoliciesOK'
  BY <1>8
<1>21. ToldOK'
  BY <1>8
<1>22. SyncOK'
  <2>1. sync' \in [Readers -> [at : {"off", "loaded", "announce"}, from : Nat, to : Nat]]
    BY <1>1, <1>3 DEF SyncOK, Synced
  <2> QED
    BY <1>3, <1>5, <2>1 DEF SyncOK
<1>23. FeedOK'
  <2>1. CASE line.at \in {"down", "absent"}
    BY <1>1, <1>2, <1>13, <2>1 DEF FeedOK, AnnouncedInOrder
  <2>2. CASE line.at \notin {"down", "absent"}
    <3>1. ASSUME NEW i \in 1..(n + count)
          PROVE  /\ line'.feed[i].is = "subscribed" => i = 1 /\ line'.at = "up"
                 /\ line'.feed[i].seq \in 1..c
                 /\ IsEvent(i)' => line'.feed[i].seq <= c
                 /\ Newest(i)' => line'.feed[i].seq = c
      <4>1. CASE i \in (n + 1)..(n + count)
        <5>1. line'.feed[i].is = "event" /\ line'.feed[i].seq = from + i - n
          BY <1>12, <2>2, <4>1
        <5>2. from + i - n \in 1..c
          BY <1>4, <4>1
        <5>3. Newest(i)' => i = n + count
          <6>1. SUFFICES ASSUME i # n + count PROVE ~ Newest(i)'
            OBVIOUS
          <6>2. n + count \in (i + 1)..(n + count) /\ n + count \in (n + 1)..(n + count) /\ n + count \in 1..(n + count)
            BY <1>4, <4>1, <6>1
          <6>3. IsEvent(n + count)'
            BY <1>14, <2>2, <6>2
          <6> QED
            BY <1>12, <2>2, <6>2, <6>3 DEF Newest
        <5> QED
          BY <1>4, <5>1, <5>2, <5>3
      <4>2. CASE i \in 1..n
        <5>1. line'.feed[i] = line.feed[i] /\ (IsEvent(i)' <=> IsEvent(i))
          BY <1>12, <1>14, <2>2, <4>2
        <5>2. /\ line.feed[i].is = "subscribed" => i = 1 /\ line.at = "up"
              /\ line.feed[i].seq \in 1..c
              /\ IsEvent(i) => line.feed[i].seq <= from
              /\ Newest(i) => line.feed[i].seq = from
          BY <1>1, <1>4, <1>6, <1>10, <4>2 DEF FeedOK
        <5>3. Newest(i)' => count = 0 /\ Newest(i)
          <6>1. ASSUME count # 0 PROVE ~ Newest(i)'
            <7>1. n + count \in (i + 1)..(n + count) /\ n + count \in (n + 1)..(n + count) /\ n + count \in 1..(n + count)
              BY <1>4, <4>2, <6>1
            <7>2. IsEvent(n + count)'
              BY <1>14, <2>2, <7>1
            <7> QED
              BY <1>12, <2>2, <7>1, <7>2 DEF Newest
          <6>2. ASSUME count = 0, Newest(i)' PROVE Newest(i)
            <7>1. n + count = n
              BY <6>2
            <7>2. \A j \in (i + 1)..n : j \in 1..n /\ ~ IsEvent(j)'
              BY <1>12, <2>2, <4>2, <6>2, <7>1 DEF Newest
            <7>3. \A j \in (i + 1)..n : ~ IsEvent(j)
              BY <1>14, <2>2, <7>1, <7>2
            <7> QED
              BY <1>10, <5>1, <6>2, <7>3 DEF Newest
          <6> QED
            BY <6>1, <6>2
        <5>4. line'.feed[i].seq <= c
          BY <5>1, <5>2
        <5>5. count = 0 => from = c
          BY <1>4
        <5> QED
          BY <1>12, <2>2, <5>1, <5>2, <5>3, <5>4, <5>5
      <4> QED
        BY <1>14, <2>2, <4>1, <4>2
    <3>2. AnnouncedInOrder'
      <4>1. SUFFICES ASSUME NEW i \in 1..(n + count), NEW j \in 1..(n + count), i < j,
                            line'.feed[i].is = "event", line'.feed[j].is = "event",
                            \A k \in (i + 1)..(j - 1) : line'.feed[k].is # "event"
                     PROVE  line'.feed[j].seq = line'.feed[i].seq + 1
        BY <1>12, <2>2 DEF AnnouncedInOrder
      <4>2. CASE j \in 1..n
        <5>1. i \in 1..n /\ \A k \in (i + 1)..(j - 1) : k \in 1..n
          BY <4>1, <4>2
        <5>2. \A k \in (i + 1)..(j - 1) : line.feed[k].is # "event"
          BY <1>12, <2>2, <4>1, <5>1
        <5>3. line.feed[i].is = "event" /\ line.feed[j].is = "event"
          BY <1>12, <2>2, <4>1, <4>2, <5>1
        <5>4. line.feed[j].seq = line.feed[i].seq + 1
          BY <1>1, <1>10, <4>1, <4>2, <5>1, <5>2, <5>3 DEF FeedOK, AnnouncedInOrder
        <5> QED
          BY <1>12, <2>2, <4>2, <5>1, <5>4
      <4>3. CASE j \in (n + 1)..(n + count) /\ i \in (n + 1)..(n + count)
        <5>1. j = i + 1
          <6>1. SUFFICES ASSUME j # i + 1 PROVE FALSE
            OBVIOUS
          <6>2. i + 1 \in (i + 1)..(j - 1) /\ i + 1 \in (n + 1)..(n + count)
            BY <4>1, <4>3, <6>1
          <6> QED
            BY <1>12, <2>2, <4>1, <6>2
        <5>2. line'.feed[i].seq = from + i - n /\ line'.feed[j].seq = from + j - n
          BY <1>12, <2>2, <4>3
        <5> QED
          BY <1>4, <4>3, <5>1, <5>2
      <4>4. CASE j \in (n + 1)..(n + count) /\ i \in 1..n
        <5>1. j = n + 1
          <6>1. SUFFICES ASSUME j # n + 1 PROVE FALSE
            OBVIOUS
          <6>2. n + 1 \in (i + 1)..(j - 1) /\ n + 1 \in (n + 1)..(n + count)
            BY <4>1, <4>4, <6>1
          <6> QED
            BY <1>12, <2>2, <4>1, <6>2
        <5>2. Newest(i)
          <6>1. \A k \in (i + 1)..n : k \in (i + 1)..(j - 1) /\ k \in 1..n
            BY <4>4, <5>1
          <6>2. \A k \in (i + 1)..n : line.feed[k].is # "event"
            BY <1>12, <2>2, <4>1, <6>1
          <6> QED
            BY <1>10, <1>12, <2>2, <4>1, <4>4, <6>2 DEF Newest, IsEvent
        <5>3. line.feed[i].seq = from
          BY <1>1, <1>6, <1>10, <4>4, <5>2 DEF FeedOK
        <5>4. line'.feed[j].seq = from + 1
          <6>1. from + (n + 1) - n = from + 1
            BY <1>4
          <6> QED
            BY <1>12, <2>2, <4>4, <5>1, <6>1
        <5> QED
          BY <1>12, <2>2, <4>4, <5>3, <5>4
      <4> QED
        BY <1>14, <2>2, <4>1, <4>2, <4>3, <4>4
    <3> QED
      BY <1>2, <1>4, <1>6, <1>12, <2>2, <3>1, <3>2 DEF FeedOK
  <2> QED
    BY <2>1, <2>2
<1>24. FramesTrue'
  <2>1. CASE line.at \in {"down", "absent"}
    BY <1>13, <2>1 DEF FramesTrue
  <2>2. CASE line.at \notin {"down", "absent"}
    <3>1. SUFFICES ASSUME NEW i \in 1..(n + count), line'.feed[i].is = "projection"
                   PROVE  (line.feed[i].says = Shown(line.feed[i].key, line.feed[i].seq))'
      BY <1>12, <2>2 DEF FramesTrue
    <3>2. i \in 1..n
      BY <1>12, <1>14, <2>2, <3>1 DEF IsEvent
    <3>3. PICK g : g = line.feed[i] /\ g = line'.feed[i]
      BY <1>12, <2>2, <3>2
    <3>4. g \in Frames /\ g.is = "projection"
      <4>1. line.feed \in Seq(Frames) /\ i \in DOMAIN line.feed
        BY <1>1, <1>10, <3>2 DEF FeedOK
      <4>2. line.feed[i] \in Frames
        BY <4>1
      <4> QED
        BY <3>1, <3>3, <4>2
    <3>5. g.key \in Keys /\ g.seq \in Nat
      BY <3>4 DEF Frames
    <3>6. g.says = Shown(g.key, g.seq)
      BY <1>1, <1>10, <3>2, <3>3, <3>4 DEF FramesTrue
    <3>7. PICK k, m : k = g.key /\ m = g.seq
      OBVIOUS
    <3>8. Shown(k, m)' = Shown(k, m)
      BY <1>2, <3>5, <3>7, ShownStays
    <3>9. line'.feed[i].says = Shown(k, m)'
      BY <3>3, <3>6, <3>7, <3>8
    <3> QED
      BY <3>3, <3>7, <3>9
  <2> QED
    BY <2>1, <2>2
<1>25. KnownOK'
  <2>1. \A key \in Keys : Unchanged(key, c)' <=> Unchanged(key, c)
    BY <1>2 DEF Unchanged, Changes
  <2>2. ASSUME NEW key \in Keys, key # "usage" PROVE Unchanged(key, c)' \/ Owed(key)'
    BY <1>1, <1>4, <1>9, <2>1, <2>2 DEF KnownOK
  <2>3. Unchanged("usage", c)' \/ Owed("usage")'
    BY <1>6 DEF Owed
  <2> QED
    BY <1>2, <1>4, <2>2, <2>3 DEF KnownOK
<1>26. OwedOK'
  <2>1. SUFFICES ASSUME "mixed" \notin upset, line'.at = "up", NEW key \in Keys, ~ Owed(key)'
                 PROVE  \/ ~ Rebasing' /\ Unchanged(key, rows[key].seq)'
                        \/ \E i \in DOMAIN line'.feed : Covers(key, line.feed[i])'
    BY <1>2 DEF OwedOK
  <2>2. line.at = "up" /\ line.at \notin {"down", "absent"}
    BY <1>12, <1>13, <2>1
  <2>3. ASSUME NEW m PROVE Unchanged(key, m)' <=> Unchanged(key, m)
    BY <1>2 DEF Unchanged, Changes
  <2>4. ASSUME NEW i \in 1..n, Covers(key, line.feed[i]) PROVE i \in DOMAIN line'.feed /\ Covers(key, line.feed[i])'
    BY <1>2, <1>4, <1>12, <2>2, <2>3, <2>4 DEF Covers
  <2>5. ASSUME ~ Rebasing PROVE ~ Rebasing'
    <3>1. CASE n = 0
      <4>1. CASE count = 0
        <5>1. line'.feed = <<>>
          BY <1>12, <2>2, <3>1, <4>1
        <5> QED
          BY <5>1 DEF Rebasing
      <4>2. CASE count # 0
        <5>1. 1 \in (n + 1)..(n + count)
          BY <1>4, <3>1, <4>2
        <5> QED
          BY <1>12, <2>2, <5>1 DEF Rebasing
      <4> QED
        BY <4>1, <4>2
    <3>2. CASE n > 0
      <4>1. line'.feed[1] = line.feed[1] /\ line.feed # <<>>
        BY <1>10, <1>12, <2>2, <3>2
      <4> QED
        BY <2>5, <4>1 DEF Rebasing
    <3> QED
      BY <3>1, <3>2
  <2>6. CASE \/ ~ Rebasing /\ Unchanged(key, rows[key].seq)
             \/ \E i \in DOMAIN line.feed : Covers(key, line.feed[i])
    BY <1>2, <1>10, <2>3, <2>4, <2>5, <2>6
  <2>7. CASE Owed(key)
    <3>1. key = "usage"
      BY <1>9, <2>1, <2>7
    <3>2. Unchanged(key, c) /\ ~ Unchanged(key, from)
      BY <1>6, <2>1, <2>3, <2>7, <3>1 DEF Owed
    <3> DEFINE ends == {i \in 0..c : i > from /\ Changes(key, log[i])}
    <3>3. ends # {}
      <4>1. PICK i \in (from + 1)..Len(log) : Changes(key, log[i])
        BY <3>2 DEF Unchanged
      <4>2. i \notin (c + 1)..Len(log)
        BY <3>2, <4>1 DEF Unchanged
      <4>3. i \in 0..c /\ i > from
        <5>1. PICK len \in Nat : len = Len(log)
          BY <1>4
        <5>2. i \in (from + 1)..len /\ i \notin (c + 1)..len
          BY <4>2, <5>1
        <5> HIDE DEF ends
        <5> QED
          BY <5>2
      <4> QED
        BY <4>1, <4>3
    <3>4. PICK m : m \in ends /\ \A i \in ends : i <= m
      <4>1. ends \in SUBSET (0..c)
        OBVIOUS
      <4> HIDE DEF ends
      <4> QED
        BY <1>4, <3>3, <4>1, GreatestOf
    <3>5. m \in (from + 1)..c /\ Changes(key, log[m]) /\ m \in Nat
      BY <1>4, <3>4
    <3>6. Unchanged(key, m)
      <4>1. ASSUME NEW i \in (m + 1)..Len(log), Changes(key, log[i]) PROVE FALSE
        <5>1. i \notin (c + 1)..Len(log)
          BY <3>2, <4>1 DEF Unchanged
        <5>2. i \in ends
          BY <1>4, <3>5, <4>1, <5>1, SMTT(40)
        <5>3. i > m
          BY <1>4, <3>5, <4>1
        <5> QED
          BY <3>4, <3>5, <5>2, <5>3
      <4> QED
        BY <4>1 DEF Unchanged
    <3>7. PICK d \in Nat : m = from + d /\ 1 <= d /\ d <= count
      <4>1. PICK k \in Nat : k = m /\ from + 1 <= k /\ k <= from + count
        <5>1. m \in Nat /\ from + 1 <= m /\ m <= c /\ c = from + count
          BY <1>4, <3>5
        <5> QED
          BY <5>1
      <4>2. k - from \in Nat /\ k = from + (k - from) /\ 1 <= k - from /\ k - from <= count
        BY <4>1
      <4> QED
        BY <4>1, <4>2
    <3>8. PICK i \in Nat : i \in (n + 1)..(n + count) /\ i \in 1..(n + count) /\ from + i - n = m
      <4>1. n + d \in (n + 1)..(n + count) /\ n + d \in 1..(n + count) /\ from + (n + d) - n = m
        BY <3>7
      <4> QED
        BY <4>1
    <3>9. line'.feed[i].is = "event" /\ line'.feed[i].seq = m
      BY <1>12, <2>2, <3>8
    <3>10. Covers(key, line.feed[i])'
      BY <1>2, <2>3, <3>1, <3>5, <3>6, <3>9 DEF Covers, Changes
    <3> QED
      BY <1>12, <2>2, <3>8, <3>10
  <2> QED
    BY <1>1, <2>1, <2>2, <2>6, <2>7 DEF OwedOK
<1>27. ReaderOK'
  BY <1>8
<1>28. PageOK'
  <2>1. CASE line.at \in {"down", "absent"}
    <3>1. reader'.at \notin {"values", "back"}
      BY <1>1, <1>8, <1>13, <2>1 DEF ReaderOK
    <3> QED
      BY <1>1, <1>2, <1>13, <2>1, <3>1 DEF PageOK
  <2>2. CASE line.at \notin {"down", "absent"}
    <3>1. ASSUME NEW i \in 1..(n + count), FirstEvent(i)'
          PROVE  \/ i \in 1..n /\ FirstEvent(i) /\ line'.feed[i] = line.feed[i]
                 \/ NoEvent /\ line'.feed[i].seq = from + 1
      <4>1. \A j \in 1..(i - 1) : j \in 1..(n + count) /\ ~ IsEvent(j)'
        BY <1>4, <3>1 DEF FirstEvent
      <4>2. CASE i \in 1..n
        <5>1. \A j \in 1..(i - 1) : j \in 1..n /\ ~ IsEvent(j)
          BY <1>14, <2>2, <4>1, <4>2
        <5> QED
          BY <1>12, <1>14, <2>2, <3>1, <4>2, <5>1 DEF FirstEvent
      <4>3. CASE i \in (n + 1)..(n + count)
        <5>1. i = n + 1
          <6>1. SUFFICES ASSUME i # n + 1 PROVE FALSE
            OBVIOUS
          <6>2. n + 1 \in 1..(i - 1) /\ n + 1 \in (n + 1)..(n + count)
            BY <1>4, <4>3, <6>1
          <6> QED
            BY <1>14, <2>2, <4>1, <6>2
        <5>2. \A j \in 1..n : j \in 1..(i - 1) /\ ~ IsEvent(j)
          <6>1. \A j \in 1..n : j \in 1..(i - 1)
            BY <5>1
          <6> QED
            BY <1>14, <2>2, <4>1, <6>1
        <5>3. from + i - n = from + 1
          BY <1>4, <5>1
        <5> QED
          BY <1>10, <1>12, <2>2, <4>3, <5>2, <5>3 DEF NoEvent
      <4> QED
        BY <1>14, <2>2, <4>2, <4>3
    <3>2. NoEvent' => NoEvent /\ c = from
      <4>1. SUFFICES ASSUME NoEvent' PROVE NoEvent /\ c = from
        OBVIOUS
      <4>2. count = 0
        <5>1. SUFFICES ASSUME count # 0 PROVE FALSE
          OBVIOUS
        <5>2. n + 1 \in 1..(n + count) /\ n + 1 \in (n + 1)..(n + count)
          BY <1>4, <5>1
        <5> QED
          BY <1>12, <1>14, <2>2, <4>1, <5>2 DEF NoEvent
      <4>3. \A j \in 1..n : j \in 1..(n + count) /\ ~ IsEvent(j)'
        BY <1>4, <1>12, <2>2, <4>1 DEF NoEvent
      <4> QED
        BY <1>4, <1>10, <1>14, <2>2, <4>2, <4>3 DEF NoEvent
    <3>3. ASSUME NEW m \in Nat, Ahead(m) PROVE Ahead(m)'
      <4>1. \A i \in 1..(n + count) : FirstEvent(i)' => line'.feed[i].seq <= m + 1
        <5>1. SUFFICES ASSUME NEW i \in 1..(n + count), FirstEvent(i)' PROVE line'.feed[i].seq <= m + 1
          OBVIOUS
        <5>2. CASE i \in 1..n /\ FirstEvent(i) /\ line'.feed[i] = line.feed[i]
          BY <1>10, <3>3, <5>2 DEF Ahead
        <5>3. CASE NoEvent /\ line'.feed[i].seq = from + 1
          BY <1>4, <1>6, <3>3, <5>3, SMTT(40) DEF Ahead
        <5> QED
          BY <3>1, <5>1, <5>2, <5>3
      <4>2. NoEvent' => c <= m
        BY <1>6, <3>2, <3>3 DEF Ahead
      <4> QED
        BY <1>6, <1>12, <2>2, <4>1, <4>2 DEF Ahead
    <3>4. ASSUME NEW m \in Nat, Following(m) PROVE Following(m)'
      <4>1. \A i \in 1..(n + count) : FirstEvent(i)' => line'.feed[i].seq = m + 1
        <5>1. SUFFICES ASSUME NEW i \in 1..(n + count), FirstEvent(i)' PROVE line'.feed[i].seq = m + 1
          OBVIOUS
        <5>2. CASE i \in 1..n /\ FirstEvent(i) /\ line'.feed[i] = line.feed[i]
          BY <1>10, <3>4, <5>2 DEF Following
        <5>3. CASE NoEvent /\ line'.feed[i].seq = from + 1
          BY <1>4, <1>6, <3>4, <5>3 DEF Following
        <5> QED
          BY <3>1, <5>1, <5>2, <5>3
      <4>2. NoEvent' => c = m
        BY <1>6, <3>2, <3>4 DEF Following
      <4> QED
        BY <1>6, <1>12, <2>2, <4>1, <4>2 DEF Following
    <3>5. page.tail \in Nat /\ (page.later # <<>> => page.later[Len(page.later)] \in Nat) /\ reader.asOf \in Nat
      BY <1>1 DEF PageOK, ReaderOK
    <3>6. reader'.at \in {"values", "back"} => reader' = reader
      BY <1>8
    <3> QED
      BY <1>1, <1>2, <1>12, <2>2, <3>3, <3>4, <3>5, <3>6 DEF PageOK
  <2> QED
    BY <2>1, <2>2
<1> QED
  BY <1>15, <1>16, <1>17, <1>18, <1>19, <1>20, <1>21, <1>22, <1>23, <1>24, <1>25, <1>26,
     <1>27, <1>28 DEF ViewInv, LogInv, TaskInv, FeedInv, ShowInv

LEMMA SubscribeKeeps ==
    ASSUME ViewInv, Subscribe
    PROVE  ViewInv'
<1>1. /\ LogOK /\ ReceiptsOnce /\ MemoryOK /\ ReceiptsTrue /\ EngineOK /\ Unbroken
      /\ HandlersOK /\ LandedOK /\ FreshOK /\ AppendsFit /\ PoliciesOK /\ ToldOK
      /\ SyncOK /\ FeedOK /\ FramesTrue /\ KnownOK /\ RowsOK /\ OwedOK /\ ReaderOK /\ PageOK
  BY PartsOf
<1>2. UNCHANGED <<log, memory, running, routable, handler, gate, window, sync, engine, rows, page, reader, upset>>
  BY DEF Subscribe, browserVars
<1>3. /\ line.at = "down" /\ line' = [at |-> "subscribed", feed |-> <<>>] /\ line.feed = <<>>
      /\ page.at = "cold" /\ page.later = <<>> /\ reader.at = "off" /\ DOMAIN line'.feed = {}
  <2>1. line.at = "down" /\ line' = [at |-> "subscribed", feed |-> <<>>]
    BY DEF Subscribe
  <2>2. DOMAIN line'.feed = {}
    BY <2>1
  <2> QED
    BY <1>1, <2>1, <2>2 DEF FeedOK, PageOK, ReaderOK
<1>4. Announced' = Announced
  BY <1>2 DEF Announced, Announcing
<1>5. /\ LogOK' /\ ReceiptsOnce' /\ MemoryOK' /\ ReceiptsTrue' /\ EngineOK' /\ Unbroken'
      /\ HandlersOK' /\ LandedOK' /\ FreshOK' /\ AppendsFit' /\ PoliciesOK' /\ ToldOK'
      /\ SyncOK' /\ KnownOK' /\ RowsOK' /\ ReaderOK'
  BY <1>1, <1>2, <1>3, <1>4, LogOKSame, ReceiptsOnceSame, MemoryOKSame, ReceiptsTrueSame,
     EngineOKSame, UnbrokenSame, HandlersOKSame, LandedOKSame, FreshOKSame, AppendsFitSame,
     PoliciesOKSame, ToldOKSame, SyncOKSame, KnownOKSame, RowsOKSame, ReaderOKSame
<1>6. FeedOK'
  <2>1. AnnouncedInOrder'
    BY <1>3 DEF AnnouncedInOrder
  <2> QED
    BY <1>2, <1>3, <2>1 DEF FeedOK
<1>7. FramesTrue'
  BY <1>3 DEF FramesTrue
<1>8. OwedOK'
  BY <1>3 DEF OwedOK
<1>9. PageOK'
  BY <1>1, <1>2, <1>3 DEF PageOK
<1> QED
  BY <1>5, <1>6, <1>7, <1>8, <1>9 DEF ViewInv, LogInv, TaskInv, FeedInv, ShowInv

LEMMA BaselineKeeps ==
    ASSUME ViewInv, Baseline
    PROVE  ViewInv'
<1>1. /\ LogOK /\ ReceiptsOnce /\ MemoryOK /\ ReceiptsTrue /\ EngineOK /\ Unbroken
      /\ HandlersOK /\ LandedOK /\ FreshOK /\ AppendsFit /\ PoliciesOK /\ ToldOK
      /\ SyncOK /\ FeedOK /\ FramesTrue /\ KnownOK /\ RowsOK /\ OwedOK /\ ReaderOK /\ PageOK
  BY PartsOf
<1>2. UNCHANGED <<log, memory, running, routable, handler, gate, window, sync, engine, rows, page, reader, upset>>
  BY DEF Baseline, browserVars
<1>3. PICK n \in Nat, f \in Frames, s \in Seq(Frames) :
        /\ line.at = "subscribed" /\ n = Len(line.feed) /\ DOMAIN line.feed = 1..n
        /\ line' = [at |-> "up", feed |-> s] /\ s \in Seq(Frames) /\ Len(s) = n + 1
        /\ DOMAIN s = 1..(n + 1) /\ s[1] = f /\ \A i \in 1..n : s[i + 1] = line.feed[i]
        /\ f \in Frames /\ f.is = "subscribed" /\ f.seq = memory.cursor /\ s # <<>>
  <2>1. line.at = "subscribed" /\ memory.cursor \in Nat /\ line.feed \in Seq(Frames)
    BY <1>1 DEF Baseline, MemoryOK, FeedOK
  <2>2. PICK f : f = [is |-> "subscribed", seq |-> memory.cursor]
    OBVIOUS
  <2>3. f \in Frames /\ f.is = "subscribed" /\ f.seq = memory.cursor
    BY <2>1, <2>2 DEF Frames
  <2>4. PICK s, old : /\ s = <<f>> \o line.feed /\ old = line.feed
    OBVIOUS
  <2>5. line' = [at |-> "up", feed |-> s]
    BY <2>2, <2>4 DEF Baseline
  <2>6. PICK n \in Nat : n = Len(old) /\ DOMAIN old = 1..n
    BY <2>1, <2>4
  <2>7. <<f>> \in Seq(Frames) /\ Len(<<f>>) = 1 /\ <<f>>[1] = f
    BY <2>3
  <2>8. s \in Seq(Frames) /\ Len(s) = n + 1
    <3>1. old \in Seq(Frames)
      BY <2>1, <2>4
    <3> QED
      BY <2>4, <2>6, <2>7, <3>1
  <2>9. s[1] = f /\ \A i \in 1..n : s[i + 1] = old[i]
    <3>1. old \in Seq(Frames)
      BY <2>1, <2>4
    <3> QED
      BY <2>3, <2>4, <2>6, <2>7, <3>1
  <2>10. DOMAIN s = 1..(n + 1) /\ s # <<>>
    BY <2>8
  <2> QED
    BY <2>1, <2>3, <2>4, <2>5, <2>6, <2>8, <2>9, <2>10
<1>4. /\ line'.at = "up" /\ line'.feed = s /\ page.at = "cold" /\ page.later = <<>> /\ reader.at = "off"
      /\ \A i \in 1..n : line.feed[i].is # "subscribed"
  BY <1>1, <1>3 DEF PageOK, ReaderOK, FeedOK
<1>5. Announced' = Announced /\ memory.cursor \in Nat /\ 1 <= memory.cursor /\ memory.cursor <= Len(log)
  BY <1>1, <1>2, CursorIn DEF Announced, Announcing
<1>6. ASSUME NEW i \in 1..(n + 1), i # 1
      PROVE  /\ i - 1 \in 1..n /\ s[i] = line.feed[i - 1]
             /\ line.feed[i - 1].seq \in 1..memory.cursor /\ s[i].is # "subscribed"
             /\ IsEvent(i - 1) => line.feed[i - 1].seq <= Announced
             /\ Newest(i - 1) => line.feed[i - 1].seq = Announced
  <2>1. PICK k \in Nat : k = i - 1 /\ k \in 1..n /\ k + 1 = i
    <3>1. i - 1 \in Nat /\ i - 1 \in 1..n /\ (i - 1) + 1 = i
      BY <1>6
    <3> QED
      BY <3>1
  <2>2. s[i] = line.feed[k]
    BY <1>3, <2>1
  <2>3. /\ line.feed[k].seq \in 1..memory.cursor
        /\ IsEvent(k) => line.feed[k].seq <= Announced
        /\ Newest(k) => line.feed[k].seq = Announced
    BY <1>1, <1>3, <2>1 DEF FeedOK
  <2> QED
    BY <1>4, <2>1, <2>2, <2>3
<1>7. /\ LogOK' /\ ReceiptsOnce' /\ MemoryOK' /\ ReceiptsTrue' /\ EngineOK' /\ Unbroken'
      /\ HandlersOK' /\ LandedOK' /\ FreshOK' /\ AppendsFit' /\ PoliciesOK' /\ ToldOK'
      /\ SyncOK' /\ KnownOK' /\ RowsOK' /\ ReaderOK'
  BY <1>1, <1>2, <1>3, <1>4, <1>5, <1>6, LogOKSame, ReceiptsOnceSame, MemoryOKSame,
     ReceiptsTrueSame, EngineOKSame, UnbrokenSame, HandlersOKSame, LandedOKSame,
     FreshOKSame, AppendsFitSame, PoliciesOKSame, ToldOKSame, SyncOKSame, KnownOKSame,
     RowsOKSame, ReaderOKSame
<1>8. FeedOK'
  <2>1. ASSUME NEW i \in 1..(n + 1)
        PROVE  /\ s[i].is = "subscribed" => i = 1
               /\ s[i].seq \in 1..memory.cursor
               /\ IsEvent(i)' => s[i].seq <= Announced
               /\ Newest(i)' => s[i].seq = Announced
    <3>1. CASE i = 1
      BY <1>3, <1>4, <1>5, <3>1 DEF IsEvent, Newest
    <3>2. CASE i # 1
      <4>1. IsEvent(i)' => IsEvent(i - 1)
        BY <1>4, <1>6, <3>2 DEF IsEvent
      <4>2. Newest(i)' => Newest(i - 1)
        <5>1. SUFFICES ASSUME Newest(i)' PROVE Newest(i - 1)
          OBVIOUS
        <5>2. \A j \in ((i - 1) + 1)..n : j + 1 \in (i + 1)..(n + 1) /\ j \in 1..n
          BY <1>6, <3>2
        <5>3. \A j \in ((i - 1) + 1)..n : ~ IsEvent(j)
          BY <1>3, <1>4, <5>1, <5>2 DEF Newest, IsEvent
        <5> QED
          BY <1>3, <4>1, <5>1, <5>3 DEF Newest
      <4> QED
        BY <1>6, <3>2, <4>1, <4>2
    <3> QED
      BY <3>1, <3>2
  <2>2. AnnouncedInOrder'
    <3>1. SUFFICES ASSUME NEW i \in 1..(n + 1), NEW j \in 1..(n + 1), i < j,
                          s[i].is = "event", s[j].is = "event",
                          \A k \in (i + 1)..(j - 1) : s[k].is # "event"
                   PROVE  s[j].seq = s[i].seq + 1
      <4>1. line'.feed = s /\ DOMAIN line'.feed = 1..(n + 1)
        BY <1>3, <1>4
      <4> QED
        BY <4>1, Zenon DEF AnnouncedInOrder
    <3>2. i # 1 /\ j # 1
      BY <1>3, <3>1
    <3>3. PICK a \in 1..n, b \in 1..n : i = a + 1 /\ j = b + 1 /\ s[i] = line.feed[a] /\ s[j] = line.feed[b]
      <4>1. i = (i - 1) + 1 /\ j = (j - 1) + 1
        BY <3>2
      <4> QED
        BY <1>6, <3>2, <4>1
    <3>4. \A k \in (a + 1)..(b - 1) : line.feed[k].is # "event"
      <4>1. \A k \in (a + 1)..(b - 1) : k \in 1..n /\ k + 1 \in (i + 1)..(j - 1)
        BY <3>3
      <4> QED
        BY <1>3, <3>1, <4>1
    <3>5. a < b
      BY <3>1, <3>3
    <3>6. line.feed[a].is = "event" /\ line.feed[b].is = "event"
      BY <3>1, <3>3
    <3>7. a \in DOMAIN line.feed /\ b \in DOMAIN line.feed
      BY <1>3
    <3>8. line.feed[b].seq = line.feed[a].seq + 1
      BY <1>1, <3>4, <3>5, <3>6, <3>7, Zenon DEF FeedOK, AnnouncedInOrder
    <3> QED
      BY <3>3, <3>8
  <2>3. line' \in [at : {"down", "absent", "subscribed", "up"}, feed : Seq(Frames)]
    BY <1>3
  <2> QED
    BY <1>2, <1>3, <1>4, <1>5, <2>1, <2>2, <2>3 DEF FeedOK
<1>9. FramesTrue'
  <2>1. SUFFICES ASSUME NEW i \in 1..(n + 1), s[i].is = "projection"
                 PROVE  (line.feed[i].says = Shown(line.feed[i].key, line.feed[i].seq))'
    BY <1>3, <1>4 DEF FramesTrue
  <2>2. i # 1
    BY <1>3, <2>1
  <2>3. PICK j \in 1..n : s[i] = line.feed[j]
    BY <1>6, <2>2
  <2>4. PICK g : g = line.feed[j] /\ g = line'.feed[i]
    BY <1>4, <2>3
  <2>5. g \in Frames /\ g.is = "projection"
    <3>1. line.feed \in Seq(Frames) /\ j \in DOMAIN line.feed
      BY <1>1, <1>3 DEF FeedOK
    <3>2. line.feed[j] \in Frames
      BY <3>1
    <3> QED
      BY <2>1, <2>3, <2>4, <3>2
  <2>6. g.key \in Keys /\ g.seq \in Nat
    BY <2>5 DEF Frames
  <2>7. g.says = Shown(g.key, g.seq)
    BY <1>1, <1>3, <2>4, <2>5, ZenonT(40) DEF FramesTrue
  <2>8. PICK k, m : k = g.key /\ m = g.seq
    OBVIOUS
  <2>9. Shown(k, m)' = Shown(k, m)
    BY <1>2, <2>6, <2>8, ShownStays
  <2> QED
    BY <2>4, <2>7, <2>8, <2>9
<1>10. OwedOK'
  <2>1. SUFFICES ASSUME NEW key \in Keys, ~ Owed(key)' PROVE Covers(key, line.feed[1])'
    BY <1>3, <1>4 DEF OwedOK
  <2>2. ~ Owed(key)
    BY <1>2, <1>5, <2>1 DEF Owed, Unchanged, Changes, Carrying, Toward
  <2>3. Unchanged(key, memory.cursor)
    BY <1>1, <2>2 DEF KnownOK
  <2>4. Unchanged(key, memory.cursor)'
    BY <1>2, <2>3 DEF Unchanged, Changes
  <2> QED
    BY <1>2, <1>3, <1>4, <2>4 DEF Covers, Unchanged, Changes
<1>11. PageOK'
  BY <1>1, <1>2, <1>4 DEF PageOK
<1> QED
  BY <1>7, <1>8, <1>9, <1>10, <1>11 DEF ViewInv, LogInv, TaskInv, FeedInv, ShowInv

LEMMA OpenKeeps ==
    ASSUME ViewInv, Open
    PROVE  ViewInv'
<1>1. /\ LogOK /\ ReceiptsOnce /\ MemoryOK /\ ReceiptsTrue /\ EngineOK /\ Unbroken
      /\ HandlersOK /\ LandedOK /\ FreshOK /\ AppendsFit /\ PoliciesOK /\ ToldOK
      /\ SyncOK /\ FeedOK /\ FramesTrue /\ KnownOK /\ RowsOK /\ OwedOK /\ ReaderOK /\ PageOK
  BY PartsOf
<1>2. UNCHANGED <<log, memory, running, routable, handler, gate, window, sync, engine, line, rows, upset>>
  BY DEF Open, browserVars
<1>3. /\ line.at = "up" /\ page.at = "cold" /\ reader.at = "off" /\ page.later = <<>>
      /\ page' = [page EXCEPT !.at = "loading"] /\ reader' = [reader EXCEPT !.at = "sync"]
  BY <1>1 DEF Open, PageOK
<1>4. /\ page' = [at |-> "loading", tail |-> page.tail, later |-> <<>>, baseline |-> page.baseline,
                  again |-> page.again, hole |-> FALSE]
      /\ reader' = [at |-> "sync", asOf |-> reader.asOf, values |-> reader.values]
  <2>1. PICK where, t, b, g : page = [at |-> where, tail |-> t, later |-> <<>>, baseline |-> b,
                                  again |-> g, hole |-> FALSE]
    <3>1. page = [at |-> page.at, tail |-> page.tail, later |-> page.later,
                  baseline |-> page.baseline, again |-> page.again, hole |-> FALSE]
      BY <1>1 DEF PageOK
    <3> QED
      BY <1>3, <3>1, Zenon
  <2>2. [page EXCEPT !.at = "loading"]
          = [at |-> "loading", tail |-> page.tail, later |-> <<>>, baseline |-> page.baseline,
             again |-> page.again, hole |-> FALSE]
    <3>1. PICK new : new = [page EXCEPT !.at = "loading"]
      OBVIOUS
    <3>2. DOMAIN new = {"at", "tail", "later", "baseline", "again", "hole"}
      BY <2>1, <3>1
    <3>3. /\ new.at = "loading" /\ new.tail = page.tail /\ new.later = <<>> /\ new.baseline = page.baseline
          /\ new.again = page.again /\ new.hole = FALSE
      BY <2>1, <3>1
    <3>4. new = [x \in DOMAIN new |-> new[x]]
      BY <3>1
    <3> QED
      BY <3>1, <3>2, <3>3, <3>4
  <2>3. PICK q : q = reader /\ q = [at |-> q.at, asOf |-> q.asOf, values |-> q.values]
    BY <1>1 DEF ReaderOK
  <2>4. [q EXCEPT !.at = "sync"] = [at |-> "sync", asOf |-> q.asOf, values |-> q.values]
    BY <2>3
  <2> QED
    BY <1>3, <2>2, <2>3, <2>4
<1>5. Announced' = Announced
  BY <1>2 DEF Announced, Announcing
<1>6. /\ LogOK' /\ ReceiptsOnce' /\ MemoryOK' /\ ReceiptsTrue' /\ EngineOK' /\ Unbroken'
      /\ HandlersOK' /\ LandedOK' /\ FreshOK' /\ AppendsFit' /\ PoliciesOK' /\ ToldOK'
      /\ FeedOK' /\ FramesTrue' /\ KnownOK' /\ RowsOK' /\ OwedOK'
  BY <1>1, <1>2, <1>3, <1>4, <1>5, LogOKSame, ReceiptsOnceSame, MemoryOKSame,
     ReceiptsTrueSame, EngineOKSame, UnbrokenSame, HandlersOKSame, LandedOKSame,
     FreshOKSame, AppendsFitSame, PoliciesOKSame, ToldOKSame, FeedOKSame, FramesTrueSame,
     KnownOKSame, RowsOKSame, OwedOKSame
<1>7. SyncOK'
  <2>1. \A p \in Readers : Wanting(p) => Wanting(p)'
    BY <1>2, <1>4 DEF Wanting, At
  <2> QED
    BY <1>1, <1>2, <2>1 DEF SyncOK
<1>8. ReaderOK'
  BY <1>1, <1>2, <1>4 DEF ReaderOK
<1>9. PageOK'
  BY <1>1, <1>2, <1>3, <1>4 DEF PageOK
<1> QED
  BY <1>6, <1>7, <1>8, <1>9 DEF ViewInv, LogInv, TaskInv, FeedInv, ShowInv

LEMMA LoadPageKeeps ==
    ASSUME ViewInv, LoadPage
    PROVE  ViewInv'
<1>1. /\ LogOK /\ ReceiptsOnce /\ MemoryOK /\ ReceiptsTrue /\ EngineOK /\ Unbroken
      /\ HandlersOK /\ LandedOK /\ FreshOK /\ AppendsFit /\ PoliciesOK /\ ToldOK
      /\ SyncOK /\ FeedOK /\ FramesTrue /\ KnownOK /\ RowsOK /\ OwedOK /\ ReaderOK /\ PageOK
  BY PartsOf
<1>2. UNCHANGED <<log, memory, running, routable, handler, gate, window, sync, engine, line, rows, page, upset>>
  BY DEF LoadPage, browserVars
<1>3. reader.at = "load" /\ reader' = [reader EXCEPT !.at = "values", !.asOf = Len(log)]
  BY DEF LoadPage
<1>4. reader'.at = "values" /\ reader'.asOf = Len(log) /\ reader'.values = reader.values /\ reader.at = "load"
      /\ reader' = [at |-> reader'.at, asOf |-> reader'.asOf, values |-> reader'.values]
  <2>1. reader = [at |-> reader.at, asOf |-> reader.asOf, values |-> reader.values]
    BY <1>1 DEF ReaderOK
  <2>2. reader'.at = "values" /\ reader'.asOf = Len(log) /\ reader'.values = reader.values
    BY <1>3, <2>1
  <2> QED
    BY <1>3, <2>1, <2>2
<1>5. memory.cursor \in Nat /\ Len(log) \in Nat /\ memory.cursor <= Len(log) /\ Announced \in Nat /\ Announced <= memory.cursor
  BY <1>1, CursorIn
<1>6. Announced' = Announced
  BY <1>2 DEF Announced, Announcing
<1>7. /\ LogOK' /\ ReceiptsOnce' /\ MemoryOK' /\ ReceiptsTrue' /\ EngineOK' /\ Unbroken'
      /\ HandlersOK' /\ LandedOK' /\ FreshOK' /\ AppendsFit' /\ PoliciesOK' /\ ToldOK'
      /\ FeedOK' /\ FramesTrue' /\ KnownOK' /\ RowsOK' /\ OwedOK'
  BY <1>1, <1>2, <1>3, <1>4, <1>5, <1>6, LogOKSame, ReceiptsOnceSame, MemoryOKSame,
     ReceiptsTrueSame, EngineOKSame, UnbrokenSame, HandlersOKSame, LandedOKSame,
     FreshOKSame, AppendsFitSame, PoliciesOKSame, ToldOKSame, FeedOKSame, FramesTrueSame,
     KnownOKSame, RowsOKSame, OwedOKSame
<1>8. SyncOK'
  <2>1. \A p \in Readers : Wanting(p) => Wanting(p)'
    BY <1>2, <1>4 DEF Wanting, At
  <2> QED
    BY <1>1, <1>2, <2>1 DEF SyncOK
<1>9. ReaderOK'
  BY <1>1, <1>2, <1>4, <1>5 DEF ReaderOK
<1>10. PageOK'
  <2>1. \A m : (Ahead(m)' <=> Ahead(m)) /\ (Following(m)' <=> Following(m))
    BY <1>2, <1>6 DEF Ahead, Following, IsEvent, FirstEvent, NoEvent
  <2>2. Ahead(Len(log))
    BY <1>1, <1>5 DEF Ahead, FirstEvent, FeedOK
  <2>3. page.later # <<>> => page.later[1] <= Len(log) + 1
    <3>1. SUFFICES ASSUME page.later # <<>> PROVE page.later[1] <= Len(log) + 1
      OBVIOUS
    <3>2. PICK l \in Seq(Nat) : l = page.later /\ l # <<>> /\ l[Len(l)] <= Len(log)
                                /\ \A k \in 1..Len(l) : l[k] = l[1] + k - 1
      BY <1>1, <3>1 DEF PageOK
    <3>3. Len(l) \in 1..Len(l) /\ l[1] \in Nat
      BY <3>2
    <3>4. l[Len(l)] = l[1] + Len(l) - 1
      BY <3>2, <3>3
    <3> QED
      BY <1>5, <3>2, <3>3, <3>4
  <2> QED
    BY <1>1, <1>2, <1>4, <2>1, <2>2, <2>3 DEF PageOK
<1> QED
  BY <1>7, <1>8, <1>9, <1>10 DEF ViewInv, LogInv, TaskInv, FeedInv, ShowInv

LEMMA ReadValuesKeeps ==
    ASSUME ViewInv, ReadValues
    PROVE  ViewInv'
<1>1. /\ LogOK /\ ReceiptsOnce /\ MemoryOK /\ ReceiptsTrue /\ EngineOK /\ Unbroken
      /\ HandlersOK /\ LandedOK /\ FreshOK /\ AppendsFit /\ PoliciesOK /\ ToldOK
      /\ SyncOK /\ FeedOK /\ FramesTrue /\ KnownOK /\ RowsOK /\ OwedOK /\ ReaderOK /\ PageOK
  BY PartsOf
<1>2. UNCHANGED <<log, memory, running, routable, handler, gate, window, sync, engine, line, rows, page, upset>>
  BY DEF ReadValues, browserVars
<1>3. reader.at = "values" /\ reader' = [reader EXCEPT !.at = "back", !.values = memory.cursor]
  BY DEF ReadValues
<1>4. reader'.at = "back" /\ reader'.asOf = reader.asOf /\ reader'.values = memory.cursor /\ reader.at = "values"
      /\ reader' = [at |-> reader'.at, asOf |-> reader'.asOf, values |-> reader'.values]
  <2>1. reader = [at |-> reader.at, asOf |-> reader.asOf, values |-> reader.values]
    BY <1>1 DEF ReaderOK
  <2>2. reader'.at = "back" /\ reader'.asOf = reader.asOf /\ reader'.values = memory.cursor
    BY <1>3, <2>1
  <2> QED
    BY <1>3, <2>1, <2>2
<1>5. memory.cursor \in Nat /\ Len(log) \in Nat /\ memory.cursor <= Len(log) /\ Announced \in Nat /\ Announced <= memory.cursor
  BY <1>1, CursorIn
<1>6. Announced' = Announced
  BY <1>2 DEF Announced, Announcing
<1>7. /\ LogOK' /\ ReceiptsOnce' /\ MemoryOK' /\ ReceiptsTrue' /\ EngineOK' /\ Unbroken'
      /\ HandlersOK' /\ LandedOK' /\ FreshOK' /\ AppendsFit' /\ PoliciesOK' /\ ToldOK'
      /\ FeedOK' /\ FramesTrue' /\ KnownOK' /\ RowsOK' /\ OwedOK'
  BY <1>1, <1>2, <1>3, <1>4, <1>5, <1>6, LogOKSame, ReceiptsOnceSame, MemoryOKSame,
     ReceiptsTrueSame, EngineOKSame, UnbrokenSame, HandlersOKSame, LandedOKSame,
     FreshOKSame, AppendsFitSame, PoliciesOKSame, ToldOKSame, FeedOKSame, FramesTrueSame,
     KnownOKSame, RowsOKSame, OwedOKSame
<1>8. SyncOK'
  <2>1. \A p \in Readers : Wanting(p) => Wanting(p)'
    BY <1>2, <1>4 DEF Wanting, At
  <2> QED
    BY <1>1, <1>2, <2>1 DEF SyncOK
<1>9. ReaderOK'
  BY <1>1, <1>2, <1>4, <1>5 DEF ReaderOK
<1>10. PageOK'
  <2>1. \A m : (Ahead(m)' <=> Ahead(m)) /\ (Following(m)' <=> Following(m))
    BY <1>2, <1>6 DEF Ahead, Following, IsEvent, FirstEvent, NoEvent
  <2> QED
    BY <1>1, <1>2, <1>4, <2>1 DEF PageOK
<1> QED
  BY <1>7, <1>8, <1>9, <1>10 DEF ViewInv, LogInv, TaskInv, FeedInv, ShowInv

LEMMA AppliedIs ==
    ASSUME NEW row, NEW says, NEW seq \in Nat, row = [says |-> row.says, seq |-> row.seq], row.seq \in Nat
    PROVE  /\ Applied(row, says, seq) = [says |-> Applied(row, says, seq).says,
                                         seq |-> Applied(row, says, seq).seq]
           /\ Applied(row, says, seq).seq >= row.seq /\ Applied(row, says, seq).seq >= seq
           /\ Applied(row, says, seq).seq \in Nat
           /\ \/ Applied(row, says, seq) = row
              \/ Applied(row, says, seq).says = says /\ Applied(row, says, seq).seq = seq
<1>1. CASE seq > row.seq
  <2>1. PICK new : new = [says |-> says, seq |-> seq] /\ new = Applied(row, says, seq)
    BY <1>1 DEF Applied
  <2>2. new = [says |-> new.says, seq |-> new.seq] /\ new.says = says /\ new.seq = seq
    BY <2>1
  <2> QED
    BY <1>1, <2>1, <2>2
<1>2. CASE ~ (seq > row.seq)
  <2>1. Applied(row, says, seq) = row
    BY <1>2 DEF Applied
  <2> QED
    BY <1>2, <2>1
<1> QED
  BY <1>1, <1>2

LEMMA RowsMove ==
    ASSUME LogOK, RowsOK, UNCHANGED <<log, memory.cursor>>, upset \subseteq upset',
           rows' = [key \in Keys |-> [says |-> rows'[key].says, seq |-> rows'[key].seq]],
           \A key \in Keys :
             \/ rows'[key] = rows[key]
             \/ /\ rows'[key].seq \in Nat
                /\ "mixed" \notin upset' =>
                     /\ rows'[key].seq <= memory.cursor
                     /\ \E v \in rows'[key].seq..Len(log) : rows'[key].says = Shown(key, v)
    PROVE  RowsOK'
<1>1. \A key \in Keys : rows[key].seq \in Nat /\ rows'[key].seq \in Nat
  BY DEF RowsOK
<1>2. ASSUME "mixed" \notin upset', NEW key \in Keys
      PROVE  /\ rows'[key].seq <= memory.cursor
             /\ \E v \in rows'[key].seq..Len(log) : rows'[key].says = Shown(key, v)
  BY <1>2 DEF RowsOK
<1>3. ASSUME NEW key \in Keys, NEW v \in rows'[key].seq..Len(log), rows'[key].says = Shown(key, v)
      PROVE  rows'[key].says = Shown(key, v)'
  <2>1. v \in Nat
    BY <1>1, <1>3
  <2>2. Shown(key, v)' = Shown(key, v)
    BY <2>1, ShownStays
  <2> QED
    BY <1>3, <2>2
<1>4. "mixed" \notin upset' => \A key \in Keys :
         /\ rows'[key].seq <= memory'.cursor
         /\ \E v \in rows'[key].seq..Len(log') : rows'[key].says = Shown(key, v)'
  BY <1>2, <1>3
<1> QED
  BY <1>1, <1>4 DEF RowsOK

LEMMA OwedRises ==
    ASSUME OwedOK, RowsOK, LogOK, UNCHANGED <<log, line, handler>>, Announced' = Announced,
           upset \subseteq upset', upset' \subseteq upset \union {"mixed"},
           \A key \in Keys : rows'[key].seq \in Nat /\ rows'[key].seq >= rows[key].seq
    PROVE  OwedOK'
<1>1. SUFFICES ASSUME "mixed" \notin upset', line.at = "up", NEW key \in Keys
               PROVE  (\/ ~Rebasing /\ Unchanged(key, rows[key].seq)
                       \/ \E i \in DOMAIN line.feed : Covers(key, line.feed[i])
                       \/ Owed(key))'
  BY DEF OwedOK
<1>2. \/ ~Rebasing /\ Unchanged(key, rows[key].seq)
      \/ \E i \in DOMAIN line.feed : Covers(key, line.feed[i])
      \/ Owed(key)
  BY <1>1 DEF OwedOK
<1>3. Unchanged(key, rows[key].seq) => Unchanged(key, rows[key].seq)'
  <2>1. PICK old \in Nat, new \in Nat, n \in Nat :
          old = rows[key].seq /\ new = rows'[key].seq /\ new >= old /\ n = Len(log) /\ n = Len(log')
    <3>1. rows[key].seq \in Nat /\ rows'[key].seq \in Nat /\ rows'[key].seq >= rows[key].seq
      BY <1>1 DEF RowsOK
    <3>2. Len(log) \in Nat /\ Len(log') = Len(log)
      BY DEF LogOK
    <3> QED
      BY <3>1, <3>2
  <2>2. (new + 1)..n \subseteq (old + 1)..n
    BY <2>1
  <2>3. (\A i \in (old + 1)..n : ~ Changes(key, log[i])) => \A i \in (new + 1)..n : ~ Changes(key, log'[i])
    BY <2>2 DEF Changes
  <2> QED
    BY <2>1, <2>3 DEF Unchanged
<1>4. ~Rebasing => ~Rebasing'
  BY DEF Rebasing
<1>5. \A i \in DOMAIN line.feed : Covers(key, line.feed[i]) => Covers(key, line.feed[i])'
  BY DEF Covers, Unchanged, Changes
<1>6. Owed(key) => Owed(key)'
  BY DEF Owed, Unchanged, Changes, Carrying, Toward
<1> QED
  BY <1>2, <1>3, <1>4, <1>5, <1>6

LEMMA StitchedIs ==
    ASSUME NEW tail \in Nat, NEW later \in Seq(Nat),
           later # <<>> => /\ later[1] <= tail + 1
                           /\ \A k \in 1..Len(later) : later[k] = later[1] + k - 1
    PROVE  /\ Stitched(tail, later).hole = FALSE /\ Stitched(tail, later).tail \in Nat
           /\ later = <<>> => Stitched(tail, later).tail = tail
           /\ later # <<>> => LET last == later[Len(later)]
                              IN Stitched(tail, later).tail = IF last > tail THEN last ELSE tail
<1>1. PICK S : S = ToSet(later) /\ S = {later[i] : i \in 1..Len(later)}
  <2>1. DOMAIN later = 1..Len(later)
    OBVIOUS
  <2> QED
    BY <2>1, Zenon DEF ToSet
<1>2. S \in SUBSET Nat
  BY <1>1
<1>3. Stitched(tail, later).hole = (\E seq \in S : \E gap \in (tail + 1)..seq : gap \notin S)
      /\ Stitched(tail, later).tail = Max({tail} \union S)
  BY <1>1 DEF Stitched
<1>4. CASE later = <<>>
  <2>1. S = {}
    BY <1>1, <1>4
  <2>2. Max({tail} \union S) = tail
    <3>1. {tail} \union S = {tail}
      BY <2>1
    <3>2. {tail} \in SUBSET Int /\ tail \in {tail} /\ \A m \in {tail} : m <= tail
      OBVIOUS
    <3>3. Max({tail}) = tail
      BY <3>2, GreatestIs
    <3> QED
      BY <3>1, <3>3
  <2> QED
    BY <1>3, <1>4, <2>1, <2>2
<1>5. CASE later # <<>>
  <2>1. PICK a \in Nat, n \in Nat : a = later[1] /\ n = Len(later) /\ n >= 1 /\ a <= tail + 1
    BY <1>5
  <2>2. \A k \in 1..n : later[k] = a + k - 1
    BY <1>5, <2>1
  <2>3. later[n] = a + n - 1 /\ a + n - 1 \in Nat
    BY <2>1, <2>2
  <2>4. \A m \in S : m <= a + n - 1
    BY <1>1, <2>1, <2>2
  <2>5. a + n - 1 \in S
    BY <1>1, <2>1, <2>3
  <2>6. ASSUME NEW seq \in S, NEW gap \in (tail + 1)..seq PROVE gap \in S
    <3>1. PICK k \in Nat : k = gap - a + 1 /\ k \in 1..n /\ a + k - 1 = gap
      <4>1. seq \in Nat /\ seq <= a + n - 1 /\ gap \in Int /\ tail + 1 <= gap /\ gap <= seq
        BY <1>2, <2>4, <2>6
      <4>2. gap - a + 1 \in Nat /\ gap - a + 1 \in 1..n /\ a + (gap - a + 1) - 1 = gap
        BY <2>1, <4>1, SMTT(40)
      <4> QED
        BY <4>2
    <3> QED
      BY <1>1, <2>1, <2>2, <3>1
  <2>7. Max({tail} \union S) = IF a + n - 1 > tail THEN a + n - 1 ELSE tail
    <3>1. {tail} \union S \in SUBSET Int
      BY <1>2
    <3>2. CASE a + n - 1 > tail
      <4>1. \A m \in {tail} \union S : m <= a + n - 1
        BY <1>2, <2>1, <2>4, <3>2
      <4>2. Max({tail} \union S) = a + n - 1
        BY <2>5, <3>1, <4>1, GreatestIs
      <4> QED
        BY <3>2, <4>2
    <3>3. CASE ~ (a + n - 1 > tail)
      <4>1. \A m \in {tail} \union S : m <= tail
        BY <1>2, <2>1, <2>4, <3>3
      <4>2. Max({tail} \union S) = tail
        BY <3>1, <4>1, GreatestIs
      <4> QED
        BY <3>3, <4>2
    <3> QED
      BY <3>2, <3>3
  <2> QED
    BY <1>3, <1>5, <2>1, <2>3, <2>6, <2>7
<1> QED
  BY <1>4, <1>5

InOrder(s) ==
    \A i, j \in DOMAIN s : /\ i < j /\ s[i].is = "event" /\ s[j].is = "event"
                           /\ \A k \in (i + 1)..(j - 1) : s[k].is # "event"
                           => s[j].seq = s[i].seq + 1

LEMMA HeadGoes ==
    ASSUME FeedOK, FramesTrue, LogOK, memory.cursor \in Nat, line.at = "up", line.feed # <<>>,
           line' = [line EXCEPT !.feed = Tail(@)], UNCHANGED <<log, memory.cursor>>,
           Announced' = Announced, NEW head, head = line.feed[1]
    PROVE  /\ FeedOK' /\ FramesTrue' /\ ~Rebasing' /\ line'.at = "up" /\ head \in Frames
           /\ head.seq \in Nat /\ 1 <= head.seq /\ head.seq <= memory.cursor
           /\ 1 \in DOMAIN line.feed
           /\ \A i \in DOMAIN line.feed : i # 1 => i - 1 \in DOMAIN line'.feed /\ line'.feed[i - 1] = line.feed[i]
           /\ head.is = "event" => Following(head.seq)'
           /\ head.is # "event" => \A m \in Nat : (Ahead(m) => Ahead(m)') /\ (Following(m) => Following(m)')
<1>1. PICK n \in Nat, s \in Seq(Frames), t \in Seq(Frames) :
                         /\ s = line.feed /\ s \in Seq(Frames) /\ Len(s) = n + 1 /\ DOMAIN s = 1..(n + 1)
                      /\ t = line'.feed /\ t = Tail(s) /\ line' = [at |-> "up", feed |-> t]
  <2>1. PICK s \in Seq(Frames), t \in Seq(Frames) : s = line.feed /\ s # <<>> /\ t = Tail(s)
    <3>1. PICK s : s = line.feed /\ s \in Seq(Frames) /\ s # <<>>
      BY DEF FeedOK
    <3>2. Tail(s) \in Seq(Frames)
      BY <3>1
    <3> QED
      BY <3>1, <3>2
  <2>2. line' = [at |-> "up", feed |-> t]
    <3>1. PICK a : line = [at |-> a, feed |-> s] /\ a = "up"
      BY <2>1 DEF FeedOK
    <3> QED
      BY <2>1, <3>1
  <2>3. PICK n \in Nat : Len(s) = n + 1 /\ DOMAIN s = 1..(n + 1)
    <3>1. Len(s) - 1 \in Nat /\ Len(s) = (Len(s) - 1) + 1 /\ DOMAIN s = 1..((Len(s) - 1) + 1)
      BY <2>1
    <3> QED
      BY <3>1
  <2> QED
    BY <2>1, <2>2, <2>3
<1>2. t \in Seq(Frames) /\ Len(t) = n /\ DOMAIN t = 1..n /\ \A i \in 1..n : t[i] = s[i + 1] /\ i + 1 \in 1..(n + 1)
  <2>1. t \in Seq(Frames) /\ Len(t) = n /\ \A i \in 1..Len(t) : t[i] = s[i + 1]
    BY <1>1
  <2> QED
    BY <2>1
<1>3. /\ \A i \in 1..(n + 1) : /\ s[i].is = "subscribed" => i = 1
                               /\ s[i].seq \in 1..memory.cursor
                               /\ IsEvent(i) => s[i].seq <= Announced
                               /\ Newest(i) => s[i].seq = Announced
      /\ AnnouncedInOrder
  BY <1>1 DEF FeedOK
<1>4. head = s[1] /\ head \in Frames /\ head.seq \in 1..memory.cursor
  <2>1. head = s[1] /\ 1 \in 1..(n + 1)
    BY <1>1
  <2>2. s[1] \in Frames
    BY <1>1, <2>1
  <2> QED
    BY <1>3, <2>1, <2>2
<1>5. \A i \in 1..n : IsEvent(i)' <=> IsEvent(i + 1)
  BY <1>1, <1>2 DEF IsEvent
<1>6. \A i \in 1..n : Newest(i)' => Newest(i + 1)
  <2>1. SUFFICES ASSUME NEW i \in 1..n, Newest(i)' PROVE Newest(i + 1)
    OBVIOUS
  <2>2. IsEvent(i)' /\ \A j \in (i + 1)..n : ~ IsEvent(j)'
    BY <1>1, <1>2, <2>1 DEF Newest
  <2>3. ASSUME NEW j \in (i + 2)..(n + 1) PROVE ~ IsEvent(j)
    <3>1. PICK k \in (i + 1)..n : k \in 1..n /\ j = k + 1
      <4>1. j - 1 \in (i + 1)..n /\ j - 1 \in 1..n /\ j = (j - 1) + 1
        BY <2>1, <2>3
      <4> QED
        BY <4>1
    <3> QED
      BY <1>5, <2>2, <3>1
  <2>4. IsEvent(i + 1) /\ (i + 1) + 1 = i + 2
    BY <1>5, <2>1, <2>2
  <2> QED
    BY <1>1, <2>3, <2>4 DEF Newest
<1>7. AnnouncedInOrder'
  <2>1. SUFFICES ASSUME NEW i \in 1..n, NEW j \in 1..n, i < j,
                        t[i].is = "event", t[j].is = "event",
                        \A k \in (i + 1)..(j - 1) : t[k].is # "event"
                 PROVE  t[j].seq = t[i].seq + 1
    <3>1. line'.feed = t /\ DOMAIN t = 1..n
      BY <1>1, <1>2
    <3>2. InOrder(t)
      BY <2>1, <3>1 DEF InOrder
    <3>3. InOrder(line'.feed) => AnnouncedInOrder'
      BY DEF InOrder, AnnouncedInOrder
    <3> QED
      BY <3>1, <3>2, <3>3
  <2>2. PICK a \in 1..(n + 1), b \in 1..(n + 1) : a = i + 1 /\ b = j + 1 /\ a < b
                                              /\ t[i] = s[a] /\ t[j] = s[b]
    BY <1>2, <2>1
  <2>3. ASSUME NEW k \in (a + 1)..(b - 1) PROVE s[k].is # "event"
    <3>1. PICK m \in (i + 1)..(j - 1) : m \in 1..n /\ k = m + 1
      <4>1. k - 1 \in (i + 1)..(j - 1) /\ k - 1 \in 1..n /\ k = (k - 1) + 1
        BY <2>1, <2>2, <2>3, SMTT(40)
      <4> QED
        BY <4>1
    <3> QED
      BY <1>2, <2>1, <3>1
  <2>4. s[b].seq = s[a].seq + 1
    <3>1. s[a].is = "event" /\ s[b].is = "event" /\ a \in DOMAIN line.feed /\ b \in DOMAIN line.feed
      BY <1>1, <2>1, <2>2
    <3> QED
      BY <1>1, <1>3, <2>2, <2>3, <3>1, ZenonT(40) DEF AnnouncedInOrder
  <2> QED
    BY <2>2, <2>4
<1>8. FeedOK'
  <2>1. ASSUME NEW i \in 1..n
        PROVE  /\ t[i].is = "subscribed" => i = 1 /\ line'.at = "up"
               /\ t[i].seq \in 1..memory.cursor
               /\ IsEvent(i)' => t[i].seq <= Announced
               /\ Newest(i)' => t[i].seq = Announced
    <3>1. PICK k \in 1..(n + 1) : k = i + 1 /\ k # 1 /\ t[i] = s[k]
      BY <1>2
    <3> QED
      BY <1>1, <1>3, <1>5, <1>6, <3>1
  <2>2. line' \in [at : {"down", "absent", "subscribed", "up"}, feed : Seq(Frames)] /\ line'.at = "up"
    BY <1>1, <1>2
  <2> QED
    BY <1>1, <1>2, <1>7, <2>1, <2>2 DEF FeedOK
<1>9. FramesTrue'
  <2>1. SUFFICES ASSUME NEW i \in 1..n, t[i].is = "projection"
                 PROVE  (line.feed[i].says = Shown(line.feed[i].key, line.feed[i].seq))'
    BY <1>1, <1>2 DEF FramesTrue
  <2>2. PICK j \in 1..(n + 1), g \in {s[i + 1]} : j = i + 1 /\ g = s[j] /\ g = t[i]
    BY <1>2
  <2>3. g \in Frames /\ g.is = "projection"
    BY <1>1, <2>1, <2>2
  <2>4. PICK k, m : k = g.key /\ m = g.seq /\ k \in Keys /\ m \in Nat
    BY <2>3 DEF Frames
  <2>5. g.says = Shown(k, m)
    BY <1>1, <2>2, <2>3, <2>4, ZenonT(40) DEF FramesTrue
  <2>6. Shown(k, m)' = Shown(k, m)
    BY <2>4, ShownStays
  <2> QED
    BY <1>1, <2>2, <2>4, <2>5, <2>6
<1>10. ~Rebasing'
  <2>1. ASSUME t # <<>> PROVE t[1].is # "subscribed"
    <3>1. PICK k \in 1..(n + 1) : k = 2 /\ t[1] = s[k]
      <4>1. 1 \in 1..n
        BY <1>2, <2>1
      <4> QED
        BY <1>2, <4>1
    <3> QED
      BY <1>3, <3>1
  <2> QED
    BY <1>1, <2>1 DEF Rebasing
<1>11. ASSUME head.is = "event" PROVE Following(head.seq)'
  <2>1. IsEvent(1) /\ 1 \in 1..(n + 1)
    BY <1>1, <1>11 DEF IsEvent
  <2>2. ASSUME NEW i \in 1..n, FirstEvent(i)' PROVE t[i].seq = head.seq + 1
    <3>1. t[i].is = "event" /\ \A k \in 1..(i - 1) : t[k].is # "event"
      BY <1>1, <2>2 DEF FirstEvent, IsEvent
    <3>2. PICK b \in 1..(n + 1) : b = i + 1 /\ t[i] = s[b] /\ 1 < b
      BY <1>2
    <3>3. ASSUME NEW k \in (1 + 1)..(b - 1) PROVE s[k].is # "event"
      <4>1. PICK m \in 1..(i - 1) : m \in 1..n /\ k = m + 1
        <5>1. k - 1 \in 1..(i - 1) /\ k - 1 \in 1..n /\ k = (k - 1) + 1
          BY <2>2, <3>2, <3>3, SMTT(40)
        <5> QED
          BY <5>1
      <4> QED
        BY <1>2, <3>1, <4>1
    <3>4. s[b].seq = s[1].seq + 1
      <4>1. s[1].is = "event" /\ s[b].is = "event" /\ 1 \in DOMAIN s /\ b \in DOMAIN s
        BY <1>1, <1>4, <1>11, <2>1, <3>1, <3>2
      <4>2. InOrder(s)
        <5>1. InOrder(line.feed)
          BY <1>3 DEF InOrder, AnnouncedInOrder
        <5> QED
          BY <1>1, <5>1
      <4> QED
        BY <3>2, <3>3, <4>1, <4>2 DEF InOrder
    <3> QED
      BY <1>4, <3>2, <3>4
  <2>3. ASSUME NoEvent' PROVE Announced' = head.seq
    <3>1. \A k \in 1..n : ~ IsEvent(k + 1)
      BY <1>1, <1>2, <1>5, <2>3 DEF NoEvent
    <3>2. ASSUME NEW j \in 2..(n + 1) PROVE ~ IsEvent(j)
      <4>1. PICK k \in 1..n : j = k + 1
        <5>1. j - 1 \in 1..n /\ j = (j - 1) + 1
          BY <3>2
        <5> QED
          BY <5>1
      <4> QED
        BY <3>1, <4>1
    <3>3. Newest(1)
      BY <1>1, <2>1, <3>2 DEF Newest
    <3> QED
      BY <1>3, <1>4, <2>1, <3>3
  <2> QED
    BY <1>1, <1>2, <2>2, <2>3 DEF Following
<1>12. ASSUME head.is # "event", NEW m \in Nat
       PROVE  (Ahead(m) => Ahead(m)') /\ (Following(m) => Following(m)')
  <2>1. \A i \in 1..n : FirstEvent(i)' => FirstEvent(i + 1)
    <3>1. SUFFICES ASSUME NEW i \in 1..n, FirstEvent(i)' PROVE FirstEvent(i + 1)
      OBVIOUS
    <3>2. ASSUME NEW j \in 1..i PROVE ~ IsEvent(j)
      <4>1. CASE j = 1
        BY <1>12, <4>1 DEF IsEvent
      <4>2. CASE j # 1
        <5>1. PICK k \in 1..(i - 1) : k \in 1..n /\ j = k + 1
          <6>1. j - 1 \in 1..(i - 1) /\ j - 1 \in 1..n /\ j = (j - 1) + 1
            BY <3>1, <3>2, <4>2
          <6> QED
            BY <6>1
        <5> QED
          BY <1>5, <3>1, <5>1 DEF FirstEvent
      <4> QED
        BY <4>1, <4>2
    <3>3. IsEvent(i + 1) /\ (i + 1) - 1 = i
      BY <1>5, <3>1 DEF FirstEvent
    <3> QED
      BY <3>2, <3>3 DEF FirstEvent
  <2>2. NoEvent' => NoEvent
    <3>1. SUFFICES ASSUME NoEvent', NEW j \in 1..(n + 1) PROVE ~ IsEvent(j)
      BY <1>1 DEF NoEvent
    <3>2. CASE j = 1
      BY <1>12, <3>2 DEF IsEvent
    <3>3. CASE j # 1
      <4>1. PICK k \in 1..n : j = k + 1
        <5>1. j - 1 \in 1..n /\ j = (j - 1) + 1
          BY <3>1, <3>3
        <5> QED
          BY <5>1
      <4> QED
        BY <1>1, <1>2, <1>5, <3>1, <4>1 DEF NoEvent
    <3> QED
      BY <3>2, <3>3
  <2>3. \A i \in 1..n : FirstEvent(i)' => \E j \in DOMAIN line.feed : FirstEvent(j) /\ line.feed[j] = line'.feed[i]
    BY <1>1, <1>2, <2>1
  <2>4. Ahead(m) => Ahead(m)'
    BY <1>1, <1>2, <2>2, <2>3 DEF Ahead
  <2>5. Following(m) => Following(m)'
    <3>1. DOMAIN line'.feed = 1..n
      BY <1>1, <1>2
    <3> QED
      BY <2>2, <2>3, <3>1, SMTT(40) DEF Following
  <2> QED
    BY <2>4, <2>5
<1>13. \A i \in 1..(n + 1) : i # 1 => i - 1 \in 1..n /\ t[i - 1] = s[i]
  <2>1. SUFFICES ASSUME NEW i \in 1..(n + 1), i # 1 PROVE i - 1 \in 1..n /\ t[i - 1] = s[i]
    OBVIOUS
  <2>2. PICK k \in 1..n : k = i - 1 /\ i = k + 1
    <3>1. i - 1 \in 1..n /\ i = (i - 1) + 1
      BY <2>1
    <3> QED
      BY <3>1
  <2> QED
    BY <1>2, <2>2
<1> QED
  BY <1>1, <1>2, <1>4, <1>8, <1>9, <1>10, <1>11, <1>12, <1>13

LEMMA OwedDelivered ==
    ASSUME OwedOK, LogOK, UNCHANGED <<log, handler, upset>>, Announced' = Announced,
           line.at = "up", line.feed # <<>>, NEW head, head = line.feed[1], ~Rebasing',
           \A i \in DOMAIN line.feed : i # 1 => i - 1 \in DOMAIN line'.feed /\ line'.feed[i - 1] = line.feed[i],
           head.seq \in Nat,
           \A key \in Keys : /\ rows[key].seq \in Nat /\ rows'[key].seq \in Nat
                             /\ head.is # "subscribed" => rows'[key].seq >= rows[key].seq
                             /\ Covers(key, head) => rows'[key].seq >= head.seq
    PROVE  OwedOK'
<1>1. SUFFICES ASSUME "mixed" \notin upset, NEW key \in Keys
               PROVE  (\/ ~Rebasing /\ Unchanged(key, rows[key].seq)
                       \/ \E i \in DOMAIN line.feed : Covers(key, line.feed[i])
                       \/ Owed(key))'
  BY DEF OwedOK
<1>2. \/ ~Rebasing /\ Unchanged(key, rows[key].seq)
      \/ \E i \in DOMAIN line.feed : Covers(key, line.feed[i])
      \/ Owed(key)
  BY <1>1 DEF OwedOK
<1>3. ASSUME NEW old \in Nat, Unchanged(key, old), rows'[key].seq >= old
      PROVE  Unchanged(key, rows[key].seq)'
  <2>1. PICK new \in Nat, n \in Nat : new = rows'[key].seq /\ new >= old /\ n = Len(log) /\ n = Len(log')
    <3>1. Len(log) \in Nat /\ Len(log') = Len(log)
      BY DEF LogOK
    <3> QED
      BY <1>1, <1>3, <3>1
  <2>2. (new + 1)..n \subseteq (old + 1)..n
    BY <2>1
  <2>3. \A i \in (new + 1)..n : ~ Changes(key, log'[i])
    BY <1>3, <2>1, <2>2 DEF Changes, Unchanged
  <2> QED
    BY <2>1, <2>3 DEF Unchanged
<1>4. CASE ~Rebasing /\ Unchanged(key, rows[key].seq)
  <2>1. head.is # "subscribed"
    BY <1>4 DEF Rebasing
  <2> QED
    BY <1>1, <1>3, <1>4, <2>1
<1>5. ASSUME NEW i \in DOMAIN line.feed, Covers(key, line.feed[i])
      PROVE  (\/ ~Rebasing /\ Unchanged(key, rows[key].seq)
              \/ \E j \in DOMAIN line.feed : Covers(key, line.feed[j]))'
  <2>1. CASE i = 1
    <3>1. Unchanged(key, head.seq) /\ rows'[key].seq >= head.seq
      BY <1>1, <1>5, <2>1 DEF Covers
    <3> QED
      BY <1>3, <3>1
  <2>2. CASE i # 1
    <3>1. PICK j \in DOMAIN line'.feed, f \in {line.feed[i]} : line'.feed[j] = f /\ f = line.feed[i]
      BY <1>5, <2>2
    <3>2. Covers(key, f)
      BY <1>5, <3>1
    <3>3. Covers(key, f)'
      BY <3>2 DEF Covers, Unchanged, Changes
    <3> QED
      BY <3>1, <3>3
  <2> QED
    BY <2>1, <2>2
<1>6. Owed(key) => Owed(key)'
  BY DEF Owed, Unchanged, Changes, Carrying, Toward
<1> QED
  BY <1>2, <1>4, <1>5, <1>6

LEMMA InstallKeeps ==
    ASSUME ViewInv, Install
    PROVE  ViewInv'
<1>1. /\ LogOK /\ ReceiptsOnce /\ MemoryOK /\ ReceiptsTrue /\ EngineOK /\ Unbroken
      /\ HandlersOK /\ LandedOK /\ FreshOK /\ AppendsFit /\ PoliciesOK /\ ToldOK
      /\ SyncOK /\ FeedOK /\ FramesTrue /\ KnownOK /\ RowsOK /\ OwedOK /\ ReaderOK /\ PageOK
  BY PartsOf
<1>2. UNCHANGED <<log, memory, running, routable, handler, gate, window, sync, engine, line>>
  BY DEF Install, browserVars
<1>3. reader.at = "back" /\ page.at \in {"loading", "repair"} /\ line.at = "up"
  BY <1>1 DEF Install, ReaderOK, PageOK
<1>4. PICK short \in BOOLEAN, stitched \in {Stitched(reader.asOf, page.later)} :
        /\ stitched = Stitched(reader.asOf, page.later)
        /\ rows' = [key \in Keys |-> Applied(rows[key], Shown(key, reader.values), reader.asOf)]
        /\ page' = [page EXCEPT !.at = IF short THEN "loading" ELSE "open",
                                !.again = short, !.later = <<>>,
                                !.tail = stitched.tail, !.hole = stitched.hole]
        /\ reader' = [Unread EXCEPT !.at = IF short THEN "sync" ELSE "off"]
        /\ upset' = upset \union (IF reader.values < reader.asOf THEN {"mixed"} ELSE {})
  <2>1. PICK stitched, short :
        /\ stitched = Stitched(reader.asOf, page.later)
        /\ short = (page.at = "loading" /\ ~page.again /\ page.baseline > stitched.tail)
        /\ rows' = [key \in Keys |-> Applied(rows[key], Shown(key, reader.values), reader.asOf)]
        /\ page' = [page EXCEPT !.at = IF short THEN "loading" ELSE "open",
                                !.again = short, !.later = <<>>,
                                !.tail = stitched.tail, !.hole = stitched.hole]
        /\ reader' = [Unread EXCEPT !.at = IF short THEN "sync" ELSE "off"]
        /\ upset' = upset \union (IF reader.values < reader.asOf THEN {"mixed"} ELSE {})
    BY Zenon DEF Install
  <2> QED
    BY <2>1
<1>5. PICK n \in Nat, asOf \in Nat, values \in Nat, cursor \in Nat :
        /\ n = Len(log) /\ asOf = reader.asOf /\ values = reader.values /\ cursor = memory.cursor
        /\ asOf <= n /\ values <= cursor /\ cursor <= n
  BY <1>1, CursorIn DEF ReaderOK
<1>6. PICK later \in Seq(Nat) : later = page.later /\ stitched = Stitched(asOf, later)
        /\ (IF later = <<>> THEN Ahead(asOf)
            ELSE /\ later[1] <= asOf + 1 /\ later[Len(later)] <= n /\ Following(later[Len(later)])
                 /\ \A k \in 1..Len(later) : later[k] = later[1] + k - 1)
  BY <1>1, <1>3, <1>4, <1>5 DEF PageOK
<1>7. stitched.hole = FALSE /\ stitched.tail \in Nat /\ stitched.tail <= n /\ Ahead(stitched.tail)
  <2>1. /\ stitched.hole = FALSE /\ stitched.tail \in Nat
        /\ later = <<>> => stitched.tail = asOf
        /\ later # <<>> => stitched.tail = IF later[Len(later)] > asOf THEN later[Len(later)] ELSE asOf
    BY <1>6, StitchedIs
  <2>2. CASE later = <<>>
    BY <1>5, <1>6, <2>1, <2>2
  <2>3. CASE later # <<>>
    <3>1. PICK b \in Nat : b = later[Len(later)] /\ b <= n /\ Following(b)
      BY <1>6, <2>3
    <3>2. PICK t \in Nat : t = stitched.tail /\ t >= b /\ t <= n
      BY <1>5, <2>1, <2>3, <3>1
    <3>3. \A i \in DOMAIN line.feed : FirstEvent(i) => line.feed[i].seq <= t + 1
      BY <3>1, <3>2 DEF Following
    <3>4. NoEvent => Announced <= t
      BY <3>1, <3>2 DEF Following
    <3> QED
      BY <2>1, <3>2, <3>3, <3>4 DEF Ahead
  <2> QED
    BY <2>2, <2>3
<1>8. /\ page'.at = (IF short THEN "loading" ELSE "open") /\ page'.later = <<>> /\ page'.tail = stitched.tail
      /\ page'.baseline = page.baseline /\ page'.hole = FALSE
      /\ page' = [at |-> page'.at, tail |-> page'.tail, later |-> page'.later,
                  baseline |-> page'.baseline, again |-> page'.again, hole |-> FALSE]
  <2>1. page = [at |-> page.at, tail |-> page.tail, later |-> page.later,
                baseline |-> page.baseline, again |-> page.again, hole |-> FALSE]
    BY <1>1 DEF PageOK
  <2>2. DOMAIN page = {"at", "tail", "later", "baseline", "again", "hole"}
    BY <2>1
  <2>3. PICK new : /\ new = page'
                   /\ new = [page EXCEPT !.at = IF short THEN "loading" ELSE "open",
                                !.again = short, !.later = <<>>,
                                !.tail = stitched.tail, !.hole = stitched.hole]
    BY <1>4
  <2>4. DOMAIN new = {"at", "tail", "later", "baseline", "again", "hole"}
    BY <2>2, <2>3
  <2>5. /\ new.at = (IF short THEN "loading" ELSE "open") /\ new.later = <<>> /\ new.tail = stitched.tail
        /\ new.baseline = page.baseline /\ new.hole = stitched.hole
    BY <2>2, <2>3
  <2>6. new = [x \in DOMAIN new |-> new[x]]
    BY <2>3
  <2>7. new = [at |-> new.at, tail |-> new.tail, later |-> new.later,
               baseline |-> new.baseline, again |-> new.again, hole |-> new.hole]
    BY <2>4, <2>6
  <2> QED
    BY <1>7, <2>3, <2>5, <2>7
<1>9. reader' = [at |-> IF short THEN "sync" ELSE "off", asOf |-> 0, values |-> 0]
  BY <1>4 DEF Unread
<1>10. Announced' = Announced
  BY <1>2 DEF Announced, Announcing
<1>11. upset \subseteq upset' /\ upset' \subseteq upset \union {"mixed"}
       /\ ("overtaken" \in upset' <=> "overtaken" \in upset)
       /\ ("unannounced" \in upset' <=> "unannounced" \in upset)
       /\ ("mixed" \notin upset' => asOf <= values)
  BY <1>4, <1>5
<1>12. \A key \in Keys : /\ rows'[key] = [says |-> rows'[key].says, seq |-> rows'[key].seq]
                         /\ rows'[key].seq \in Nat /\ rows'[key].seq >= rows[key].seq
                         /\ \/ rows'[key] = rows[key]
                            \/ rows'[key].says = Shown(key, values) /\ rows'[key].seq = asOf
  <2>1. SUFFICES ASSUME NEW key \in Keys
                 PROVE  /\ rows'[key] = [says |-> rows'[key].says, seq |-> rows'[key].seq]
                        /\ rows'[key].seq \in Nat /\ rows'[key].seq >= rows[key].seq
                        /\ \/ rows'[key] = rows[key]
                           \/ rows'[key].says = Shown(key, values) /\ rows'[key].seq = asOf
    OBVIOUS
  <2>2. rows[key] = [says |-> rows[key].says, seq |-> rows[key].seq] /\ rows[key].seq \in Nat
    BY <1>1 DEF RowsOK
  <2>3. rows'[key] = Applied(rows[key], Shown(key, values), asOf)
    BY <1>4, <1>5
  <2> QED
    BY <2>2, <2>3, AppliedIs
<1>13. /\ LogOK' /\ ReceiptsOnce' /\ MemoryOK' /\ EngineOK' /\ HandlersOK' /\ LandedOK'
       /\ FreshOK' /\ AppendsFit' /\ PoliciesOK' /\ FeedOK' /\ FramesTrue'
  BY <1>1, <1>2, <1>3, <1>4, <1>5, <1>6, <1>7, <1>8, <1>9, <1>10, <1>11, <1>12, LogOKSame,
     ReceiptsOnceSame, MemoryOKSame, EngineOKSame, HandlersOKSame, LandedOKSame,
     FreshOKSame, AppendsFitSame, PoliciesOKSame, FeedOKSame, FramesTrueSame
<1>14. ReceiptsTrue'
  BY <1>1, <1>2, <1>11 DEF ReceiptsTrue, ReceiptOf
<1>15. Unbroken'
  BY <1>1, <1>11 DEF Unbroken
<1>16. ToldOK'
  BY <1>1, <1>2, <1>11 DEF ToldOK, At
<1>17. SyncOK'
  <2>1. \A p \in Readers : Wanting(p) => Wanting(p)'
    BY <1>2, <1>3 DEF Wanting, At
  <2> QED
    BY <1>1, <1>2, <2>1 DEF SyncOK
<1>18. KnownOK'
  <2>1. \A key \in Keys : Owed(key) => Owed(key)'
    BY <1>2, <1>10, <1>11 DEF Owed, Unchanged, Changes, Carrying, Toward
  <2>2. \A key \in Keys : Unchanged(key, memory.cursor) => Unchanged(key, memory.cursor)'
    BY <1>2 DEF Unchanged, Changes
  <2> QED
    BY <1>1, <2>1, <2>2 DEF KnownOK
<1>19. RowsOK'
  <2>1. rows' = [key \in Keys |-> [says |-> rows'[key].says, seq |-> rows'[key].seq]]
    <3>1. PICK new : new = rows' /\ new = [key \in Keys |-> Applied(rows[key], Shown(key, reader.values), reader.asOf)]
      BY <1>4
    <3>2. DOMAIN new = Keys /\ new = [key \in DOMAIN new |-> new[key]]
      BY <3>1
    <3>3. \A key \in Keys : new[key] = [says |-> new[key].says, seq |-> new[key].seq]
      BY <1>12, <3>1
    <3> QED
      BY <3>1, <3>2, <3>3
  <2>2. ASSUME NEW key \in Keys, rows'[key] # rows[key], "mixed" \notin upset'
        PROVE  /\ rows'[key].seq <= memory.cursor
               /\ \E v \in rows'[key].seq..Len(log) : rows'[key].says = Shown(key, v)
    <3>1. rows'[key].says = Shown(key, values) /\ rows'[key].seq = asOf
      BY <1>12, <2>2
    <3>2. asOf <= cursor /\ values \in asOf..n
      BY <1>5, <1>11, <2>2
    <3> QED
      BY <1>5, <3>1, <3>2
  <2> QED
    BY <1>1, <1>2, <1>11, <1>12, <2>1, <2>2, RowsMove
<1>20. OwedOK'
  BY <1>1, <1>2, <1>10, <1>11, <1>12, OwedRises
<1>21. ReaderOK'
  <2>1. reader'.at = "off" <=> page'.at \in {"cold", "open"}
    BY <1>8, <1>9
  <2> QED
    BY <1>2, <1>5, <1>9, <2>1 DEF ReaderOK
<1>22. PageOK'
  <2>1. Ahead(stitched.tail)'
    BY <1>2, <1>7, <1>10 DEF Ahead, IsEvent, FirstEvent, NoEvent
  <2>2. page'.at = "open" => page'.tail <= Len(log) /\ Ahead(page.tail)'
    <3>1. PICK t : t = page'.tail /\ t = stitched.tail
      BY <1>8
    <3> QED
      BY <1>5, <1>7, <2>1, <3>1
  <2>3. page'.baseline \in Nat
    BY <1>1, <1>8 DEF PageOK
  <2>4. reader'.at \notin {"values", "back"}
    BY <1>9
  <2>5. page'.at \in {"loading", "open"} /\ page'.tail \in Nat /\ page'.later = <<>> /\ line'.at = "up"
    BY <1>2, <1>3, <1>7, <1>8
  <2> QED
    BY <1>2, <1>8, <2>2, <2>3, <2>4, <2>5 DEF PageOK
<1> QED
  BY <1>13, <1>14, <1>15, <1>16, <1>17, <1>18, <1>19, <1>20, <1>21, <1>22 DEF ViewInv,
     LogInv, TaskInv, FeedInv, ShowInv

LEMMA MovedRow ==
    ASSUME rows = [key \in Keys |-> [says |-> rows[key].says, seq |-> rows[key].seq]],
           \A key \in Keys : rows[key].seq \in Nat,
           NEW k \in Keys, NEW new, new = [says |-> new.says, seq |-> new.seq], new.seq \in Nat,
           new.seq >= rows[k].seq, rows' = [rows EXCEPT ![k] = new]
    PROVE  /\ rows' = [key \in Keys |-> [says |-> rows'[key].says, seq |-> rows'[key].seq]]
           /\ \A key \in Keys : /\ rows'[key].seq \in Nat /\ rows'[key].seq >= rows[key].seq
                                /\ key # k => rows'[key] = rows[key]
           /\ rows'[k] = new
<1>1. DOMAIN rows = Keys
  OBVIOUS
<1>2. PICK next : next = rows' /\ next = [rows EXCEPT ![k] = new]
  OBVIOUS
<1>3. DOMAIN next = Keys /\ next[k] = new /\ \A key \in Keys : key # k => next[key] = rows[key]
  BY <1>1, <1>2
<1>4. \A key \in Keys : rows[key] = [says |-> rows[key].says, seq |-> rows[key].seq]
  OBVIOUS
<1>5. \A key \in Keys : next[key] = [says |-> next[key].says, seq |-> next[key].seq]
  BY <1>3, <1>4
<1>6. next = [key \in DOMAIN next |-> next[key]]
  BY <1>2
<1>7. next = [key \in Keys |-> [says |-> next[key].says, seq |-> next[key].seq]]
  BY <1>3, <1>5, <1>6
<1> QED
  BY <1>2, <1>3, <1>7

LEMMA DeliverEventKeeps ==
    ASSUME ViewInv, Deliver, Head(line.feed).is = "event"
    PROVE  ViewInv'
<1>1. /\ LogOK /\ ReceiptsOnce /\ MemoryOK /\ ReceiptsTrue /\ EngineOK /\ Unbroken
      /\ HandlersOK /\ LandedOK /\ FreshOK /\ AppendsFit /\ PoliciesOK /\ ToldOK
      /\ SyncOK /\ FeedOK /\ FramesTrue /\ KnownOK /\ RowsOK /\ OwedOK /\ ReaderOK /\ PageOK
  BY PartsOf
<1>2. UNCHANGED <<log, memory, running, routable, handler, gate, window, sync, engine, upset>>
  BY DEF Deliver, browserVars
<1>3. line.at = "up" /\ line.feed # <<>> /\ line' = [line EXCEPT !.feed = Tail(@)]
  BY DEF Deliver
<1>4. PICK c \in Nat, n \in Nat : c = memory.cursor /\ n = Len(log) /\ c <= n
  BY <1>1, CursorIn
<1>5. Announced' = Announced
  BY <1>2 DEF Announced, Announcing
<1>6. PICK head : head = Head(line.feed) /\ head = line.feed[1] /\ head.is = "event"
  BY <1>1, <1>3 DEF FeedOK
<1>7. /\ FeedOK' /\ FramesTrue' /\ ~Rebasing' /\ line'.at = "up" /\ head \in Frames
      /\ head.seq \in Nat /\ 1 <= head.seq /\ head.seq <= memory.cursor /\ 1 \in DOMAIN line.feed
      /\ \A i \in DOMAIN line.feed : i # 1 => i - 1 \in DOMAIN line'.feed /\ line'.feed[i - 1] = line.feed[i]
      /\ head.is = "event" => Following(head.seq)'
      /\ head.is # "event" => \A m \in Nat : (Ahead(m) => Ahead(m)') /\ (Following(m) => Following(m)')
  BY <1>1, <1>2, <1>3, <1>4, <1>5, <1>6, HeadGoes
<1>8. PICK s \in Nat : s = head.seq /\ 1 <= s /\ s <= c /\ s <= n
  BY <1>4, <1>7
<1>9. /\ Accept(s)
      /\ rows' = IF log[s].is # "end" THEN rows
                 ELSE [rows EXCEPT !["usage"] = Applied(@, Shown("usage", s), s)]
  BY <1>6, <1>8 DEF Deliver
<1>10. /\ rows' = [key \in Keys |-> [says |-> rows'[key].says, seq |-> rows'[key].seq]]
       /\ \A key \in Keys : /\ rows'[key].seq \in Nat /\ rows'[key].seq >= rows[key].seq
                            /\ key = "usage" /\ log[s].is = "end" => rows'[key].seq >= s
                            /\ \/ rows'[key] = rows[key]
                               \/ rows'[key].says = Shown(key, s) /\ rows'[key].seq = s
  <2>1. /\ rows = [key \in Keys |-> [says |-> rows[key].says, seq |-> rows[key].seq]]
        /\ \A key \in Keys : rows[key].seq \in Nat
    BY <1>1 DEF RowsOK
  <2>2. CASE log[s].is # "end"
    BY <1>9, <2>1, <2>2, SMTT(40)
  <2>3. CASE log[s].is = "end"
    <3>1. "usage" \in Keys
      BY DEF Keys
    <3>2. PICK new, row : /\ row = rows["usage"] /\ new = Applied(row, Shown("usage", s), s)
                          /\ row = [says |-> row.says, seq |-> row.seq] /\ row.seq \in Nat
      BY <2>1, <3>1
    <3>3. rows' = [rows EXCEPT !["usage"] = new]
      BY <1>9, <2>3, <3>2
    <3>4. /\ new = [says |-> new.says, seq |-> new.seq] /\ new.seq \in Nat /\ new.seq >= row.seq /\ new.seq >= s
          /\ new = row \/ (new.says = Shown("usage", s) /\ new.seq = s)
      BY <3>2, AppliedIs
    <3> QED
      BY <2>1, <3>1, <3>2, <3>3, <3>4, MovedRow
  <2> QED
    BY <2>2, <2>3
<1>11. /\ reader' = reader /\ page'.at = page.at /\ page'.baseline = page.baseline
       /\ page' = [at |-> page'.at, tail |-> page'.tail, later |-> page'.later,
                   baseline |-> page'.baseline, again |-> page'.again, hole |-> FALSE]
       /\ page.at \in {"loading", "repair"} =>
            page'.later = Append(page.later, s) /\ page'.tail = page.tail
       /\ page.at = "open" =>
            page'.later = <<>> /\ page'.tail \in Nat /\ page'.tail >= s
            /\ (page'.tail = s \/ page'.tail = page.tail)
       /\ page.at = "cold" => page' = page
  <2>1. page = [at |-> page.at, tail |-> page.tail, later |-> page.later,
                baseline |-> page.baseline, again |-> page.again, hole |-> FALSE]
        /\ page.at \in {"cold", "loading", "repair", "open"} /\ page.tail \in Nat
        /\ (page.at = "open" => page.later = <<>>)
    BY <1>1 DEF PageOK
  <2>2. DOMAIN page = {"at", "tail", "later", "baseline", "again", "hole"} /\ page.hole = FALSE
    BY <2>1
  <2>3. CASE page.at \in {"loading", "repair"}
    <3>1. reader' = reader /\ page' = [page EXCEPT !.later = Append(@, s)]
      BY <1>9, <2>3 DEF Accept
    <3>2. PICK new : new = page' /\ new = [page EXCEPT !.later = Append(@, s)]
      BY <3>1
    <3>3. /\ DOMAIN new = {"at", "tail", "later", "baseline", "again", "hole"}
          /\ new.at = page.at /\ new.tail = page.tail /\ new.later = Append(page.later, s)
          /\ new.baseline = page.baseline /\ new.hole = FALSE
          /\ new = [x \in DOMAIN new |-> new[x]]
      BY <2>2, <3>2
    <3>4. new = [at |-> new.at, tail |-> new.tail, later |-> new.later,
                 baseline |-> new.baseline, again |-> new.again, hole |-> FALSE]
      BY <3>3
    <3> QED
      BY <2>3, <3>1, <3>2, <3>3, <3>4
  <2>4. CASE page.at = "open"
    <3>1. s <= page.tail + 1
      <4>1. Ahead(page.tail)
        BY <1>1, <2>4 DEF PageOK
      <4>2. FirstEvent(1)
        BY <1>6 DEF FirstEvent, IsEvent
      <4> QED
        BY <1>6, <1>7, <1>8, <4>1, <4>2 DEF Ahead
    <3>2. reader' = reader /\ page' = [page EXCEPT !.tail = Max({@, s})]
      <4>1. page.at \notin {"loading", "repair"} /\ ~ (s > page.tail + 1)
        BY <1>8, <2>1, <2>4, <3>1
      <4> QED
        BY <1>9, <2>4, <3>1, <4>1, Zenon DEF Accept
    <3>3. PICK m \in Nat : m = Max({page.tail, s}) /\ m >= s /\ (m = s \/ m = page.tail)
      <4>1. PICK t \in Nat : t = page.tail
        BY <2>1
      <4>2. {t, s} \in SUBSET Int
        OBVIOUS
      <4>3. CASE s >= t
        <5>1. s \in {t, s} /\ \A m \in {t, s} : m <= s
          BY <4>3
        <5>2. Max({t, s}) = s
          BY <4>2, <5>1, GreatestIs
        <5> QED
          BY <4>1, <5>2
      <4>4. CASE ~ (s >= t)
        <5>1. t \in {t, s} /\ \A m \in {t, s} : m <= t
          BY <4>4
        <5>2. Max({t, s}) = t
          BY <4>2, <5>1, GreatestIs
        <5> QED
          BY <4>1, <4>4, <5>2
      <4> QED
        BY <4>3, <4>4
    <3>4. PICK new : new = page' /\ new = [page EXCEPT !.tail = m]
      BY <3>2, <3>3
    <3>5. /\ DOMAIN new = {"at", "tail", "later", "baseline", "again", "hole"}
          /\ new.at = page.at /\ new.tail = m /\ new.later = page.later
          /\ new.baseline = page.baseline /\ new.hole = FALSE
          /\ new = [x \in DOMAIN new |-> new[x]]
      BY <2>2, <3>4
    <3>6. new = [at |-> new.at, tail |-> new.tail, later |-> new.later,
                 baseline |-> new.baseline, again |-> new.again, hole |-> FALSE]
      BY <3>5
    <3> QED
      BY <2>1, <2>4, <3>2, <3>3, <3>4, <3>5, <3>6
  <2>5. CASE page.at = "cold"
    <3>1. page' = page /\ reader' = reader
      BY <1>9, <2>5 DEF Accept
    <3> QED
      BY <2>1, <2>5, <3>1
  <2> QED
    BY <2>1, <2>3, <2>4, <2>5
<1>12. Following(s)' /\ \A t \in Nat : t >= s => Ahead(t)'
  <2>1. Following(s)'
    BY <1>6, <1>7, <1>8
  <2>2. \A t \in Nat : t >= s => Ahead(t)'
    BY <1>8, <2>1, SMTT(40) DEF Following, Ahead
  <2> QED
    BY <2>1, <2>2
<1>13. /\ LogOK' /\ ReceiptsOnce' /\ MemoryOK' /\ ReceiptsTrue' /\ EngineOK' /\ Unbroken'
       /\ HandlersOK' /\ LandedOK' /\ FreshOK' /\ AppendsFit' /\ PoliciesOK' /\ ToldOK'
       /\ KnownOK'
  BY <1>1, <1>2, <1>3, <1>4, <1>5, <1>6, <1>7, <1>8, <1>9, <1>10, <1>11, <1>12, LogOKSame,
     ReceiptsOnceSame, MemoryOKSame, ReceiptsTrueSame, EngineOKSame, UnbrokenSame,
     HandlersOKSame, LandedOKSame, FreshOKSame, AppendsFitSame, PoliciesOKSame, ToldOKSame,
     KnownOKSame
<1>14. SyncOK'
  BY <1>1, <1>2, <1>11, SyncOKSame
<1>15. FeedOK'
  BY <1>7
<1>16. FramesTrue'
  BY <1>7
<1>17. RowsOK'
  <2>1. rows' = [key \in Keys |-> [says |-> rows'[key].says, seq |-> rows'[key].seq]]
    BY <1>10
  <2>2. \A key \in Keys : \/ rows'[key] = rows[key]
                          \/ /\ rows'[key].seq \in Nat /\ rows'[key].seq <= memory.cursor
                             /\ \E v \in rows'[key].seq..Len(log) : rows'[key].says = Shown(key, v)
    <3>1. ASSUME NEW key \in Keys, rows'[key].seq = s /\ rows'[key].says = Shown(key, s)
          PROVE  /\ rows'[key].seq \in Nat /\ rows'[key].seq <= memory.cursor
                 /\ \E v \in rows'[key].seq..Len(log) : rows'[key].says = Shown(key, v)
      <4>1. s \in s..n
        BY <1>8
      <4> QED
        BY <1>4, <1>8, <3>1, <4>1
    <3> QED
      BY <1>10, <3>1
  <2> QED
    BY <1>1, <1>2, <2>1, <2>2, RowsMove
<1>18. OwedOK'
  <2>1. \A key \in Keys : rows[key].seq \in Nat
    BY <1>1 DEF RowsOK
  <2>2. \A key \in Keys : /\ rows'[key].seq \in Nat
                          /\ head.is # "subscribed" => rows'[key].seq >= rows[key].seq
                          /\ Covers(key, head) => rows'[key].seq >= head.seq
    BY <1>6, <1>8, <1>10 DEF Covers
  <2> QED
    BY <1>1, <1>2, <1>3, <1>5, <1>6, <1>7, <2>1, <2>2, OwedDelivered
<1>19. ReaderOK'
  <2>1. reader' = reader /\ page'.at = page.at
    BY <1>11
  <2> QED
    BY <1>1, <1>2, <2>1 DEF ReaderOK
<1>20. PageOK'
  <2>1. /\ page'.at \in {"cold", "loading", "repair", "open"} /\ page'.tail \in Nat /\ page'.later \in Seq(Nat)
        /\ page'.baseline \in Nat /\ (page'.at # "cold" => line'.at = "up")
        /\ page'.at \notin {"loading", "repair"} => page'.later = <<>>
    <3>1. page.at \in {"cold", "loading", "repair", "open"} /\ page.baseline \in Nat /\ page.tail \in Nat
          /\ page.later \in Seq(Nat) /\ (page.at \notin {"loading", "repair"} => page.later = <<>>)
      BY <1>1 DEF PageOK
    <3>2. Append(page.later, s) \in Seq(Nat)
      BY <1>8, <3>1
    <3> QED
      BY <1>7, <1>11, <3>1, <3>2
  <2>2. page'.at = "open" => page'.tail <= Len(log') /\ Ahead(page.tail)'
    <3>1. SUFFICES ASSUME page'.at = "open" PROVE page'.tail <= Len(log') /\ Ahead(page.tail)'
      OBVIOUS
    <3>2. PICK t \in Nat : t = page'.tail /\ t >= s /\ (t = s \/ t = page.tail) /\ page.at = "open"
      BY <1>11, <3>1
    <3>3. page.tail <= n
      BY <1>1, <1>4, <3>2 DEF PageOK
    <3>4. t <= n /\ Ahead(t)'
      BY <1>8, <1>12, <3>2, <3>3
    <3> QED
      BY <1>2, <1>4, <3>2, <3>4
  <2>3. page'.at \in {"cold", "open"} =>
          PageOK'
    <3>1. page'.at \in {"cold", "open"} => page'.later = <<>> /\ reader'.at = "off"
      <4>1. page'.at \in {"cold", "open"} => page'.later = <<>>
        BY <2>1
      <4> QED
        BY <1>1, <1>11, <4>1 DEF ReaderOK
    <3> QED
      BY <1>11, <2>1, <2>2, <3>1 DEF PageOK
  <2>4. ASSUME page'.at \in {"loading", "repair"} PROVE PageOK'
    <3>1. page.at \in {"loading", "repair"} /\ page'.later = Append(page.later, s)
      BY <1>11, <2>4
    <3>2. PICK old \in Seq(Nat), m \in Nat : old = page.later /\ m = Len(old)
      BY <1>1 DEF PageOK
    <3>3. PICK new : /\ new = page'.later /\ new \in Seq(Nat) /\ Len(new) = m + 1 /\ new[m + 1] = s
                     /\ \A k \in 1..m : new[k] = old[k]
      <4>1. PICK new : new = Append(old, s) /\ new = page'.later
        BY <3>1, <3>2
      <4>2. /\ new \in Seq(Nat) /\ Len(new) = m + 1 /\ new[m + 1] = s
            /\ \A k \in 1..m : new[k] = old[k]
        <5>1. /\ Append(old, s) \in Seq(Nat) /\ Len(Append(old, s)) = Len(old) + 1
              /\ \A k \in 1..Len(old) : Append(old, s)[k] = old[k]
              /\ Append(old, s)[Len(old) + 1] = s
          BY <1>8, <3>2, AppendProperties
        <5> QED
          BY <3>2, <4>1, <5>1
      <4> QED
        BY <4>1, <4>2
    <3>4. FirstEvent(1)
      BY <1>6 DEF FirstEvent, IsEvent
    <3>5. old # <<>> => /\ s = old[m] + 1 /\ m >= 1 /\ \A k \in 1..m : old[k] = old[1] + k - 1
      <4>1. SUFFICES ASSUME old # <<>>
                     PROVE  /\ s = old[m] + 1 /\ m >= 1 /\ \A k \in 1..m : old[k] = old[1] + k - 1
        OBVIOUS
      <4>2. Following(old[m]) /\ \A k \in 1..m : old[k] = old[1] + k - 1
        BY <1>1, <3>2, <4>1 DEF PageOK
      <4>3. m >= 1
        BY <3>2, <4>1
      <4> QED
        BY <1>6, <1>7, <1>8, <3>4, <4>2, <4>3 DEF Following
    <3>6. \A k \in 1..Len(new) : new[k] = new[1] + k - 1
      <4>1. CASE old = <<>>
        <5>1. m = 0
          BY <3>2, <4>1
        <5> QED
          BY <1>8, <3>3, <5>1
      <4>2. CASE old # <<>>
        <5>1. PICK a \in Nat : a = old[1] /\ a = new[1] /\ \A k \in 1..m : old[k] = a + k - 1
          <6>1. 1 \in 1..m /\ m \in 1..m
            BY <3>2, <3>5, <4>2
          <6>2. old[1] \in Nat /\ new[1] = old[1]
            BY <3>2, <3>3, <6>1
          <6> QED
            BY <3>5, <4>2, <6>2
        <5>2. old[m] = a + m - 1
          <6>1. m \in 1..m
            BY <3>2, <3>5, <4>2
          <6> QED
            BY <5>1, <6>1
        <5>3. new[m + 1] = a + (m + 1) - 1
          <6>1. s = a + m - 1 + 1
            BY <3>5, <4>2, <5>2
          <6>2. a + m - 1 + 1 = a + (m + 1) - 1
            OBVIOUS
          <6>3. new[m + 1] = s
            BY <3>3
          <6> QED
            BY <6>1, <6>2, <6>3
        <5>4. ASSUME NEW k \in 1..(m + 1) PROVE new[k] = a + k - 1
          <6>1. CASE k \in 1..m
            BY <3>3, <5>1, <6>1
          <6>2. CASE k \notin 1..m
            <7>1. k = m + 1
              BY <3>2, <5>4, <6>2
            <7> QED
              BY <5>3, <7>1
          <6> QED
            BY <6>1, <6>2
        <5> QED
          BY <3>3, <5>1, <5>4
      <4> QED
        BY <4>1, <4>2
    <3>7. new[Len(new)] <= Len(log') /\ Following(new[Len(new)])'
      BY <1>2, <1>4, <1>8, <1>12, <3>3
    <3>8. reader'.at \in {"values", "back"} => new[1] <= reader'.asOf + 1
      <4>1. SUFFICES ASSUME reader.at \in {"values", "back"} PROVE new[1] <= reader.asOf + 1
        BY <1>11
      <4>2. reader.asOf \in Nat
        BY <1>1 DEF ReaderOK
      <4>3. CASE old = <<>>
        <5>1. m = 0 /\ Ahead(reader.asOf)
          BY <1>1, <3>2, <4>1, <4>3 DEF PageOK
        <5>2. s <= reader.asOf + 1
          BY <1>6, <1>7, <1>8, <3>4, <5>1 DEF Ahead
        <5> QED
          BY <3>3, <5>1, <5>2
      <4>4. CASE old # <<>>
        <5>1. old[1] <= reader.asOf + 1
          BY <1>1, <3>2, <4>1, <4>4 DEF PageOK
        <5> QED
          BY <3>3, <3>5, <4>4, <5>1
      <4> QED
        BY <4>3, <4>4
    <3>9. new # <<>>
      BY <3>2, <3>3
    <3>10. /\ page'.later # <<>>
           /\ \A k \in 1..Len(page'.later) : page'.later[k] = page'.later[1] + k - 1
           /\ page'.later[Len(page'.later)] <= Len(log')
           /\ Following(page.later[Len(page.later)])'
           /\ reader'.at \in {"values", "back"} => page'.later[1] <= reader'.asOf + 1
      BY <3>3, <3>6, <3>7, <3>8, <3>9
    <3> QED
      BY <1>11, <2>1, <2>4, <3>10 DEF PageOK
  <2> QED
    BY <2>1, <2>3, <2>4
<1> QED
  BY <1>13, <1>14, <1>15, <1>16, <1>17, <1>18, <1>19, <1>20 DEF ViewInv, LogInv, TaskInv,
     FeedInv, ShowInv

LEMMA DeliverProjectionKeeps ==
    ASSUME ViewInv, Deliver, Head(line.feed).is = "projection"
    PROVE  ViewInv'
<1>1. /\ LogOK /\ ReceiptsOnce /\ MemoryOK /\ ReceiptsTrue /\ EngineOK /\ Unbroken
      /\ HandlersOK /\ LandedOK /\ FreshOK /\ AppendsFit /\ PoliciesOK /\ ToldOK
      /\ SyncOK /\ FeedOK /\ FramesTrue /\ KnownOK /\ RowsOK /\ OwedOK /\ ReaderOK /\ PageOK
  BY PartsOf
<1>2. UNCHANGED <<log, memory, running, routable, handler, gate, window, sync, engine, upset>>
  BY DEF Deliver, browserVars
<1>3. line.at = "up" /\ line.feed # <<>> /\ line' = [line EXCEPT !.feed = Tail(@)]
  BY DEF Deliver
<1>4. PICK c \in Nat, n \in Nat : c = memory.cursor /\ n = Len(log) /\ c <= n
  BY <1>1, CursorIn
<1>5. Announced' = Announced
  BY <1>2 DEF Announced, Announcing
<1>6. PICK head : head = Head(line.feed) /\ head = line.feed[1] /\ head.is = "projection"
  BY <1>1, <1>3 DEF FeedOK
<1>7. /\ FeedOK' /\ FramesTrue' /\ ~Rebasing' /\ line'.at = "up" /\ head \in Frames
      /\ head.seq \in Nat /\ 1 <= head.seq /\ head.seq <= memory.cursor /\ 1 \in DOMAIN line.feed
      /\ \A i \in DOMAIN line.feed : i # 1 => i - 1 \in DOMAIN line'.feed /\ line'.feed[i - 1] = line.feed[i]
      /\ head.is = "event" => Following(head.seq)'
      /\ head.is # "event" => \A m \in Nat : (Ahead(m) => Ahead(m)') /\ (Following(m) => Following(m)')
  BY <1>1, <1>2, <1>3, <1>4, <1>5, <1>6, HeadGoes
<1>8. PICK s \in Nat : s = head.seq /\ 1 <= s /\ s <= c /\ s <= n
  BY <1>4, <1>7
<1>9. PICK k \in Keys, says \in {head.says} :
                             /\ k = head.key /\ says = head.says /\ says = Shown(k, s)
                             /\ rows' = [rows EXCEPT ![k] = Applied(@, says, s)]
  <2>1. rows' = [rows EXCEPT ![head.key] = Applied(@, head.says, head.seq)]
    BY <1>6 DEF Deliver
  <2>2. head.key \in Keys
    BY <1>6, <1>7 DEF Frames
  <2>3. head.says = Shown(head.key, head.seq)
    BY <1>1, <1>6, <1>7, SMTT(40) DEF FramesTrue
  <2> QED
    BY <1>8, <2>1, <2>2, <2>3
<1>10. /\ rows' = [key \in Keys |-> [says |-> rows'[key].says, seq |-> rows'[key].seq]]
       /\ \A key \in Keys : /\ rows'[key].seq \in Nat /\ rows'[key].seq >= rows[key].seq
                            /\ key = k => rows'[key].seq >= s
                            /\ \/ rows'[key] = rows[key]
                               \/ rows'[key].says = Shown(key, s) /\ rows'[key].seq = s
  <2>1. /\ rows = [key \in Keys |-> [says |-> rows[key].says, seq |-> rows[key].seq]]
        /\ \A key \in Keys : rows[key].seq \in Nat
    BY <1>1 DEF RowsOK
  <2>2. PICK new, row : /\ row = rows[k] /\ new = Applied(row, says, s)
                        /\ row = [says |-> row.says, seq |-> row.seq] /\ row.seq \in Nat
    BY <2>1
  <2>3. rows' = [rows EXCEPT ![k] = new]
    BY <1>9, <2>2
  <2>4. /\ new = [says |-> new.says, seq |-> new.seq] /\ new.seq \in Nat /\ new.seq >= row.seq /\ new.seq >= s
        /\ new = row \/ (new.says = says /\ new.seq = s)
    BY <2>2, AppliedIs
  <2> QED
    BY <1>9, <2>1, <2>2, <2>3, <2>4, MovedRow
<1>11. /\ reader' = reader /\ page'.at = page.at /\ page'.tail = page.tail /\ page'.later = page.later
       /\ page'.baseline \in Nat
       /\ page' = [at |-> page'.at, tail |-> page'.tail, later |-> page'.later,
                   baseline |-> page'.baseline, again |-> page'.again, hole |-> FALSE]
  <2>1. reader' = reader /\ page' = page
    BY <1>6, SMTT(40) DEF Deliver
  <2> QED
    BY <1>1, <2>1 DEF PageOK
<1>12. /\ LogOK' /\ ReceiptsOnce' /\ MemoryOK' /\ ReceiptsTrue' /\ EngineOK' /\ Unbroken'
       /\ HandlersOK' /\ LandedOK' /\ FreshOK' /\ AppendsFit' /\ PoliciesOK' /\ ToldOK'
       /\ KnownOK'
  BY <1>1, <1>2, <1>3, <1>4, <1>5, <1>6, <1>7, <1>8, <1>9, <1>10, <1>11, LogOKSame,
     ReceiptsOnceSame, MemoryOKSame, ReceiptsTrueSame, EngineOKSame, UnbrokenSame,
     HandlersOKSame, LandedOKSame, FreshOKSame, AppendsFitSame, PoliciesOKSame, ToldOKSame,
     KnownOKSame
<1>13. SyncOK'
  BY <1>1, <1>2, <1>11, SyncOKSame
<1>14. FeedOK'
  BY <1>7
<1>15. FramesTrue'
  BY <1>7
<1>16. RowsOK'
  <2>1. rows' = [key \in Keys |-> [says |-> rows'[key].says, seq |-> rows'[key].seq]]
    BY <1>10
  <2>2. \A key \in Keys : \/ rows'[key] = rows[key]
                          \/ /\ rows'[key].seq \in Nat /\ rows'[key].seq <= memory.cursor
                             /\ \E v \in rows'[key].seq..Len(log) : rows'[key].says = Shown(key, v)
    <3>1. ASSUME NEW key \in Keys, rows'[key].seq = s /\ rows'[key].says = Shown(key, s)
          PROVE  /\ rows'[key].seq \in Nat /\ rows'[key].seq <= memory.cursor
                 /\ \E v \in rows'[key].seq..Len(log) : rows'[key].says = Shown(key, v)
      <4>1. s \in s..n
        BY <1>8
      <4> QED
        BY <1>4, <1>8, <3>1, <4>1
    <3> QED
      BY <1>10, <3>1
  <2> QED
    BY <1>1, <1>2, <2>1, <2>2, RowsMove
<1>17. OwedOK'
  <2>1. \A key \in Keys : rows[key].seq \in Nat
    BY <1>1, SMTT(40) DEF RowsOK
  <2>2. \A key \in Keys : /\ rows'[key].seq \in Nat
                          /\ head.is # "subscribed" => rows'[key].seq >= rows[key].seq
                          /\ Covers(key, head) => rows'[key].seq >= head.seq
    BY <1>6, <1>8, <1>9, <1>10 DEF Covers
  <2> QED
    BY <1>1, <1>2, <1>3, <1>5, <1>6, <1>7, <2>1, <2>2, OwedDelivered
<1>18. ReaderOK'
  <2>1. reader' = reader /\ page'.at = page.at
    BY <1>11
  <2> QED
    BY <1>1, <1>2, <2>1 DEF ReaderOK
<1>19. PageOK'
  <2>1. \A m \in Nat : (Ahead(m) => Ahead(m)') /\ (Following(m) => Following(m)')
    BY <1>6, <1>7
  <2>2. /\ page.tail \in Nat /\ page.later \in Seq(Nat) /\ reader.asOf \in Nat
        /\ page.later # <<>> => page.later[Len(page.later)] \in Nat
    <3>1. page.tail \in Nat /\ page.later \in Seq(Nat) /\ reader.asOf \in Nat
      BY <1>1 DEF PageOK, ReaderOK
    <3> QED
      BY <3>1
  <2>3. /\ page'.at = "open" => page'.tail <= Len(log') /\ Ahead(page.tail)'
        /\ page'.later # <<>> =>
             /\ \A i \in 1..Len(page'.later) : page'.later[i] = page'.later[1] + i - 1
             /\ page'.later[Len(page'.later)] <= Len(log') /\ Following(page.later[Len(page.later)])'
        /\ reader'.at \in {"values", "back"} =>
             IF page'.later = <<>> THEN Ahead(reader.asOf)' ELSE page'.later[1] <= reader'.asOf + 1
    <3>1. PICK t \in Nat, l \in Seq(Nat), a \in Nat :
            /\ t = page.tail /\ t = page'.tail /\ l = page.later /\ l = page'.later /\ page'.at = page.at
            /\ a = reader.asOf /\ a = reader'.asOf /\ reader'.at = reader.at /\ log' = log
      BY <1>2, <2>2, <1>11
    <3>2. /\ page.at = "open" => t <= Len(log) /\ Ahead(t)
          /\ l # <<>> => /\ \A i \in 1..Len(l) : l[i] = l[1] + i - 1
                         /\ l[Len(l)] <= Len(log) /\ Following(l[Len(l)]) /\ l[Len(l)] \in Nat
          /\ reader.at \in {"values", "back"} => IF l = <<>> THEN Ahead(a) ELSE l[1] <= a + 1
      BY <1>1, <2>2, <3>1 DEF PageOK
    <3>3. /\ page.at = "open" => t <= Len(log) /\ Ahead(t)'
          /\ l # <<>> => /\ \A i \in 1..Len(l) : l[i] = l[1] + i - 1
                         /\ l[Len(l)] <= Len(log) /\ Following(l[Len(l)])'
          /\ reader.at \in {"values", "back"} => IF l = <<>> THEN Ahead(a)' ELSE l[1] <= a + 1
      BY <2>1, <3>2
    <3> QED
      BY <3>1, <3>3
  <2>4. /\ page'.at \in {"cold", "loading", "repair", "open"} /\ page'.tail \in Nat
        /\ page'.later \in Seq(Nat) /\ page'.baseline \in Nat
        /\ page'.at # "cold" => line'.at = "up"
        /\ page'.at \notin {"loading", "repair"} => page'.later = <<>>
    BY <1>1, <1>7, <1>8, <1>11 DEF PageOK
  <2>5. page' = [at |-> page'.at, tail |-> page'.tail, later |-> page'.later,
                 baseline |-> page'.baseline, again |-> page'.again, hole |-> FALSE]
    BY <1>11
  <2> QED
    BY <2>3, <2>4, <2>5 DEF PageOK
<1> QED
  BY <1>12, <1>13, <1>14, <1>15, <1>16, <1>17, <1>18, <1>19 DEF ViewInv, LogInv, TaskInv,
     FeedInv, ShowInv

LEMMA DeliverBaselineKeeps ==
    ASSUME ViewInv, Deliver, Head(line.feed).is = "subscribed"
    PROVE  ViewInv'
<1>1. /\ LogOK /\ ReceiptsOnce /\ MemoryOK /\ ReceiptsTrue /\ EngineOK /\ Unbroken
      /\ HandlersOK /\ LandedOK /\ FreshOK /\ AppendsFit /\ PoliciesOK /\ ToldOK
      /\ SyncOK /\ FeedOK /\ FramesTrue /\ KnownOK /\ RowsOK /\ OwedOK /\ ReaderOK /\ PageOK
  BY PartsOf
<1>2. UNCHANGED <<log, memory, running, routable, handler, gate, window, sync, engine, upset>>
  BY DEF Deliver, browserVars
<1>3. line.at = "up" /\ line.feed # <<>> /\ line' = [line EXCEPT !.feed = Tail(@)]
  BY DEF Deliver
<1>4. PICK c \in Nat, n \in Nat : c = memory.cursor /\ n = Len(log) /\ c <= n
  BY <1>1, CursorIn
<1>5. Announced' = Announced
  BY <1>2 DEF Announced, Announcing
<1>6. PICK head : head = Head(line.feed) /\ head = line.feed[1] /\ head.is = "subscribed"
  BY <1>1, <1>3 DEF FeedOK
<1>7. /\ FeedOK' /\ FramesTrue' /\ ~Rebasing' /\ line'.at = "up" /\ head \in Frames
      /\ head.seq \in Nat /\ 1 <= head.seq /\ head.seq <= memory.cursor /\ 1 \in DOMAIN line.feed
      /\ \A i \in DOMAIN line.feed : i # 1 => i - 1 \in DOMAIN line'.feed /\ line'.feed[i - 1] = line.feed[i]
      /\ head.is = "event" => Following(head.seq)'
      /\ head.is # "event" => \A m \in Nat : (Ahead(m) => Ahead(m)') /\ (Following(m) => Following(m)')
  BY <1>1, <1>2, <1>3, <1>4, <1>5, <1>6, HeadGoes
<1>8. PICK s \in Nat : s = head.seq /\ 1 <= s /\ s <= c /\ s <= n
  BY <1>4, <1>7
<1>9. rows' = [key \in Keys |-> Rebased(key, s)] /\ page' = [page EXCEPT !.baseline = s] /\ reader' = reader
  BY <1>6, <1>8 DEF Deliver
<1>10. /\ rows' = [key \in Keys |-> [says |-> rows'[key].says, seq |-> rows'[key].seq]]
       /\ \A key \in Keys : /\ rows'[key].seq \in Nat /\ rows'[key].seq >= s
                            /\ \/ rows'[key] = rows[key]
                               \/ rows'[key].says = Shown(key, s) /\ rows'[key].seq = s
  <2>1. \A key \in Keys : rows[key] = [says |-> rows[key].says, seq |-> rows[key].seq] /\ rows[key].seq \in Nat
    BY <1>1 DEF RowsOK
  <2>2. ASSUME NEW key \in Keys
        PROVE  /\ Rebased(key, s) = [says |-> Rebased(key, s).says, seq |-> Rebased(key, s).seq]
               /\ Rebased(key, s).seq \in Nat /\ Rebased(key, s).seq >= s
               /\ \/ Rebased(key, s) = rows[key]
                  \/ Rebased(key, s).says = Shown(key, s) /\ Rebased(key, s).seq = s
    <3>1. PICK row : /\ row = (IF rows[key].seq <= s THEN rows[key] ELSE [says |-> Blank(key), seq |-> 0])
                     /\ row = [says |-> row.says, seq |-> row.seq] /\ row.seq \in Nat
                     /\ row = rows[key] \/ row.seq = 0
      <4>1. CASE rows[key].seq <= s
        BY <2>1, <4>1
      <4>2. CASE ~ (rows[key].seq <= s)
        <5>1. PICK row : row = [says |-> Blank(key), seq |-> 0]
          OBVIOUS
        <5>2. row = [says |-> row.says, seq |-> row.seq] /\ row.seq = 0
          BY <5>1
        <5> QED
          BY <4>2, <5>1, <5>2
      <4> QED
        BY <4>1, <4>2
    <3>2. PICK new : new = Rebased(key, s) /\ new = Applied(row, Shown(key, s), s)
      BY <3>1 DEF Rebased
    <3>3. /\ new = [says |-> new.says, seq |-> new.seq] /\ new.seq \in Nat /\ new.seq >= s
          /\ new = row \/ (new.says = Shown(key, s) /\ new.seq = s)
      BY <3>1, <3>2, AppliedIs
    <3>4. row.seq = 0 => new # row
      BY <1>8, <3>3
    <3> QED
      BY <3>1, <3>2, <3>3, <3>4
  <2>3. \A key \in Keys : rows'[key] = Rebased(key, s)
    BY <1>9
  <2>4. rows' = [key \in Keys |-> [says |-> rows'[key].says, seq |-> rows'[key].seq]]
    <3>1. PICK new : new = rows' /\ new = [key \in Keys |-> Rebased(key, s)]
      BY <1>9
    <3>2. \A key \in Keys : new[key] = [says |-> new[key].says, seq |-> new[key].seq]
      BY <2>2, <3>1
    <3>3. DOMAIN new = Keys /\ new = [key \in DOMAIN new |-> new[key]]
      BY <3>1
    <3> QED
      BY <3>1, <3>2, <3>3
  <2> QED
    BY <2>2, <2>3, <2>4
<1>11. /\ reader' = reader /\ page'.at = page.at /\ page'.tail = page.tail /\ page'.later = page.later
       /\ page'.baseline \in Nat
       /\ page' = [at |-> page'.at, tail |-> page'.tail, later |-> page'.later,
                   baseline |-> page'.baseline, again |-> page'.again, hole |-> FALSE]
  <2>1. page = [at |-> page.at, tail |-> page.tail, later |-> page.later,
                baseline |-> page.baseline, again |-> page.again, hole |-> FALSE]
    BY <1>1 DEF PageOK
  <2>2. DOMAIN page = {"at", "tail", "later", "baseline", "again", "hole"} /\ page.hole = FALSE
    BY <2>1
  <2>3. PICK new : new = page' /\ new = [page EXCEPT !.baseline = s]
    BY <1>9
  <2>4. /\ DOMAIN new = {"at", "tail", "later", "baseline", "again", "hole"}
        /\ new.at = page.at /\ new.tail = page.tail /\ new.later = page.later
        /\ new.baseline = s /\ new.hole = FALSE
        /\ new = [x \in DOMAIN new |-> new[x]]
    BY <2>2, <2>3
  <2>5. new = [at |-> new.at, tail |-> new.tail, later |-> new.later,
               baseline |-> new.baseline, again |-> new.again, hole |-> FALSE]
    BY <2>4
  <2> QED
    BY <1>8, <1>9, <2>3, <2>4, <2>5
<1>12. /\ LogOK' /\ ReceiptsOnce' /\ MemoryOK' /\ ReceiptsTrue' /\ EngineOK' /\ Unbroken'
       /\ HandlersOK' /\ LandedOK' /\ FreshOK' /\ AppendsFit' /\ PoliciesOK' /\ ToldOK'
       /\ KnownOK'
  BY <1>1, <1>2, <1>3, <1>4, <1>5, <1>6, <1>7, <1>8, <1>9, <1>10, <1>11, LogOKSame,
     ReceiptsOnceSame, MemoryOKSame, ReceiptsTrueSame, EngineOKSame, UnbrokenSame,
     HandlersOKSame, LandedOKSame, FreshOKSame, AppendsFitSame, PoliciesOKSame, ToldOKSame,
     KnownOKSame
<1>13. SyncOK'
  BY <1>1, <1>2, <1>11, SyncOKSame
<1>14. FeedOK'
  BY <1>7
<1>15. FramesTrue'
  BY <1>7
<1>16. RowsOK'
  <2>1. rows' = [key \in Keys |-> [says |-> rows'[key].says, seq |-> rows'[key].seq]]
    BY <1>10
  <2>2. \A key \in Keys : \/ rows'[key] = rows[key]
                          \/ /\ rows'[key].seq \in Nat /\ rows'[key].seq <= memory.cursor
                             /\ \E v \in rows'[key].seq..Len(log) : rows'[key].says = Shown(key, v)
    <3>1. ASSUME NEW key \in Keys, rows'[key].seq = s /\ rows'[key].says = Shown(key, s)
          PROVE  /\ rows'[key].seq \in Nat /\ rows'[key].seq <= memory.cursor
                 /\ \E v \in rows'[key].seq..Len(log) : rows'[key].says = Shown(key, v)
      <4>1. s \in s..n
        BY <1>8
      <4> QED
        BY <1>4, <1>8, <3>1, <4>1
    <3> QED
      BY <1>10, <3>1
  <2> QED
    BY <1>1, <1>2, <2>1, <2>2, RowsMove
<1>17. OwedOK'
  <2>1. \A key \in Keys : rows[key].seq \in Nat
    BY <1>1 DEF RowsOK
  <2>2. \A key \in Keys : /\ rows'[key].seq \in Nat
                          /\ head.is # "subscribed" => rows'[key].seq >= rows[key].seq
                          /\ Covers(key, head) => rows'[key].seq >= head.seq
    BY <1>6, <1>8, <1>10 DEF Covers
  <2> QED
    BY <1>1, <1>2, <1>3, <1>5, <1>6, <1>7, <2>1, <2>2, OwedDelivered
<1>18. ReaderOK'
  <2>1. reader' = reader /\ page'.at = page.at
    BY <1>11
  <2> QED
    BY <1>1, <1>2, <2>1 DEF ReaderOK
<1>19. PageOK'
  <2>1. \A m \in Nat : (Ahead(m) => Ahead(m)') /\ (Following(m) => Following(m)')
    BY <1>6, <1>7
  <2>2. /\ page.tail \in Nat /\ page.later \in Seq(Nat) /\ reader.asOf \in Nat
        /\ page.later # <<>> => page.later[Len(page.later)] \in Nat
    <3>1. page.tail \in Nat /\ page.later \in Seq(Nat) /\ reader.asOf \in Nat
      BY <1>1 DEF PageOK, ReaderOK
    <3> QED
      BY <3>1
  <2>3. /\ page'.at = "open" => page'.tail <= Len(log') /\ Ahead(page.tail)'
        /\ page'.later # <<>> =>
             /\ \A k \in 1..Len(page'.later) : page'.later[k] = page'.later[1] + k - 1
             /\ page'.later[Len(page'.later)] <= Len(log') /\ Following(page.later[Len(page.later)])'
        /\ reader'.at \in {"values", "back"} =>
             IF page'.later = <<>> THEN Ahead(reader.asOf)' ELSE page'.later[1] <= reader'.asOf + 1
    <3>1. PICK t \in Nat, l \in Seq(Nat), a \in Nat :
            /\ t = page.tail /\ t = page'.tail /\ l = page.later /\ l = page'.later /\ page'.at = page.at
            /\ a = reader.asOf /\ a = reader'.asOf /\ reader'.at = reader.at /\ log' = log
      BY <1>2, <2>2, <1>11
    <3>2. /\ page.at = "open" => t <= Len(log) /\ Ahead(t)
          /\ l # <<>> => /\ \A k \in 1..Len(l) : l[k] = l[1] + k - 1
                         /\ l[Len(l)] <= Len(log) /\ Following(l[Len(l)]) /\ l[Len(l)] \in Nat
          /\ reader.at \in {"values", "back"} => IF l = <<>> THEN Ahead(a) ELSE l[1] <= a + 1
      BY <1>1, <2>2, <3>1 DEF PageOK
    <3>3. /\ page.at = "open" => t <= Len(log) /\ Ahead(t)'
          /\ l # <<>> => /\ \A k \in 1..Len(l) : l[k] = l[1] + k - 1
                         /\ l[Len(l)] <= Len(log) /\ Following(l[Len(l)])'
          /\ reader.at \in {"values", "back"} => IF l = <<>> THEN Ahead(a)' ELSE l[1] <= a + 1
      BY <2>1, <3>2
    <3> QED
      BY <3>1, <3>3
  <2>4. /\ page'.at \in {"cold", "loading", "repair", "open"} /\ page'.tail \in Nat
        /\ page'.later \in Seq(Nat) /\ page'.baseline \in Nat
        /\ page'.at # "cold" => line'.at = "up"
        /\ page'.at \notin {"loading", "repair"} => page'.later = <<>>
    BY <1>1, <1>7, <1>8, <1>11 DEF PageOK
  <2>5. page' = [at |-> page'.at, tail |-> page'.tail, later |-> page'.later,
                 baseline |-> page'.baseline, again |-> page'.again, hole |-> FALSE]
    BY <1>11
  <2> QED
    BY <2>3, <2>4, <2>5 DEF PageOK
<1> QED
  BY <1>12, <1>13, <1>14, <1>15, <1>16, <1>17, <1>18, <1>19 DEF ViewInv, LogInv, TaskInv,
     FeedInv, ShowInv

LEMMA DeliverKeeps ==
    ASSUME ViewInv, Deliver
    PROVE  ViewInv'
<1>1. Head(line.feed) \in Frames
  <2>1. line.feed # <<>> /\ line.feed \in Seq(Frames)
    BY PartsOf DEF Deliver, FeedOK
  <2> QED
    BY <2>1
<1>2. Head(line.feed).is \in {"event", "projection", "subscribed"}
  BY <1>1 DEF Frames
<1> QED
  BY <1>2, DeliverEventKeeps, DeliverProjectionKeeps, DeliverBaselineKeeps

LEMMA DisconnectKeeps ==
    ASSUME ViewInv, Disconnect
    PROVE  ViewInv'
<1>1. /\ LogOK /\ ReceiptsOnce /\ MemoryOK /\ ReceiptsTrue /\ EngineOK /\ Unbroken
      /\ HandlersOK /\ LandedOK /\ FreshOK /\ AppendsFit /\ PoliciesOK /\ ToldOK
      /\ SyncOK /\ FeedOK /\ FramesTrue /\ KnownOK /\ RowsOK /\ OwedOK /\ ReaderOK /\ PageOK
  BY PartsOf
<1>2. UNCHANGED <<log, memory, running, routable, handler, gate, engine, rows, upset>>
  BY DEF Disconnect, Gone
<1>3. /\ line.at \notin {"down", "absent"} /\ sync[Browser].at # "announce"
      /\ line' = [line EXCEPT !.at = "down", !.feed = <<>>] /\ page' = Closed /\ reader' = Unread /\ rows' = rows
      /\ sync' = [sync EXCEPT ![Browser] = Synced]
      /\ window' = (IF window = Browser THEN Free ELSE window)
  BY DEF Disconnect, Gone
<1>4. Browser \in Readers /\ Browser # Driver /\ Browser \notin Handlers
  BY AskFacts
<1>5. sync'[Browser].at = "off" /\ \A p \in Readers : p # Browser => sync'[p] = sync[p]
  BY <1>1, <1>3, <1>4 DEF SyncOK, Synced
<1>6. Announced' = Announced
  <2>1. window = Browser => ~ Announcing /\ ~ Announcing'
    BY <1>3 DEF Announcing
  <2>2. window # Browser => window' = window /\ (window \in Readers => sync'[window] = sync[window])
    BY <1>3, <1>5
  <2>3. window \in Readers \union {Free}
    BY <1>1 DEF SyncOK
  <2> QED
    BY <1>2, <2>1, <2>2, <2>3 DEF Announced, Announcing
<1>7. line' = [at |-> "down", feed |-> <<>>] /\ line'.at = "down" /\ line'.feed = <<>> /\ DOMAIN line'.feed = {}
  <2>1. line = [at |-> line.at, feed |-> line.feed]
    BY <1>1 DEF FeedOK
  <2>2. line' = [at |-> "down", feed |-> <<>>]
    BY <1>3, <2>1
  <2> QED
    BY <2>2
<1>8. /\ LogOK' /\ ReceiptsOnce' /\ MemoryOK' /\ ReceiptsTrue' /\ EngineOK' /\ Unbroken'
      /\ HandlersOK' /\ LandedOK' /\ AppendsFit' /\ PoliciesOK' /\ ToldOK' /\ KnownOK'
      /\ RowsOK'
  BY <1>1, <1>2, <1>3, <1>4, <1>5, <1>6, <1>7, LogOKSame, ReceiptsOnceSame, MemoryOKSame,
     ReceiptsTrueSame, EngineOKSame, UnbrokenSame, HandlersOKSame, LandedOKSame,
     AppendsFitSame, PoliciesOKSame, ToldOKSame, KnownOKSame, RowsOKSame
<1>9. FreshOK'
  BY <1>1, <1>2, <1>4, <1>5, AskFacts DEF FreshOK, Informed, Toward, Fresh
<1>10. SyncOK'
  <2>1. sync' \in [Readers -> [at : {"off", "loaded", "announce"}, from : Nat, to : Nat]]
    BY <1>1, <1>3 DEF SyncOK, Synced
  <2>2. ASSUME NEW p \in Readers, sync'[p].at # "off"
        PROVE  window' = p /\ Wanting(p)' /\ sync'[p] = sync[p] /\ sync[p].at # "off"
    <3>1. p # Browser /\ sync'[p] = sync[p]
      BY <1>5, <2>2
    <3>2. window = p /\ Wanting(p)
      BY <1>1, <2>2, <3>1 DEF SyncOK
    <3>3. Wanting(p)'
      BY <1>2, <3>1, <3>2 DEF Wanting, At
    <3> QED
      BY <1>3, <2>2, <3>1, <3>2, <3>3
  <2>3. window' \in Readers \union {Free}
    BY <1>1, <1>3 DEF SyncOK
  <2> QED
    BY <1>1, <1>2, <2>1, <2>2, <2>3 DEF SyncOK
<1>11. FeedOK'
  <2>1. AnnouncedInOrder'
    BY <1>7 DEF AnnouncedInOrder
  <2>2. line' \in [at : {"down", "absent", "subscribed", "up"}, feed : Seq(Frames)]
    BY <1>7
  <2> QED
    BY <1>7, <2>1, <2>2 DEF FeedOK
<1>12. FramesTrue'
  BY <1>7 DEF FramesTrue
<1>13. OwedOK'
  BY <1>7 DEF OwedOK
<1>14. ReaderOK'
  BY <1>1, <1>2, <1>3 DEF ReaderOK, Unread, Closed, LogOK, MemoryOK
<1>15. PageOK'
  <2>1. page' = [at |-> "cold", tail |-> 0, later |-> <<>>, baseline |-> 0, again |-> FALSE, hole |-> FALSE]
        /\ reader'.at = "off"
    BY <1>3 DEF Closed, Unread
  <2> QED
    BY <2>1 DEF PageOK
<1> QED
  BY <1>8, <1>9, <1>10, <1>11, <1>12, <1>13, <1>14, <1>15 DEF ViewInv, LogInv, TaskInv,
     FeedInv, ShowInv

\* A restart leaves the log, what memory makes of it, and the rows.
LEMMA RestartKeeps ==
    ASSUME ViewInv, Restart
    PROVE  ViewInv'
<1>1. /\ LogOK /\ ReceiptsOnce /\ MemoryOK /\ ReceiptsTrue /\ EngineOK /\ Unbroken
      /\ HandlersOK /\ LandedOK /\ FreshOK /\ AppendsFit /\ PoliciesOK /\ ToldOK
      /\ SyncOK /\ FeedOK /\ FramesTrue /\ KnownOK /\ RowsOK /\ OwedOK /\ ReaderOK /\ PageOK
  BY PartsOf
<1>2. /\ memory' = [cursor |-> Len(log'), receipts |-> Restored(Len(log))]
      /\ running' = FALSE /\ gate' = Free /\ window' = Free
      /\ handler' = [h \in Handlers |-> IF handler[h].at \in Ready THEN handler[h]
                                        ELSE [handler[h] EXCEPT !.at = "lost"]]
      /\ sync' = [p \in Readers |-> Synced] /\ upset' = upset \ {"unannounced"}
      /\ page' = Closed /\ reader' = Unread /\ rows' = rows
      /\ line' = [line EXCEPT !.at = IF @ = "absent" THEN @ ELSE "down", !.feed = <<>>]
  <2>1. {"idle", "ok", "error", "lost"} = Ready
    BY DEF Ready
  <2> QED
    BY <2>1 DEF Restart, Gone
<1>3. PICK n \in Nat, m \in Nat :
        /\ n = Len(log) /\ m = Len(log') /\ n <= m /\ 1 <= n /\ log' \in Seq(Events)
        /\ DOMAIN log = 1..n /\ DOMAIN log' = 1..m
        /\ \A i \in 1..n : log'[i] = log[i]
        /\ \A i \in (n + 1)..m : log'[i].is = "end"
        /\ engine.at \in {"open", "broken"} => m = n + 1
        /\ engine.at \notin {"open", "broken"} => log' = log
  <2>1. PICK n \in Nat : n = Len(log) /\ 1 <= n /\ DOMAIN log = 1..n /\ log \in Seq(Events)
    BY <1>1 DEF LogOK
  <2>2. CASE engine.at \in {"open", "broken"}
    <3>1. PICK e \in Events : e = Event("end", "") /\ e.is = "end"
      <4>1. "end" \in Kinds /\ "" \in Says
        BY DEF Kinds, Says
      <4> QED
        BY <4>1, EventIn
    <3>2. log' = Append(log, e)
      BY <2>2, <3>1 DEF Restart
    <3>3. /\ log' \in Seq(Events) /\ Len(log') = n + 1 /\ log'[n + 1] = e
          /\ \A i \in 1..n : log'[i] = log[i]
      BY <2>1, <3>2, AppendProperties
    <3>4. n + 1 \in Nat /\ DOMAIN log' = 1..(n + 1)
      BY <3>3
    <3>5. \A i \in (n + 1)..(n + 1) : log'[i].is = "end"
      <4>1. \A i \in (n + 1)..(n + 1) : i = n + 1
        BY <2>1
      <4>2. log'[n + 1].is = "end"
        BY <3>1, <3>3
      <4> QED
        BY <4>1, <4>2
    <3>6. n <= n + 1 /\ Len(log') = n + 1
      BY <2>1, <3>3
    <3> QED
      BY <2>1, <2>2, <3>3, <3>4, <3>5, <3>6
  <2>3. CASE engine.at \notin {"open", "broken"}
    <3>1. log' = log
      BY <2>3 DEF Restart
    <3>2. \A i \in (n + 1)..n : log'[i].is = "end"
      BY <2>1
    <3>3. n <= n /\ Len(log') = n
      BY <2>1, <3>1
    <3> QED
      BY <2>1, <2>3, <3>1, <3>2, <3>3
  <2> QED
    BY <2>2, <2>3
<1>4. Grown
  BY <1>3 DEF Grown
<1>5. LogOK'
  BY <1>1, <1>4, GrownLogOK
<1>6. \A i \in 1..m : \A rpc : ReceiptOf(i, rpc)' => i \in 1..n /\ ReceiptOf(i, rpc)
  <2>1. SUFFICES ASSUME NEW i \in 1..m, log'[i].is # "end" PROVE i \in 1..n /\ log'[i] = log[i]
    BY DEF ReceiptOf
  <2>2. i \in 1..n
    BY <1>3, <2>1
  <2> QED
    BY <1>3, <2>2
<1>7. ReceiptsOnce'
  BY <1>1, <1>3, <1>6 DEF ReceiptsOnce
<1>8. MemoryOK' /\ ReceiptsTrue'
  <2>1. PICK old : /\ old = Restored(n) /\ memory' = [cursor |-> m, receipts |-> old]
                   /\ old \in [Rpcs -> [ask : AllAsks \union {<<>>}, seq : Nat]]
                   /\ \A rpc \in Rpcs : old[rpc].seq # 0 <=> \E i \in 1..n : ReceiptOf(i, rpc)
                   /\ \A rpc \in Rpcs : old[rpc].seq # 0 =>
                        LET k == old[rpc].seq + 1
                        IN k <= n /\ ReceiptOf(k, rpc) /\ log[k].says = old[rpc].ask
    <3>1. n \in 0..Len(log)
      BY <1>3
    <3> QED
      BY <1>1, <1>2, <1>3, <3>1, RestoredFacts, ZenonT(40)
  <2>2. memory'.cursor = m /\ memory'.receipts = old
    BY <2>1
  <2>3. \A i \in 1..n : \A rpc : ReceiptOf(i, rpc)' <=> ReceiptOf(i, rpc)
    BY <1>3 DEF ReceiptOf
  <2>4. \A rpc \in Rpcs : (\E i \in 1..m : ReceiptOf(i, rpc)') <=> \E i \in 1..n : ReceiptOf(i, rpc)
    <3>1. 1..n \subseteq 1..m
      BY <1>3
    <3> QED
      BY <1>6, <2>3, <3>1
  <2>5. MemoryOK'
    <3>1. memory' \in [cursor : Nat, receipts : [Rpcs -> [ask : AllAsks \union {<<>>}, seq : Nat]]]
      BY <1>3, <2>1
    <3>2. memory'.cursor \in 1..Len(log')
      BY <1>3, <2>2
    <3>3. \A rpc \in Rpcs : memory'.receipts[rpc].seq # 0 <=> \E i \in 1..memory'.cursor : ReceiptOf(i, rpc)'
      BY <2>1, <2>2, <2>4
    <3> QED
      BY <3>1, <3>2, <3>3 DEF MemoryOK
  <2>6. ReceiptsTrue'
    <3>1. SUFFICES ASSUME NEW rpc \in Rpcs, old[rpc].seq # 0, NEW k \in Nat, k = old[rpc].seq + 1
                   PROVE  k <= Len(log') /\ ReceiptOf(k, rpc)' /\ log'[k].says = old[rpc].ask
      BY <2>1, <2>2 DEF ReceiptsTrue
    <3>2. k <= n /\ ReceiptOf(k, rpc) /\ log[k].says = old[rpc].ask
      BY <2>1, <3>1
    <3>3. k \in 1..n
      BY <2>1, <3>1, <3>2
    <3> QED
      BY <1>3, <2>3, <3>2, <3>3
  <2> QED
    BY <2>5, <2>6
<1>9. EngineOK'
  <2>1. /\ engine = [at |-> engine.at, known |-> engine.known, followed |-> engine.followed]
        /\ engine.at \in {"idle", "asked", "open", "ended", "broken"} /\ engine.known \in Nat
        /\ engine.known <= n
        /\ engine.at \in {"idle", "asked"} => \A i \in DOMAIN log : log[i].is \notin Marks
        /\ \A i, j \in DOMAIN log : Begun(i) /\ Begun(j) => i = j
        /\ engine.at = "ended" => \A i \in DOMAIN log : Begun(i) => \E e \in (i + 1)..Len(log) : log[e].is = "end"
    BY <1>1, <1>3 DEF EngineOK
  <2>2. \A i \in 1..m : Begun(i)' => i \in 1..n /\ Begun(i)
    <3>1. SUFFICES ASSUME NEW i \in 1..m, log'[i].is # "end" PROVE i \in 1..n /\ log'[i] = log[i]
      BY DEF Begun
    <3>2. i \in 1..n
      BY <1>3, <3>1
    <3> QED
      BY <1>3, <3>2
  <2>3. \A i, j \in DOMAIN log' : Begun(i)' /\ Begun(j)' => i = j
    BY <1>3, <2>1, <2>2
  <2>4. engine.known <= m
    BY <1>3, <2>1
  <2>5. CASE engine.at \in {"idle", "asked"}
    <3>1. engine' = [at |-> "idle", known |-> engine.known, followed |-> engine.followed]
      BY <2>1, <2>5 DEF Restart
    <3>2. log' = log
      BY <1>3, <2>5
    <3> QED
      BY <1>2, <1>3, <2>1, <2>3, <2>4, <2>5, <3>1, <3>2 DEF EngineOK
  <2>6. CASE engine.at \notin {"idle", "asked"}
    <3>1. engine' = [at |-> "ended", known |-> engine.known, followed |-> TRUE]
      BY <2>1, <2>6 DEF Restart
    <3>2. ASSUME NEW i \in DOMAIN log', Begun(i)' PROVE \E e \in (i + 1)..Len(log') : log'[e].is = "end"
      <4>1. i \in 1..n /\ Begun(i)
        BY <1>3, <2>2, <3>2
      <4>2. CASE engine.at \in {"open", "broken"}
        <5>1. m \in (i + 1)..m /\ m \in (n + 1)..m
          BY <1>3, <4>1, <4>2
        <5> QED
          BY <1>3, <5>1
      <4>3. CASE engine.at \notin {"open", "broken"}
        BY <1>3, <2>1, <2>6, <4>1, <4>3
      <4> QED
        BY <4>2, <4>3
    <3> QED
      BY <1>2, <1>3, <2>1, <2>3, <2>4, <3>1, <3>2 DEF EngineOK
  <2> QED
    BY <2>5, <2>6
<1>10. /\ Unbroken' /\ ("overtaken" \in upset' <=> "overtaken" \in upset)
       /\ ("mixed" \in upset' <=> "mixed" \in upset)
  BY <1>1, <1>2 DEF Unbroken
<1>11. /\ \A h \in Handlers : /\ handler'[h].at \in Ready /\ handler'[h].at \notin Busy
                              /\ handler'[h].at = "ok" => handler'[h] = handler[h]
       /\ HandlersOK'
  <2>1. Ready \cap Busy = {} /\ "lost" \in Ready /\ "lost" # "ok"
    BY DEF Ready, Busy
  <2>2. ASSUME NEW h \in Handlers
        PROVE  /\ handler'[h].at \in Ready /\ (handler'[h].at = "ok" => handler'[h] = handler[h])
               /\ handler'[h] \in [at : Busy \union Ready, ask : AllAsks \union {"none"}, batch : Seq(Events),
                                   leads : Busy \union {"none"}, told : Nat]
    <3>1. handler[h] \in [at : Busy \union Ready, ask : AllAsks \union {"none"}, batch : Seq(Events),
                          leads : Busy \union {"none"}, told : Nat]
      BY <1>1 DEF HandlersOK
    <3>2. CASE handler[h].at \in Ready
      BY <1>2, <3>1, <3>2
    <3>3. CASE handler[h].at \notin Ready
      <4>1. PICK new : new = handler'[h] /\ new = [handler[h] EXCEPT !.at = "lost"]
        BY <1>2, <3>3
      <4>2. new \in [at : Busy \union Ready, ask : AllAsks \union {"none"}, batch : Seq(Events),
                     leads : Busy \union {"none"}, told : Nat] /\ new.at = "lost"
        BY <2>1, <3>1, <4>1
      <4> QED
        BY <2>1, <4>1, <4>2
    <3> QED
      BY <3>2, <3>3
  <2>3. \A h \in Handlers : handler'[h].at \notin Busy
    BY <2>1, <2>2
  <2>4. handler' \in [Handlers -> [at : Busy \union Ready, ask : AllAsks \union {"none"}, batch : Seq(Events),
                                   leads : Busy \union {"none"}, told : Nat]]
    <3>1. PICK new : new = handler' /\ new = [h \in DOMAIN new |-> new[h]] /\ DOMAIN new = Handlers
      BY <1>2
    <3> QED
      BY <2>2, <3>1
  <2>5. \A h \in Handlers : handler'[h].at = "ok" => handler'[h].ask \in AllAsks
    BY <1>1, <2>2 DEF HandlersOK
  <2>6. gate' \in Handlers \union {Free}
    BY <1>2
  <2> QED
    BY <2>2, <2>3, <2>4, <2>5, <2>6 DEF HandlersOK
<1>12. \A p \in Readers : sync'[p] = Synced /\ sync'[p].at = "off"
  BY <1>2 DEF Synced
<1>13. LandedOK' /\ FreshOK' /\ AppendsFit'
  <2>1. \A h \in Handlers : handler'[h].at \notin {"sync", "replay", "append", "reply", "choose", "chosen", "said"}
    BY <1>11 DEF Busy
  <2>2. \A h \in Handlers : sync'[h].at = "off"
    BY <1>12, AskFacts
  <2> QED
    BY <2>1, <2>2 DEF LandedOK, Carrying, FreshOK, Informed, AppendsFit, At
<1>14. PoliciesOK'
  <2>1. \A h \in Handlers : ~ At(h, "append")'
    BY <1>11 DEF At, Busy
  <2>2. PoliciesWait'
    <3>1. SUFFICES ASSUME NEW i \in DOMAIN log', log'[i].is \in {"preset", "policy"},
                          NEW s \in 1..(i - 1), log'[s].is = "start"
                   PROVE  (\E t \in s..i : log'[t].is = "end") \/ log'[s].says = "idle"
      BY DEF PoliciesWait
    <3>2. i \in 1..n
      BY <1>3, <3>1
    <3>3. log'[i] = log[i] /\ log'[s] = log[s]
      BY <1>3, <3>2
    <3>4. (\E t \in s..i : log[t].is = "end") \/ log[s].says = "idle"
      BY <1>1, <1>3, <3>1, <3>2, <3>3 DEF PoliciesOK, PoliciesWait
    <3>5. \A t \in s..i : log'[t] = log[t]
      BY <1>3, <3>2
    <3> QED
      BY <3>3, <3>4, <3>5
  <2> QED
    BY <2>1, <2>2 DEF PoliciesOK
<1>15. ToldOK'
  <2>1. SUFFICES ASSUME "overtaken" \notin upset, NEW h \in Handlers, handler'[h].at = "ok"
                 PROVE  IF handler'[h].ask.method = "title"
                        THEN /\ handler'[h].told + 1 <= Len(log')
                             /\ log'[handler'[h].told + 1] = Event("receipt", handler'[h].ask)
                        ELSE handler'[h].told = 0
    BY <1>10 DEF ToldOK, At
  <2>2. handler'[h] = handler[h] /\ handler[h].told \in Nat
    BY <1>1, <1>11, <2>1 DEF HandlersOK
  <2>3. IF handler[h].ask.method = "title"
        THEN /\ handler[h].told + 1 <= Len(log)
             /\ log[handler[h].told + 1] = Event("receipt", handler[h].ask)
        ELSE handler[h].told = 0
    BY <1>1, <2>1, <2>2 DEF ToldOK, At
  <2>4. PICK k \in Nat : k = handler[h].told + 1 /\ k >= 1
    BY <2>2
  <2>5. k <= n => k <= m /\ log'[k] = log[k]
    BY <1>3, <2>4
  <2> QED
    BY <1>3, <2>2, <2>3, <2>4, <2>5
<1>16. SyncOK'
  <2>1. sync' \in [Readers -> [at : {"off", "loaded", "announce"}, from : Nat, to : Nat]]
    BY <1>2 DEF Synced
  <2> QED
    BY <1>2, <1>12, <2>1 DEF SyncOK
<1>17. /\ line' = [at |-> line'.at, feed |-> <<>>] /\ line'.at \in {"down", "absent"}
       /\ line'.feed = <<>> /\ DOMAIN line'.feed = {}
  <2>1. line = [at |-> line.at, feed |-> line.feed]
    BY <1>1 DEF FeedOK
  <2>2. PICK new : new = line' /\ new = [at |-> IF line.at = "absent" THEN "absent" ELSE "down", feed |-> <<>>]
    BY <1>2, <2>1
  <2>3. new.feed = <<>> /\ new.at \in {"down", "absent"} /\ new = [at |-> new.at, feed |-> <<>>]
    BY <2>2
  <2> QED
    BY <2>2, <2>3
<1>18. FeedOK' /\ FramesTrue'
  <2>1. AnnouncedInOrder'
    BY <1>17 DEF AnnouncedInOrder
  <2>2. line' \in [at : {"down", "absent", "subscribed", "up"}, feed : Seq(Frames)]
    <3>1. PICK a \in {"down", "absent"}, f \in Seq(Frames) : line' = [at |-> a, feed |-> f]
      <4>1. <<>> \in Seq(Frames)
        OBVIOUS
      <4> QED
        BY <1>17, <4>1
    <3> QED
      BY <3>1
  <2> QED
    BY <1>17, <2>1, <2>2 DEF FeedOK, FramesTrue
<1>19. KnownOK'
  <2>1. memory'.cursor = Len(log')
    BY <1>2
  <2>2. \A key \in Keys : Unchanged(key, memory.cursor)'
    BY <1>3, <2>1 DEF Unchanged
  <2> QED
    BY <2>2 DEF KnownOK
<1>20. RowsOK'
  <2>1. /\ rows = [key \in Keys |-> [says |-> rows[key].says, seq |-> rows[key].seq]]
        /\ \A key \in Keys : rows[key].seq \in Nat
    BY <1>1 DEF RowsOK
  <2>2. memory'.cursor = m /\ memory.cursor \in Nat /\ memory.cursor <= n
    BY <1>1, <1>2, <1>3, CursorIn
  <2>3. ASSUME "mixed" \notin upset', NEW key \in Keys
        PROVE  /\ rows[key].seq <= m
               /\ \E v \in rows[key].seq..m : rows[key].says = Shown(key, v)'
    <3>1. rows[key].seq <= memory.cursor /\ \E v \in rows[key].seq..n : rows[key].says = Shown(key, v)
      BY <1>1, <1>3, <1>10, <2>3 DEF RowsOK
    <3>2. PICK v \in Nat : rows[key].seq <= v /\ v <= n /\ rows[key].says = Shown(key, v)
      <4>1. rows[key].seq \in Nat
        BY <2>1
      <4> QED
        BY <3>1, <4>1
    <3>3. Shown(key, v)' = Shown(key, v)
      BY <1>3, <3>2, ShownKept
    <3>4. rows[key].seq <= m /\ v \in rows[key].seq..m
      BY <1>3, <2>1, <2>2, <3>1, <3>2
    <3> QED
      BY <3>2, <3>3, <3>4
  <2> QED
    BY <1>2, <1>3, <2>1, <2>2, <2>3 DEF RowsOK
<1>21. OwedOK'
  BY <1>17 DEF OwedOK
<1>22. ReaderOK' /\ PageOK'
  <2>1. page' = [at |-> "cold", tail |-> 0, later |-> <<>>, baseline |-> 0, again |-> FALSE, hole |-> FALSE]
        /\ reader' = [at |-> "off", asOf |-> 0, values |-> 0]
    BY <1>2 DEF Closed, Unread
  <2>2. Len(log') >= 0 /\ memory'.cursor >= 0
    BY <1>2, <1>3
  <2>3. ReaderOK'
    BY <2>1, <2>2 DEF ReaderOK
  <2> QED
    BY <2>1, <2>3 DEF PageOK
<1> QED
  BY <1>5, <1>7, <1>8, <1>9, <1>10, <1>11, <1>13, <1>14, <1>15, <1>16, <1>18, <1>19, <1>20, <1>21, <1>22
     DEF ViewInv, LogInv, TaskInv, FeedInv, ShowInv

-----------------------------------------------------------------------------
(* Every step, and what follows *)

LEMMA ViewSteps ==
    ASSUME ViewInv, [ViewNext]_viewVars
    PROVE  ViewInv'
<1>1. CASE UNCHANGED viewVars
  <2>1. /\ LogOK /\ ReceiptsOnce /\ MemoryOK /\ ReceiptsTrue /\ EngineOK /\ Unbroken
        /\ HandlersOK /\ LandedOK /\ FreshOK /\ AppendsFit /\ PoliciesOK /\ ToldOK
        /\ SyncOK /\ FeedOK /\ FramesTrue /\ KnownOK /\ RowsOK /\ OwedOK /\ ReaderOK /\ PageOK
    BY PartsOf
  <2>2. UNCHANGED <<log, memory, running, routable, handler, gate, window, sync, engine, line, rows, page,
                    reader, upset, slips>>
    BY <1>1 DEF viewVars
  <2>3. Announced' = Announced
    BY <2>2 DEF Announced, Announcing
  <2>4. LogOK' /\ ReceiptsOnce' /\ MemoryOK' /\ ReceiptsTrue' /\ EngineOK' /\ Unbroken'
    BY <2>1, <2>2, LogOKSame, ReceiptsOnceSame, MemoryOKSame, ReceiptsTrueSame, EngineOKSame, UnbrokenSame
  <2>5. HandlersOK' /\ LandedOK' /\ FreshOK' /\ AppendsFit' /\ PoliciesOK' /\ ToldOK'
    BY <2>1, <2>2, HandlersOKSame, LandedOKSame, FreshOKSame, AppendsFitSame, PoliciesOKSame, ToldOKSame
  <2>6. SyncOK' /\ FeedOK' /\ FramesTrue' /\ KnownOK'
    BY <2>1, <2>2, <2>3, SyncOKSame, FeedOKSame, FramesTrueSame, KnownOKSame
  <2>7. RowsOK' /\ OwedOK' /\ ReaderOK' /\ PageOK'
    BY <2>1, <2>2, <2>3, RowsOKSame, OwedOKSame, ReaderOKSame, PageOKSame
  <2> QED
    BY <2>4, <2>5, <2>6, <2>7 DEF ViewInv, LogInv, TaskInv, FeedInv, ShowInv
<1>2. ASSUME NEW p \in Readers, LoadLog(p) \/ NothingNew(p) \/ Project(p) \/ Announce(p)
      PROVE  ViewInv'
  BY <1>2, LoadLogKeeps, NothingNewKeeps, ProjectKeeps, AnnounceKeeps
<1>3. ASSUME NEW h \in Handlers,
             \/ \E ask \in Asks[h] : Admit(h, ask)
             \/ Decide(h) \/ AppendBatch(h) \/ SessionNotFlushed(h) \/ Replied(h) \/ Choose(h)
             \/ ChoiceShown(h) \/ Said(h) \/ DropHandler(h)
      PROVE  ViewInv'
  BY <1>3, AdmitKeeps, DecideKeeps, AppendBatchKeeps, SessionNotFlushedKeeps, RepliedKeeps, ChooseKeeps,
     ChoiceShownKeeps, SaidKeeps, DropHandlerKeeps
<1>4. CASE Reroute \/ Prompted \/ StartTurn \/ Reminded \/ Follow \/ Ends \/ Rest
  BY <1>4, RerouteKeeps, PromptedKeeps, StartsKeeps, FollowKeeps, EndsKeeps, RestKeeps DEF StartTurn, Reminded
<1>5. CASE Subscribe \/ Baseline \/ Open \/ LoadPage \/ ReadValues \/ Install \/ Deliver
  BY <1>5, SubscribeKeeps, BaselineKeeps, OpenKeeps, LoadPageKeeps, ReadValuesKeeps, InstallKeeps, DeliverKeeps
<1>6. CASE Disconnect \/ Restart
  BY <1>6, DisconnectKeeps, RestartKeeps
<1> QED
  BY <1>1, <1>2, <1>3, <1>4, <1>5, <1>6 DEF ViewNext

LEMMA ViewAlways == ViewSpec => []ViewInv
<1>1. (\E watched \in BOOLEAN, asking \in SUBSET Handlers : ViewInit(watched, asking)) => ViewInv
  BY ViewStarts
<1> QED
  BY <1>1, ViewSteps, PTL DEF ViewSpec

LEMMA CommandsKeptNow == ViewInv => CommandsKept
<1>1. SUFFICES ASSUME ViewInv PROVE CommandsKept
  OBVIOUS
<1>2. LogOK /\ ReceiptsOnce /\ HandlersOK /\ ToldOK /\ PoliciesOK /\ Unbroken
  BY <1>1, PartsOf
<1>3. RepeatsAgree
  <2>1. SUFFICES ASSUME "overtaken" \notin upset, NEW g \in Handlers, NEW h \in Handlers,
                        At(g, "ok"), At(h, "ok"), handler[g].ask = handler[h].ask
                 PROVE  handler[g].told = handler[h].told
    BY DEF RepeatsAgree
  <2>2. PICK ask \in AllAsks : ask = handler[g].ask /\ ask = handler[h].ask /\ ask.rpc \in Rpcs
    BY <1>2, <2>1, AskFacts DEF HandlersOK, At
  <2>3. PICK a \in Nat, b \in Nat : a = handler[g].told /\ b = handler[h].told
    BY <1>2 DEF HandlersOK
  <2>4. CASE ask.method = "title"
    <3>1. /\ a + 1 <= Len(log) /\ log[a + 1] = Event("receipt", ask)
          /\ b + 1 <= Len(log) /\ log[b + 1] = Event("receipt", ask)
      BY <1>2, <2>1, <2>2, <2>3, <2>4 DEF ToldOK
    <3>2. a + 1 \in DOMAIN log /\ b + 1 \in DOMAIN log
      BY <1>2, <3>1 DEF LogOK
    <3>3. ReceiptOf(a + 1, ask.rpc) /\ ReceiptOf(b + 1, ask.rpc)
      BY <3>1 DEF ReceiptOf, Event
    <3>4. a + 1 = b + 1
      BY <1>2, <2>2, <3>2, <3>3 DEF ReceiptsOnce
    <3> QED
      BY <2>3, <3>4
  <2>5. CASE ask.method # "title"
    BY <1>2, <2>1, <2>2, <2>5 DEF ToldOK
  <2> QED
    BY <2>4, <2>5
<1>4. NeverRefused
  BY <1>2 DEF Unbroken, NeverRefused
<1> QED
  BY <1>2, <1>3, <1>4 DEF CommandsKept, PoliciesOK

LEMMA ShowsNow == ViewInv => ShowsTheLogUnlessMixed
<1>1. SUFFICES ASSUME ViewInv, "mixed" \notin upset, Resting, "unannounced" \notin upset
               PROVE  Shows
  BY DEF ShowsTheLogUnlessMixed, ShowsTheLog
<1>2. LogOK /\ MemoryOK /\ SyncOK /\ HandlersOK /\ FeedOK /\ PageOK /\ ReaderOK /\ RowsOK /\ OwedOK
  BY <1>1, PartsOf
<1>3. PICK n \in Nat : n = Len(log) /\ n = memory.cursor
  BY <1>1, <1>2, CursorIn DEF Resting
<1>4. \A h \in Handlers : handler[h].at \notin {"sync", "reply", "chosen"}
  BY <1>1 DEF Resting
<1>5. Announced = n
  <2>1. \A p \in Readers : ~ Wanting(p)
    BY <1>1, <1>4 DEF Resting, Wanting, At, Readers
  <2>2. ~ Announcing
    BY <1>2, <2>1 DEF Announcing, SyncOK
  <2> QED
    BY <1>3, <2>2 DEF Announced
<1>6. page.tail = n /\ page.hole = FALSE
  <2>1. line.feed = <<>> /\ page.at = "open"
    BY <1>1 DEF Resting
  <2>2. NoEvent
    BY <2>1 DEF NoEvent
  <2>3. PICK t \in Nat : t = page.tail /\ t <= n /\ Ahead(t)
    BY <1>2, <1>3, <2>1 DEF PageOK
  <2>4. n <= t
    BY <1>5, <2>2, <2>3 DEF Ahead
  <2>5. page.hole = FALSE
    BY <1>2 DEF PageOK
  <2> QED
    BY <2>3, <2>4, <2>5
<1>7. ASSUME NEW key \in Keys PROVE rows[key].says = Shown(key, n)
  <2>1. line.at = "up" /\ line.feed = <<>> /\ DOMAIN line.feed = {}
    BY <1>1 DEF Resting
  <2>2. ~ Owed(key)
    <3>1. Unchanged("usage", n)
      BY <1>3 DEF Unchanged
    <3>2. \A h \in Handlers : ~ Carrying(h)
      BY <1>4 DEF Carrying
    <3> QED
      BY <1>1, <1>5, <3>1, <3>2 DEF Owed
  <2>3. Unchanged(key, rows[key].seq)
    BY <1>1, <1>2, <2>1, <2>2 DEF OwedOK
  <2>4. PICK m \in Nat, v \in Nat : /\ m = rows[key].seq /\ m <= v /\ v <= n
                                    /\ rows[key].says = Shown(key, v)
    <3>1. rows[key].seq \in Nat /\ \E v \in rows[key].seq..Len(log) : rows[key].says = Shown(key, v)
      BY <1>1, <1>2 DEF RowsOK
    <3> QED
      BY <1>3, <3>1
  <2>5. \A i \in (v + 1)..n : ~ Changes(key, log[i])
    BY <1>3, <2>3, <2>4 DEF Unchanged
  <2>6. Shown(key, n) = Shown(key, v)
    BY <2>4, <2>5, ShownSame
  <2> QED
    BY <2>4, <2>6
<1> QED
  BY <1>3, <1>6, <1>7 DEF Shows

\* Whatever was dropped, refused, disconnected or restarted, requests that repeat are told
\* the same, the validator never refuses what a handler let through, and no preset or
\* policy lands inside a prompted turn.
THEOREM CommandsAreKept == ViewSpec => []CommandsKept
  BY ViewAlways, CommandsKeptNow, PTL

\* The frames on their way to a browser hold each event of the log once, in its place.
THEOREM EventsAreAnnouncedInOrder == ViewSpec => []AnnouncedInOrder
<1>1. ViewInv => AnnouncedInOrder
  BY PartsOf DEF FeedOK
<1> QED
  BY <1>1, ViewAlways, PTL

\* A connected browser at rest shows the whole log and the last values of each of its
\* projections, unless a request died before it announced its change, or a page of the
\* history paired old values with a newer sequence.
THEOREM BrowsersShowTheLog == ViewSpec => []ShowsTheLogUnlessMixed
  BY ViewAlways, ShowsNow, PTL

===============================================================================
