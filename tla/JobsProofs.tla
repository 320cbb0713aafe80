------------------------------- MODULE JobsProofs -------------------------------
(***************************************************************************)
(* Proofs about the job registry, for any number of jobs, owners, killers  *)
(* and waiters and any limits, and about shell commands as its producers.  *)
(***************************************************************************)
EXTENDS ShellJobs, FiniteSetTheorems, TLAPS

USE DEF entry, stop, vars

--------------------------------------------------------------------------------
(* Lemmas about single critical sections *)

\* Waking the waiters of a job keeps the type of the waiters.
LEMMA BumpType ==
    ASSUME Types, NEW j \in Jobs, Bump(j)
    PROVE  waiter' \in [Waiters -> WaiterState]
<1> DEFINE new(w) == IF waiter[w].job = j THEN [waiter[w] EXCEPT !.unseen = TRUE]
                                          ELSE waiter[w]
<1>1. ASSUME NEW w \in Waiters
      PROVE  new(w) \in WaiterState
  <2>1. waiter[w] \in WaiterState
    BY DEF Types
  <2> QED
    BY <2>1 DEF WaiterState
<1>2. waiter' = [w \in Waiters |-> new(w)]
  BY DEF Bump
<1> HIDE DEF new
<1> QED
  BY <1>1, <1>2

\* What an entry's critical section may do to the statuses of a registry
\* whose job j is committed.
StatusKept(j) ==
    /\ status' \in [Jobs -> Statuses]
    /\ \A i \in Jobs : i # j => status'[i] = status[i]
    /\ status'[j] # "None"
    /\ Terminal(status[j]) => status'[j] = status[j]

\* Settling leaves the job with a terminal status, the first one it got.
LEMMA SettleStatus ==
    ASSUME Types, NEW j \in Jobs, NEW o \in Outcomes, SettleEntry(j, o)
    PROVE  /\ StatusKept(j)
           /\ Terminal(status'[j])
           /\ finished' \in [Jobs -> Nat]
           /\ waiter' \in [Waiters -> WaiterState]
           /\ \A i \in Jobs : i # j => finished'[i] = finished[i]
           /\ finished'[j] = IF Terminal(status[j]) THEN finished[j] ELSE finished[j] + 1
<1>1. o \in Statuses /\ Terminal(o) /\ o # "None"
  BY JobsAssumption DEF JobsAssumption, Statuses, Terminal
<1>2. CASE Terminal(status[j])
  BY <1>1, <1>2 DEF SettleEntry, Types, StatusKept, Terminal
<1>3. CASE ~Terminal(status[j])
  <2>1. /\ status' = [status EXCEPT ![j] = o]
        /\ finished' = [finished EXCEPT ![j] = @ + 1]
        /\ Bump(j)
    BY <1>3 DEF SettleEntry
  <2> QED
    BY <1>1, <1>3, <2>1, BumpType DEF Types, StatusKept
<1> QED
  BY <1>2, <1>3

\* Marking a job as stopping changes no settled status.
LEMMA MarkStatus ==
    ASSUME Types, NEW j \in Jobs, Committed(j), MarkStopping(j)
    PROVE  /\ StatusKept(j)
           /\ status'[j] \in {status[j], "Stopping"}
           /\ waiter' \in [Waiters -> WaiterState]
<1>1. CASE Terminal(status[j])
  BY <1>1 DEF MarkStopping, Types, StatusKept, Committed
<1>2. CASE ~Terminal(status[j])
  <2>1. status' = [status EXCEPT ![j] = "Stopping"] /\ Bump(j)
    BY <1>2 DEF MarkStopping
  <2> QED
    BY <1>2, <2>1, BumpType DEF Types, StatusKept, Statuses
<1> QED
  BY <1>1, <1>2

\* Such a step keeps the parts of the entries consistent.
LEMMA KeepsConsistent ==
    ASSUME Types, Consistent, NEW j \in Jobs, Committed(j), StatusKept(j),
           UNCHANGED <<slot, seen>>,
           \/ lease' = lease
           \/ /\ lease[j] = "held" /\ Terminal(status'[j])
              /\ lease' = [lease EXCEPT ![j] = "done"],
           left' \subseteq left, marking' \subseteq marking,
           \A k \in Killers : killer'[k] = killer[k] \/ killer'[k].pc = "free"
    PROVE  Consistent'
<1>1. \A i \in Jobs : Committed(i)' <=> Committed(i)
  BY DEF StatusKept, Committed
<1>2. \A i \in Jobs : Terminal(status[i]) => Terminal(status'[i])
  BY DEF StatusKept
<1>3. \A i \in Jobs : (slot[i] \in {"job", "pruned"})' <=> Committed(i)'
  BY <1>1 DEF Consistent
<1>4. \A i \in Jobs : /\ lease'[i] = "none" <=> ~Committed(i)'
                      /\ lease'[i] = "done" => Terminal(status'[i])
  BY <1>1, <1>2 DEF Consistent, Types
<1>5. \A k \in Killers :
         killer'[k].pc # "free" => killer'[k].job \in Jobs /\ status'[killer'[k].job] # "None"
  BY <1>1 DEF Consistent, Committed
<1>6. \A i \in seen' \cup left' \cup marking' : Committed(i)'
  BY <1>1 DEF Consistent, Types
<1> QED
  BY <1>3, <1>4, <1>5, <1>6 DEF Consistent, Committed
--------------------------------------------------------------------------------
(* Type correctness *)

\* A step of admission, of a lease or of its output keeps the types.
LEMMA JobType ==
    ASSUME TypeOK, NEW j \in Jobs, JobStep(j)
    PROVE  TypeOK'
<1> USE DEF TypeOK
<1>1. CASE Reserve(j)
  <2>1. ~Committed(j)
    BY <1>1 DEF Reserve, Consistent
  <2> QED
    BY <1>1, <2>1 DEF Reserve, Types, Slots, Consistent, Committed
<1>2. CASE DropReservation(j)
  <2>1. ~Committed(j)
    BY <1>2 DEF DropReservation, Consistent
  <2> QED
    BY <1>2, <2>1 DEF DropReservation, Types, Slots, Consistent, Committed
<1>3. CASE Commit(j)
  <2>1. PICK R \in SUBSET Jobs :
           /\ Prunable(OwnerOf[j], R)
           /\ slot' = [i \in Jobs |-> IF i = j THEN "job"
                                      ELSE IF i \in R THEN "pruned" ELSE slot[i]]
    BY <1>3 DEF Commit
  <2>2. \A i \in R : slot[i] = "job"
    BY <2>1 DEF Prunable, Settled, Listed
  <2>3. /\ slot' \in [Jobs -> Slots]
        /\ slot'[j] = "job"
        /\ \A i \in Jobs : i # j => (slot'[i] \in {"job", "pruned"} <=> slot[i] \in {"job", "pruned"})
    BY <2>1, <2>2 DEF Types, Slots
  <2>4. /\ status' \in [Jobs -> Statuses] /\ lease' \in [Jobs -> {"none", "held", "done"}]
        /\ status'[j] = "Running" /\ lease'[j] = "held"
        /\ \A i \in Jobs : i # j => status'[i] = status[i] /\ lease'[i] = lease[i]
    BY <1>3 DEF Commit, Types, Statuses
  <2>5. KindOf[j] \in Kinds /\ NextNumber(KindOf[j]) \in Nat
    BY JobsAssumption DEF JobsAssumption, NextNumber, Types
  <2>6. Types'
    BY <1>3, <2>3, <2>4, <2>5 DEF Commit, Types
  <2>7. \A i \in Jobs : /\ slot'[i] \in {"job", "pruned"} <=> status'[i] # "None"
                        /\ lease'[i] = "none" <=> status'[i] = "None"
                        /\ lease'[i] = "done" => Terminal(status'[i])
    BY <2>3, <2>4 DEF Consistent, Committed
  <2>8. \A k \in Killers :
           killer'[k].pc # "free" => killer'[k].job \in Jobs /\ status'[killer'[k].job] # "None"
    BY <1>3, <2>4 DEF Commit, Consistent, Committed
  <2>9. \A i \in seen' \cup left' \cup marking' : status'[i] # "None"
    BY <1>3, <2>4 DEF Commit, Consistent, Committed, Types
  <2> QED
    BY <2>6, <2>7, <2>8, <2>9 DEF Consistent, Committed
<1>4. ASSUME NEW o \in Outcomes, FinishLease(j, o) PROVE TypeOK'
  <2>1. SettleEntry(j, o) /\ Committed(j)
    BY <1>4 DEF FinishLease, Consistent
  <2>2. Consistent'
    BY <1>4, <2>1, SettleStatus, KeepsConsistent DEF FinishLease
  <2>3. Types'
    BY <1>4, <2>1, SettleStatus DEF FinishLease, StatusKept, Types
  <2> QED
    BY <2>2, <2>3
<1>5. CASE PublishOutput(j)
  <2>1. Types'
    BY <1>5, BumpType DEF PublishOutput, Types
  <2> QED
    BY <1>5, <2>1 DEF PublishOutput, Consistent, Committed
<1> QED
  BY <1>1, <1>2, <1>3, <1>4, <1>5 DEF JobStep

\* A step of kill() keeps the types.
LEMMA KillType ==
    ASSUME TypeOK, NEW k \in Killers, KillStep(k)
    PROVE  TypeOK'
<1> USE DEF TypeOK
<1>1. ASSUME NEW j \in Jobs, KillLook(k, j) PROVE TypeOK'
  <2>1. Committed(j)
    BY <1>1 DEF KillLook, Consistent
  <2> QED
    BY <1>1, <2>1 DEF KillLook, Types, Consistent, Committed, KillerState
<1>2. CASE KillHook(k)
  <2>1. killer[k] \in KillerState /\ killer[k].job \in Jobs /\ Committed(killer[k].job)
    BY <1>2 DEF KillHook, Types, Consistent
  <2>2. CASE killer' = [killer EXCEPT ![k].pc = "mark"]
    <3> DEFINE r == [killer[k] EXCEPT !.pc = "mark"]
    <3>1. r \in KillerState /\ r.job = killer[k].job
      BY <2>1 DEF KillerState
    <3>2. killer' = [killer EXCEPT ![k] = r]
      BY <2>2
    <3> HIDE DEF r
    <3>3. asked' \in [Jobs -> BOOLEAN]
      BY <1>2, <2>1 DEF KillHook, Types
    <3>4. Types'
      BY <1>2, <3>1, <3>2, <3>3 DEF KillHook, Types
    <3>5. \A i \in Killers :
             killer'[i].pc # "free" => killer'[i].job \in Jobs /\ Committed(killer'[i].job)
      BY <2>1, <3>1, <3>2 DEF Consistent, Types
    <3> QED
      BY <1>2, <3>4, <3>5 DEF KillHook, Consistent, Committed
  <2>3. CASE killer' = [killer EXCEPT ![k] = [pc |-> "free", job |-> NoJob]] /\ UNCHANGED asked
    BY <1>2, <2>3 DEF KillHook, Types, KillerState, Consistent, Committed
  <2> QED
    BY <1>2, <2>2, <2>3 DEF KillHook
<1>3. CASE KillMark(k)
  <2> DEFINE j == killer[k].job
  <2>1. j \in Jobs /\ Committed(j) /\ MarkStopping(j)
    BY <1>3 DEF KillMark, Consistent
  <2>2. /\ killer' \in [Killers -> KillerState]
        /\ \A i \in Killers : killer'[i] = killer[i] \/ killer'[i].pc = "free"
    BY <1>3 DEF KillMark, Types, KillerState
  <2> HIDE DEF j
  <2>3. Types'
    BY <1>3, <2>1, <2>2, MarkStatus DEF KillMark, Types, StatusKept
  <2>4. StatusKept(j)
    BY <2>1, MarkStatus
  <2>5. Consistent'
    BY <1>3, <2>1, <2>2, <2>4, KeepsConsistent DEF KillMark
  <2> QED
    BY <2>3, <2>5
<1> QED
  BY <1>1, <1>2, <1>3 DEF KillStep

\* A step of wait() keeps the types.
LEMMA WaitType ==
    ASSUME TypeOK, NEW w \in Waiters,
           WaitStep(w) \/ WaitTimeout(w) \/ \E j \in Jobs : Subscribe(w, j)
    PROVE  TypeOK'
<1> USE DEF TypeOK
<1>1. UNCHANGED <<entry, killer, stop>> /\ waiter' \in [Waiters -> WaiterState]
  <2>1. waiter[w] \in WaiterState
    BY DEF Types
  <2>2. CASE Return(w)
    BY <2>2 DEF Return, Types, WaiterState
  <2>3. CASE Look(w) /\ ~Return(w)
    <3>1. [waiter[w] EXCEPT !.pc = "sleep"] \in WaiterState
      BY <2>1 DEF WaiterState
    <3>2. waiter' = [waiter EXCEPT ![w] = [waiter[w] EXCEPT !.pc = "sleep"]]
      BY <2>3 DEF Look
    <3> QED
      BY <2>3, <3>1, <3>2 DEF Look, Types
  <2>4. CASE Awake(w)
    <3> DEFINE r == [[waiter[w] EXCEPT !.pc = "look"] EXCEPT !.unseen = FALSE]
    <3>1. r \in WaiterState
      BY <2>1 DEF WaiterState
    <3>2. waiter' = [waiter EXCEPT ![w] = r]
      BY <2>4 DEF Awake, Types
    <3> HIDE DEF r
    <3> QED
      BY <2>4, <3>1, <3>2 DEF Awake, Types
  <2>5. ASSUME NEW j \in Jobs, Subscribe(w, j)
        PROVE  UNCHANGED <<entry, killer, stop>> /\ waiter' \in [Waiters -> WaiterState]
    BY <2>5 DEF Subscribe, Types, WaiterState
  <2> QED
    BY <2>2, <2>3, <2>4, <2>5 DEF WaitStep, WaitTimeout
<1> QED
  BY <1>1 DEF Types, Consistent, Committed

\* A step of shutdown() keeps the types.
LEMMA ShutdownType ==
    ASSUME TypeOK, ShutdownBegin \/ ShutdownPass
    PROVE  TypeOK'
<1> USE DEF TypeOK
<1>1. CASE ShutdownBegin
  <2>1. Types'
    BY <1>1 DEF ShutdownBegin, Types, Slots
  <2>2. \A j \in Jobs : slot'[j] \in {"job", "pruned"} <=> slot[j] \in {"job", "pruned"}
    BY <1>1 DEF ShutdownBegin
  <2>3. \A j \in seen' \cup left' \cup marking' : Committed(j)
    BY <1>1 DEF ShutdownBegin, Consistent
  <2> QED
    BY <1>1, <2>1, <2>2, <2>3 DEF ShutdownBegin, Consistent, Committed
<1>2. CASE ShutdownAwait
  BY <1>2 DEF ShutdownAwait, Types, Consistent, Committed
<1>3. CASE ShutdownDone
  BY <1>3 DEF ShutdownDone, Types, Consistent, Committed
<1>4. ASSUME NEW j \in Jobs, ShutdownSkip(j) \/ ShutdownStopped(j) PROVE TypeOK'
  BY <1>4 DEF ShutdownSkip, ShutdownStopped, Types, Consistent, Committed
<1>5. ASSUME NEW j \in Jobs, ShutdownLook(j) PROVE TypeOK'
  BY <1>5 DEF ShutdownLook, Types, Consistent, Committed
<1>6. ASSUME NEW j \in Jobs, ShutdownHook(j) PROVE TypeOK'
  BY <1>6 DEF ShutdownHook, Types, Consistent, Committed
<1>7. ASSUME NEW j \in Jobs, ShutdownHookFails(j) PROVE TypeOK'
  <2>1. "Failed" \in Outcomes /\ Committed(j) /\ SettleEntry(j, "Failed")
    BY <1>7, JobsAssumption DEF ShutdownHookFails, JobsAssumption, Consistent
  <2>2. Types'
    BY <1>7, <2>1, SettleStatus DEF ShutdownHookFails, Types, StatusKept
  <2>3. Consistent'
    BY <1>7, <2>1, SettleStatus, KeepsConsistent DEF ShutdownHookFails
  <2> QED
    BY <2>2, <2>3
<1>8. ASSUME NEW j \in Jobs, ShutdownMark(j) PROVE TypeOK'
  <2>1. Committed(j) /\ MarkStopping(j)
    BY <1>8 DEF ShutdownMark, Consistent
  <2>2. Types'
    BY <1>8, <2>1, MarkStatus DEF ShutdownMark, Types, StatusKept
  <2>3. StatusKept(j)
    BY <2>1, MarkStatus
  <2>4. UNCHANGED <<slot, seen, lease, killer>> /\ left' \subseteq left /\ marking' \subseteq marking
    BY <1>8 DEF ShutdownMark
  <2>5. Consistent'
    BY <2>1, <2>3, <2>4, KeepsConsistent
  <2> QED
    BY <2>2, <2>5
<1>9. ASSUME NEW j \in Jobs, ShutdownGraceOver(j) PROVE TypeOK'
  <2>1. "Failed" \in Outcomes /\ Committed(j) /\ SettleEntry(j, "Failed")
    BY <1>9, JobsAssumption DEF ShutdownGraceOver, JobsAssumption, Consistent
  <2>2. Types'
    BY <1>9, <2>1, SettleStatus DEF ShutdownGraceOver, Types, StatusKept
  <2>3. Consistent'
    BY <1>9, <2>1, SettleStatus, KeepsConsistent DEF ShutdownGraceOver
  <2> QED
    BY <2>2, <2>3
<1> QED
  BY <1>1, <1>2, <1>3, <1>4, <1>5, <1>6, <1>7, <1>8, <1>9 DEF ShutdownPass

\* The initial state is well typed and consistent.
LEMMA TypeInit == Init => TypeOK
BY DEF Init, TypeOK, Types, Consistent, Committed, Slots, Statuses, KillerState, WaiterState, Terminal

\* Every step keeps it so.
LEMMA TypeStep == TypeOK /\ [Next]_vars => TypeOK'
<1> SUFFICES ASSUME TypeOK, [Next]_vars PROVE TypeOK'
  OBVIOUS
<1>1. CASE UNCHANGED vars
  BY <1>1 DEF TypeOK, Types, Consistent, Committed
<1>2. CASE Next
  BY <1>2, JobType, KillType, WaitType, ShutdownType DEF Next
<1> QED
  BY <1>1, <1>2

\* Every reachable state of the registry is well typed, and its parts fit: a
\* producer's lease never ends without its job being settled (JobLease and
\* its Drop), and killers and shutdown only ever hold committed jobs.
THEOREM TypeCorrect == Spec => []TypeOK
BY TypeInit, TypeStep, PTL DEF Spec
--------------------------------------------------------------------------------
(* What a step does to the statuses and the Finished events *)

\* A step either leaves them alone, or commits, settles or marks one job.
LEMMA StatusSteps ==
    ASSUME TypeOK, Next
    PROVE  \/ UNCHANGED <<status, finished>>
           \/ \E j \in Jobs : Commit(j)
           \/ \E j \in Jobs, o \in Outcomes : Committed(j) /\ SettleEntry(j, o)
           \/ \E j \in Jobs : Committed(j) /\ MarkStopping(j) /\ UNCHANGED finished
<1> DEFINE Goal == \/ UNCHANGED <<status, finished>>
                   \/ \E j \in Jobs : Commit(j)
                   \/ \E j \in Jobs, o \in Outcomes : Committed(j) /\ SettleEntry(j, o)
                   \/ \E j \in Jobs : Committed(j) /\ MarkStopping(j) /\ UNCHANGED finished
<1>1. ASSUME NEW j \in Jobs, JobStep(j) PROVE Goal
  <2>1. ASSUME NEW o \in Outcomes, FinishLease(j, o) PROVE Goal
    BY <2>1 DEF FinishLease, TypeOK, Consistent
  <2> QED
    BY <1>1, <2>1 DEF JobStep, Reserve, DropReservation, PublishOutput
<1>2. ASSUME NEW k \in Killers, KillStep(k) PROVE Goal
  <2>1. CASE KillMark(k)
    BY <2>1 DEF KillMark, TypeOK, Consistent
  <2> QED
    BY <1>2, <2>1 DEF KillStep, KillLook, KillHook
<1>3. ASSUME NEW w \in Waiters,
             WaitStep(w) \/ WaitTimeout(w) \/ \E j \in Jobs : Subscribe(w, j)
      PROVE  Goal
  BY <1>3 DEF WaitStep, WaitTimeout, Subscribe, Look, Awake, Return
<1>4. CASE ShutdownBegin
  BY <1>4 DEF ShutdownBegin
<1>5. CASE ShutdownPass
  <2>1. ASSUME NEW j \in Jobs, ShutdownHookFails(j) \/ ShutdownGraceOver(j) PROVE Goal
    <3>1. "Failed" \in Outcomes /\ SettleEntry(j, "Failed") /\ Committed(j)
      BY <2>1, JobsAssumption
         DEF ShutdownHookFails, ShutdownGraceOver, JobsAssumption, TypeOK, Consistent
    <3> QED
      BY <3>1
  <2>2. ASSUME NEW j \in Jobs, ShutdownMark(j) PROVE Goal
    BY <2>2 DEF ShutdownMark, TypeOK, Consistent
  <2> QED
    BY <1>5, <2>1, <2>2
       DEF ShutdownPass, ShutdownSkip, ShutdownLook, ShutdownHook, ShutdownStopped,
           ShutdownAwait, ShutdownDone
<1> QED
  BY <1>1, <1>2, <1>3, <1>4, <1>5 DEF Next

\* The first outcome of a job is final: finish, kill, lease drop and
\* shutdown may race, but a job lives one of the legal lives.
THEOREM FirstOutcome == Spec => FirstOutcomeWins
<1> DEFINE Legal == \A j \in Jobs :
                       status'[j] # status[j] => <<status[j], status'[j]>> \in LegalSteps
<1>1. ASSUME TypeOK, Next PROVE Legal
  <2> SUFFICES ASSUME NEW i \in Jobs, status'[i] # status[i]
               PROVE  <<status[i], status'[i]>> \in LegalSteps
    OBVIOUS
  <2>1. status[i] \in {"None", "Running", "Stopping", "Completed", "Killed", "Failed"}
    BY <1>1, JobsAssumption DEF TypeOK, Types, Statuses, JobsAssumption
  <2>2. ASSUME NEW j \in Jobs, Commit(j) PROVE <<status[i], status'[i]>> \in LegalSteps
    <3>1. status[j] = "None"
      BY <1>1, <2>2 DEF Commit, MayCommit, TypeOK, Consistent, Committed
    <3> QED
      BY <1>1, <2>2, <3>1 DEF Commit, TypeOK, Types, LegalSteps
  <2>3. ASSUME NEW j \in Jobs, NEW o \in Outcomes, Committed(j), SettleEntry(j, o)
        PROVE  <<status[i], status'[i]>> \in LegalSteps
    BY <1>1, <2>1, <2>3, SettleStatus DEF TypeOK, StatusKept, Committed, LegalSteps, Terminal
  <2>4. ASSUME NEW j \in Jobs, Committed(j), MarkStopping(j)
        PROVE  <<status[i], status'[i]>> \in LegalSteps
    BY <1>1, <2>1, <2>4, MarkStatus DEF TypeOK, StatusKept, Committed, LegalSteps, Terminal
  <2> QED
    BY <1>1, <2>2, <2>3, <2>4, StatusSteps
<1>2. TypeOK /\ [Next]_vars => [Legal]_vars
  BY <1>1
<1> QED
  BY <1>2, TypeCorrect, PTL DEF Spec, FirstOutcomeWins

\* One Finished event is sent for every job that has settled and none for
\* any other, whichever of the four ends reached the entry first.
THEOREM OneEvent == Spec => []OneFinishedEvent
<1>1. Init => OneFinishedEvent
  BY DEF Init, OneFinishedEvent, Terminal
<1>2. TypeOK /\ OneFinishedEvent /\ [Next]_vars => OneFinishedEvent'
  <2> SUFFICES ASSUME TypeOK, OneFinishedEvent, Next PROVE OneFinishedEvent'
    BY DEF OneFinishedEvent
  <2>1. ASSUME NEW j \in Jobs, Commit(j) PROVE OneFinishedEvent'
    <3>1. status[j] = "None"
      BY <2>1 DEF Commit, MayCommit, TypeOK, Consistent, Committed
    <3> QED
      BY <2>1, <3>1 DEF Commit, TypeOK, Types, OneFinishedEvent, Terminal
  <2>2. ASSUME NEW j \in Jobs, NEW o \in Outcomes, SettleEntry(j, o) PROVE OneFinishedEvent'
    BY <2>2, SettleStatus DEF TypeOK, StatusKept, OneFinishedEvent
  <2>3. ASSUME NEW j \in Jobs, Committed(j), MarkStopping(j), UNCHANGED finished
        PROVE  OneFinishedEvent'
    BY <2>3, MarkStatus DEF TypeOK, StatusKept, OneFinishedEvent, Terminal
  <2>4. CASE UNCHANGED <<status, finished>>
    BY <2>4 DEF OneFinishedEvent
  <2> QED
    BY <2>1, <2>2, <2>3, <2>4, StatusSteps
<1> QED
  BY <1>1, <1>2, TypeCorrect, PTL DEF Spec
--------------------------------------------------------------------------------
(* Asking before marking *)

\* Killers and shutdown past their hook have asked the producer to stop.
AskedFirst ==
    /\ StoppingWasAsked
    /\ \A k \in Killers : killer[k].pc = "mark" => asked[killer[k].job]
    /\ \A i, j \in marking : i = j
    /\ shutdown = "mark" => \A j \in marking : asked[j]

\* A step keeps it: only a hook that succeeded leads to the marking.
LEMMA AskedStep ==
    ASSUME TypeOK, AskedFirst, Next
    PROVE  AskedFirst'
<1> USE DEF TypeOK
<1>1. \A j \in Jobs : asked[j] => asked'[j]
  BY DEF Types, Next, JobStep, Reserve, DropReservation, Commit, FinishLease, PublishOutput,
         KillStep, KillLook, KillHook, KillMark, WaitStep, WaitTimeout, Subscribe, Return, Look,
         Awake, ShutdownBegin, ShutdownPass, ShutdownSkip, ShutdownLook, ShutdownHook,
         ShutdownHookFails, ShutdownMark, ShutdownAwait, ShutdownStopped, ShutdownGraceOver,
         ShutdownDone
<1>2. \A k \in Killers : killer'[k].pc = "mark" => asked'[killer'[k].job]
  <2> SUFFICES ASSUME NEW k \in Killers, killer'[k].pc = "mark"
               PROVE  asked'[killer'[k].job]
    OBVIOUS
  <2>1. CASE killer'[k] = killer[k]
    BY <1>1, <2>1 DEF AskedFirst, Consistent
  <2>2. CASE killer'[k] # killer[k]
    <3>1. PICK i \in Killers : KillStep(i)
      BY <2>2 DEF Next, JobStep, Reserve, DropReservation, Commit, FinishLease, PublishOutput,
             WaitStep, WaitTimeout, Subscribe, Return, Look, Awake, ShutdownBegin, ShutdownPass,
             ShutdownSkip, ShutdownLook, ShutdownHook, ShutdownHookFails, ShutdownMark,
             ShutdownAwait, ShutdownStopped, ShutdownGraceOver, ShutdownDone
    <3>2. i = k
      BY <2>2, <3>1 DEF KillStep, KillLook, KillHook, KillMark, Types
    <3>3. ~KillMark(k) /\ \A j \in Jobs : ~KillLook(k, j)
      BY <3>2 DEF KillMark, KillLook, Types
    <3>4. KillHook(k) /\ killer[k].job \in Jobs
      BY <3>1, <3>2, <3>3 DEF KillStep, KillHook, Consistent
    <3>5. CASE killer' = [killer EXCEPT ![k] = [pc |-> "free", job |-> NoJob]]
      BY <3>5 DEF Types
    <3>6. CASE killer' = [killer EXCEPT ![k].pc = "mark"] /\ asked' = [asked EXCEPT ![killer[k].job] = TRUE]
      <4>1. killer[k] \in KillerState
        BY DEF Types
      <4>2. [killer[k] EXCEPT !.pc = "mark"].job = killer[k].job
        BY <4>1 DEF KillerState
      <4>3. killer'[k].job = killer[k].job
        BY <3>6, <4>2 DEF Types
      <4> QED
        BY <3>4, <3>6, <4>3 DEF Types
    <3> QED
      BY <3>4, <3>5, <3>6 DEF KillHook
  <2> QED
    BY <2>1, <2>2
<1>3. shutdown' = "mark" => \A j \in marking' : asked'[j]
  <2> SUFFICES ASSUME shutdown' = "mark", NEW j \in marking' PROVE asked'[j]
    OBVIOUS
  <2>1. CASE \E i \in Jobs : ShutdownHook(i)
    BY <2>1 DEF ShutdownHook, Types, AskedFirst
  <2>2. CASE UNCHANGED <<shutdown, marking>>
    BY <1>1, <2>2 DEF AskedFirst, Types
  <2> QED
    BY <2>1, <2>2
       DEF Next, JobStep, Reserve, DropReservation, Commit, FinishLease, PublishOutput,
           KillStep, KillLook, KillHook, KillMark, WaitStep, WaitTimeout, Subscribe, Return, Look,
           Awake, ShutdownBegin, ShutdownPass, ShutdownSkip, ShutdownLook,
           ShutdownHookFails, ShutdownMark, ShutdownAwait, ShutdownStopped, ShutdownGraceOver,
           ShutdownDone
<1>4. StoppingWasAsked'
  <2> SUFFICES ASSUME NEW i \in Jobs, status'[i] = "Stopping" PROVE asked'[i]
    BY DEF StoppingWasAsked
  <2>1. CASE status[i] = "Stopping"
    BY <1>1, <2>1 DEF AskedFirst, StoppingWasAsked
  <2>2. CASE status[i] # "Stopping"
    <3>1. ~(\E j \in Jobs : Commit(j))
      BY <2>2 DEF Commit, Types
    <3>2. ~(\E j \in Jobs, o \in Outcomes : Committed(j) /\ SettleEntry(j, o))
      BY <2>2, SettleStatus DEF StatusKept, Terminal
    <3>3. PICK j \in Jobs : Committed(j) /\ MarkStopping(j) /\ UNCHANGED finished
      BY <2>2, <3>1, <3>2, StatusSteps
    <3>4. i = j
      BY <2>2, <3>3, MarkStatus DEF StatusKept
    <3>5. CASE \E k \in Killers : KillMark(k)
      <4>1. PICK k \in Killers : KillMark(k)
        BY <3>5
      <4>2. killer[k].job \in Jobs /\ Committed(killer[k].job) /\ MarkStopping(killer[k].job)
        BY <4>1 DEF KillMark, Consistent
      <4>3. i = killer[k].job
        BY <2>2, <4>2, MarkStatus DEF StatusKept
      <4> QED
        BY <4>1, <4>3 DEF KillMark, AskedFirst
    <3>6. CASE \E n \in Jobs : ShutdownMark(n)
      <4>1. PICK n \in Jobs : ShutdownMark(n)
        BY <3>6
      <4>2. Committed(n) /\ MarkStopping(n) /\ asked[n]
        BY <4>1 DEF ShutdownMark, Consistent, AskedFirst
      <4>3. i = n
        BY <2>2, <4>2, MarkStatus DEF StatusKept
      <4> QED
        BY <1>1, <4>2, <4>3
    <3>7. CASE status' = status
      BY <2>2, <3>7
    <3>8. ASSUME NEW n \in Jobs, NEW o \in Outcomes, FinishLease(n, o) PROVE FALSE
      BY <3>2, <3>8 DEF FinishLease, Consistent
    <3>9. ASSUME NEW n \in Jobs, ShutdownHookFails(n) \/ ShutdownGraceOver(n) PROVE FALSE
      BY <3>2, <3>9, JobsAssumption
         DEF ShutdownHookFails, ShutdownGraceOver, Consistent, JobsAssumption
    <3> QED
      BY <3>1, <3>5, <3>6, <3>7, <3>8, <3>9
         DEF Next, JobStep, Reserve, DropReservation, PublishOutput, KillStep, KillLook, KillHook,
             WaitStep, WaitTimeout, Subscribe, Return, Look, Awake, ShutdownBegin, ShutdownPass,
             ShutdownSkip, ShutdownLook, ShutdownHook, ShutdownAwait, ShutdownStopped, ShutdownDone
  <2> QED
    BY <2>1, <2>2
<1>5. \A i, j \in marking' : i = j
  BY DEF AskedFirst, Next, JobStep, Reserve, DropReservation, Commit, FinishLease, PublishOutput,
         KillStep, KillLook, KillHook, KillMark, WaitStep, WaitTimeout, Subscribe, Return, Look,
         Awake, ShutdownBegin, ShutdownPass, ShutdownSkip, ShutdownLook, ShutdownHook,
         ShutdownHookFails, ShutdownMark, ShutdownAwait, ShutdownStopped, ShutdownGraceOver,
         ShutdownDone
<1> QED
  BY <1>2, <1>3, <1>4, <1>5 DEF AskedFirst

\* No job is shown as Stopping unless its producer's cancel hook has run,
\* although the hook runs outside the lock that guards the status.
THEOREM AskedBeforeStopping == Spec => []StoppingWasAsked
<1>1. Init => AskedFirst
  BY DEF Init, AskedFirst, StoppingWasAsked
<1>2. TypeOK /\ AskedFirst /\ [Next]_vars => AskedFirst'
  BY AskedStep DEF AskedFirst, StoppingWasAsked
<1>3. AskedFirst => StoppingWasAsked
  BY DEF AskedFirst
<1> QED
  BY <1>1, <1>2, <1>3, TypeCorrect, PTL DEF Spec
--------------------------------------------------------------------------------
(* What a step does to the registry map *)

\* Besides a commit, a step moves an attempt that is not yet a job only, and
\* numbers nothing.
LEMMA SlotSteps ==
    ASSUME TypeOK, Next
    PROVE  \/ \E j \in Jobs : Commit(j)
           \/ /\ UNCHANGED <<number, counters>>
              /\ \A i \in Jobs : slot'[i] = "job" <=> slot[i] = "job"
              /\ \A i \in Jobs : slot'[i] = "reserved" /\ slot[i] # "reserved" => Reserve(i)
<1> USE DEF TypeOK, Types
<1>1. ASSUME NEW j \in Jobs, Reserve(j) PROVE
              /\ UNCHANGED <<number, counters>>
              /\ \A i \in Jobs : slot'[i] = "job" <=> slot[i] = "job"
              /\ \A i \in Jobs : slot'[i] = "reserved" /\ slot[i] # "reserved" => Reserve(i)
  <2>1. \A i \in Jobs : i # j => slot'[i] = slot[i]
    BY <1>1 DEF Reserve
  <2> QED
    BY <1>1, <2>1 DEF Reserve
<1>2. ASSUME NEW j \in Jobs, DropReservation(j) PROVE
              /\ UNCHANGED <<number, counters>>
              /\ \A i \in Jobs : slot'[i] = "job" <=> slot[i] = "job"
              /\ \A i \in Jobs : slot'[i] = "reserved" => slot[i] = "reserved"
  BY <1>2 DEF DropReservation
<1>3. CASE ShutdownBegin
  BY <1>3 DEF ShutdownBegin
<1>4. CASE UNCHANGED <<slot, number, counters>>
  BY <1>4
<1> QED
  BY <1>1, <1>2, <1>3, <1>4
     DEF Next, JobStep, FinishLease, PublishOutput,
         KillStep, KillLook, KillHook, KillMark, WaitStep, WaitTimeout, Subscribe, Return, Look,
         Awake, ShutdownPass, ShutdownSkip, ShutdownLook, ShutdownHook,
         ShutdownHookFails, ShutdownMark, ShutdownAwait, ShutdownStopped, ShutdownGraceOver,
         ShutdownDone

\* A live job cannot become live again once settled, and a job only becomes
\* live by its commit.
LEMMA ActiveSteps ==
    ASSUME TypeOK, Next, NEW i \in Jobs, Active(status'[i])
    PROVE  Active(status[i]) \/ Commit(i)
<1> USE DEF TypeOK, Types, Active
<1>1. ASSUME NEW j \in Jobs, Commit(j) PROVE Active(status[i]) \/ Commit(i)
  BY <1>1 DEF Commit
<1>2. ASSUME NEW j \in Jobs, NEW o \in Outcomes, SettleEntry(j, o)
      PROVE  Active(status[i])
  BY <1>2, SettleStatus DEF StatusKept, Terminal
<1>3. ASSUME NEW j \in Jobs, Committed(j), MarkStopping(j)
      PROVE  Active(status[i])
  BY <1>3, MarkStatus, JobsAssumption
     DEF StatusKept, Terminal, Committed, Statuses, JobsAssumption
<1> QED
  BY <1>1, <1>2, <1>3, StatusSteps

\* Retention never removes a live job from the registry.
THEOREM LiveListed == Spec => []LiveJobsListed
<1>1. Init => LiveJobsListed
  BY DEF Init, LiveJobsListed, Active
<1>2. TypeOK /\ LiveJobsListed /\ [Next]_vars => LiveJobsListed'
  <2> SUFFICES ASSUME TypeOK, LiveJobsListed, Next, NEW i \in Jobs, Active(status'[i])
               PROVE  slot'[i] = "job"
    BY DEF LiveJobsListed
  <2>1. Active(status[i]) \/ Commit(i)
    BY ActiveSteps
  <2>2. ASSUME NEW j \in Jobs, Commit(j) PROVE slot'[i] = "job"
    <3>1. PICK R \in SUBSET Jobs :
             /\ Prunable(OwnerOf[j], R)
             /\ slot' = [n \in Jobs |-> IF n = j THEN "job"
                                        ELSE IF n \in R THEN "pruned" ELSE slot[n]]
      BY <2>2 DEF Commit
    <3>2. CASE i = j
      BY <3>1, <3>2
    <3>3. CASE i # j
      <4>1. Active(status[i])
        BY <2>1, <2>2, <3>3 DEF Commit, TypeOK, Types
      <4>2. i \notin R
        BY <3>1, <4>1 DEF Prunable, Settled, Terminal, Active
      <4> QED
        BY <3>1, <3>3, <4>1, <4>2 DEF LiveJobsListed
    <3> QED
      BY <3>2, <3>3
  <2>3. CASE ~ \E j \in Jobs : Commit(j)
    BY <2>1, <2>3, SlotSteps DEF LiveJobsListed
  <2> QED
    BY <2>2, <2>3
<1> QED
  BY <1>1, <1>2, TypeCorrect, PTL DEF Spec

\* Numbers of a kind lie at or below its counter, so the next is new.
Numbered == IdsUnique /\ \A j \in Jobs : number[j] <= counters[KindOf[j]]

\* A public id is never handed out again, also after its job was pruned.
THEOREM UniqueIds == Spec => []IdsUnique
<1>1. Init => Numbered
  BY JobsAssumption DEF Init, Numbered, IdsUnique, JobsAssumption
<1>2. TypeOK /\ Numbered /\ [Next]_vars => Numbered'
  <2> SUFFICES ASSUME TypeOK, Numbered, Next PROVE Numbered'
    BY DEF Numbered, IdsUnique
  <2>1. ASSUME NEW j \in Jobs, Commit(j) PROVE Numbered'
    <3>1. KindOf \in [Jobs -> Kinds]
      BY JobsAssumption DEF JobsAssumption
    <3>2. /\ counters' = [counters EXCEPT ![KindOf[j]] = @ + 1]
          /\ number' = [number EXCEPT ![j] = counters[KindOf[j]] + 1]
          /\ counters \in [Kinds -> Nat] /\ number \in [Jobs -> Nat]
      BY <2>1 DEF Commit, NextNumber, TypeOK, Types
    <3> QED
      BY <3>1, <3>2 DEF Numbered, IdsUnique
  <2>2. CASE UNCHANGED <<number, counters>>
    BY <2>2 DEF Numbered, IdsUnique
  <2> QED
    BY <2>1, <2>2, SlotSteps
<1>3. Numbered => IdsUnique
  BY DEF Numbered
<1> QED
  BY <1>1, <1>2, <1>3, TypeCorrect, PTL DEF Spec

--------------------------------------------------------------------------------
(* Shutdown *)

\* From the moment admission closed, every live job is one that shutdown saw;
\* past its first pass, one that it has not yet seen stop.
Closing ==
    /\ shutdown # "open" => ~accepting
    /\ shutdown # "open" => \A j \in Jobs : Active(status[j]) => j \in seen
    /\ shutdown \in {"await", "done"} => \A j \in seen \ left : Terminal(status[j])
    /\ shutdown = "done" => left = {}

\* A settled job stays settled.
LEMMA TerminalStays ==
    ASSUME TypeOK, Next, NEW i \in Jobs, Terminal(status[i])
    PROVE  Terminal(status'[i])
<1> USE DEF TypeOK, Types
<1>1. ASSUME NEW j \in Jobs, Commit(j) PROVE Terminal(status'[i])
  <2>1. status[j] = "None"
    BY <1>1 DEF Commit, MayCommit, Consistent, Committed
  <2> QED
    BY <1>1, <2>1 DEF Commit, Terminal
<1>2. ASSUME NEW j \in Jobs, NEW o \in Outcomes, SettleEntry(j, o) PROVE Terminal(status'[i])
  BY <1>2, SettleStatus DEF StatusKept
<1>3. ASSUME NEW j \in Jobs, Committed(j), MarkStopping(j) PROVE Terminal(status'[i])
  BY <1>3, MarkStatus DEF StatusKept
<1> QED
  BY <1>1, <1>2, <1>3, StatusSteps

LEMMA ClosingStep ==
    ASSUME TypeOK, LiveJobsListed, Closing, Next
    PROVE  Closing'
<1> USE DEF TypeOK, Types
<1>1. CASE ShutdownBegin
  <2>1. \A j \in Jobs : Active(status'[j]) => j \in seen'
    BY <1>1 DEF ShutdownBegin, LiveJobsListed
  <2> QED
    BY <1>1, <2>1 DEF ShutdownBegin, Closing
<1>2. CASE ~ShutdownBegin
  <2>1. seen' = seen /\ accepting' = accepting /\ (shutdown' # "open" => shutdown # "open")
    BY <1>2 DEF Next, JobStep, Reserve, DropReservation, Commit, FinishLease, PublishOutput,
         KillStep, KillLook, KillHook, KillMark, WaitStep, WaitTimeout, Subscribe, Return, Look,
         Awake, ShutdownPass, ShutdownSkip, ShutdownLook, ShutdownHook,
         ShutdownHookFails, ShutdownMark, ShutdownAwait, ShutdownStopped, ShutdownGraceOver,
         ShutdownDone
  <2>2. ASSUME shutdown' # "open", NEW j \in Jobs, Active(status'[j]) PROVE j \in seen'
    BY <2>1, <2>2, ActiveSteps DEF Closing, Commit, MayCommit
  <2>3. /\ shutdown' \in {"await", "done"} => \A j \in seen' \ left' : Terminal(status'[j])
        /\ shutdown' = "done" => left' = {}
    <3>1. CASE UNCHANGED stop
      BY <3>1, TerminalStays DEF Closing
    <3>2. CASE ShutdownAwait \/ ShutdownDone
      BY <3>2 DEF ShutdownAwait, ShutdownDone, Closing
    <3>3. ASSUME NEW i \in Jobs, ShutdownStopped(i)
          PROVE  /\ shutdown' = "await"
                 /\ \A j \in seen' \ left' : Terminal(status'[j])
      BY <3>3 DEF ShutdownStopped, Closing
    <3>4. ASSUME NEW i \in Jobs, ShutdownGraceOver(i)
          PROVE  /\ shutdown' = "await"
                 /\ \A j \in seen' \ left' : Terminal(status'[j])
      <4>1. Terminal(status'[i])
        BY <3>4, SettleStatus, JobsAssumption DEF ShutdownGraceOver, JobsAssumption
      <4> QED
        BY <3>4, <4>1, TerminalStays DEF ShutdownGraceOver, Closing
    <3>5. CASE shutdown' \notin {"await", "done"}
      BY <3>5
    <3> QED
      BY <1>2, <3>1, <3>2, <3>3, <3>4, <3>5
         DEF Next, JobStep, Reserve, DropReservation, Commit, FinishLease, PublishOutput,
             KillStep, KillLook, KillHook, KillMark, WaitStep, WaitTimeout, Subscribe, Return,
             Look, Awake, ShutdownPass, ShutdownSkip, ShutdownLook, ShutdownHook,
             ShutdownHookFails, ShutdownMark
  <2> QED
    BY <2>1, <2>2, <2>3 DEF Closing
<1> QED
  BY <1>1, <1>2

\* When shutdown returns no job is live, whatever reservation was about to
\* be committed and whatever kill was under way when it began.
THEOREM ShutdownComplete == Spec => []ShutdownLeavesNothing
<1>1. Init => Closing
  BY DEF Init, Closing
<1>2. TypeOK /\ LiveJobsListed /\ Closing /\ [Next]_vars => Closing'
  BY ClosingStep DEF Closing
<1>3. TypeOK /\ Closing => ShutdownLeavesNothing
  BY DEF TypeOK, Types, Closing, ShutdownLeavesNothing, Active, Terminal
<1> QED
  BY <1>1, <1>2, <1>3, TypeCorrect, LiveListed, PTL DEF Spec
--------------------------------------------------------------------------------
(* Limits *)

\* The sets whose sizes the limits bound are finite.
LEMMA Sizes ==
    ASSUME NEW S \in SUBSET Jobs
    PROVE  IsFiniteSet(S) /\ Cardinality(S) \in Nat
BY JobsAssumption, FS_Subset, FS_CardinalityType DEF JobsAssumption

\* A commit turns one reservation of its owner into one live job.
LEMMA CommitSizes ==
    ASSUME TypeOK, NEW j \in Jobs, Commit(j), NEW o \in Owners
    PROVE  /\ Cardinality(Running(o)') + Cardinality(Reserved(o)') =
              Cardinality(Running(o)) + Cardinality(Reserved(o))
<1> USE DEF TypeOK, Types
<1>1. PICK R \in SUBSET Jobs :
         /\ Prunable(OwnerOf[j], R)
         /\ slot' = [n \in Jobs |-> IF n = j THEN "job"
                                    ELSE IF n \in R THEN "pruned" ELSE slot[n]]
  BY DEF Commit
<1>2. \A n \in R : slot[n] = "job" /\ ~Active(status[n])
  BY <1>1 DEF Prunable, Settled, Listed, Active, Terminal
<1>3. /\ slot[j] = "reserved" /\ Active(status'[j])
      /\ \A n \in Jobs : n # j => status'[n] = status[n]
  BY DEF Commit, MayCommit, Active
<1>4. CASE OwnerOf[j] = o
  <2>1. Running(o)' = Running(o) \cup {j} /\ j \notin Running(o)
    BY <1>1, <1>2, <1>3, <1>4 DEF Running, Listed
  <2>2. Reserved(o)' = Reserved(o) \ {j} /\ j \in Reserved(o)
    BY <1>1, <1>2, <1>3, <1>4 DEF Reserved
  <2>3. Running(o) \in SUBSET Jobs /\ Reserved(o) \in SUBSET Jobs
    BY DEF Running, Listed, Reserved
  <2> QED
    BY <2>1, <2>2, <2>3, Sizes, FS_AddElement, FS_RemoveElement
<1>5. CASE OwnerOf[j] # o
  <2>1. Running(o)' = Running(o)
    BY <1>1, <1>2, <1>3, <1>5 DEF Running, Listed
  <2>2. Reserved(o)' = Reserved(o)
    BY <1>1, <1>2, <1>3, <1>5 DEF Reserved
  <2> QED
    BY <2>1, <2>2
<1> QED
  BY <1>4, <1>5

\* The limit on live jobs and reservations of an owner holds at every moment,
\* although a slot is taken in one critical section and used in another.
THEOREM CapacityLimit == Spec => []CapacityRespected
<1>1. Init => CapacityRespected
  <2> SUFFICES ASSUME Init, NEW o \in Owners
               PROVE  Cardinality(Running(o)) + Cardinality(Reserved(o)) <= MaxConcurrent
    BY DEF CapacityRespected
  <2>1. Running(o) = {} /\ Reserved(o) = {}
    BY DEF Init, Running, Listed, Reserved
  <2> QED
    BY <2>1, FS_EmptySet, JobsAssumption DEF JobsAssumption
<1>2. TypeOK /\ CapacityRespected /\ [Next]_vars => CapacityRespected'
  <2> SUFFICES ASSUME TypeOK, CapacityRespected, [Next]_vars, NEW o \in Owners
               PROVE  Cardinality(Running(o)') + Cardinality(Reserved(o)') <= MaxConcurrent
    BY DEF CapacityRespected
  <2> DEFINE Used == Cardinality(Running(o)) + Cardinality(Reserved(o))
  <2>1. Used <= MaxConcurrent /\ MaxConcurrent \in Nat
    BY JobsAssumption DEF CapacityRespected, JobsAssumption
  <2>2. /\ Running(o) \in SUBSET Jobs /\ Reserved(o) \in SUBSET Jobs
        /\ Running(o)' \in SUBSET Jobs /\ Reserved(o)' \in SUBSET Jobs
    BY DEF Running, Listed, Reserved
  <2>3. CASE UNCHANGED vars
    BY <2>1, <2>3 DEF Running, Listed, Reserved
  <2>4. ASSUME NEW j \in Jobs, Commit(j)
        PROVE  Cardinality(Running(o)') + Cardinality(Reserved(o)') <= MaxConcurrent
    BY <2>1, <2>4, CommitSizes
  <2>5. CASE Next /\ ~ \E j \in Jobs : Commit(j)
    <3>1. Running(o)' \subseteq Running(o)
      BY <2>5, SlotSteps, ActiveSteps DEF Running, Listed
    <3>2. Cardinality(Running(o)') <= Cardinality(Running(o))
      BY <2>2, <3>1, Sizes, FS_Subset
    <3>3. ASSUME NEW j \in Jobs, Reserve(j)
          PROVE  Cardinality(Running(o)') + Cardinality(Reserved(o)') <= MaxConcurrent
      <4>1. /\ \A i \in Jobs : i # j => slot'[i] = slot[i]
            /\ slot[j] = "none" /\ slot'[j] = "reserved" /\ HasCapacity(OwnerOf[j])
        BY <3>3 DEF Reserve, TypeOK, Types
      <4>2. CASE OwnerOf[j] = o
        <5>1. Reserved(o)' = Reserved(o) \cup {j}
          BY <4>1, <4>2 DEF Reserved
        <5>2. Cardinality(Reserved(o)') <= Cardinality(Reserved(o)) + 1
          BY <2>2, <5>1, Sizes, FS_AddElement
        <5>3. Used < MaxConcurrent
          BY <4>1, <4>2 DEF HasCapacity
        <5> QED
          BY <2>1, <2>2, <3>2, <5>2, <5>3, Sizes
      <4>3. CASE OwnerOf[j] # o
        <5>1. Reserved(o)' = Reserved(o)
          BY <4>1, <4>3 DEF Reserved
        <5> QED
          BY <2>1, <2>2, <3>2, <5>1, Sizes
      <4> QED
        BY <4>2, <4>3
    <3>4. CASE ~ \E j \in Jobs : Reserve(j)
      <4>1. Reserved(o)' \subseteq Reserved(o)
        BY <2>5, <3>4, SlotSteps DEF Reserved
      <4>2. Cardinality(Reserved(o)') <= Cardinality(Reserved(o))
        BY <2>2, <4>1, Sizes, FS_Subset
      <4> QED
        BY <2>1, <2>2, <3>2, <4>2, Sizes
    <3> QED
      BY <3>3, <3>4
  <2> QED
    BY <2>3, <2>4, <2>5
<1> QED
  BY <1>1, <1>2, TypeCorrect, PTL DEF Spec

\* The registry's list of an owner stays bounded by its two limits: a commit
\* makes room among the settled jobs, and live ones are bounded themselves.
THEOREM HistoryLimit == Spec => []HistoryBounded
<1> DEFINE Bound == IF MaxRetained < MaxConcurrent THEN MaxConcurrent ELSE MaxRetained
<1>0. MaxRetained \in Nat \ {0} /\ MaxConcurrent \in Nat \ {0}
  BY JobsAssumption DEF JobsAssumption
<1>1. Init => HistoryBounded
  <2> SUFFICES ASSUME Init, NEW o \in Owners PROVE Cardinality(Listed(o)) <= Bound
    BY DEF HistoryBounded
  <2>1. Listed(o) = {}
    BY DEF Init, Listed
  <2> QED
    BY <1>0, <2>1, FS_EmptySet
<1>2. TypeOK /\ CapacityRespected' /\ HistoryBounded /\ [Next]_vars => HistoryBounded'
  <2> SUFFICES ASSUME TypeOK, CapacityRespected', HistoryBounded, [Next]_vars, NEW o \in Owners
               PROVE  Cardinality(Listed(o)') <= Bound
    BY DEF HistoryBounded
  <2>1. Cardinality(Listed(o)) <= Bound
    BY DEF HistoryBounded
  <2>2. CASE Listed(o)' = Listed(o)
    BY <2>1, <2>2
  <2>3. ASSUME NEW j \in Jobs, Commit(j) PROVE Cardinality(Listed(o)') <= Bound
    <3>1. PICK R \in SUBSET Jobs :
             /\ Prunable(OwnerOf[j], R)
             /\ slot' = [n \in Jobs |-> IF n = j THEN "job"
                                        ELSE IF n \in R THEN "pruned" ELSE slot[n]]
      BY <2>3 DEF Commit
    <3>2. slot[j] = "reserved" /\ status'[j] = "Running"
          /\ \A n \in Jobs : n # j => status'[n] = status[n]
      BY <2>3 DEF Commit, MayCommit, TypeOK, Types
    <3>3. R \subseteq Listed(OwnerOf[j])
      BY <3>1 DEF Prunable, Settled
    <3>4. CASE OwnerOf[j] # o
      <4>1. Listed(o)' = Listed(o)
        BY <3>1, <3>2, <3>3, <3>4 DEF Listed
      <4> QED
        BY <2>1, <4>1
    <3>5. CASE OwnerOf[j] = o
      <4> DEFINE L == Listed(o)
      <4>1. Listed(o)' = (L \ R) \cup {j} /\ j \notin L
        BY <3>1, <3>2, <3>3, <3>5 DEF Listed
      <4>2. L \in SUBSET Jobs /\ L \ R \in SUBSET Jobs /\ L \cap R = R
        BY <3>3, <3>5 DEF Listed
      <4>3. /\ Cardinality(L) \in Nat /\ Cardinality(R) \in Nat
            /\ Cardinality(L \ R) = Cardinality(L) - Cardinality(R)
            /\ Cardinality(Listed(o)') = Cardinality(L \ R) + 1
        <5> HIDE DEF L
        <5>1. IsFiniteSet(L) /\ Cardinality(L) \in Nat /\ IsFiniteSet(L \ R)
          BY <4>2, Sizes
        <5>2. Cardinality(L \ R) = Cardinality(L) - Cardinality(L \cap R)
          BY <5>1, FS_Difference
        <5>3. Cardinality((L \ R) \cup {j}) = Cardinality(L \ R) + 1
          BY <4>1, <5>1, FS_AddElement
        <5> QED
          BY <4>1, <4>2, <5>1, <5>2, <5>3, Sizes
      <4>4. CASE Cardinality(R) = Excess(o)
        BY <1>0, <4>3, <4>4 DEF Excess
      <4>5. CASE R = Settled(o)
        <5>1. \A n \in L \ R : Active(status[n])
          BY <4>5, JobsAssumption
             DEF Settled, Listed, TypeOK, Types, Consistent, Committed, Statuses, Active, Terminal,
                 JobsAssumption
        <5>2. Listed(o)' \subseteq Running(o)'
          BY <3>2, <4>1, <4>2, <5>1 DEF Running, Listed, Active
        <5>3. /\ Running(o)' \in SUBSET Jobs /\ Reserved(o)' \in SUBSET Jobs
              /\ Cardinality(Running(o)') + Cardinality(Reserved(o)') <= MaxConcurrent
          BY DEF CapacityRespected, Running, Listed, Reserved
        <5>4. Cardinality(Listed(o)') <= Cardinality(Running(o)')
          BY <5>2, <5>3, Sizes, FS_Subset
        <5> QED
          BY <1>0, <4>3, <5>3, <5>4, Sizes
      <4> QED
        BY <3>1, <3>5, <4>4, <4>5 DEF Prunable
    <3> QED
      BY <3>4, <3>5
  <2> QED
    BY <2>2, <2>3, SlotSteps DEF Listed
<1> QED
  BY <1>1, <1>2, TypeCorrect, CapacityLimit, PTL DEF Spec
--------------------------------------------------------------------------------
\* What the registry keeps, all of it at once, for every set of jobs, owners,
\* killers and waiters and all limits (JobRegistry's critical sections).
THEOREM Kept == Spec => []RegistryKept
BY CapacityLimit, HistoryLimit, LiveListed, UniqueIds, OneEvent, AskedBeforeStopping,
   ShutdownComplete, PTL DEF RegistryKept

--------------------------------------------------------------------------------
(* Waiters, and a shutdown that was clean *)

\* A waiter subscribed to a job of the registry, and has not slept through its end.
WaitersWake ==
    \A w \in Waiters :
        /\ waiter[w].pc # "free" => waiter[w].job \in Jobs
        /\ waiter[w].pc = "sleep" /\ Terminal(status[waiter[w].job]) => waiter[w].unseen

\* A section that ends j wakes the waiters of j.
LEMMA SettleWakes ==
    ASSUME TypeOK, WaitersWake, NEW j \in Jobs, NEW o \in Outcomes, SettleEntry(j, o)
    PROVE  WaitersWake'
<1>1. StatusKept(j) /\ waiter \in [Waiters -> WaiterState]
  BY SettleStatus DEF TypeOK, Types
<1>2. CASE Terminal(status[j])
  BY <1>2 DEF SettleEntry, WaitersWake
<1>3. CASE ~Terminal(status[j])
  <2> SUFFICES ASSUME NEW w \in Waiters
               PROVE  /\ waiter'[w].pc # "free" => waiter'[w].job \in Jobs
                      /\ waiter'[w].pc = "sleep" /\ Terminal(status'[waiter'[w].job])
                            => waiter'[w].unseen
    BY DEF WaitersWake
  <2>1. waiter'[w] = IF waiter[w].job = j THEN [waiter[w] EXCEPT !.unseen = TRUE] ELSE waiter[w]
    BY <1>3 DEF SettleEntry, Bump
  <2>2. waiter'[w].pc = waiter[w].pc /\ waiter'[w].job = waiter[w].job
        /\ (waiter[w].job = j => waiter'[w].unseen)
        /\ (waiter[w].job # j => waiter'[w].unseen = waiter[w].unseen)
    BY <1>1, <2>1 DEF WaiterState
  <2> QED
    BY <1>1, <2>2 DEF StatusKept, WaitersWake
<1> QED
  BY <1>2, <1>3

\* Waking them never hurts.
LEMMA BumpWakes ==
    ASSUME TypeOK, WaitersWake, NEW j \in Jobs, Bump(j),
           \A i \in Jobs : Terminal(status'[i]) => Terminal(status[i])
    PROVE  WaitersWake'
<1> SUFFICES ASSUME NEW w \in Waiters
             PROVE  /\ waiter'[w].pc # "free" => waiter'[w].job \in Jobs
                    /\ waiter'[w].pc = "sleep" /\ Terminal(status'[waiter'[w].job])
                          => waiter'[w].unseen
  BY DEF WaitersWake
<1>1. waiter'[w] = IF waiter[w].job = j THEN [waiter[w] EXCEPT !.unseen = TRUE] ELSE waiter[w]
  BY DEF Bump
<1>2. waiter'[w].pc = waiter[w].pc /\ waiter'[w].job = waiter[w].job
      /\ (waiter[w].unseen => waiter'[w].unseen)
  BY <1>1 DEF WaiterState, TypeOK, Types
<1> QED
  BY <1>2 DEF WaitersWake

LEMMA MarkWakes ==
    ASSUME TypeOK, WaitersWake, NEW j \in Jobs, Committed(j), MarkStopping(j)
    PROVE  WaitersWake'
<1>1. CASE Terminal(status[j])
  BY <1>1 DEF MarkStopping, WaitersWake
<1>2. CASE ~Terminal(status[j])
  <2>1. status' = [status EXCEPT ![j] = "Stopping"] /\ Bump(j)
    BY <1>2 DEF MarkStopping
  <2>2. \A i \in Jobs : Terminal(status'[i]) => Terminal(status[i])
    BY <2>1 DEF TypeOK, Types, Terminal
  <2> QED
    BY <2>1, <2>2, BumpWakes
<1> QED
  BY <1>1, <1>2

LEMMA WakeStep ==
    ASSUME TypeOK, WaitersWake, Next
    PROVE  WaitersWake'
<1> USE DEF TypeOK
<1>1. CASE UNCHANGED <<status, waiter>>
  BY <1>1 DEF WaitersWake
<1>2. ASSUME NEW j \in Jobs, Commit(j) PROVE WaitersWake'
  <2>1. \A i \in Jobs : Terminal(status'[i]) => Terminal(status[i])
    BY <1>2 DEF Commit, Types, Terminal
  <2> QED
    BY <1>2, <2>1 DEF Commit, WaitersWake
<1>3. ASSUME NEW j \in Jobs, NEW o \in Outcomes, FinishLease(j, o) PROVE WaitersWake'
  BY <1>3, SettleWakes DEF FinishLease
<1>4. ASSUME NEW j \in Jobs, PublishOutput(j) PROVE WaitersWake'
  BY <1>4, BumpWakes DEF PublishOutput
<1>5. ASSUME NEW k \in Killers, KillMark(k) PROVE WaitersWake'
  BY <1>5, MarkWakes DEF KillMark, Consistent
<1>6. ASSUME NEW w \in Waiters,
             WaitStep(w) \/ WaitTimeout(w) \/ \E j \in Jobs : Subscribe(w, j)
      PROVE  WaitersWake'
  <2> DEFINE Good(state) == /\ state.pc # "free" => state.job \in Jobs
                            /\ state.pc = "sleep" /\ Terminal(status[state.job]) => state.unseen
  <2>1. PICK new : waiter' = [waiter EXCEPT ![w] = new] /\ Good(new)
    <3>1. waiter[w] \in WaiterState /\ Good(waiter[w])
      BY DEF Types, WaitersWake
    <3>2. CASE Return(w)
      <4>1. Good([pc |-> "free", job |-> NoJob, unseen |-> FALSE])
        OBVIOUS
      <4>2. waiter' = [waiter EXCEPT ![w] = [pc |-> "free", job |-> NoJob, unseen |-> FALSE]]
        BY <3>2 DEF Return
      <4> HIDE DEF Good
      <4> QED
        BY <4>1, <4>2
    <3>3. CASE Look(w) /\ ~Return(w)
      <4>1. waiter' = [waiter EXCEPT ![w] = [waiter[w] EXCEPT !.pc = "sleep"]]
        BY <3>3 DEF Look
      <4>2. Good([waiter[w] EXCEPT !.pc = "sleep"])
        BY <3>1, <3>3 DEF Look, WaiterState
      <4> QED
        BY <4>1, <4>2
    <3>4. CASE Awake(w)
      <4>1. waiter' = [waiter EXCEPT ![w] = [waiter[w] EXCEPT !.pc = "look", !.unseen = FALSE]]
        BY <3>1, <3>4 DEF Awake, WaiterState
      <4>2. Good([waiter[w] EXCEPT !.pc = "look", !.unseen = FALSE])
        BY <3>1, <3>4 DEF Awake, WaiterState
      <4> QED
        BY <4>1, <4>2
    <3>5. ASSUME NEW j \in Jobs, Subscribe(w, j)
          PROVE  \E new : waiter' = [waiter EXCEPT ![w] = new] /\ Good(new)
      <4>1. Good([pc |-> "look", job |-> j, unseen |-> FALSE])
        OBVIOUS
      <4>2. waiter' = [waiter EXCEPT ![w] = [pc |-> "look", job |-> j, unseen |-> FALSE]]
        BY <3>5 DEF Subscribe
      <4> HIDE DEF Good
      <4> QED
        BY <4>1, <4>2
    <3> QED
      BY <1>6, <3>2, <3>3, <3>4, <3>5 DEF WaitStep, WaitTimeout
  <2>2. \A v \in Waiters : Good(waiter'[v])
    BY <2>1 DEF Types, WaitersWake
  <2>3. status' = status
    BY <1>6 DEF WaitStep, WaitTimeout, Subscribe, Return, Look, Awake
  <2> QED
    BY <2>2, <2>3 DEF WaitersWake
<1>7. ASSUME NEW j \in Jobs, ShutdownHookFails(j) \/ ShutdownMark(j) \/ ShutdownGraceOver(j)
      PROVE  WaitersWake'
  <2>1. Committed(j) /\ "Failed" \in Outcomes
    BY <1>7, JobsAssumption DEF ShutdownHookFails, ShutdownMark, ShutdownGraceOver, Consistent,
                                JobsAssumption
  <2> QED
    BY <1>7, <2>1, SettleWakes, MarkWakes DEF ShutdownHookFails, ShutdownMark, ShutdownGraceOver
<1> QED
  BY <1>1, <1>2, <1>3, <1>4, <1>5, <1>6, <1>7
     DEF Next, JobStep, Reserve, DropReservation, KillStep, KillLook, KillHook, ShutdownBegin,
         ShutdownPass, ShutdownSkip, ShutdownLook, ShutdownHook, ShutdownAwait, ShutdownStopped,
         ShutdownDone

\* A task asleep in wait() on a job that has settled has a wake-up pending, whoever
\* settled the job and whatever the task saw before (the watch channel's revision).
THEOREM NobodyIsStranded == Spec => []NoStrandedWaiter
<1>1. Init => WaitersWake
  BY DEF Init, WaitersWake
<1>2. TypeOK /\ WaitersWake /\ [Next]_vars => WaitersWake'
  BY WakeStep DEF WaitersWake
<1>3. WaitersWake => NoStrandedWaiter
  BY DEF WaitersWake, NoStrandedWaiter
<1> QED
  BY <1>1, <1>2, <1>3, TypeCorrect, PTL DEF Spec

\* Until a hook fails or a grace period ends, a job settles by its producer's hand only.
CleanSoFar == clean => \A j \in Jobs : Terminal(status[j]) => lease[j] = "done"

LEMMA CleanStep ==
    ASSUME TypeOK, CleanSoFar, Next
    PROVE  CleanSoFar'
<1> USE DEF TypeOK
<1>1. CASE UNCHANGED <<status, lease, clean>>
  BY <1>1 DEF CleanSoFar
<1>2. ASSUME NEW j \in Jobs, Commit(j) PROVE CleanSoFar'
  BY <1>2 DEF Commit, Types, CleanSoFar, Terminal
<1>3. ASSUME NEW j \in Jobs, NEW o \in Outcomes, FinishLease(j, o) PROVE CleanSoFar'
  <2>1. StatusKept(j) /\ lease' = [lease EXCEPT ![j] = "done"] /\ clean' = clean
    BY <1>3, SettleStatus DEF FinishLease
  <2> QED
    BY <2>1 DEF StatusKept, Types, CleanSoFar
<1>4. ASSUME NEW j \in Jobs, Committed(j), MarkStopping(j), UNCHANGED <<lease, clean>>
      PROVE  CleanSoFar'
  BY <1>4, MarkStatus DEF StatusKept, CleanSoFar, Types, Terminal
<1>5. ASSUME NEW k \in Killers, KillMark(k) PROVE CleanSoFar'
  BY <1>4, <1>5 DEF KillMark, Consistent
<1>6. ASSUME NEW j \in Jobs, ShutdownMark(j) PROVE CleanSoFar'
  BY <1>4, <1>6 DEF ShutdownMark, Consistent
<1>7. ASSUME NEW j \in Jobs, ShutdownHookFails(j) \/ ShutdownGraceOver(j) PROVE CleanSoFar'
  BY <1>7 DEF ShutdownHookFails, ShutdownGraceOver, CleanSoFar
<1> QED
  BY <1>1, <1>2, <1>3, <1>5, <1>6, <1>7
     DEF Next, JobStep, Reserve, DropReservation, PublishOutput, KillStep, KillLook, KillHook,
         WaitStep, WaitTimeout, Subscribe, Return, Look, Awake, ShutdownBegin,
         ShutdownPass, ShutdownSkip, ShutdownLook, ShutdownHook, ShutdownAwait, ShutdownStopped,
         ShutdownDone

\* A shutdown that reports no failed hook and no timeout has seen every producer give up
\* its lease (JobRegistry::shutdown).
THEOREM CleanShutdown == Spec => []GracefulMeansStopped
<1>1. Init => CleanSoFar
  BY DEF Init, CleanSoFar, Terminal
<1>2. TypeOK /\ CleanSoFar /\ [Next]_vars => CleanSoFar'
  BY CleanStep DEF CleanSoFar
<1>3. TypeOK /\ CleanSoFar /\ ShutdownLeavesNothing => GracefulMeansStopped
  BY JobsAssumption DEF TypeOK, Types, Consistent, Committed, Statuses, Active, Terminal,
     JobsAssumption, CleanSoFar, ShutdownLeavesNothing, GracefulMeansStopped
<1> QED
  BY <1>1, <1>2, <1>3, TypeCorrect, ShutdownComplete, PTL DEF Spec

--------------------------------------------------------------------------------
(* Shell commands as producers *)

\* Their registry is the registry: what holds of any producers holds of shell commands.
LEMMA ShellStepIsJobStep == ShellNext => [Next]_vars
<1> SUFFICES ASSUME ShellNext PROVE [Next]_vars
  OBVIOUS
<1>1. ASSUME NEW j \in Jobs, Reserve(j) \/ DropReservation(j) \/ Commit(j) \/ PublishOutput(j)
      PROVE  Next
  BY <1>1 DEF Next, JobStep
<1>2. ASSUME NEW j \in Jobs, Finish(j) PROVE Next
  <2>1. PICK o \in Ended(j) : FinishLease(j, o)
    BY <1>2 DEF Finish
  <2>2. o \in Outcomes
    BY ShellAssumption DEF Ended, ShellAssumption
  <2> QED
    BY <2>1, <2>2 DEF Next, JobStep
<1>3. ASSUME NEW j \in Jobs,
             \/ Start(j) \/ CallShell(j) \/ CallCancelled(j)
             \/ \E from \in {"refused", "call"} : Returns(j, from) \/ Dropped(j, from)
      PROVE  UNCHANGED vars
  BY <1>3 DEF Start, CallShell, CallCancelled, Returns, Dropped
<1>4. ASSUME NEW j \in Jobs, ShutdownShell(j) PROVE Next
  BY <1>4 DEF ShutdownShell, Next, ShutdownPass
<1>5. CASE RegistryPass
  BY <1>4, <1>5 DEF RegistryPass, Next, ShutdownPass
<1>6. ASSUME NEW k \in Killers,
             KillShell(k) \/ (\E j \in Jobs : KillLook(k, j)) \/ KillMark(k)
      PROVE  Next
  BY <1>6 DEF KillShell, Next, KillStep
<1>7. ASSUME NEW j \in Jobs,
             \/ Admit(j) \/ NeverStarts(j) \/ Start(j) \/ Adopt(j) \/ Refused(j)
             \/ Publish(j) \/ Worker(j)
             \/ CallShell(j) \/ CallCancelled(j)
             \/ \E from \in {"refused", "call"} : Returns(j, from) \/ Dropped(j, from)
             \/ /\ (owner[j] = "call" /\ TimesOut(j)) \/ Lives(j) \/ Supervise(j)
                /\ UNCHANGED <<vars, owner, told>>
      PROVE  [Next]_vars
  BY <1>1, <1>2, <1>3, <1>7 DEF Admit, NeverStarts, Adopt, Refused, Publish, Worker, LastWords
<1>8. ASSUME NEW w \in Waiters,
             WaitStep(w) \/ WaitTimeout(w) \/ \E j \in Jobs : Subscribe(w, j)
      PROVE  Next
  BY <1>8 DEF Next
<1>9. CASE ShutdownBegin
  BY <1>9 DEF Next
<1> QED
  BY <1>5, <1>6, <1>7, <1>8, <1>9 DEF ShellNext

\* The registry of shell jobs is a registry: whatever is proved of any producers holds of
\* the bash tool's (no step of a process or of its worker reaches an entry but by the lease,
\* the cancel hook and the reservation).
THEOREM ShellJobsAreJobs == ShellSpec => Spec
<1>1. ShellInit => Init
  BY DEF ShellInit
<1>2. [ShellNext]_shellVars => [Next]_vars
  BY ShellStepIsJobStep DEF shellVars
<1> QED
  BY <1>1, <1>2, PTL DEF ShellSpec, Spec

\* A tree whose supervisor killed it, or found it ended, has nothing alive in its group.
Tree(p) ==
    /\ root[p] = "none" <=> sup[p] = "none"
    /\ sup[p] \in {"kill", "drain"} \/ result[p] = "ok" => ~Survives(p)
    /\ result[p] = "ok" => caught[p] = wrote[p]

ProcKept ==
    /\ ProcTypeOK
    /\ caught \in [Jobs -> Nat]
    /\ \A p \in Jobs : Tree(p)

\* The output of a tree is complete once there is a result, and grows until then.
Caught ==
    \A p \in Jobs :
        /\ result[p] # "none" => result'[p] = result[p] /\ caught'[p] = caught[p]
        /\ caught'[p] >= caught[p]

LEMMA CommandKeeps ==
    ASSUME ProcKept, NEW p \in Jobs, Lives(p) \/ Spawn(p) \/ RequestStop(p)
    PROVE  ProcKept' /\ Caught
<1> USE ShellAssumption DEF ProcKept, ProcTypeOK, ShellAssumption
<1>1. CASE Fork(p)
  <2>1. /\ Survives(p) /\ UNCHANGED <<root, sup, cancel, why, result, wrote, caught>>
        /\ \A q \in Jobs : q # p => member'[q] = member[q]
        /\ member' \in [Jobs -> Life] /\ escaped' \in [Jobs -> BOOLEAN]
    BY <1>1 DEF Fork, Life
  <2>2. ProcTypeOK' /\ Caught
    BY <2>1 DEF Caught
  <2>3. ASSUME NEW q \in Jobs PROVE Tree(q)'
    BY <2>1 DEF Tree, Survives
  <2> QED
    BY <2>1, <2>2, <2>3
<1>2. CASE Writes(p)
  BY <1>2 DEF Writes, Tree, Survives, Caught
<1>3. CASE RootEnds(p) \/ MemberEnds(p)
  BY <1>3 DEF RootEnds, MemberEnds, Tree, Survives, Caught, Life
<1>4. CASE Capture(p)
  BY <1>4 DEF Capture, Tree, Survives, Caught
<1>5. CASE Spawn(p)
  BY <1>5 DEF Spawn, Tree, Survives, Caught, Life
<1>6. CASE RequestStop(p)
  BY <1>6 DEF RequestStop, Tree, Survives, Caught
<1> QED
  BY <1>1, <1>2, <1>3, <1>4, <1>5, <1>6 DEF Lives

\* Killing the group leaves nothing of it alive, and wakes nothing that was dead.
LEMMA KilledIsDead ==
    ASSUME ProcKept, NEW p \in Jobs, Killed(p) \/ Spared
    PROVE  /\ root' \in [Jobs -> Life] /\ member' \in [Jobs -> Life]
           /\ \A q \in Jobs : q # p => root'[q] = root[q] /\ member'[q] = member[q]
           /\ root'[p] = "none" <=> root[p] = "none"
           /\ root'[p] = "alive" => root[p] = "alive"
           /\ member'[p] = "alive" => member[p] = "alive"
           /\ Killed(p) => root'[p] # "alive" /\ member'[p] # "alive"
BY DEF ProcKept, ProcTypeOK, Killed, Spared, Dies, Life

\* The supervisor moves on from where it was, and gives its result at most once.
LEMMA SupervisorKeeps ==
    ASSUME ProcKept, NEW p \in Jobs,
           sup[p] \notin {"none", "ended"},
           NEW to \in {"term", "kill", "failing", "drain", "ended"},
           NEW gives \in {"none", "ok", "err"}, gives # "none" <=> to = "ended",
           sup' = [sup EXCEPT ![p] = to], result' = [result EXCEPT ![p] = gives],
           root' \in [Jobs -> Life], member' \in [Jobs -> Life],
           \A q \in Jobs : q # p => root'[q] = root[q] /\ member'[q] = member[q],
           root'[p] = "none" <=> root[p] = "none",
           to \in {"kill", "drain"} \/ gives = "ok" => root'[p] # "alive" /\ member'[p] # "alive",
           gives = "ok" => caught[p] = wrote[p],
           why' \in [Jobs -> {"none", "exited", "cancelled", "timedout"}],
           UNCHANGED <<escaped, cancel, wrote, caught>>
    PROVE  ProcKept' /\ Caught
<1> USE DEF ProcKept, ProcTypeOK
<1>1. \A q \in Jobs : q # p => sup'[q] = sup[q] /\ result'[q] = result[q]
  OBVIOUS
<1>2. sup'[p] = to /\ result'[p] = gives /\ result[p] = "none"
  OBVIOUS
<1>3. ProcTypeOK'
  BY <1>1, <1>2
<1>4. ASSUME NEW q \in Jobs PROVE Tree(q)'
  BY <1>1, <1>2 DEF Tree, Survives
<1>5. Caught
  BY <1>1, <1>2 DEF Caught
<1> QED
  BY <1>3, <1>4, <1>5

LEMMA SupervisionKeeps ==
    ASSUME ProcKept, NEW p \in Jobs, Supervise(p) \/ TimesOut(p)
    PROVE  ProcKept' /\ Caught
<1>1. /\ sup \in [Jobs -> {"none", "select", "term", "kill", "failing", "drain", "ended"}]
      /\ result \in [Jobs -> {"none", "ok", "err"}] /\ root \in [Jobs -> Life]
      /\ member \in [Jobs -> Life]
      /\ why \in [Jobs -> {"none", "exited", "cancelled", "timedout"}]
      /\ (result[p] # "none" <=> sup[p] = "ended") /\ Tree(p)
  BY DEF ProcKept, ProcTypeOK
<1>2. ASSUME Fails(p), why' \in [Jobs -> {"none", "exited", "cancelled", "timedout"}],
             sup[p] \notin {"none", "ended"}
      PROVE  ProcKept' /\ Caught
  BY <1>2, KilledIsDead, SupervisorKeeps DEF Fails
<1>3. ASSUME sup' = [sup EXCEPT ![p] = "drain"] \/ sup' = [sup EXCEPT ![p] = "kill"],
             Killed(p), why' \in [Jobs -> {"none", "exited", "cancelled", "timedout"}],
             UNCHANGED <<escaped, cancel, result, wrote, caught>>,
             sup[p] \notin {"none", "ended"}
      PROVE  ProcKept' /\ Caught
  <2>1. result' = [result EXCEPT ![p] = "none"]
    BY <1>1, <1>3
  <2> QED
    BY <1>3, <2>1, KilledIsDead, SupervisorKeeps
<1>4. ASSUME KillTree(p), why' \in [Jobs -> {"none", "exited", "cancelled", "timedout"}],
             sup[p] \notin {"none", "ended"}
      PROVE  ProcKept' /\ Caught
  BY <1>2, <1>3, <1>4 DEF KillTree
<1>5. CASE Exited(p)
  <2>1. why' \in [Jobs -> {"none", "exited", "cancelled", "timedout"}]
    BY <1>1, <1>5 DEF Exited
  <2> QED
    BY <1>4, <1>5, <2>1 DEF Exited
<1>6. ASSUME NEW trigger \in {"cancelled", "timedout"}, Terminate(p, trigger)
      PROVE  ProcKept' /\ Caught
  <2>1. why' \in [Jobs -> {"none", "exited", "cancelled", "timedout"}]
    BY <1>1, <1>6 DEF Terminate
  <2>2. PICK to \in {"term", "failing"} : sup' = [sup EXCEPT ![p] = to]
    BY <1>6 DEF Terminate
  <2>3. result' = [result EXCEPT ![p] = "none"] /\ sup[p] = "select"
    BY <1>1, <1>6 DEF Terminate
  <2>4. /\ root' \in [Jobs -> Life] /\ member' \in [Jobs -> Life]
        /\ \A q \in Jobs : q # p => root'[q] = root[q] /\ member'[q] = member[q]
        /\ root'[p] = "none" <=> root[p] = "none"
    BY <1>1, <1>6 DEF Terminate, Dies, Life
  <2>5. UNCHANGED <<escaped, cancel, wrote, caught>>
    BY <1>6 DEF Terminate
  <2> QED
    BY <2>1, <2>2, <2>3, <2>4, <2>5, SupervisorKeeps
<1>7. CASE RootGoneAfterTerm(p)
  BY <1>1, <1>4, <1>7 DEF RootGoneAfterTerm
<1>8. CASE GraceOver(p)
  BY <1>1, <1>2, <1>3, <1>8 DEF GraceOver
<1>9. CASE RootGoneAfterKill(p)
  <2>1. CASE sup[p] = "failing" /\ Fails(p) /\ UNCHANGED why
    BY <1>1, <1>2, <2>1
  <2>2. CASE /\ sup[p] = "kill" /\ sup' = [sup EXCEPT ![p] = "drain"]
             /\ UNCHANGED <<root, member, escaped, cancel, result, wrote, caught, why>>
    <3>1. result' = [result EXCEPT ![p] = "none"] /\ ~Survives(p)
      BY <1>1, <2>2 DEF Tree
    <3> QED
      BY <1>1, <2>2, <3>1, SupervisorKeeps DEF Survives
  <2> QED
    BY <1>9, <2>1, <2>2 DEF RootGoneAfterKill
<1>10. CASE Drained(p)
  <2>1. ~Survives(p)
    BY <1>1, <1>10 DEF Drained, Tree
  <2> QED
    BY <1>1, <1>10, <2>1, SupervisorKeeps DEF Drained, Survives
<1>11. CASE DrainTimesOut(p)
  BY <1>1, <1>2, <1>11 DEF DrainTimesOut
<1> QED
  BY <1>5, <1>6, <1>7, <1>8, <1>9, <1>10, <1>11 DEF Supervise, TimesOut, Cancelled

\* The worker of a job holds its lease.  It ends the lease after the last of the output, and
\* only a process that came to its end is reported as completed or killed.
Producer(j) ==
    /\ owner[j] \in {"worker", "final"} => lease[j] = "held"
    /\ owner[j] = "final" \/ lease[j] = "done" => result[j] # "none" /\ told[j] = caught[j]
    /\ status[j] \in {"Completed", "Killed"} => result[j] = "ok"

ShellInv ==
    /\ ProcKept
    /\ owner \in [Jobs -> {"none", "handler", "refused", "worker", "final", "call", "done"}]
    /\ told \in [Jobs -> Nat] /\ \A p \in Jobs : told[p] <= caught[p]
    /\ \A j \in Jobs : Producer(j)

LEMMA ShellStart == ShellInit => ShellInv
<1> SUFFICES ASSUME ShellInit PROVE ShellInv
  OBVIOUS
<1>1. ProcKept
  BY ShellAssumption
     DEF ShellInit, ProcInit, ProcKept, ProcTypeOK, Tree, Survives, Life, ShellAssumption
<1>2. \A j \in Jobs : Producer(j)
  BY DEF ShellInit, Init, Producer
<1>3. told \in [Jobs -> Nat] /\ \A p \in Jobs : told[p] <= caught[p]
  BY DEF ShellInit, ProcInit
<1> QED
  BY <1>1, <1>2, <1>3 DEF ShellInit, ShellInv

\* What a step that is not the end of a lease does to the registry: it ends no lease, and
\* completes no job.
OnlyMarks ==
    /\ \A j \in Jobs : lease'[j] = lease[j] \/ (lease[j] = "none" /\ lease'[j] = "held")
    /\ \A j \in Jobs : status'[j] \in {"Completed", "Killed"} => status'[j] = status[j]

\* A step of the processes or of the registry that no producer notices.
LEMMA ProducerStays ==
    ASSUME TypeOK, ShellInv, ProcKept', Caught, OnlyMarks,
           UNCHANGED <<owner, told>>
    PROVE  ShellInv'
<1> USE DEF ShellInv
<1>1. \A p \in Jobs : told'[p] <= caught'[p]
  BY DEF ProcKept, Caught
<1>2. ASSUME NEW j \in Jobs PROVE Producer(j)'
  BY DEF Producer, Caught, OnlyMarks
<1> QED
  BY <1>1, <1>2

\* A step that hands the process of j on.
LEMMA OwnerMoves ==
    ASSUME TypeOK, ShellInv, ProcKept', Caught, OnlyMarks,
           NEW j \in Jobs, NEW to \in {"handler", "refused", "worker", "call", "done"},
           owner' = [owner EXCEPT ![j] = to], UNCHANGED told,
           to = "worker" => lease'[j] = "held"
    PROVE  ShellInv'
<1> USE DEF ShellInv
<1>1. \A p \in Jobs : told'[p] <= caught'[p]
  BY DEF ProcKept, Caught
<1>2. ASSUME NEW i \in Jobs PROVE Producer(i)'
  BY DEF Producer, Caught, OnlyMarks
<1> QED
  BY <1>1, <1>2

\* A step of the registry alone.
LEMMA NothingMoves ==
    ASSUME ShellInv, UNCHANGED procState
    PROVE  ProcKept' /\ Caught
BY DEF ShellInv, procState, ProcKept, ProcTypeOK, Tree, Survives, Caught

\* A step of a process alone.
LEMMA ProcessOnlyMarks == UNCHANGED vars => OnlyMarks
BY DEF OnlyMarks

\* The worker's output, its last words and the end of its lease.
LEMMA TellKeeps ==
    ASSUME TypeOK, ShellInv, NEW j \in Jobs, Publish(j) \/ LastWords(j)
    PROVE  ShellInv'
<1>1. /\ UNCHANGED <<status, lease>> /\ ProcKept' /\ UNCHANGED procState
      /\ told' = [told EXCEPT ![j] = caught[j]]
  BY NothingMoves DEF Publish, LastWords, PublishOutput, Tell
<1>2. /\ owner' = owner \/ (owner' = [owner EXCEPT ![j] = "final"] /\ result[j] # "none")
      /\ owner[j] = "worker"
  BY DEF Publish, LastWords, Owned
<1>3. told' \in [Jobs -> Nat] /\ \A p \in Jobs : told'[p] <= caught'[p]
  BY <1>1 DEF ShellInv, ProcKept, procState
<1>4. ASSUME NEW i \in Jobs PROVE Producer(i)'
  BY <1>1, <1>2 DEF ShellInv, ProcKept, Producer, procState
<1> QED
  BY <1>1, <1>2, <1>3, <1>4 DEF ShellInv

LEMMA FinishKeeps ==
    ASSUME TypeOK, ShellInv, NEW j \in Jobs, Finish(j)
    PROVE  ShellInv'
<1>1. /\ UNCHANGED told /\ ProcKept' /\ UNCHANGED procState
      /\ owner[j] = "final" /\ owner' = [owner EXCEPT ![j] = "done"]
  BY NothingMoves DEF Finish, Owned
<1>2. PICK o \in Ended(j) : FinishLease(j, o)
  BY DEF Finish
<1>3. /\ lease' = [lease EXCEPT ![j] = "done"]
      /\ \A i \in Jobs : status'[i] = status[i] \/ (i = j /\ status'[i] = o)
  BY <1>2 DEF FinishLease, SettleEntry, TypeOK, Types
<1>4. o \in {"Completed", "Killed"} => result[j] # "err"
  BY <1>2 DEF Ended
<1>5. result[j] \in {"none", "ok", "err"}
  BY DEF ShellInv, ProcKept, ProcTypeOK
<1>6. ASSUME NEW i \in Jobs PROVE Producer(i)'
  BY <1>1, <1>3, <1>4, <1>5 DEF ShellInv, Producer, TypeOK, Types, procState
<1> QED
  BY <1>1, <1>6 DEF ShellInv, procState

LEMMA ShellStep == TypeOK /\ ShellInv /\ [ShellNext]_shellVars => ShellInv'
<1> SUFFICES ASSUME TypeOK, ShellInv, [ShellNext]_shellVars PROVE ShellInv'
  OBVIOUS
<1>1. ASSUME NEW j \in Jobs, Admit(j) \/ NeverStarts(j) PROVE ShellInv'
  <2>1. UNCHANGED <<shellState, status, lease>>
    BY <1>1 DEF Admit, NeverStarts, Reserve, DropReservation
  <2> QED
    BY <2>1, NothingMoves, ProducerStays DEF shellState, OnlyMarks
<1>2. ASSUME NEW j \in Jobs, Start(j) \/ CallShell(j) PROVE ShellInv'
  BY <1>2, CommandKeeps, ProcessOnlyMarks, OwnerMoves DEF Start, CallShell, Owned, ShellInv
<1>3. ASSUME NEW j \in Jobs, Adopt(j) PROVE ShellInv'
  <2>1. Commit(j) /\ owner' = [owner EXCEPT ![j] = "worker"] /\ UNCHANGED <<procState, told>>
    BY <1>3 DEF Adopt, Owned
  <2>2. lease'[j] = "held" /\ OnlyMarks
    <3>1. lease[j] = "none"
      BY <2>1 DEF Commit, MayCommit, TypeOK, Consistent, Committed
    <3> QED
      BY <2>1, <3>1 DEF Commit, TypeOK, Types, OnlyMarks
  <2> QED
    BY <2>1, <2>2, NothingMoves, OwnerMoves
<1>4. ASSUME NEW j \in Jobs, Refused(j) PROVE ShellInv'
  <2>1. UNCHANGED <<status, lease, told>> /\ RequestStop(j)
        /\ owner' = [owner EXCEPT ![j] = "refused"]
    BY <1>4 DEF Refused, DropReservation, Owned
  <2> QED
    BY <2>1, CommandKeeps, OwnerMoves DEF OnlyMarks, ShellInv
<1>5. ASSUME NEW j \in Jobs, Publish(j) \/ Worker(j) PROVE ShellInv'
  BY <1>5, TellKeeps, FinishKeeps DEF Worker
<1>6. ASSUME NEW j \in Jobs, CallCancelled(j) PROVE ShellInv'
  BY <1>6, CommandKeeps, ProcessOnlyMarks, ProducerStays DEF CallCancelled, ShellInv
<1>7. ASSUME NEW j \in Jobs, NEW from, Returns(j, from) \/ Dropped(j, from) PROVE ShellInv'
  <2>1. UNCHANGED vars /\ UNCHANGED told /\ owner' = [owner EXCEPT ![j] = "done"]
    BY <1>7 DEF Returns, Dropped, Owned
  <2>2. ProcKept' /\ Caught
    BY <1>7, CommandKeeps, NothingMoves DEF Returns, Dropped, ShellInv
  <2> QED
    BY <2>1, <2>2, ProcessOnlyMarks, OwnerMoves
<1>8. ASSUME NEW j \in Jobs, TimesOut(j) \/ Lives(j) \/ Supervise(j),
             UNCHANGED <<vars, owner, told>>
      PROVE  ShellInv'
  BY <1>8, CommandKeeps, SupervisionKeeps, ProcessOnlyMarks, ProducerStays DEF ShellInv
<1>9. ASSUME NEW k \in Killers, KillShell(k) PROVE ShellInv'
  <2>1. killer[k].job \in Jobs /\ RequestStop(killer[k].job) /\ UNCHANGED <<status, lease>>
    BY <1>9 DEF KillShell, KillHook, TypeOK, Consistent
  <2> QED
    BY <1>9, <2>1, CommandKeeps, ProducerStays DEF KillShell, OnlyMarks, ShellInv
<1>10. ASSUME NEW j \in Jobs, ShutdownShell(j) PROVE ShellInv'
  BY <1>10, CommandKeeps, ProducerStays DEF ShutdownShell, ShutdownHook, OnlyMarks, ShellInv
<1>11. ASSUME UNCHANGED shellState, OnlyMarks PROVE ShellInv'
  BY <1>11, NothingMoves, ProducerStays DEF shellState
<1>12. ASSUME UNCHANGED shellState, NEW j \in Jobs, NEW k \in Killers, KillLook(k, j)
       PROVE  ShellInv'
  BY <1>11, <1>12 DEF KillLook, OnlyMarks
<1>13. ASSUME UNCHANGED shellState, NEW k \in Killers, KillMark(k) PROVE ShellInv'
  <2>1. OnlyMarks
    BY <1>13, MarkStatus DEF KillMark, TypeOK, Consistent, StatusKept, OnlyMarks
  <2> QED
    BY <1>11, <1>13, <2>1
<1>14. ASSUME UNCHANGED shellState, NEW w \in Waiters,
              WaitStep(w) \/ WaitTimeout(w) \/ \E j \in Jobs : Subscribe(w, j)
       PROVE  ShellInv'
  <2>1. UNCHANGED <<status, lease>>
    BY <1>14 DEF WaitStep, WaitTimeout, Subscribe, Look, Awake, Return
  <2> QED
    BY <1>11, <1>14, <2>1 DEF OnlyMarks
<1>15. CASE ShutdownBegin /\ UNCHANGED shellState
  BY <1>11, <1>15 DEF ShutdownBegin, OnlyMarks
<1>16. CASE RegistryPass
  <2>1. ASSUME NEW j \in Jobs, UNCHANGED shellState, ShutdownMark(j) PROVE ShellInv'
    <3>1. OnlyMarks
      BY <2>1, MarkStatus DEF ShutdownMark, TypeOK, Consistent, StatusKept, OnlyMarks
    <3> QED
      BY <1>11, <2>1, <3>1
  <2>2. ASSUME NEW j \in Jobs, UNCHANGED shellState, ShutdownGraceOver(j) PROVE ShellInv'
    <3>1. OnlyMarks
      BY <2>2 DEF ShutdownGraceOver, SettleEntry, TypeOK, Types, OnlyMarks
    <3> QED
      BY <1>11, <2>2, <3>1
  <2>3. ASSUME UNCHANGED <<shellState, status, lease>> PROVE ShellInv'
    BY <1>11, <2>3 DEF OnlyMarks
  <2> QED
    BY <1>10, <1>16, <2>1, <2>2, <2>3
       DEF RegistryPass, ShutdownSkip, ShutdownLook, ShutdownStopped, ShutdownAwait, ShutdownDone
<1>17. CASE UNCHANGED shellVars
  BY <1>11, <1>17, ProcessOnlyMarks DEF shellVars
<1> QED
  BY <1>1, <1>2, <1>3, <1>4, <1>5, <1>6, <1>7, <1>8, <1>9, <1>12, <1>13, <1>14, <1>15, <1>16,
     <1>17 DEF ShellNext

\* What the registry and the bash tool report as ended is over, whatever order the end of
\* the command, a kill, a timeout, the shutdown and a refused commit come in: nothing of the
\* process group is alive, what it wrote was told, who waited is woken, and a clean shutdown
\* saw every producer give up its lease.
THEOREM ShellReportsAreOver == ShellSpec => []ReportedIsOver
<1>1. ShellSpec => []ShellInv
  <2>1. ShellSpec => []TypeOK
    BY ShellJobsAreJobs, TypeCorrect, PTL
  <2> QED
    BY <2>1, ShellStart, ShellStep, PTL DEF ShellSpec
<1>2. TypeOK /\ ShellInv => ShellTypeOK
  BY DEF ShellInv, ProcKept, Producer, ShellTypeOK
<1>3. ShellInv => DeadWhenReported /\ NothingUnsaid
  BY DEF ShellInv, ProcKept, Tree, Producer, DeadWhenReported, NothingUnsaid
<1> QED
  BY <1>1, <1>2, <1>3, ShellJobsAreJobs, TypeCorrect, NobodyIsStranded, CleanShutdown, PTL
     DEF ReportedIsOver

\* And what the registry keeps for any producer it keeps for shell commands.
THEOREM ShellRegistryKept == ShellSpec => []RegistryKept
BY ShellJobsAreJobs, Kept, PTL

================================================================================
