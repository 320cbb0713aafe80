---------------------------- MODULE TurnEngineProofs ----------------------------
(***************************************************************************)
(* The turn engine, for any calls, questions, turns, steps and crashes: no *)
(* append of a run is refused but the end of a step over a question that   *)
(* waits, a gated tool runs only over a durable approval, a handler starts *)
(* once, and no request goes out over a plain call without a result.       *)
(***************************************************************************)
EXTENDS TurnEngine, TLAPS

USE QuestionsAreCalls, EngineAssumption DEF batch, local, host, ghost

\* The log is one the grammar accepts, its calls were made before anything
\* became of them, and in an open step no other call waits for a result.
LogKept ==
    /\ log \in Logs(0..MaxTurns, Nat) /\ ~log.bad
    /\ log.inStep => log.inTurn
    /\ log.inTurn => log.turn > 0
    /\ log.turn > 0 => log.step <= StepLimit[log.turn]
    /\ \A c \in Calls :
          /\ log.result[c] # "none" \/ log.approval[c] # "none" \/ log.question[c] # "none"
                => Made(log, c)
          /\ log.approval[c] # "none" => c \notin Questions
          /\ log.question[c] # "none" => c \in Questions
          /\ log.inStep /\ c \in OutcomeUnknown(log) => log.at[c] = Here(log)

\* The run stands where its log does.
RunKept ==
    /\ pc \in {"off", "init"} => turn = 0 /\ step = 0 /\ buffer # "held"
    /\ pc = "off" => ~fresh
    /\ pc = "init" => log.turn < MaxTurns \/ (~fresh /\ OpenInteractions # {})
    /\ pc \notin {"off", "init"} => log.inTurn /\ turn = log.turn /\ step = log.step
    /\ pc \in {"prepare", "compact", "model", "batch", "decide", "drain", "close"} => log.inStep
    /\ pc = "boundary" => ~log.inStep
    /\ pc = "prepare" \/ (pc = "compact" /\ then # "overflow") => ~log.requested /\ ~log.said
    /\ pc = "compact" => log.compacting
    /\ pc = "model" => ~log.said
    /\ buffer = "held" => log.inStep /\ ~log.said

\* While a run is in its steps, every plain call without a result is in its batch.
BatchKept ==
    /\ ~Live => InBatch = {}
    /\ pc \notin {"off", "init", "finish"} => OutcomeUnknown(log) \subseteq InBatch

\* What has become of a call of the batch, and what can still become of it.
CallKept(c) ==
    /\ call[c] # "off" => /\ log.at[c] = Here(log) /\ log.inStep /\ log.result[c] = "none"
    /\ c \in heard => call[c] \in Done
    /\ c \in signals => /\ call[c] \in {"asking", "error"} /\ c \notin open
                        /\ log.approval[c] \in {"none", "asked"} /\ c \notin Questions
                        /\ runs[c] = 0
    /\ c \in open => call[c] \in {"awaiting"} \cup Done
    /\ call[c] = "queued" => log.approval[c] \in {"none", "asked"}
    /\ call[c] = "released" => log.approval[c] \in {"none", "allowed"}
    /\ call[c] \in {"asking", "awaiting"} => c \notin Questions
    /\ call[c] \in {"queued", "asking", "awaiting", "released"} /\ c \notin Questions => runs[c] = 0
    /\ call[c] \in {"running", "waiting"} /\ c \notin Questions => runs[c] <= 1
    /\ c \in Questions /\ call[c] \in Done /\ log.question[c] = "pending"
          => cancelled /\ c \notin heard
    /\ c \in Questions /\ call[c] = "ok" => log.question[c] # "none"

\* Handlers ran for calls of the log, once, and never over an undecided approval.
RunsKept ==
    /\ \A c \in Calls : runs[c] > 0 => Made(log, c)
    /\ RunsOnce /\ AllowedBeforeRun

EngineInv ==
    /\ TypeOK /\ LogKept /\ RunKept /\ BatchKept
    /\ (\A c \in Calls : CallKept(c)) /\ RunsKept /\ GrammarKept

--------------------------------------------------------------------------------
(* The type invariant in parts: the run, and its batch *)

RunTyped ==
    /\ pc \in {"off", "init", "boundary", "prepare", "compact", "model", "batch",
               "decide", "drain", "close", "finish"}
    /\ fresh \in BOOLEAN /\ attached \in BOOLEAN
    /\ then \in {"step", "done", "fail", "overflow"} /\ tried \in BOOLEAN
    /\ buffer \in {"none", "held", "written"} /\ cancelled \in BOOLEAN
    /\ known \subseteq Questions
    /\ runs \in [Calls -> 0..2] /\ crashes \in 0..MaxCrashes

BatchTyped ==
    /\ call \in [Calls -> Done \cup {"off", "queued", "asking", "awaiting", "released",
                                     "running", "waiting"}]
    /\ heard \subseteq InBatch /\ signals \subseteq InBatch
    /\ open \subseteq PendingApprovals(log) /\ subject \subseteq InBatch

LEMMA Parts ==
    TypeOK /\ LogKept => RunTyped /\ BatchTyped
BY DEF TypeOK, RunTyped, BatchTyped

\* Turn and step need no bound of their own: they are the log's.
LEMMA Together ==
    ASSUME LogKept', RunKept', RunTyped', BatchTyped', BatchKept', RunsKept', GrammarKept',
           \A c \in Calls : CallKept(c)'
    PROVE  EngineInv'
<1>1. turn' \in 0..MaxTurns /\ step' \in (IF turn' = 0 THEN {0} ELSE 0..StepLimit[turn'])
  <2>1. CASE pc' \in {"off", "init"}
    BY <2>1 DEF RunKept
  <2>2. CASE pc' \notin {"off", "init"}
    <3>1. /\ log'.turn \in 0..MaxTurns /\ log'.step \in Nat /\ log'.turn > 0
          /\ log'.step <= StepLimit[log'.turn]
      BY <2>2 DEF LogKept, RunKept, Logs
    <3>2. turn' = log'.turn /\ step' = log'.step
      BY <2>2 DEF RunKept
    <3>3. StepLimit[log'.turn] \in Nat
      BY <3>1
    <3> QED
      BY <3>1, <3>2, <3>3
  <2> QED
    BY <2>1, <2>2
<1> QED
  BY <1>1, Zenon DEF EngineInv, TypeOK, LogKept, RunTyped, BatchTyped

--------------------------------------------------------------------------------
(* What the grammar accepts, and what it does to the log *)

LEMMA WriteTurnStart ==
    ASSUME NEW l, ~l.bad, ~l.inTurn
    PROVE  Write(l, TurnStart(l.turn + 1))
              = [l EXCEPT !.turn = l.turn + 1, !.inTurn = TRUE, !.step = 0]
<1>1. Allowed(l, TurnStart(l.turn + 1))
  BY DEF Allowed, TurnStart
<1>2. Effect(l, TurnStart(l.turn + 1)) = [l EXCEPT !.turn = l.turn + 1, !.inTurn = TRUE, !.step = 0]
  BY Zenon DEF Effect, TurnStart
<1> QED
  BY <1>1, <1>2, Zenon DEF Write

LEMMA WriteTurnEnd ==
    ASSUME NEW l, ~l.bad, l.inTurn, ~l.inStep
    PROVE  Write(l, TurnEnd(l.turn)) = [l EXCEPT !.inTurn = FALSE]
<1>1. Allowed(l, TurnEnd(l.turn))
  BY DEF Allowed, TurnEnd
<1>2. Effect(l, TurnEnd(l.turn)) = [l EXCEPT !.inTurn = FALSE]
  BY Zenon DEF Effect, TurnEnd
<1> QED
  BY <1>1, <1>2, Zenon DEF Write

LEMMA WriteStepStart ==
    ASSUME NEW l, ~l.bad, l.inTurn, ~l.inStep
    PROVE  Write(l, StepStart(l.turn, l.step + 1))
              = [l EXCEPT !.step = l.step + 1, !.inStep = TRUE,
                          !.requested = FALSE, !.said = FALSE]
<1>1. Allowed(l, StepStart(l.turn, l.step + 1))
  BY DEF Allowed, StepStart
<1>2. Effect(l, StepStart(l.turn, l.step + 1))
         = [l EXCEPT !.step = l.step + 1, !.inStep = TRUE, !.requested = FALSE, !.said = FALSE]
  BY Zenon DEF Effect, StepStart
<1> QED
  BY <1>1, <1>2, Zenon DEF Write

\* The end of a step is refused for one reason only.
LEMMA WriteStepEnd ==
    ASSUME NEW l, ~l.bad, l.inStep
    PROVE  Write(l, StepEnd(l.turn, l.step))
              = IF QuestionWaits(l) THEN [l EXCEPT !.bad = TRUE] ELSE [l EXCEPT !.inStep = FALSE]
<1>1. Allowed(l, StepEnd(l.turn, l.step)) <=> ~QuestionWaits(l)
  BY DEF Allowed, StepEnd, InOpenStep, Here
<1>2. Effect(l, StepEnd(l.turn, l.step)) = [l EXCEPT !.inStep = FALSE]
  BY Zenon DEF Effect, StepEnd
<1> QED
  BY <1>1, <1>2, Zenon DEF Write

LEMMA WriteUserMessage ==
    ASSUME NEW l, ~l.bad, l.inTurn, ~l.inStep
    PROVE  Write(l, UserMessage) = l
<1>1. Allowed(l, UserMessage)
  BY DEF Allowed, UserMessage
<1>2. Effect(l, UserMessage) = l
  BY Zenon DEF Effect, UserMessage
<1> QED
  BY <1>1, <1>2, Zenon DEF Write

LEMMA WriteRequestHeader ==
    ASSUME NEW l, ~l.bad, l.inStep, ~l.requested, ~l.said
    PROVE  Write(l, RequestHeader) = [l EXCEPT !.requested = TRUE]
<1>1. Allowed(l, RequestHeader)
  BY DEF Allowed, RequestHeader
<1>2. Effect(l, RequestHeader) = [l EXCEPT !.requested = TRUE]
  BY Zenon DEF Effect, RequestHeader
<1> QED
  BY <1>1, <1>2, Zenon DEF Write

LEMMA WriteChunk ==
    ASSUME NEW l, ~l.bad, l.inStep, ~l.said
    PROVE  Write(l, Chunk(l.turn, l.step)) = l
<1>1. Allowed(l, Chunk(l.turn, l.step))
  BY DEF Allowed, Chunk, InOpenStep, Here
<1>2. Effect(l, Chunk(l.turn, l.step)) = l
  BY Zenon DEF Effect, Chunk
<1> QED
  BY <1>1, <1>2, Zenon DEF Write

LEMMA WriteAssistant ==
    ASSUME NEW l, NEW S, ~l.bad, l.inStep, ~l.said, \A c \in S : ~Made(l, c)
    PROVE  Write(l, Assistant(l.turn, l.step, S))
              = [l EXCEPT !.said = TRUE,
                          !.at = [c \in Calls |-> IF c \in S THEN Here(l) ELSE @[c]]]
<1>1. Allowed(l, Assistant(l.turn, l.step, S))
  BY DEF Allowed, Assistant, InOpenStep, Here
<1>2. Effect(l, Assistant(l.turn, l.step, S))
         = [l EXCEPT !.said = TRUE,
                     !.at = [c \in Calls |-> IF c \in S THEN Here(l) ELSE @[c]]]
  BY Zenon DEF Effect, Assistant
<1> QED
  BY <1>1, <1>2, Zenon DEF Write

LEMMA WriteAsked ==
    ASSUME NEW l, NEW c, ~l.bad, l.inTurn, Made(l, c), l.result[c] = "none", l.approval[c] = "none"
    PROVE  Write(l, Asked(c)) = [l EXCEPT !.approval[c] = "asked"]
<1>1. Allowed(l, Asked(c))
  BY DEF Allowed, Asked
<1>2. Effect(l, Asked(c)) = [l EXCEPT !.approval[c] = "asked"]
  BY Zenon DEF Effect, Asked
<1> QED
  BY <1>1, <1>2, Zenon DEF Write

LEMMA WriteDecided ==
    ASSUME NEW l, NEW S, NEW o, ~l.bad, l.inTurn, \A c \in S : l.approval[c] = "asked"
    PROVE  Write(l, Decided(S, o))
              = [l EXCEPT !.approval = [c \in Calls |-> IF c \in S THEN o ELSE @[c]]]
<1>1. Allowed(l, Decided(S, o))
  BY DEF Allowed, Decided
<1>2. Effect(l, Decided(S, o)) = [l EXCEPT !.approval = [c \in Calls |-> IF c \in S THEN o ELSE @[c]]]
  BY Zenon DEF Effect, Decided
<1> QED
  BY <1>1, <1>2, Zenon DEF Write

LEMMA WriteRequested ==
    ASSUME NEW T, NEW N, NEW l \in Logs(T, N), NEW c, ~l.bad
    PROVE  \/ Write(l, Requested(c)).bad
           \/ Write(l, Requested(c)) = [l EXCEPT !.question[c] = "pending"]
<1>1. Effect(l, Requested(c)) = [l EXCEPT !.question[c] = "pending"]
  BY Zenon DEF Effect, Requested
<1> QED
  BY <1>1 DEF Write, Logs

LEMMA WriteSettled ==
    ASSUME NEW l, NEW c, NEW how, ~l.bad, l.question[c] = "pending"
    PROVE  Write(l, Settled(c, how)) = [l EXCEPT !.question[c] = how]
<1>1. Allowed(l, Settled(c, how))
  BY DEF Allowed, Settled
<1>2. Effect(l, Settled(c, how)) = [l EXCEPT !.question[c] = how]
  BY Zenon DEF Effect, Settled
<1> QED
  BY <1>1, <1>2, Zenon DEF Write

LEMMA WriteResults ==
    ASSUME NEW l, NEW r, ~l.bad, \A c \in DOMAIN r : ResultFits(l, c, r[c])
    PROVE  Write(l, Results(r))
              = [l EXCEPT !.result = [c \in Calls |-> IF c \in DOMAIN r THEN r[c] ELSE @[c]]]
<1>1. Allowed(l, Results(r))
  BY DEF Allowed, Results
<1>2. Effect(l, Results(r))
         = [l EXCEPT !.result = [c \in Calls |-> IF c \in DOMAIN r THEN r[c] ELSE @[c]]]
  BY Zenon DEF Effect, Results
<1> QED
  BY <1>1, <1>2, Zenon DEF Write

LEMMA WriteCompaction ==
    ASSUME NEW l, ~l.bad
    PROVE  /\ l.inTurn => Write(l, CompactionStart) = [l EXCEPT !.compacting = TRUE]
           /\ l.inTurn /\ l.compacting =>
                 Write(l, CompactionApplied) = [l EXCEPT !.compacting = FALSE]
           /\ l.compacting => Write(l, CompactionFailed) = [l EXCEPT !.compacting = FALSE]
<1>1. /\ l.inTurn => Allowed(l, CompactionStart)
      /\ l.inTurn /\ l.compacting => Allowed(l, CompactionApplied)
      /\ l.compacting => Allowed(l, CompactionFailed)
  BY DEF Allowed, CompactionStart, CompactionApplied, CompactionFailed
<1>2. Effect(l, CompactionStart) = [l EXCEPT !.compacting = TRUE]
  BY Zenon DEF Effect, CompactionStart
<1>3. Effect(l, CompactionApplied) = [l EXCEPT !.compacting = FALSE]
  BY Zenon DEF Effect, CompactionApplied
<1>4. Effect(l, CompactionFailed) = [l EXCEPT !.compacting = FALSE]
  BY Zenon DEF Effect, CompactionFailed
<1> QED
  BY <1>1, <1>2, <1>3, <1>4, Zenon DEF Write

--------------------------------------------------------------------------------
(* Steps that leave the calls of the log alone *)

SameCalls ==
    /\ log'.at = log.at /\ log'.result = log.result
    /\ log'.approval = log.approval /\ log'.question = log.question

LEMMA CallsStay ==
    ASSUME SameCalls
    PROVE  /\ OutcomeUnknown(log') = OutcomeUnknown(log)
           /\ PendingApprovals(log') = PendingApprovals(log)
           /\ Interactions(log') = Interactions(log)
           /\ \A c \in Calls : Made(log', c) <=> Made(log, c)
BY DEF SameCalls, OutcomeUnknown, PendingApprovals, Interactions, RecoverableQuestions,
       Incomplete, Made

LEMMA LogMoves ==
    ASSUME EngineInv, SameCalls, UNCHANGED runs,
           log' \in Logs(0..MaxTurns, Nat), ~log'.bad,
           log'.inStep => log'.inTurn, log'.inTurn => log'.turn > 0,
           log'.turn > 0 => log'.step <= StepLimit[log'.turn],
           \/ ~log'.inStep \/ OutcomeUnknown(log) = {}
           \/ log.inStep /\ log'.turn = log.turn /\ log'.step = log.step
    PROVE  LogKept' /\ RunsKept'
<1>1. \A c \in Calls : Made(log', c) <=> Made(log, c)
  BY CallsStay
<1>2. RunsKept'
  BY <1>1 DEF EngineInv, RunsKept, RunsOnce, AllowedBeforeRun, SameCalls
<1>3. ASSUME NEW c \in Calls
      PROVE  /\ log'.result[c] # "none" \/ log'.approval[c] # "none" \/ log'.question[c] # "none"
                   => Made(log', c)
             /\ log'.approval[c] # "none" => c \notin Questions
             /\ log'.question[c] # "none" => c \in Questions
             /\ log'.inStep /\ c \in OutcomeUnknown(log') => log'.at[c] = Here(log')
  <2>1. /\ log'.result[c] # "none" \/ log'.approval[c] # "none" \/ log'.question[c] # "none"
              => Made(log', c)
        /\ log'.approval[c] # "none" => c \notin Questions
        /\ log'.question[c] # "none" => c \in Questions
    BY <1>1 DEF EngineInv, LogKept, SameCalls
  <2>2. log'.inStep /\ c \in OutcomeUnknown(log') => log'.at[c] = Here(log')
    BY CallsStay DEF EngineInv, LogKept, SameCalls, Here
  <2> QED
    BY <2>1, <2>2
<1> QED
  BY <1>2, <1>3 DEF LogKept

\* A step that leaves the log alone keeps what is said of it alone.
LEMMA LogRests ==
    ASSUME EngineInv, UNCHANGED <<log, runs, refused>>
    PROVE  LogKept' /\ RunsKept' /\ GrammarKept'
<1>1. LogKept' /\ GrammarKept'
  BY DEF EngineInv, LogKept, GrammarKept, Made, OutcomeUnknown, Incomplete, Interactions,
         PendingApprovals, RecoverableQuestions, Here
<1>2. RunsKept'
  BY DEF EngineInv, RunsKept, RunsOnce, AllowedBeforeRun, Made
<1> QED
  BY <1>1, <1>2

\* Outside a batch nothing of one is left in memory.
LEMMA NoBatchOutside ==
    ASSUME EngineInv, ~Live
    PROVE  /\ call = [c \in Calls |-> "off"]
           /\ heard = {} /\ signals = {} /\ open = {} /\ subject = {}
<1>1. InBatch = {} /\ BatchTyped
  BY Parts DEF EngineInv, BatchKept
<1>2. \A c \in Calls : call[c] = "off"
  BY <1>1 DEF InBatch
<1>3. open \subseteq Calls
  BY <1>1 DEF BatchTyped, PendingApprovals, Incomplete
<1>4. \A c \in Calls : c \in open => call[c] # "off"
  BY DEF EngineInv, CallKept, Done
<1> QED
  BY <1>1, <1>2, <1>3, <1>4 DEF BatchTyped

LEMMA NoBatchAfter ==
    ASSUME call' = [c \in Calls |-> "off"], heard' = {}, signals' = {}, open' = {}, subject' = {},
           pc' \notin {"off", "init", "finish"} => OutcomeUnknown(log') = {}
    PROVE  BatchTyped' /\ BatchKept' /\ \A c \in Calls : CallKept(c)'
<1>1. BatchTyped'
  BY DEF BatchTyped, InBatch
<1>2. InBatch' = {}
  BY DEF InBatch
<1>3. BatchKept'
  BY <1>2 DEF BatchKept
<1>4. ASSUME NEW c \in Calls PROVE CallKept(c)'
  BY DEF CallKept, Done
<1> QED
  BY <1>1, <1>3, <1>4

LEMMA BatchStaysAway ==
    ASSUME EngineInv, ~Live, UNCHANGED batch,
           pc' \notin {"off", "init", "finish"} => OutcomeUnknown(log') = {}
    PROVE  BatchTyped' /\ BatchKept' /\ \A c \in Calls : CallKept(c)'
BY NoBatchOutside, NoBatchAfter, Zenon DEF batch

\* In a step and outside a batch every plain call has a result.
LEMMA AllAnswered ==
    ASSUME EngineInv, ~Live, pc \notin {"off", "init", "finish"}
    PROVE  OutcomeUnknown(log) = {}
BY DEF EngineInv, BatchKept

\* A run that is over has left its log behind.
LEMMA OverKeeps ==
    ASSUME EngineInv, RunOver, UNCHANGED <<log, runs>>, refused' \subseteq {"a question waits"},
           attached' \in BOOLEAN, known' \subseteq Questions, crashes' \in 0..MaxCrashes
    PROVE  EngineInv'
<1>1. LogKept' /\ RunsKept'
  <2>1. LogKept'
    BY DEF EngineInv, LogKept, Made, OutcomeUnknown, Incomplete, Interactions,
           PendingApprovals, RecoverableQuestions, Here
  <2>2. RunsKept'
    BY DEF EngineInv, RunsKept, RunsOnce, AllowedBeforeRun, Made
  <2> QED
    BY <2>1, <2>2
<1>2. RunKept' /\ RunTyped' /\ GrammarKept'
  BY DEF RunOver, RunKept, RunTyped, EngineInv, TypeOK, GrammarKept
<1>3. BatchTyped' /\ BatchKept' /\ \A c \in Calls : CallKept(c)'
  BY NoBatchAfter DEF RunOver, NoBatch
<1> QED
  BY <1>1, <1>2, <1>3, Together

--------------------------------------------------------------------------------
(* Starting, ending and losing a run *)

LEMMA CrashKeeps ==
    ASSUME EngineInv, Crash PROVE EngineInv'
<1>1. crashes' \in 0..MaxCrashes
  BY DEF Crash, EngineInv, TypeOK
<1> QED
  BY <1>1, OverKeeps DEF Crash, EngineInv, GrammarKept

LEMMA GivesUpKeeps ==
    ASSUME EngineInv, InitRefuses \/ InitConflicts PROVE EngineInv'
BY OverKeeps DEF InitRefuses, InitConflicts, EngineInv, GrammarKept, TypeOK

LEMMA BeginsKeeps ==
    ASSUME EngineInv, StartRun \/ HostResume PROVE EngineInv'
<1>1. /\ UNCHANGED <<log, runs, refused, turn, step, then, tried, buffer, cancelled, batch,
                     known, crashes>>
      /\ pc = "off" /\ pc' \in {"init", "off"}
  BY DEF StartRun, HostResume
<1>2. LogKept' /\ RunsKept' /\ GrammarKept'
  BY <1>1, LogRests
<1>3. /\ fresh' \in BOOLEAN /\ attached' \in BOOLEAN
      /\ pc' = "off" => ~fresh'
      /\ pc' = "init" => log'.turn < MaxTurns \/ (~fresh' /\ OpenInteractions' # {})
  <2>1. CASE StartRun
    BY <2>1 DEF StartRun, EngineInv, TypeOK
  <2>2. CASE HostResume
    <3>1. fresh' \in BOOLEAN /\ ~fresh'
      BY <1>1, <2>2 DEF EngineInv, RunKept, HostResume, TypeOK
    <3>2. OpenInteractions' = OpenInteractions
      BY <1>1 DEF OpenInteractions, Interactions, PendingApprovals, RecoverableQuestions,
                  Incomplete, Made, Here
    <3>3. attached' = TRUE
      BY <2>2 DEF HostResume
    <3>4. pc' = "init" => log.turn < MaxTurns \/ OpenInteractions # {}
      BY <2>2, Zenon DEF HostResume
    <3> QED
      BY <1>1, <3>1, <3>2, <3>3, <3>4
  <2> QED
    BY <2>1, <2>2
<1>4. RunKept' /\ RunTyped'
  BY <1>1, <1>3 DEF EngineInv, RunKept, RunTyped, TypeOK
<1>5. BatchTyped' /\ BatchKept' /\ \A c \in Calls : CallKept(c)'
  BY <1>1, BatchStaysAway DEF Live
<1> QED
  BY <1>2, <1>4, <1>5, Together

\* initialize_journal: a new turn.
LEMMA InitStartsKeeps ==
    ASSUME EngineInv, InitStarts PROVE EngineInv'
<1> DEFINE started == [log EXCEPT !.turn = log.turn + 1, !.inTurn = TRUE, !.step = 0]
<1>1. /\ log \in Logs(0..MaxTurns, Nat) /\ ~log.bad /\ ~log.inTurn /\ ~log.inStep
      /\ log.turn < MaxTurns /\ OutcomeUnknown(log) = {} /\ pc = "init" /\ buffer # "held"
  BY DEF InitStarts, NeedsRecovery, EngineInv, LogKept, RunKept
<1>2. Write(log, TurnStart(log.turn + 1)) = started
  BY <1>1, WriteTurnStart
<1>3. /\ started \in Logs(0..MaxTurns, Nat) /\ ~started.bad /\ started.inTurn /\ ~started.inStep
      /\ started.turn = log.turn + 1 /\ started.step = 0
      /\ started.at = log.at /\ started.result = log.result
      /\ started.approval = log.approval /\ started.question = log.question
      /\ log.turn + 1 \in 1..MaxTurns /\ StepLimit[log.turn + 1] \in Nat
  <2>1. log.turn \in 0..MaxTurns /\ log.turn + 1 \in 1..MaxTurns
    BY <1>1 DEF Logs
  <2>2. StepLimit[log.turn + 1] \in Nat
    BY <2>1
  <2>3. started \in Logs(0..MaxTurns, Nat)
    <3>1. log.turn + 1 \in 0..MaxTurns
      BY <2>1
    <3> DEFINE n == log.turn + 1
    <3> HIDE DEF n
    <3>2. n \in 0..MaxTurns => [log EXCEPT !.turn = n, !.inTurn = TRUE, !.step = 0] \in Logs(0..MaxTurns, Nat)
      BY <1>1 DEF Logs
    <3> QED
      BY <3>1, <3>2 DEF n
  <2> QED
    BY <1>1, <2>1, <2>2, <2>3 DEF Logs
<1> HIDE DEF started
<1>4. Write(started, UserMessage) = started
  BY <1>3, WriteUserMessage
<1>5. /\ log' = started /\ pc' = "boundary" /\ turn' = log.turn + 1 /\ step' = 0
      /\ UNCHANGED <<fresh, then, tried, buffer, cancelled, batch, refused, host, runs, crashes>>
  BY <1>2, <1>3, <1>4 DEF InitStarts
<1>6. LogKept' /\ RunsKept' /\ OutcomeUnknown(log') = {}
  <2>1. SameCalls
    BY <1>3, <1>5 DEF SameCalls
  <2>2. log'.turn > 0 /\ log'.step <= StepLimit[log'.turn]
    BY <1>1, <1>3, <1>5
  <2> QED
    BY <1>1, <1>3, <1>5, <2>1, <2>2, LogMoves, CallsStay
<1>7. RunKept' /\ RunTyped' /\ GrammarKept'
  BY <1>1, <1>3, <1>5 DEF EngineInv, RunKept, RunTyped, TypeOK, GrammarKept
<1>8. BatchTyped' /\ BatchKept' /\ \A c \in Calls : CallKept(c)'
  BY <1>1, <1>5, <1>6, BatchStaysAway DEF Live
<1> QED
  BY <1>6, <1>7, <1>8, Together

\* initialize_journal: what another process left open is closed.
LEMMA InitClosesKeeps ==
    ASSUME EngineInv, InitCloses PROVE EngineInv'
<1> DEFINE failed   == Unfinished(log)
           balanced == Balanced(failed)
           closed   == StepClosed(balanced)
           l        == TurnClosed(closed)
<1>1. /\ log \in Logs(0..MaxTurns, Nat) /\ ~log.bad /\ pc = "init" /\ OpenInteractions = {}
      /\ log.inStep => log.inTurn
      /\ log.turn < MaxTurns /\ buffer # "held"
  BY DEF InitCloses, EngineInv, LogKept, RunKept
<1>2. /\ failed \in Logs(0..MaxTurns, Nat) /\ ~failed.bad
      /\ failed.turn = log.turn /\ failed.inTurn = log.inTurn
      /\ failed.step = log.step /\ failed.inStep = log.inStep
      /\ failed.at = log.at /\ failed.result = log.result
      /\ failed.approval = log.approval /\ failed.question = log.question
  <2>1. failed = log \/ failed = [log EXCEPT !.compacting = FALSE]
    BY <1>1, WriteCompaction DEF Unfinished
  <2> QED
    BY <1>1, <2>1 DEF Logs
<1>3. /\ OutcomeUnknown(failed) = OutcomeUnknown(log)
      /\ OutcomeUnknown(log) \subseteq Calls
      /\ \A c \in OutcomeUnknown(log) : Made(log, c) /\ log.result[c] = "none"
                                        /\ log.question[c] = "none"
  BY <1>2 DEF OutcomeUnknown, Incomplete, Interactions, PendingApprovals, RecoverableQuestions, Made
<1> HIDE DEF failed
<1>4. /\ balanced \in Logs(0..MaxTurns, Nat) /\ ~balanced.bad
      /\ balanced.turn = log.turn /\ balanced.inTurn = log.inTurn
      /\ balanced.step = log.step /\ balanced.inStep = log.inStep
      /\ balanced.at = log.at
      /\ balanced.approval = log.approval /\ balanced.question = log.question
      /\ \A c \in Calls : balanced.result[c] = IF c \in OutcomeUnknown(log)
                                               THEN "unknown" ELSE log.result[c]
  <2> DEFINE r == [c \in OutcomeUnknown(failed) |-> "unknown"]
             after == [failed EXCEPT !.result = [c \in Calls |-> IF c \in DOMAIN r THEN r[c] ELSE @[c]]]
  <2>1. CASE OutcomeUnknown(failed) = {}
    BY <1>2, <1>3, <2>1 DEF Balanced
  <2>2. CASE OutcomeUnknown(failed) # {}
    <3>1. ASSUME NEW c \in DOMAIN r PROVE ResultFits(failed, c, r[c])
      BY <1>2, <1>3 DEF ResultFits, Made
    <3>2. balanced = after
      BY <1>2, <2>2, <3>1, WriteResults DEF Balanced
    <3>3. \A c \in Calls : after.result[c] = IF c \in OutcomeUnknown(log) THEN "unknown" ELSE log.result[c]
      BY <1>2, <1>3 DEF Logs
    <3>4. after.result \in [Calls -> {"none", "ok", "error", "unknown"}]
      BY <1>2, <1>3 DEF Logs
    <3> QED
      BY <1>2, <3>2, <3>3, <3>4 DEF Logs
  <2> QED
    BY <2>1, <2>2
<1> HIDE DEF balanced
<1>5. ~(balanced.inStep /\ QuestionWaits(balanced))
  <2> SUFFICES ASSUME balanced.inStep, NEW c \in Questions, balanced.question[c] = "pending",
                      balanced.result[c] = "none", balanced.at[c] = Here(balanced)
               PROVE  FALSE
    BY DEF QuestionWaits
  <2>1. log.inStep /\ log.at[c] = Here(log) /\ log.question[c] = "pending" /\ log.result[c] = "none"
    BY <1>3, <1>4 DEF Here
  <2>2. Made(log, c)
    BY <2>1 DEF EngineInv, LogKept
  <2> QED
    BY <1>1, <2>1, <2>2 DEF OpenInteractions, Interactions, RecoverableQuestions, Incomplete
<1>6. /\ closed \in Logs(0..MaxTurns, Nat) /\ ~closed.bad /\ ~closed.inStep
      /\ closed.turn = log.turn /\ closed.inTurn = log.inTurn /\ closed.step = log.step
      /\ closed.at = log.at /\ closed.result = balanced.result
      /\ closed.approval = log.approval /\ closed.question = log.question
  <2>1. CASE balanced.inStep
    <3>1. closed = [balanced EXCEPT !.inStep = FALSE]
      BY <1>4, <1>5, <2>1, WriteStepEnd DEF StepClosed
    <3> QED
      BY <1>4, <3>1 DEF Logs
  <2>2. CASE ~balanced.inStep
    BY <1>4, <2>2 DEF StepClosed
  <2> QED
    BY <2>1, <2>2
<1> HIDE DEF closed
<1>7. /\ l \in Logs(0..MaxTurns, Nat) /\ ~l.bad /\ ~l.inStep /\ ~l.inTurn
      /\ l.turn = log.turn /\ l.step = log.step
      /\ l.at = log.at /\ l.result = balanced.result
      /\ l.approval = log.approval /\ l.question = log.question
  <2>1. CASE closed.inTurn
    <3>1. l = [closed EXCEPT !.inTurn = FALSE]
      BY <1>6, <2>1, WriteTurnEnd DEF TurnClosed
    <3> QED
      BY <1>6, <3>1 DEF Logs
  <2>2. CASE ~closed.inTurn
    BY <1>6, <2>2 DEF TurnClosed
  <2> QED
    BY <2>1, <2>2
<1>8. log' = l /\ UNCHANGED <<pc, local, batch, refused, host, runs, crashes>>
  BY <1>7 DEF InitCloses, failed, balanced, closed
<1> HIDE DEF l
<1>9. LogKept'
  <2>1. \A c \in Calls : Made(log', c) <=> Made(log, c)
    BY <1>7, <1>8 DEF Made
  <2>2. \A c \in Calls : log'.result[c] # "none" => Made(log, c)
    BY <1>3, <1>4, <1>7, <1>8 DEF EngineInv, LogKept
  <2>3. log'.turn > 0 => log'.step <= StepLimit[log'.turn]
    BY <1>7, <1>8 DEF EngineInv, LogKept
  <2> QED
    BY <1>7, <1>8, <2>1, <2>2, <2>3 DEF EngineInv, LogKept
<1>10. RunsKept'
  BY <1>7, <1>8 DEF EngineInv, RunsKept, RunsOnce, AllowedBeforeRun, Made
<1>11. RunKept' /\ RunTyped' /\ GrammarKept'
  BY <1>1, <1>7, <1>8 DEF EngineInv, RunKept, RunTyped, TypeOK, GrammarKept
<1>12. BatchTyped' /\ BatchKept' /\ \A c \in Calls : CallKept(c)'
  BY <1>1, <1>8, BatchStaysAway DEF Live
<1> QED
  BY <1>9, <1>10, <1>11, <1>12, Together

\* initialize_journal: the interrupted batch is adopted.
LEMMA InitResumesKeeps ==
    ASSUME EngineInv, InitResumes PROVE EngineInv'
<1> DEFINE calls == {c \in Incomplete(log) : log.at[c] = Here(log)}
<1>1. /\ pc = "init" /\ log.inStep /\ log.inTurn /\ buffer # "held"
      /\ pc' = "batch" /\ turn' = log.turn /\ step' = log.step
      /\ call' = [c \in Calls |-> IF c \notin calls THEN "off"
                                  ELSE IF Replayed(c) THEN "queued" ELSE "unknown"]
      /\ heard' = {c \in calls : ~Replayed(c)}
      /\ UNCHANGED <<log, fresh, then, tried, buffer, cancelled, signals, open, subject,
                     host, ghost>>
  BY DEF InitResumes, OpenInteractions, EngineInv, LogKept, RunKept
<1>2. signals' = {} /\ open' = {} /\ subject' = {}
  BY <1>1, NoBatchOutside DEF Live
<1>3. LogKept' /\ RunsKept' /\ GrammarKept'
  BY <1>1, LogRests
<1>4. RunKept' /\ RunTyped'
  BY <1>1 DEF EngineInv, RunKept, RunTyped, TypeOK
<1>5. calls \subseteq Calls /\ InBatch' = calls
  BY <1>1 DEF InBatch, Incomplete
<1>6. BatchTyped'
  BY <1>1, <1>2, <1>5 DEF BatchTyped, Done
<1>7. BatchKept'
  <2>1. OutcomeUnknown(log) \subseteq calls
    BY <1>1 DEF EngineInv, LogKept, OutcomeUnknown, Incomplete
  <2>2. OutcomeUnknown(log') = OutcomeUnknown(log)
    BY <1>1
  <2> QED
    BY <1>1, <1>5, <2>1, <2>2 DEF BatchKept, Live
<1>8. ASSUME NEW c \in Calls PROVE CallKept(c)'
  <2>1. CASE c \notin calls
    BY <1>1, <1>2, <2>1 DEF CallKept, Done
  <2>2. CASE c \in calls /\ ~Replayed(c)
    <3>1. call'[c] = "unknown" /\ log.question[c] = "none"
      BY <1>1, <2>2 DEF Replayed, Interactions, RecoverableQuestions
    <3>2. log.at[c] = Here(log) /\ log.result[c] = "none"
      BY <2>2 DEF Incomplete
    <3>3. log'.at[c] = Here(log') /\ log'.inStep /\ log'.result[c] = "none" /\ log'.question[c] = "none"
      BY <1>1, <3>1, <3>2 DEF Here
    <3> QED
      BY <1>2, <3>1, <3>3 DEF CallKept, Done
  <2>3. CASE c \in calls /\ Replayed(c)
    <3>1. /\ call'[c] = "queued" /\ c \notin heard'
          /\ log.approval[c] = "asked" \/ log.question[c] # "none"
      BY <1>1, <2>3 DEF Replayed, Interactions, RecoverableQuestions, PendingApprovals
    <3>2. log.at[c] = Here(log) /\ log.result[c] = "none"
      BY <2>3 DEF Incomplete
    <3>3. /\ log.approval[c] \in {"none", "asked"}
          /\ c \notin Questions => runs[c] = 0
      <4>1. log.question[c] # "none" => c \in Questions
        BY DEF EngineInv, LogKept
      <4>2. c \in Questions => log.approval[c] = "none"
        BY DEF EngineInv, LogKept
      <4>3. log.approval[c] = "asked" => ~(runs[c] > 0)
        BY DEF EngineInv, RunsKept, AllowedBeforeRun
      <4>4. runs[c] \in 0..2
        BY DEF EngineInv, TypeOK
      <4> QED
        BY <3>1, <4>1, <4>2, <4>3, <4>4
    <3>4. /\ log'.at[c] = Here(log') /\ log'.inStep /\ log'.result[c] = "none"
          /\ log'.approval[c] \in {"none", "asked"}
          /\ c \notin Questions => runs'[c] = 0
      BY <1>1, <3>2, <3>3 DEF Here
    <3> QED
      BY <1>2, <3>1, <3>4 DEF CallKept, Done
  <2> QED
    BY <2>1, <2>2, <2>3
<1> QED
  BY <1>3, <1>4, <1>6, <1>7, <1>8, Together

LEMMA InitJournalKeeps ==
    ASSUME EngineInv, InitJournal PROVE EngineInv'
BY GivesUpKeeps, InitResumesKeeps, InitClosesKeeps, InitStartsKeeps DEF InitJournal

--------------------------------------------------------------------------------
(* The steps of a turn, outside a batch *)

\* The chunks held back change nothing the grammar knows.
LEMMA HeldIsLog ==
    ASSUME EngineInv, pc \notin {"off", "init"} PROVE Held(log) = log
<1>1. turn = log.turn /\ step = log.step /\ ~log.bad
  BY DEF EngineInv, RunKept, LogKept
<1>2. buffer = "held" => Write(log, Chunk(turn, step)) = log
  BY <1>1, WriteChunk DEF EngineInv, RunKept
<1> QED
  BY <1>2 DEF Held

\* A step of the run in which neither the log nor a batch changes.
LEMMA RunMoves ==
    ASSUME EngineInv, ~Live, UNCHANGED <<log, batch, host, ghost, fresh, cancelled, turn, step>>,
           pc \notin {"off", "init"}, pc' \notin {"off", "init"},
           pc' = "finish" \/ (pc' = "close" /\ log.inStep) \/ (pc' = "model" /\ pc = "model"),
           pc # "finish",
           buffer' = buffer \/ (pc = "model" /\ buffer' = "held"),
           then' \in {"step", "done", "fail", "overflow"}, tried' \in BOOLEAN
    PROVE  EngineInv'
<1>1. LogKept' /\ RunsKept' /\ GrammarKept'
  BY LogRests
<1>2. RunKept' /\ RunTyped'
  BY DEF EngineInv, RunKept, RunTyped, TypeOK
<1>3. OutcomeUnknown(log') = {}
  BY AllAnswered
<1>4. BatchTyped' /\ BatchKept' /\ \A c \in Calls : CallKept(c)'
  BY <1>3, BatchStaysAway
<1> QED
  BY <1>1, <1>2, <1>4, Together

LEMMA QuietKeeps ==
    ASSUME EngineInv,
           LeaveLoop \/ PrepareEnds \/ Stream \/ StopModel \/ ModelFails \/ ModelInterrupted
    PROVE  EngineInv'
<1>1. /\ ~Live /\ UNCHANGED <<log, batch, host, ghost, fresh, cancelled, turn, step, then, tried>>
      /\ pc \in {"boundary", "prepare", "model"}
      /\ pc' = "finish" \/ (pc' = "close" /\ pc \in {"prepare", "model"})
         \/ (pc' = "model" /\ pc = "model")
      /\ buffer' = buffer \/ (pc = "model" /\ buffer' = "held")
  BY DEF LeaveLoop, PrepareEnds, Stream, StopModel, ModelFails, ModelInterrupted, InStep, Live
<1>2. pc \in {"prepare", "model"} => log.inStep
  BY DEF EngineInv, RunKept
<1>3. then' \in {"step", "done", "fail", "overflow"} /\ tried' \in BOOLEAN
  BY <1>1 DEF EngineInv, TypeOK
<1> QED
  BY <1>1, <1>2, <1>3, RunMoves

\* An append of the run outside a batch: the calls and their fates stay.
LEMMA RunWrites ==
    ASSUME EngineInv, ~Live, ~Live', SameCalls, UNCHANGED <<batch, runs, refused>>,
           pc \notin {"off", "init", "finish"} \/ pc' \in {"off", "init", "finish"},
           log' \in Logs(0..MaxTurns, Nat), ~log'.bad, RunKept', RunTyped',
           log'.inTurn, log'.turn > 0, log'.step <= StepLimit[log'.turn],
           \/ ~log'.inStep \/ pc = "boundary"
           \/ log.inStep /\ log'.turn = log.turn /\ log'.step = log.step
    PROVE  EngineInv'
<1>1. ~log'.inStep \/ OutcomeUnknown(log) = {}
      \/ (log.inStep /\ log'.turn = log.turn /\ log'.step = log.step)
  BY AllAnswered
<1>2. LogKept' /\ RunsKept'
  BY <1>1, LogMoves
<1>3. OutcomeUnknown(log') = OutcomeUnknown(log)
  BY CallsStay
<1>4. BatchTyped' /\ BatchKept' /\ \A c \in Calls : CallKept(c)'
  BY <1>3, AllAnswered, BatchStaysAway
<1>5. GrammarKept'
  BY DEF EngineInv, GrammarKept
<1> QED
  BY <1>2, <1>4, <1>5, Together

\* Where a run that is in its turn stands.
LEMMA RunFacts ==
    ASSUME EngineInv, pc \notin {"off", "init"}
    PROVE  /\ log \in Logs(0..MaxTurns, Nat) /\ ~log.bad /\ log.inTurn /\ log.turn > 0
           /\ turn = log.turn /\ step = log.step /\ Held(log) = log
           /\ log.turn \in 1..MaxTurns /\ log.step \in Nat
           /\ StepLimit[log.turn] \in Nat /\ log.step <= StepLimit[log.turn]
<1>1. /\ log \in Logs(0..MaxTurns, Nat) /\ ~log.bad /\ log.inTurn /\ log.turn > 0
      /\ turn = log.turn /\ step = log.step /\ log.step <= StepLimit[log.turn]
  BY DEF EngineInv, LogKept, RunKept
<1>2. log.turn \in 1..MaxTurns /\ log.step \in Nat
  BY <1>1 DEF Logs
<1> QED
  BY <1>1, <1>2, HeldIsLog

LEMMA NextStepKeeps ==
    ASSUME EngineInv, NextStep PROVE EngineInv'
<1> DEFINE n == log.step + 1
           opened == [log EXCEPT !.step = n, !.inStep = TRUE, !.requested = FALSE, !.said = FALSE]
<1>1. /\ log \in Logs(0..MaxTurns, Nat) /\ ~log.bad /\ log.inTurn /\ ~log.inStep /\ log.turn > 0
      /\ turn = log.turn /\ step = log.step /\ step < StepLimit[turn] /\ pc = "boundary"
      /\ log.step \in Nat /\ StepLimit[log.turn] \in Nat
  BY RunFacts DEF NextStep, EngineInv, RunKept
<1>2. Write(log, UserMessage) = log /\ Write(log, StepStart(turn, step + 1)) = opened
  BY <1>1, WriteUserMessage, WriteStepStart
<1>3. /\ opened \in Logs(0..MaxTurns, Nat) /\ ~opened.bad /\ opened.inTurn /\ opened.inStep
      /\ opened.turn = log.turn /\ opened.step = log.step + 1
      /\ ~opened.requested /\ ~opened.said
      /\ opened.at = log.at /\ opened.result = log.result
      /\ opened.approval = log.approval /\ opened.question = log.question
  <2>1. n \in Nat /\ n = log.step + 1
    BY <1>1
  <2> HIDE DEF n
  <2>2. /\ opened \in Logs(0..MaxTurns, Nat) /\ ~opened.bad /\ opened.inTurn /\ opened.inStep
        /\ opened.turn = log.turn /\ opened.step = n /\ ~opened.requested /\ ~opened.said
    BY <1>1, <2>1 DEF Logs
  <2>3. /\ opened.at = log.at /\ opened.result = log.result
        /\ opened.approval = log.approval /\ opened.question = log.question
    BY <1>1 DEF Logs
  <2> QED
    BY <2>1, <2>2, <2>3
<1> HIDE DEF opened
<1>4. /\ log' = opened /\ pc' = "prepare" /\ buffer' = "none" /\ UNCHANGED refused
      /\ step' = step + 1 /\ then' = "step" /\ tried' = FALSE
      /\ UNCHANGED <<fresh, turn, cancelled, batch, host, runs, crashes>>
  BY <1>1, <1>2, <1>3 DEF NextStep, JournalAppend, Accepted, InStep
<1>5. RunKept' /\ RunTyped'
  BY <1>1, <1>3, <1>4 DEF EngineInv, RunKept, RunTyped, TypeOK
<1>6. SameCalls /\ log'.step <= StepLimit[log'.turn] /\ ~Live /\ ~Live'
  BY <1>1, <1>3, <1>4 DEF SameCalls, Live
<1> QED
  BY <1>1, <1>3, <1>4, <1>5, <1>6, RunWrites

LEMMA CompactKeeps ==
    ASSUME EngineInv, Compact \/ ModelOverflows \/ CompactionEnds PROVE EngineInv'
<1>1. PICK b \in BOOLEAN, next \in {"compact", "close", "prepare", "finish"} :
         /\ pc \in {"prepare", "model", "compact"} /\ log.inStep
         /\ JournalAppend([log EXCEPT !.compacting = b], next)
         /\ next = "compact" => b /\ (then' # "overflow" => pc = "prepare")
         /\ next = "prepare" => pc = "compact" /\ then # "overflow"
         /\ then' \in {"step", "done", "fail", "overflow"} /\ tried' \in BOOLEAN
         /\ UNCHANGED step /\ InStep
  <2>1. CASE Compact \/ ModelOverflows
    <3>1. log.inStep /\ Write(log, CompactionStart) = [log EXCEPT !.compacting = TRUE]
      BY <2>1, RunFacts, WriteCompaction DEF Compact, ModelOverflows, EngineInv, RunKept
    <3>2. /\ pc \in {"prepare", "model"} /\ JournalAppend(Write(log, CompactionStart), "compact")
          /\ then' # "overflow" => pc = "prepare"
          /\ then' \in {"step", "done", "fail", "overflow"} /\ tried' \in BOOLEAN
          /\ UNCHANGED step /\ InStep
      BY <2>1 DEF Compact, ModelOverflows, EngineInv, TypeOK
    <3> QED
      BY <3>1, <3>2
  <2>2. CASE CompactionEnds
    <3>1. /\ pc = "compact" /\ log.inStep
          /\ Write(log, CompactionApplied) = [log EXCEPT !.compacting = FALSE]
          /\ Write(log, CompactionFailed) = [log EXCEPT !.compacting = FALSE]
      BY <2>2, RunFacts, WriteCompaction DEF CompactionEnds, EngineInv, RunKept
    <3>2. /\ then' \in {"step", "done", "fail", "overflow"} /\ tried' \in BOOLEAN
          /\ UNCHANGED step /\ InStep
      BY <2>2 DEF CompactionEnds, EngineInv, TypeOK
    <3>3. \E next \in {"close", "prepare", "finish"} :
             /\ JournalAppend([log EXCEPT !.compacting = FALSE], next)
             /\ next = "prepare" => then # "overflow"
      BY <2>2, <3>1 DEF CompactionEnds
    <3> QED
      BY <3>1, <3>2, <3>3
  <2> QED
    BY <2>1, <2>2
<1> DEFINE l == [log EXCEPT !.compacting = b]
<1>2. /\ log \in Logs(0..MaxTurns, Nat) /\ ~log.bad /\ log.inTurn /\ log.turn > 0
      /\ turn = log.turn /\ step = log.step /\ log.step <= StepLimit[log.turn]
  BY <1>1, RunFacts
<1>3. /\ l \in Logs(0..MaxTurns, Nat) /\ ~l.bad /\ l.inTurn /\ l.inStep
      /\ l.turn = log.turn /\ l.step = log.step /\ l.compacting = b
      /\ l.requested = log.requested /\ l.said = log.said
      /\ l.at = log.at /\ l.result = log.result
      /\ l.approval = log.approval /\ l.question = log.question
  BY <1>1, <1>2 DEF Logs
<1>4. JournalAppend(l, next)
  BY <1>1
<1> HIDE DEF l
<1>5. /\ log' = l /\ pc' = next /\ UNCHANGED <<refused, step>> /\ InStep
      /\ buffer' = IF buffer = "held" THEN "written" ELSE buffer
  BY <1>1, <1>3, <1>4 DEF JournalAppend, Accepted
<1>6. RunTyped'
  BY <1>1, <1>5 DEF EngineInv, RunTyped, TypeOK, InStep
<1>7. RunKept'
  BY <1>1, <1>2, <1>3, <1>5 DEF EngineInv, RunKept, InStep
<1>8. SameCalls /\ ~Live /\ ~Live'
  BY <1>1, <1>3, <1>5 DEF SameCalls, Live
<1> QED
  BY <1>1, <1>2, <1>3, <1>5, <1>6, <1>7, <1>8, RunWrites DEF InStep

LEMMA SendKeeps ==
    ASSUME EngineInv, SendRequest \/ Checkpoint PROVE EngineInv'
<1>1. /\ pc \in {"prepare", "model"} /\ log.inStep /\ ~log.said /\ UNCHANGED <<step, then, tried>>
      /\ InStep
  BY DEF SendRequest, Checkpoint, EngineInv, RunKept
<1>2. /\ log \in Logs(0..MaxTurns, Nat) /\ ~log.bad /\ log.inTurn /\ log.turn > 0
      /\ turn = log.turn /\ step = log.step /\ log.step <= StepLimit[log.turn]
      /\ Held(log) = log
  BY <1>1, RunFacts
<1>3. PICK r \in BOOLEAN : JournalAppend([log EXCEPT !.requested = r], "model")
  <2>1. CASE SendRequest
    <3>1. ~log.requested
      BY <2>1 DEF SendRequest, EngineInv, RunKept
    <3>2. Write(log, RequestHeader) = [log EXCEPT !.requested = TRUE]
      BY <1>1, <1>2, <3>1, WriteRequestHeader
    <3> QED
      BY <2>1, <3>2 DEF SendRequest
  <2>2. CASE Checkpoint
    <3>1. log = [log EXCEPT !.requested = log.requested] /\ log.requested \in BOOLEAN
      BY <1>2 DEF Logs
    <3> QED
      BY <1>2, <2>2, <3>1 DEF Checkpoint
  <2> QED
    BY <2>1, <2>2
<1> DEFINE l == [log EXCEPT !.requested = r]
<1>4. /\ l \in Logs(0..MaxTurns, Nat) /\ ~l.bad /\ l.inTurn /\ l.inStep
      /\ l.turn = log.turn /\ l.step = log.step /\ ~l.said
      /\ l.at = log.at /\ l.result = log.result
      /\ l.approval = log.approval /\ l.question = log.question
  BY <1>1, <1>2 DEF Logs
<1> HIDE DEF l
<1>5. /\ log' = l /\ pc' = "model" /\ UNCHANGED refused
      /\ buffer' = IF buffer = "held" THEN "written" ELSE buffer
  BY <1>1, <1>3, <1>4 DEF JournalAppend, Accepted, l
<1>6. RunTyped' /\ RunKept'
  BY <1>1, <1>2, <1>4, <1>5 DEF EngineInv, RunTyped, RunKept, TypeOK, InStep
<1>7. SameCalls /\ ~Live /\ ~Live'
  BY <1>1, <1>4, <1>5 DEF SameCalls, Live
<1> QED
  BY <1>1, <1>2, <1>4, <1>5, <1>6, <1>7, RunWrites DEF InStep

\* The end of a step, and at the end of a run: the append over a question that
\* waits is the one that may be refused.
LEMMA CloseStepKeeps ==
    ASSUME EngineInv, CloseStep PROVE EngineInv'
<1> DEFINE closed == [log EXCEPT !.inStep = FALSE]
<1>1. /\ log \in Logs(0..MaxTurns, Nat) /\ ~log.bad /\ log.inTurn /\ log.turn > 0
      /\ turn = log.turn /\ step = log.step /\ log.step <= StepLimit[log.turn]
      /\ Held(log) = log /\ pc = "close" /\ log.inStep
  BY RunFacts DEF CloseStep, EngineInv, RunKept
<1>2. /\ UNCHANGED <<step, tried>> /\ InStep /\ then' \in {"step", "done", "fail", "overflow"}
  BY DEF CloseStep
<1>3. CASE QuestionWaits(log)
  <2>1. Write(log, StepEnd(turn, step)) = [log EXCEPT !.bad = TRUE]
    BY <1>1, <1>3, WriteStepEnd
  <2>2. Write(log, StepEnd(turn, step)).bad
    BY <1>1, <2>1 DEF Logs
  <2>3. pc' = "finish" /\ refused' = refused \cup {"a question waits"} /\ UNCHANGED <<log, buffer>>
    BY <1>1, <1>3, <2>2 DEF CloseStep, JournalAppend, Refused, Because
  <2>4. LogKept' /\ RunsKept'
    <3>1. LogKept'
      BY <2>3 DEF EngineInv, LogKept, Made, OutcomeUnknown, Incomplete, Interactions,
                  PendingApprovals, RecoverableQuestions, Here
    <3>2. RunsKept'
      BY <1>2, <2>3 DEF EngineInv, RunsKept, RunsOnce, AllowedBeforeRun, Made, InStep
    <3> QED
      BY <3>1, <3>2
  <2>5. GrammarKept'
    BY <2>3 DEF EngineInv, GrammarKept
  <2>6. RunKept' /\ RunTyped'
    BY <1>1, <1>2, <2>3 DEF EngineInv, RunKept, RunTyped, TypeOK, InStep
  <2>7. BatchTyped' /\ BatchKept' /\ \A c \in Calls : CallKept(c)'
    BY <1>1, <1>2, <2>3, BatchStaysAway DEF InStep, Live
  <2> QED
    BY <2>4, <2>5, <2>6, <2>7, Together
<1>4. CASE ~QuestionWaits(log)
  <2>1. Write(log, StepEnd(turn, step)) = closed
    BY <1>1, <1>4, WriteStepEnd
  <2>2. /\ closed \in Logs(0..MaxTurns, Nat) /\ ~closed.bad /\ closed.inTurn /\ ~closed.inStep
        /\ closed.turn = log.turn /\ closed.step = log.step
        /\ closed.at = log.at /\ closed.result = log.result
        /\ closed.approval = log.approval /\ closed.question = log.question
    BY <1>1 DEF Logs
  <2> HIDE DEF closed
  <2>3. /\ log' = closed /\ pc' \in {"finish", "boundary"} /\ UNCHANGED refused
        /\ buffer' = IF buffer = "held" THEN "written" ELSE buffer
    BY <1>1, <2>1, <2>2 DEF CloseStep, JournalAppend, Accepted
  <2>4. RunKept' /\ RunTyped'
    BY <1>1, <1>2, <2>2, <2>3 DEF EngineInv, RunKept, RunTyped, TypeOK, InStep
  <2>5. SameCalls /\ ~Live /\ ~Live'
    BY <1>1, <2>2, <2>3 DEF SameCalls, Live
  <2> QED
    BY <1>1, <1>2, <2>2, <2>3, <2>4, <2>5, RunWrites DEF InStep
<1> QED
  BY <1>3, <1>4

LEMMA FinishStepKeeps ==
    ASSUME EngineInv, FinishStep PROVE EngineInv'
<1> DEFINE closed == [log EXCEPT !.inStep = FALSE]
<1>1. /\ log \in Logs(0..MaxTurns, Nat) /\ ~log.bad /\ log.inTurn /\ log.turn > 0
      /\ turn = log.turn /\ step = log.step /\ log.step <= StepLimit[log.turn]
      /\ Held(log) = log /\ pc = "finish" /\ log.inStep
  BY RunFacts DEF FinishStep
<1>2. CASE QuestionWaits(log)
  <2>1. Write(log, StepEnd(turn, step)) = [log EXCEPT !.bad = TRUE]
    BY <1>1, <1>2, WriteStepEnd
  <2>2. Write(log, StepEnd(turn, step)).bad
    BY <1>1, <2>1 DEF Logs
  <2>3. /\ RunOver /\ refused' = refused \cup {"a question waits"}
        /\ UNCHANGED <<log, host, runs, crashes>>
    BY <1>1, <1>2, <2>2 DEF FinishStep, Because
  <2> QED
    BY <2>3, OverKeeps DEF EngineInv, GrammarKept, TypeOK
<1>3. CASE ~QuestionWaits(log)
  <2>1. Write(log, StepEnd(turn, step)) = closed
    BY <1>1, <1>3, WriteStepEnd
  <2>2. /\ closed \in Logs(0..MaxTurns, Nat) /\ ~closed.bad /\ closed.inTurn /\ ~closed.inStep
        /\ closed.turn = log.turn /\ closed.step = log.step
        /\ closed.at = log.at /\ closed.result = log.result
        /\ closed.approval = log.approval /\ closed.question = log.question
    BY <1>1 DEF Logs
  <2> HIDE DEF closed
  <2>3. /\ log' = closed /\ pc' = "finish" /\ UNCHANGED refused
        /\ buffer' = IF buffer = "held" THEN "written" ELSE buffer
        /\ UNCHANGED <<fresh, turn, step, then, tried, cancelled, batch, host, runs, crashes>>
    BY <1>1, <2>1, <2>2 DEF FinishStep, Accepted
  <2>4. RunKept' /\ RunTyped'
    BY <1>1, <2>2, <2>3 DEF EngineInv, RunKept, RunTyped, TypeOK
  <2>5. SameCalls /\ ~Live /\ ~Live'
    BY <1>1, <2>2, <2>3 DEF SameCalls, Live
  <2> QED
    BY <1>1, <2>2, <2>3, <2>4, <2>5, RunWrites
<1> QED
  BY <1>2, <1>3

LEMMA FinishTurnKeeps ==
    ASSUME EngineInv, FinishTurn PROVE EngineInv'
<1> DEFINE ended == [log EXCEPT !.inTurn = FALSE]
<1>1. /\ log \in Logs(0..MaxTurns, Nat) /\ ~log.bad /\ log.inTurn /\ log.turn > 0
      /\ turn = log.turn /\ log.step <= StepLimit[log.turn]
      /\ Held(log) = log /\ pc = "finish" /\ ~log.inStep
  BY RunFacts DEF FinishTurn
<1>2. Write(log, TurnEnd(turn)) = ended
  BY <1>1, WriteTurnEnd
<1>3. /\ ended \in Logs(0..MaxTurns, Nat) /\ ~ended.bad /\ ~ended.inTurn /\ ~ended.inStep
      /\ ended.turn = log.turn /\ ended.step = log.step
      /\ ended.at = log.at /\ ended.result = log.result
      /\ ended.approval = log.approval /\ ended.question = log.question
  BY <1>1 DEF Logs
<1> HIDE DEF ended
<1>4. log' = ended /\ UNCHANGED <<refused, host, runs, crashes>> /\ RunOver
  BY <1>1, <1>2, <1>3 DEF FinishTurn
<1>5. SameCalls
  BY <1>3, <1>4 DEF SameCalls
<1>6. LogKept' /\ RunsKept'
  BY <1>1, <1>3, <1>4, <1>5, LogMoves
<1>7. RunKept' /\ RunTyped' /\ GrammarKept'
  BY <1>4 DEF RunOver, RunKept, RunTyped, EngineInv, TypeOK, GrammarKept
<1>8. BatchTyped' /\ BatchKept' /\ \A c \in Calls : CallKept(c)'
  BY <1>4, NoBatchAfter DEF RunOver, NoBatch
<1> QED
  BY <1>6, <1>7, <1>8, Together

LEMMA ModelSaysKeeps ==
    ASSUME EngineInv, ModelSays PROVE EngineInv'
<1> DEFINE l == Write(log, Assistant(turn, step, {}))
<1>1. /\ log \in Logs(0..MaxTurns, Nat) /\ ~log.bad /\ log.inTurn /\ log.turn > 0
      /\ turn = log.turn /\ step = log.step /\ log.step <= StepLimit[log.turn]
      /\ Held(log) = log /\ pc = "model" /\ log.inStep /\ ~log.said
  BY RunFacts DEF ModelSays, EngineInv, RunKept
<1>2. l = [log EXCEPT !.said = TRUE, !.at = [c \in Calls |-> IF c \in {} THEN Here(log) ELSE @[c]]]
  <2> DEFINE S == {}
  <2>1. \A c \in S : ~Made(log, c)
    OBVIOUS
  <2> HIDE DEF S
  <2>2. Write(log, Assistant(log.turn, log.step, S))
           = [log EXCEPT !.said = TRUE, !.at = [c \in Calls |-> IF c \in S THEN Here(log) ELSE @[c]]]
    BY <1>1, <2>1, WriteAssistant
  <2> QED
    BY <1>1, <2>2, Zenon DEF S
<1>3. [c \in Calls |-> IF c \in {} THEN Here(log) ELSE log.at[c]] = log.at
  BY <1>1 DEF Logs
<1>4. /\ l \in Logs(0..MaxTurns, Nat) /\ ~l.bad /\ l.inTurn /\ l.inStep
      /\ l.turn = log.turn /\ l.step = log.step
      /\ l.at = log.at /\ l.result = log.result
      /\ l.approval = log.approval /\ l.question = log.question
  BY <1>1, <1>2, <1>3 DEF Logs
<1> HIDE DEF l
<1>5. /\ log' = l /\ pc' = "close" /\ UNCHANGED refused
      /\ buffer' = IF buffer = "held" THEN "written" ELSE buffer
      /\ then' \in {"step", "done", "fail"} /\ UNCHANGED <<step, tried>> /\ InStep
  BY <1>1, <1>4 DEF ModelSays, JournalAppend, Accepted, l
<1>6. RunTyped' /\ RunKept'
  BY <1>1, <1>4, <1>5 DEF EngineInv, RunTyped, RunKept, TypeOK, InStep
<1>7. SameCalls /\ ~Live /\ ~Live'
  BY <1>1, <1>4, <1>5 DEF SameCalls, Live
<1> QED
  BY <1>1, <1>4, <1>5, <1>6, <1>7, RunWrites DEF InStep

LEMMA ModelCallsKeeps ==
    ASSUME EngineInv, ModelCalls PROVE EngineInv'
<1>1. /\ log \in Logs(0..MaxTurns, Nat) /\ ~log.bad /\ log.inTurn /\ log.turn > 0
      /\ turn = log.turn /\ step = log.step /\ log.step <= StepLimit[log.turn]
      /\ Held(log) = log /\ pc = "model" /\ log.inStep /\ ~log.said /\ log.step \in Nat
      /\ log.turn \in 1..MaxTurns /\ OutcomeUnknown(log) = {} /\ ~Live
  BY RunFacts, AllAnswered DEF ModelCalls, EngineInv, RunKept, Live
<1>2. PICK S \in SUBSET {c \in Calls : ~Made(log, c)} \ {{}}, mixed \in BOOLEAN :
         /\ JournalAppend(Write(log, Assistant(turn, step, S)), IF mixed THEN "finish" ELSE "batch")
         /\ call' = [c \in Calls |-> IF c \in S /\ ~mixed THEN "queued" ELSE "off"]
  <2> DEFINE mix(S) == Cardinality(S) > 1 /\ S \cap Questions # {}
  <2>1. \A S : mix(S) \in BOOLEAN
    OBVIOUS
  <2>2. \E S \in SUBSET {c \in Calls : ~Made(log, c)} \ {{}} :
           /\ JournalAppend(Write(log, Assistant(turn, step, S)), IF mix(S) THEN "finish" ELSE "batch")
           /\ call' = [c \in Calls |-> IF c \in S /\ ~mix(S) THEN "queued" ELSE "off"]
    BY <1>1 DEF ModelCalls
  <2> HIDE DEF mix
  <2> QED
    BY <2>1, <2>2
<1>3. UNCHANGED <<step, then, tried, fresh, turn, cancelled, heard, signals, open, subject, host,
                  runs, crashes>>
  BY DEF ModelCalls
<1> DEFINE l == Write(log, Assistant(turn, step, S))
<1>4. l = [log EXCEPT !.said = TRUE, !.at = [c \in Calls |-> IF c \in S THEN Here(log) ELSE @[c]]]
  BY <1>1, <1>2, WriteAssistant
<1>5. Here(log) \in Coordinates(0..MaxTurns, Nat) /\ Here(log) # Nowhere
  BY <1>1 DEF Here, Coordinates, Nowhere
<1>6. /\ l \in Logs(0..MaxTurns, Nat) /\ ~l.bad /\ l.inTurn /\ l.inStep
      /\ l.turn = log.turn /\ l.step = log.step
      /\ \A c \in Calls : l.at[c] = IF c \in S THEN Here(log) ELSE log.at[c]
      /\ l.result = log.result
      /\ l.approval = log.approval /\ l.question = log.question
  <2> DEFINE at == [c \in Calls |-> IF c \in S THEN Here(log) ELSE log.at[c]]
  <2>1. /\ at \in [Calls -> Coordinates(0..MaxTurns, Nat)]
        /\ \A c \in Calls : at[c] = IF c \in S THEN Here(log) ELSE log.at[c]
    BY <1>1, <1>5 DEF Logs
  <2>2. l = [log EXCEPT !.said = TRUE, !.at = at]
    BY <1>4, Zenon
  <2> HIDE DEF at, l
  <2> QED
    BY <1>1, <2>1, <2>2 DEF Logs
<1>7. JournalAppend(l, IF mixed THEN "finish" ELSE "batch")
  BY <1>2
<1> HIDE DEF l
<1>8. /\ log' = l /\ pc' = (IF mixed THEN "finish" ELSE "batch") /\ UNCHANGED refused
      /\ buffer' = IF buffer = "held" THEN "written" ELSE buffer
  BY <1>1, <1>6, <1>7 DEF JournalAppend, Accepted
<1>9. Here(log') = Here(log) /\ \A c \in Calls : Made(log', c) <=> c \in S \/ Made(log, c)
  BY <1>5, <1>6, <1>8 DEF Here, Made
<1>10. /\ S \subseteq Calls
       /\ \A c \in S : /\ log.result[c] = "none" /\ log.approval[c] = "none"
                       /\ log.question[c] = "none" /\ runs[c] = 0
  <2>1. S \subseteq Calls /\ \A c \in S : ~Made(log, c)
    BY <1>2
  <2>2. \A c \in S : ~(runs[c] > 0) /\ runs[c] \in 0..2
    BY <2>1 DEF EngineInv, RunsKept, TypeOK
  <2>3. \A c \in S : log.result[c] = "none" /\ log.approval[c] = "none" /\ log.question[c] = "none"
    BY <2>1 DEF EngineInv, LogKept
  <2> QED
    BY <2>1, <2>2, <2>3
<1>11. OutcomeUnknown(log') \subseteq S
  BY <1>1, <1>6, <1>8, <1>9 DEF OutcomeUnknown, Incomplete, Interactions, PendingApprovals,
                                RecoverableQuestions
<1>12. LogKept'
  <2>1. log'.turn > 0 => log'.step <= StepLimit[log'.turn]
    BY <1>1, <1>6, <1>8
  <2>2. ASSUME NEW c \in Calls
        PROVE  /\ log'.result[c] # "none" \/ log'.approval[c] # "none" \/ log'.question[c] # "none"
                     => Made(log', c)
               /\ log'.approval[c] # "none" => c \notin Questions
               /\ log'.question[c] # "none" => c \in Questions
    BY <1>6, <1>8, <1>9 DEF EngineInv, LogKept
  <2>3. \A c \in Calls : c \in OutcomeUnknown(log') => log'.at[c] = Here(log')
    BY <1>6, <1>8, <1>9, <1>11
  <2> QED
    BY <1>1, <1>6, <1>8, <2>1, <2>2, <2>3 DEF LogKept
<1>13. RunsKept' /\ GrammarKept'
  BY <1>3, <1>6, <1>8, <1>9 DEF EngineInv, RunsKept, RunsOnce, AllowedBeforeRun, GrammarKept
<1>14. RunKept' /\ RunTyped'
  BY <1>1, <1>3, <1>6, <1>8 DEF EngineInv, RunTyped, RunKept, TypeOK
<1>15. heard' = {} /\ signals' = {} /\ open' = {} /\ subject' = {}
  BY <1>1, <1>3, NoBatchOutside
<1>16. CASE mixed
  <2>1. call' = [c \in Calls |-> "off"] /\ pc' = "finish"
    BY <1>2, <1>8, <1>16
  <2> QED
    BY <1>12, <1>13, <1>14, <1>15, <2>1, NoBatchAfter, Together
<1>17. CASE ~mixed
  <2>1. pc' = "batch" /\ call' = [c \in Calls |-> IF c \in S THEN "queued" ELSE "off"]
    BY <1>2, <1>8, <1>17
  <2>2. InBatch' = S
    BY <1>10, <2>1 DEF InBatch
  <2>3. BatchTyped' /\ BatchKept'
    BY <1>11, <1>15, <2>1, <2>2 DEF BatchTyped, BatchKept, Live
  <2>4. ASSUME NEW c \in Calls PROVE CallKept(c)'
    <3>1. CASE c \in S
      <4>1. call'[c] = "queued" /\ log'.at[c] = Here(log') /\ log'.inStep
        BY <1>6, <1>8, <1>9, <2>1, <3>1
      <4>2. /\ log'.result[c] = "none" /\ log'.approval[c] = "none" /\ runs'[c] = 0
        BY <1>3, <1>6, <1>8, <1>10, <3>1
      <4> QED
        BY <1>15, <4>1, <4>2 DEF CallKept, Done
    <3>2. CASE c \notin S
      BY <1>15, <2>1, <3>2 DEF CallKept, Done
    <3> QED
      BY <3>1, <3>2
  <2> QED
    BY <1>12, <1>13, <1>14, <2>3, <2>4, Together
<1> QED
  BY <1>16, <1>17

--------------------------------------------------------------------------------
(* The stages of a tool call *)

Stages == {"queued", "asking", "awaiting", "released", "running", "waiting"}

\* What a stage of one call leaves of the others.
LEMMA StageMoves ==
    ASSUME EngineInv, NEW c \in Calls, NEW from \in SUBSET Stages,
           NEW to \in Stages \cup Done, Stage(c, from, to), UNCHANGED known,
           signals' = signals \/ signals' = signals \cup {c},
           runs' \in [Calls -> 0..2], \A d \in Calls : d # c => runs'[d] = runs[d],
           RunsKept', CallKept(c)'
    PROVE  EngineInv'
<1>1. /\ Live /\ call[c] \in Stages /\ call' = [call EXCEPT ![c] = to]
      /\ UNCHANGED <<log, pc, local, heard, open, subject, attached, refused, crashes>>
      /\ BatchTyped
  BY Parts DEF Stage, EngineInv
<1>2. LogKept' /\ GrammarKept'
  BY <1>1 DEF EngineInv, LogKept, GrammarKept, Made, OutcomeUnknown, Incomplete, Interactions,
              PendingApprovals, RecoverableQuestions, Here
<1>3. RunKept' /\ RunTyped'
  BY <1>1 DEF EngineInv, RunKept, RunTyped, TypeOK, Live
<1>4. /\ call' \in [Calls -> Done \cup Stages \cup {"off"}]
      /\ call'[c] = to /\ \A d \in Calls : d # c => call'[d] = call[d]
  BY <1>1 DEF BatchTyped, Stages, Done
<1>5. InBatch' = InBatch /\ c \in InBatch
  BY <1>1, <1>4 DEF InBatch, Stages, Done
<1>6. BatchTyped'
  <2>1. PendingApprovals(log') = PendingApprovals(log)
    BY <1>1
  <2> QED
    BY <1>1, <1>4, <1>5, <2>1 DEF BatchTyped, Stages
<1>7. BatchKept'
  BY <1>1, <1>5 DEF EngineInv, BatchKept, Live
<1>8. ASSUME NEW d \in Calls, d # c PROVE CallKept(d)'
  <2>1. d \in signals' <=> d \in signals
    BY <1>8
  <2> QED
    BY <1>1, <1>4, <1>8, <2>1 DEF EngineInv, CallKept, Here
<1> QED
  BY <1>2, <1>3, <1>6, <1>7, <1>8, Together

\* What a stage may rely on.
LEMMA CallFacts ==
    ASSUME EngineInv, NEW c \in Calls, NEW from \in SUBSET Stages,
           NEW to \in Stages \cup Done, Stage(c, from, to)
    PROVE  /\ call[c] \in from /\ call'[c] = to /\ UNCHANGED <<log, heard, open, cancelled>>
           /\ log.at[c] = Here(log) /\ log.inStep /\ log.result[c] = "none"
           /\ c \notin heard /\ runs[c] \in 0..2
<1>1. /\ call[c] \in from /\ call[c] \in Stages /\ call' = [call EXCEPT ![c] = to]
      /\ UNCHANGED <<log, heard, open, cancelled>> /\ BatchTyped
  BY Parts DEF Stage, EngineInv
<1>2. call'[c] = to
  BY <1>1 DEF BatchTyped
<1>3. c \notin heard /\ log.at[c] = Here(log) /\ log.inStep /\ log.result[c] = "none"
  BY <1>1 DEF EngineInv, CallKept, Stages, Done
<1> QED
  BY <1>1, <1>2, <1>3 DEF EngineInv, TypeOK

LEMMA ErrorKeeps ==
    ASSUME EngineInv, NEW c \in Calls, NEW from \in SUBSET Stages, Stage(c, from, "error"),
           UNCHANGED <<signals, known, runs>>,
           c \in Questions => log.question[c] # "pending" \/ cancelled
    PROVE  EngineInv'
<1>1. /\ call[c] \in Stages /\ call'[c] = "error" /\ UNCHANGED <<log, heard, open, cancelled>>
      /\ log.at[c] = Here(log) /\ log.inStep /\ log.result[c] = "none" /\ c \notin heard
  BY CallFacts DEF Done
<1>2. RunsKept'
  BY <1>1 DEF EngineInv, RunsKept, RunsOnce, AllowedBeforeRun, Made
<1>3. CallKept(c)'
  <2>1. c \in signals => /\ c \notin open /\ log.approval[c] \in {"none", "asked"}
                         /\ c \notin Questions /\ runs[c] = 0
    BY DEF EngineInv, CallKept
  <2>2. log'.at[c] = Here(log') /\ log'.inStep /\ log'.result[c] = "none"
    BY <1>1 DEF Here
  <2> QED
    BY <1>1, <2>1, <2>2 DEF CallKept, Done
<1>4. runs' \in [Calls -> 0..2] /\ "error" \in Stages \cup Done
  BY DEF EngineInv, TypeOK, Done
<1> QED
  BY <1>2, <1>3, <1>4, StageMoves

LEMMA FailsKeeps ==
    ASSUME EngineInv, NEW c \in Calls, Refuse(c) \/ ApprovalTimeout(c) \/ CallCancelled(c)
    PROVE  EngineInv'
<1>1. CASE Refuse(c)
  BY <1>1, ErrorKeeps DEF Refuse, Stages
<1>2. CASE ApprovalTimeout(c)
  <2>1. Stage(c, {"asking", "awaiting"}, "error") /\ UNCHANGED <<signals, known, runs>>
    BY <1>2 DEF ApprovalTimeout
  <2>2. c \notin Questions
    BY <2>1 DEF Stage, EngineInv, CallKept
  <2> QED
    BY <2>1, <2>2, ErrorKeeps DEF Stages
<1>3. CASE CallCancelled(c)
  BY <1>3, ErrorKeeps DEF CallCancelled, Stages
<1> QED
  BY <1>1, <1>2, <1>3

LEMMA GateKeeps ==
    ASSUME EngineInv, NEW c \in Calls, Pass(c) \/ Ask(c)
    PROVE  EngineInv'
<1>1. PICK to \in {"released", "asking"} :
         /\ Stage(c, {"queued"}, to) /\ UNCHANGED <<known, runs>>
         /\ to = "released" => log.approval[c] = "none" /\ UNCHANGED signals
         /\ to = "asking" => c \notin Questions /\ signals' = signals \cup {c}
  BY DEF Pass, Ask, MayPass
<1>2. /\ call[c] = "queued" /\ call'[c] = to /\ UNCHANGED <<log, heard, open, cancelled>>
      /\ log.at[c] = Here(log) /\ log.inStep /\ log.result[c] = "none" /\ c \notin heard
  BY <1>1, CallFacts DEF Stages
<1>3. /\ log.approval[c] \in {"none", "asked"} /\ c \notin signals /\ c \notin open
      /\ c \notin Questions => runs[c] = 0
  BY <1>2 DEF EngineInv, CallKept, Done
<1>4. RunsKept'
  BY <1>1, <1>2 DEF EngineInv, RunsKept, RunsOnce, AllowedBeforeRun, Made
<1>5. CallKept(c)'
  <2>1. log'.at[c] = Here(log') /\ log'.inStep /\ log'.result[c] = "none"
    BY <1>2 DEF Here
  <2> QED
    BY <1>1, <1>2, <1>3, <2>1 DEF CallKept, Done
<1>6. runs' \in [Calls -> 0..2]
  BY <1>1 DEF EngineInv, TypeOK
<1> QED
  BY <1>1, <1>4, <1>5, <1>6, StageMoves DEF Stages

LEMMA StartKeeps ==
    ASSUME EngineInv, NEW c \in Calls, StartHandler(c)
    PROVE  EngineInv'
<1>1. /\ Stage(c, {"released"}, "running") /\ UNCHANGED <<signals, known>>
      /\ runs' = [runs EXCEPT ![c] = IF @ < 2 THEN @ + 1 ELSE @]
  BY DEF StartHandler
<1>2. /\ call[c] = "released" /\ call'[c] = "running" /\ UNCHANGED <<log, heard, open, cancelled>>
      /\ log.at[c] = Here(log) /\ log.inStep /\ log.result[c] = "none" /\ c \notin heard
      /\ runs[c] \in 0..2
  <2>1. {"released"} \in SUBSET Stages /\ "running" \in Stages \cup Done
    BY DEF Stages
  <2>2. call[c] \in {"released"} /\ call'[c] = "running"
    BY <1>1, <2>1, CallFacts
  <2> QED
    BY <1>1, <2>1, <2>2, CallFacts
<1>3. /\ log.approval[c] \in {"none", "allowed"} /\ c \notin signals /\ c \notin open
      /\ c \notin Questions => runs[c] = 0
  BY <1>2 DEF EngineInv, CallKept, Done
<1>4. /\ runs' \in [Calls -> 0..2] /\ \A d \in Calls : d # c => runs'[d] = runs[d]
      /\ c \notin Questions => runs'[c] = 1
  <2>1. runs \in [Calls -> 0..2]
    BY DEF EngineInv, TypeOK
  <2>2. (IF runs[c] < 2 THEN runs[c] + 1 ELSE runs[c]) \in 0..2
    BY <1>2
  <2> QED
    BY <1>1, <1>3, <2>1, <2>2
<1>5. Made(log, c)
  <2>1. log.inTurn /\ log.turn > 0 /\ log.turn \in 0..MaxTurns
    BY <1>2 DEF EngineInv, LogKept, Logs
  <2> QED
    BY <1>2, <2>1 DEF Made, Here, Nowhere
<1>6. RunsKept'
  <2>1. \A d \in Calls : Made(log', d) <=> Made(log, d)
    BY <1>2 DEF Made
  <2>2. \A d \in Calls : runs'[d] > 0 => Made(log', d)
    BY <1>4, <1>5, <2>1 DEF EngineInv, RunsKept
  <2>3. RunsOnce'
    BY <1>4 DEF EngineInv, RunsKept, RunsOnce
  <2>4. AllowedBeforeRun'
    BY <1>2, <1>3, <1>4 DEF EngineInv, RunsKept, AllowedBeforeRun
  <2> QED
    BY <2>2, <2>3, <2>4 DEF RunsKept
<1>7. CallKept(c)'
  <2>1. log'.at[c] = Here(log') /\ log'.inStep /\ log'.result[c] = "none"
    BY <1>2 DEF Here
  <2> QED
    BY <1>1, <1>2, <1>3, <1>4, <2>1 DEF CallKept, Done
<1> QED
  BY <1>1, <1>4, <1>6, <1>7, StageMoves DEF Stages

LEMMA EndKeeps ==
    ASSUME EngineInv, NEW c \in Calls, HandlerReturns(c) \/ QuestionEnds(c)
    PROVE  EngineInv'
<1>1. PICK from \in SUBSET {"running", "waiting"}, to \in {"ok", "error"} :
         /\ Stage(c, from, to) /\ UNCHANGED <<signals, known, runs>>
         /\ \/ c \notin Questions
            \/ log.question[c] # "pending" /\ (to = "ok" => log.question[c] = "resolved")
  <2>1. CASE HandlerReturns(c)
    BY <2>1 DEF HandlerReturns
  <2>2. CASE QuestionEnds(c)
    BY <2>2 DEF QuestionEnds
  <2> QED
    BY <2>1, <2>2
<1>2. from \in SUBSET Stages /\ to \in Stages \cup Done
  BY DEF Stages, Done
<1>3. /\ call[c] \in {"running", "waiting"} /\ call'[c] = to
      /\ UNCHANGED <<log, heard, open, cancelled>>
      /\ log.at[c] = Here(log) /\ log.inStep /\ log.result[c] = "none" /\ c \notin heard
  BY <1>1, <1>2, CallFacts
<1>4. c \notin signals
  BY <1>3 DEF EngineInv, CallKept
<1>5. RunsKept'
  BY <1>1, <1>3 DEF EngineInv, RunsKept, RunsOnce, AllowedBeforeRun, Made
<1>6. CallKept(c)'
  <2>1. log'.at[c] = Here(log') /\ log'.inStep /\ log'.result[c] = "none"
    BY <1>3 DEF Here
  <2> QED
    BY <1>1, <1>3, <1>4, <2>1 DEF CallKept, Done
<1>7. runs' \in [Calls -> 0..2]
  BY <1>1 DEF EngineInv, TypeOK
<1> QED
  BY <1>1, <1>2, <1>5, <1>6, <1>7, StageMoves

--------------------------------------------------------------------------------
(* Questions, and the cancellation token *)

LEMMA QuestionMoves ==
    ASSUME EngineInv, NEW c \in Questions, NEW v \in {"pending", "resolved", "cancelled"},
           log' = [log EXCEPT !.question[c] = v], Made(log, c),
           UNCHANGED <<pc, local, attached, ghost>>, known' \subseteq Questions
    PROVE  /\ LogKept' /\ RunKept' /\ RunTyped' /\ RunsKept' /\ GrammarKept'
           /\ OutcomeUnknown(log') \subseteq OutcomeUnknown(log)
           /\ PendingApprovals(log') = PendingApprovals(log)
           /\ log'.at = log.at /\ log'.result = log.result /\ log'.approval = log.approval
           /\ log'.inStep = log.inStep /\ Here(log') = Here(log)
           /\ \A d \in Calls : log'.question[d] = IF d = c THEN v ELSE log.question[d]
<1>1. log \in Logs(0..MaxTurns, Nat) /\ c \in Calls
  BY DEF EngineInv, LogKept
<1>2. /\ log' \in Logs(0..MaxTurns, Nat)
      /\ log'.turn = log.turn /\ log'.inTurn = log.inTurn
      /\ log'.step = log.step /\ log'.inStep = log.inStep
      /\ log'.requested = log.requested /\ log'.said = log.said
      /\ log'.compacting = log.compacting /\ log'.bad = log.bad
      /\ log'.at = log.at /\ log'.result = log.result /\ log'.approval = log.approval
  BY <1>1 DEF Logs
<1>3. \A d \in Calls : log'.question[d] = IF d = c THEN v ELSE log.question[d]
  BY <1>1 DEF Logs
<1>4. Here(log') = Here(log) /\ \A d \in Calls : Made(log', d) <=> Made(log, d)
  BY <1>2 DEF Here, Made
<1>5. Incomplete(log') = Incomplete(log) /\ PendingApprovals(log') = PendingApprovals(log)
  BY <1>2, <1>4 DEF Incomplete, PendingApprovals
<1>6. Interactions(log) \subseteq Interactions(log')
  BY <1>3, <1>5 DEF Interactions, RecoverableQuestions, Incomplete
<1>7. OutcomeUnknown(log') \subseteq OutcomeUnknown(log)
  BY <1>5, <1>6 DEF OutcomeUnknown
<1>8. LogKept'
  <2>1. \A d \in Calls : log'.question[d] # "none" => d \in Questions /\ Made(log', d)
    BY <1>3, <1>4 DEF EngineInv, LogKept
  <2>2. \A d \in Calls : log'.inStep /\ d \in OutcomeUnknown(log') => log'.at[d] = Here(log')
    BY <1>2, <1>4, <1>7 DEF EngineInv, LogKept
  <2>3. \A d \in Calls : /\ log'.result[d] # "none" \/ log'.approval[d] # "none" => Made(log', d)
                         /\ log'.approval[d] # "none" => d \notin Questions
    BY <1>2, <1>4 DEF EngineInv, LogKept
  <2>4. /\ ~log'.bad
        /\ log'.inStep => log'.inTurn
        /\ log'.inTurn => log'.turn > 0
        /\ log'.turn > 0 => log'.step <= StepLimit[log'.turn]
    BY <1>2 DEF EngineInv, LogKept
  <2> QED
    BY <1>2, <2>1, <2>2, <2>3, <2>4 DEF LogKept
<1>9. RunKept'
  <2>1. OpenInteractions \subseteq OpenInteractions'
    BY <1>2, <1>4, <1>6 DEF OpenInteractions
  <2> QED
    BY <1>2, <2>1 DEF EngineInv, RunKept
<1>10. RunTyped' /\ RunsKept' /\ GrammarKept'
  BY <1>2, <1>4 DEF EngineInv, TypeOK, RunTyped, RunsKept, RunsOnce, AllowedBeforeRun, GrammarKept
<1> QED
  BY <1>2, <1>3, <1>4, <1>5, <1>7, <1>8, <1>9, <1>10

LEMMA SettleKeeps ==
    ASSUME EngineInv, NEW c \in Questions, NEW how \in {"resolved", "cancelled"}, Settle(c, how)
    PROVE  EngineInv'
<1>1. /\ log' = [log EXCEPT !.question[c] = how] /\ known' = known \ {c}
      /\ UNCHANGED <<pc, local, batch, attached, ghost>> /\ log.question[c] = "pending"
  <2>1. ~log.bad
    BY DEF EngineInv, LogKept
  <2> QED
    BY <2>1, WriteSettled DEF Settle
<1>2. Made(log, c) /\ known' \subseteq Questions /\ how \in {"pending", "resolved", "cancelled"}
  BY <1>1 DEF EngineInv, LogKept, TypeOK
<1>3. /\ LogKept' /\ RunKept' /\ RunTyped' /\ RunsKept' /\ GrammarKept'
      /\ OutcomeUnknown(log') \subseteq OutcomeUnknown(log)
      /\ PendingApprovals(log') = PendingApprovals(log)
      /\ log'.at = log.at /\ log'.result = log.result /\ log'.approval = log.approval
      /\ log'.inStep = log.inStep /\ Here(log') = Here(log)
      /\ \A d \in Calls : log'.question[d] = IF d = c THEN how ELSE log.question[d]
  BY <1>1, <1>2, QuestionMoves
<1>4. BatchTyped' /\ BatchKept'
  BY <1>1, <1>3, Parts DEF EngineInv, BatchTyped, BatchKept, InBatch, Live
<1>5. ASSUME NEW d \in Calls PROVE CallKept(d)'
  BY <1>1, <1>3 DEF EngineInv, CallKept
<1> QED
  BY <1>3, <1>4, <1>5, Together

LEMMA AskUserKeeps ==
    ASSUME EngineInv, NEW c \in Calls, AskUser(c)
    PROVE  EngineInv'
<1> DEFINE l == IF log.question[c] = "none" THEN Write(log, Requested(c)) ELSE log
<1>1. /\ c \in Questions /\ Live /\ call[c] = "running"
      /\ log \in Logs(0..MaxTurns, Nat) /\ ~log.bad
      /\ UNCHANGED <<pc, local, heard, signals, open, subject, attached, ghost>>
  BY DEF AskUser, EngineInv, LogKept
<1>2. /\ log.at[c] = Here(log) /\ log.inStep /\ log.result[c] = "none"
      /\ c \notin heard /\ c \notin signals /\ c \notin open
  BY <1>1 DEF EngineInv, CallKept, Done
<1>3. CASE l.bad
  <2>1. log.question[c] = "none" /\ call' = [call EXCEPT ![c] = "error"] /\ UNCHANGED <<log, known>>
    BY <1>1, <1>3 DEF AskUser
  <2>2. Stage(c, {"running"}, "error") /\ {"running"} \in SUBSET Stages
    BY <1>1, <2>1 DEF Stage, Stages
  <2> QED
    BY <1>1, <2>1, <2>2, ErrorKeeps
<1>4. CASE ~l.bad
  <2>1. /\ log' = l /\ call' = [call EXCEPT ![c] = "waiting"]
        /\ known' = known \/ known' = known \cup {c}
    BY <1>4 DEF AskUser
  <2>2. PICK v \in {"pending", "resolved", "cancelled"} : log' = [log EXCEPT !.question[c] = v]
    <3>1. CASE log.question[c] = "none"
      BY <1>1, <1>4, <2>1, <3>1, WriteRequested
    <3>2. CASE log.question[c] # "none"
      <4>1. /\ log.question[c] \in {"pending", "resolved", "cancelled"}
            /\ log = [log EXCEPT !.question[c] = log.question[c]]
        BY <1>1, <3>2 DEF Logs
      <4> QED
        BY <2>1, <3>2, <4>1
    <3> QED
      BY <3>1, <3>2
  <2>3. Made(log, c)
    <3>1. log.inTurn /\ log.turn > 0 /\ log.turn \in 0..MaxTurns
      BY <1>2 DEF EngineInv, LogKept, Logs
    <3> QED
      BY <1>2, <3>1 DEF Made, Here, Nowhere
  <2>4. known' \subseteq Questions
    BY <1>1, <2>1 DEF EngineInv, TypeOK
  <2>5. /\ LogKept' /\ RunKept' /\ RunTyped' /\ RunsKept' /\ GrammarKept'
        /\ OutcomeUnknown(log') \subseteq OutcomeUnknown(log)
        /\ PendingApprovals(log') = PendingApprovals(log)
        /\ log'.at = log.at /\ log'.result = log.result /\ log'.approval = log.approval
        /\ log'.inStep = log.inStep /\ Here(log') = Here(log)
        /\ \A d \in Calls : log'.question[d] = IF d = c THEN v ELSE log.question[d]
    BY <1>1, <2>2, <2>3, <2>4, QuestionMoves
  <2>6. /\ call' \in [Calls -> Done \cup Stages \cup {"off"}]
        /\ call'[c] = "waiting" /\ \A d \in Calls : d # c => call'[d] = call[d]
    BY <2>1, Parts DEF EngineInv, BatchTyped, Stages, Done
  <2>7. InBatch' = InBatch
    BY <1>1, <2>6 DEF InBatch
  <2>8. BatchTyped' /\ BatchKept'
    BY <1>1, <2>5, <2>6, <2>7, Parts DEF EngineInv, BatchTyped, BatchKept, Live, Stages
  <2>9. ASSUME NEW d \in Calls PROVE CallKept(d)'
    <3>1. CASE d = c
      BY <1>1, <1>2, <2>5, <2>6, <3>1 DEF CallKept, Done
    <3>2. CASE d # c
      BY <1>1, <2>5, <2>6, <3>2 DEF EngineInv, CallKept
    <3> QED
      BY <3>1, <3>2
  <2> QED
    BY <2>5, <2>8, <2>9, Together
<1> QED
  BY <1>3, <1>4

LEMMA CancelKeeps ==
    ASSUME EngineInv, Cancel PROVE EngineInv'
<1>1. /\ cancelled' = TRUE
      /\ UNCHANGED <<log, pc, fresh, turn, step, then, tried, buffer, batch, host, ghost>>
  BY DEF Cancel
<1>2. LogKept' /\ RunsKept' /\ GrammarKept'
  BY <1>1, LogRests
<1>3. RunKept' /\ RunTyped'
  <2>1. OpenInteractions' = OpenInteractions
    BY <1>1 DEF OpenInteractions
  <2> QED
    BY <1>1, <2>1 DEF EngineInv, RunKept, RunTyped, TypeOK
<1>4. BatchTyped' /\ BatchKept'
  BY <1>1, Parts DEF EngineInv, BatchTyped, BatchKept, InBatch, Live
<1>5. ASSUME NEW d \in Calls PROVE CallKept(d)'
  BY <1>1 DEF EngineInv, CallKept, Here
<1> QED
  BY <1>2, <1>3, <1>4, <1>5, Together

--------------------------------------------------------------------------------
(* The engine's side of the batch *)

\* What is known of a batch as long as it runs.
LEMMA LiveFacts ==
    ASSUME EngineInv, Live
    PROVE  /\ log \in Logs(0..MaxTurns, Nat) /\ ~log.bad /\ log.inTurn /\ log.inStep
           /\ log.turn > 0 /\ BatchTyped /\ InBatch \subseteq Calls
           /\ OutcomeUnknown(log) \subseteq InBatch
           /\ Here(log) # Nowhere
           /\ \A c \in InBatch : Made(log, c) /\ log.at[c] = Here(log) /\ log.result[c] = "none"
<1>1. /\ log \in Logs(0..MaxTurns, Nat) /\ ~log.bad /\ log.inTurn /\ log.inStep /\ log.turn > 0
      /\ log.turn \in 0..MaxTurns
  BY RunFacts DEF Live, EngineInv, RunKept
<1>2. Here(log) # Nowhere
  BY <1>1 DEF Here, Nowhere
<1>3. InBatch \subseteq Calls /\ \A c \in InBatch : log.at[c] = Here(log) /\ log.result[c] = "none"
  BY DEF InBatch, EngineInv, CallKept
<1>4. OutcomeUnknown(log) \subseteq InBatch /\ BatchTyped
  BY Parts DEF EngineInv, BatchKept, Live
<1> QED
  BY <1>1, <1>2, <1>3, <1>4 DEF Made

SameButApprovals(l, m) ==
    /\ m \in Logs(0..MaxTurns, Nat)
    /\ m.turn = l.turn /\ m.inTurn = l.inTurn /\ m.step = l.step /\ m.inStep = l.inStep
    /\ m.requested = l.requested /\ m.said = l.said /\ m.compacting = l.compacting
    /\ m.at = l.at /\ m.result = l.result /\ m.question = l.question /\ m.bad = l.bad

LEMMA DecidedChanges ==
    ASSUME NEW l \in Logs(0..MaxTurns, Nat), NEW S,
           NEW o \in {"asked", "allowed", "rejected", "cancelled"},
           ~l.bad, l.inTurn, \A d \in S : l.approval[d] = "asked",
           NEW m, m = Write(l, Decided(S, o))
    PROVE  /\ SameButApprovals(l, m)
           /\ \A d \in Calls : m.approval[d] = IF d \in S THEN o ELSE l.approval[d]
<1> DEFINE new == [d \in Calls |-> IF d \in S THEN o ELSE l.approval[d]]
<1>1. /\ new \in [Calls -> {"none", "asked", "allowed", "rejected", "cancelled"}]
      /\ \A d \in Calls : new[d] = IF d \in S THEN o ELSE l.approval[d]
  BY DEF Logs
<1>2. m = [l EXCEPT !.approval = new]
  <2>1. Write(l, Decided(S, o)) = [l EXCEPT !.approval = [d \in Calls |-> IF d \in S THEN o ELSE @[d]]]
    BY WriteDecided
  <2> QED
    BY <2>1, Zenon
<1> HIDE DEF new
<1>3. m \in Logs(0..MaxTurns, Nat) /\ m.approval = new
  BY <1>1, <1>2 DEF Logs
<1>4. SameButApprovals(l, m)
  BY <1>1, <1>2, <1>3 DEF Logs, SameButApprovals
<1> QED
  BY <1>1, <1>3, <1>4

\* Approvals asked for, or decided, of calls S of the batch that never ran.
LEMMA ApprovalMoves ==
    ASSUME EngineInv, Live, Live', NEW S \in SUBSET InBatch,
           NEW o \in {"asked", "allowed", "rejected", "cancelled"},
           SameButApprovals(log, log'),
           \A d \in Calls : log'.approval[d] = IF d \in S THEN o ELSE log.approval[d],
           \A d \in S : d \notin Questions /\ runs[d] = 0,
           UNCHANGED <<fresh, turn, step, then, tried, cancelled, host, runs, crashes, refused>>,
           buffer' = IF buffer = "held" THEN "written" ELSE buffer
    PROVE  /\ LogKept' /\ RunKept' /\ RunTyped' /\ RunsKept' /\ GrammarKept'
           /\ OutcomeUnknown(log') \subseteq InBatch
           /\ log'.at = log.at /\ log'.result = log.result /\ log'.question = log.question
           /\ log'.inStep = log.inStep /\ Here(log') = Here(log)
           /\ \A d \in Calls : log'.approval[d] = IF d \in S THEN o ELSE log.approval[d]
<1>1. log \in Logs(0..MaxTurns, Nat) /\ S \subseteq Calls /\ \A d \in S : Made(log, d)
  BY LiveFacts
<1>2. \A d \in Calls : log'.approval[d] = IF d \in S THEN o ELSE log.approval[d]
  OBVIOUS
<1>4. /\ log' \in Logs(0..MaxTurns, Nat)
      /\ log'.turn = log.turn /\ log'.inTurn = log.inTurn
      /\ log'.step = log.step /\ log'.inStep = log.inStep
      /\ log'.requested = log.requested /\ log'.said = log.said
      /\ log'.compacting = log.compacting /\ log'.bad = log.bad
      /\ log'.at = log.at /\ log'.result = log.result /\ log'.question = log.question
  BY DEF SameButApprovals
<1>5. Here(log') = Here(log) /\ \A d \in Calls : Made(log', d) <=> Made(log, d)
  BY <1>4 DEF Here, Made
<1>6. OutcomeUnknown(log') \subseteq OutcomeUnknown(log) \cup S
  BY <1>2, <1>4, <1>5 DEF OutcomeUnknown, Incomplete, Interactions, PendingApprovals,
                          RecoverableQuestions
<1>7. OutcomeUnknown(log') \subseteq InBatch
  BY <1>6, LiveFacts
<1>8. LogKept'
  <2>1. ASSUME NEW d \in Calls
        PROVE  /\ log'.result[d] # "none" \/ log'.approval[d] # "none" \/ log'.question[d] # "none"
                     => Made(log', d)
               /\ log'.approval[d] # "none" => d \notin Questions
               /\ log'.question[d] # "none" => d \in Questions
    BY <1>1, <1>2, <1>4, <1>5 DEF EngineInv, LogKept
  <2>2. \A d \in Calls : log'.inStep /\ d \in OutcomeUnknown(log') => log'.at[d] = Here(log')
    BY <1>4, <1>5, <1>7, LiveFacts
  <2>3. /\ ~log'.bad
        /\ log'.inStep => log'.inTurn
        /\ log'.inTurn => log'.turn > 0
        /\ log'.turn > 0 => log'.step <= StepLimit[log'.turn]
    BY <1>4 DEF EngineInv, LogKept
  <2> QED
    BY <1>4, <2>1, <2>2, <2>3 DEF LogKept
<1>9. RunsKept'
  <2>1. AllowedBeforeRun'
    BY <1>2, <1>4 DEF EngineInv, RunsKept, AllowedBeforeRun
  <2> QED
    BY <1>5, <2>1 DEF EngineInv, RunsKept, RunsOnce
<1>10. RunKept'
  <2>1. pc \in {"batch", "decide", "drain"} /\ pc' \in {"batch", "decide", "drain"}
    BY DEF Live
  <2> QED
    BY <1>4, <2>1 DEF EngineInv, RunKept
<1>11. RunTyped' /\ GrammarKept'
  BY DEF EngineInv, RunTyped, TypeOK, GrammarKept, Live
<1> QED
  BY <1>2, <1>4, <1>5, <1>7, <1>8, <1>9, <1>10, <1>11

LEMMA HearApprovalKeeps ==
    ASSUME EngineInv, NEW c \in Calls, HearApproval(c) PROVE EngineInv'
<1> DEFINE l == IF AskedBefore(c) THEN log ELSE Write(log, Asked(c))
<1>1. /\ pc = "batch" /\ Live /\ c \in signals
      /\ JournalAppend(l, "batch")
      /\ signals' = signals \ {c} /\ open' = open \cup {c}
      /\ call' = [call EXCEPT ![c] = IF @ = "asking" THEN "awaiting" ELSE @]
      /\ UNCHANGED <<fresh, turn, step, then, tried, cancelled, heard, subject, host, runs, crashes>>
  BY DEF HearApproval, InLoop, Live
<1>2. /\ log \in Logs(0..MaxTurns, Nat) /\ ~log.bad /\ log.inTurn /\ BatchTyped
      /\ c \in InBatch /\ Made(log, c) /\ log.result[c] = "none"
  BY <1>1, LiveFacts DEF BatchTyped
<1>3. /\ call[c] \in {"asking", "error"} /\ c \notin open /\ log.approval[c] \in {"none", "asked"}
      /\ c \notin Questions /\ runs[c] = 0
  BY <1>1 DEF EngineInv, CallKept
<1>4. /\ SameButApprovals(log, l) /\ ~l.bad
      /\ \A d \in Calls : l.approval[d] = IF d \in {c} THEN "asked" ELSE log.approval[d]
  <2>1. CASE AskedBefore(c)
    BY <1>2, <2>1 DEF AskedBefore, SameButApprovals
  <2>2. CASE ~AskedBefore(c)
    <3>1. l = [log EXCEPT !.approval[c] = "asked"]
      BY <1>2, <1>3, <2>2, WriteAsked DEF AskedBefore
    <3> HIDE DEF l
    <3>2. \A d \in Calls : l.approval[d] = IF d \in {c} THEN "asked" ELSE log.approval[d]
      BY <1>2, <3>1 DEF Logs
    <3>3. SameButApprovals(log, l)
      BY <1>2, <3>1 DEF Logs, SameButApprovals
    <3> QED
      BY <1>2, <3>2, <3>3 DEF SameButApprovals
  <2> QED
    BY <2>1, <2>2
<1>5. /\ log' = l /\ pc' = "batch" /\ UNCHANGED refused
      /\ buffer' = IF buffer = "held" THEN "written" ELSE buffer
  BY <1>1, <1>4 DEF JournalAppend, Accepted
<1>6. /\ SameButApprovals(log, log') /\ Live'
      /\ \A d \in Calls : log'.approval[d] = IF d \in {c} THEN "asked" ELSE log.approval[d]
  BY <1>4, <1>5 DEF Live
<1> HIDE DEF l
<1>7. /\ LogKept' /\ RunKept' /\ RunTyped' /\ RunsKept' /\ GrammarKept'
      /\ OutcomeUnknown(log') \subseteq InBatch
      /\ log'.at = log.at /\ log'.result = log.result /\ log'.question = log.question
      /\ log'.inStep = log.inStep /\ Here(log') = Here(log)
      /\ \A d \in Calls : log'.approval[d] = IF d \in {c} THEN "asked" ELSE log.approval[d]
  <2>1. {c} \in SUBSET InBatch /\ \A d \in {c} : d \notin Questions /\ runs[d] = 0
    BY <1>2, <1>3
  <2> QED
    BY <1>1, <1>5, <1>6, <2>1, ApprovalMoves
<1>8. /\ call' \in [Calls -> Done \cup Stages \cup {"off"}]
      /\ call'[c] \in {"awaiting", "error"} /\ \A d \in Calls : d # c => call'[d] = call[d]
  BY <1>1, <1>2, <1>3 DEF BatchTyped, Stages, Done
<1>9. InBatch' = InBatch
  BY <1>3, <1>8 DEF InBatch
<1>10. BatchTyped' /\ BatchKept'
  <2>1. open' \subseteq PendingApprovals(log')
    BY <1>1, <1>2, <1>7 DEF BatchTyped, PendingApprovals, Incomplete, Made, InBatch
  <2> QED
    BY <1>1, <1>2, <1>5, <1>7, <1>8, <1>9, <2>1 DEF BatchTyped, BatchKept, Live, Stages
<1>11. ASSUME NEW d \in Calls PROVE CallKept(d)'
  <2>1. CASE d = c
    <3>1. c \notin signals' /\ (c \in heard' => call'[c] = "error")
      BY <1>1, <1>3 DEF EngineInv, CallKept, Done
    <3>2. log'.at[c] = Here(log') /\ log'.inStep /\ log'.result[c] = "none"
      BY <1>1, <1>2, <1>7, LiveFacts
    <3>3. runs'[c] = 0 /\ call'[c] \in {"awaiting", "error"} /\ c \notin Questions
      BY <1>1, <1>3, <1>8
    <3> QED
      BY <2>1, <3>1, <3>2, <3>3 DEF CallKept, Done
  <2>2. CASE d # c
    <3>1. /\ d \in signals' <=> d \in signals
          /\ d \in open' <=> d \in open
          /\ call'[d] = call[d] /\ log'.approval[d] = log.approval[d]
      BY <1>1, <1>7, <1>8, <2>2
    <3>2. CallKept(d) /\ log.inStep
      BY <1>1, LiveFacts DEF EngineInv
    <3>3. UNCHANGED <<heard, runs, cancelled>>
      BY <1>1
    <3> QED
      BY <1>7, <3>1, <3>2, <3>3 DEF CallKept
  <2> QED
    BY <2>1, <2>2
<1> QED
  BY <1>7, <1>10, <1>11, Together

\* A decision, of the user or by a cancel, of approvals the engine waits for.
LEMMA DecisionKeeps ==
    ASSUME EngineInv, pc = "batch", NEW S \in SUBSET open, NEW o \in {"allowed", "rejected", "cancelled"},
           NEW l, l = (IF S = {} THEN log ELSE Write(log, Decided(S, o))), NEW next \in {"decide", "drain"},
           JournalAppend(l, next), open' = open \ S, subject' \subseteq InBatch,
           UNCHANGED <<fresh, turn, step, then, tried, cancelled, call, heard, signals, host, runs,
                       crashes>>
    PROVE  EngineInv'
<1>1. /\ log \in Logs(0..MaxTurns, Nat) /\ ~log.bad /\ log.inTurn /\ BatchTyped /\ Live
      /\ InBatch \subseteq Calls
  BY LiveFacts DEF Live
<1>2. /\ S \subseteq InBatch
      /\ \A d \in S : /\ log.approval[d] = "asked" /\ d \notin Questions /\ runs[d] = 0
                      /\ d \notin signals /\ call[d] \in {"awaiting"} \cup Done
  <2>1. ASSUME NEW d \in S
        PROVE  /\ d \in InBatch /\ log.approval[d] = "asked" /\ d \notin Questions /\ runs[d] = 0
               /\ d \notin signals /\ call[d] \in {"awaiting"} \cup Done
    <3>1. d \in Calls /\ log.approval[d] = "asked" /\ d \in open
      BY <1>1 DEF BatchTyped, PendingApprovals, Incomplete
    <3>2. d \notin Questions /\ d \notin signals /\ call[d] \in {"awaiting"} \cup Done
      BY <3>1 DEF EngineInv, LogKept, CallKept
    <3>3. ~(runs[d] > 0) /\ runs[d] \in 0..2
      BY <3>1 DEF EngineInv, RunsKept, AllowedBeforeRun, TypeOK
    <3> QED
      BY <3>1, <3>2, <3>3 DEF InBatch, Done
  <2> QED
    BY <2>1
<1>3. /\ SameButApprovals(log, l) /\ ~l.bad
      /\ \A d \in Calls : l.approval[d] = IF d \in S THEN o ELSE log.approval[d]
  <2>1. CASE S = {}
    BY <1>1, <2>1 DEF SameButApprovals
  <2>2. CASE S # {}
    <3>1. l = Write(log, Decided(S, o)) /\ o \in {"asked", "allowed", "rejected", "cancelled"}
      BY <2>2
    <3>2. \A d \in S : log.approval[d] = "asked"
      BY <1>2
    <3>3. /\ SameButApprovals(log, l)
          /\ \A d \in Calls : l.approval[d] = IF d \in S THEN o ELSE log.approval[d]
      BY <1>1, <3>1, <3>2, DecidedChanges
    <3> QED
      BY <1>1, <3>3 DEF SameButApprovals
  <2> QED
    BY <2>1, <2>2
<1>4. /\ log' = l /\ pc' = next /\ UNCHANGED refused
      /\ buffer' = IF buffer = "held" THEN "written" ELSE buffer
  BY <1>3 DEF JournalAppend, Accepted
<1>5. /\ SameButApprovals(log, log') /\ Live'
      /\ \A d \in Calls : log'.approval[d] = IF d \in S THEN o ELSE log.approval[d]
  BY <1>3, <1>4 DEF Live
<1>6. /\ LogKept' /\ RunKept' /\ RunTyped' /\ RunsKept' /\ GrammarKept'
      /\ OutcomeUnknown(log') \subseteq InBatch
      /\ log'.at = log.at /\ log'.result = log.result /\ log'.question = log.question
      /\ log'.inStep = log.inStep /\ Here(log') = Here(log)
      /\ \A d \in Calls : log'.approval[d] = IF d \in S THEN o ELSE log.approval[d]
  <2>1. /\ S \in SUBSET InBatch /\ o \in {"asked", "allowed", "rejected", "cancelled"}
        /\ \A d \in S : d \notin Questions /\ runs[d] = 0
        /\ Live /\ Live'
    BY <1>1, <1>2, <1>5
  <2>2. UNCHANGED <<fresh, turn, step, then, tried, cancelled, host, runs, crashes, refused>>
    BY <1>4
  <2> QED
    BY <1>4, <1>5, <2>1, <2>2, ApprovalMoves
<1>7. InBatch' = InBatch
  BY DEF InBatch
<1>8. BatchTyped' /\ BatchKept'
  <2>1. open' \subseteq PendingApprovals(log')
    BY <1>1, <1>6 DEF BatchTyped, PendingApprovals, Incomplete, Made
  <2> QED
    BY <1>1, <1>4, <1>6, <1>7, <2>1 DEF BatchTyped, BatchKept, Live
<1>9. ASSUME NEW d \in Calls PROVE CallKept(d)'
  <2>1. CASE d \in S
    BY <1>2, <1>6, <2>1 DEF EngineInv, CallKept, Done
  <2>2. CASE d \notin S
    <3>1. log'.approval[d] = log.approval[d] /\ (d \in open' <=> d \in open)
      BY <1>6, <2>2
    <3> QED
      BY <1>6, <3>1 DEF EngineInv, CallKept
  <2> QED
    BY <2>1, <2>2
<1> QED
  BY <1>6, <1>8, <1>9, Together

LEMMA DecideKeeps ==
    ASSUME EngineInv, NEW c \in Calls, NEW o \in {"allowed", "rejected"}, Decide(c, o)
    PROVE  EngineInv'
<1>1. /\ pc = "batch" /\ c \in open /\ JournalAppend(Write(log, Decided({c}, o)), "decide")
      /\ open' = open \ {c} /\ subject' = {c}
      /\ UNCHANGED <<fresh, turn, step, then, tried, cancelled, call, heard, signals, host, runs,
                     crashes>>
  BY DEF Decide, InLoop
<1>2. {c} \in SUBSET open /\ {c} # {} /\ o \in {"allowed", "rejected", "cancelled"}
  BY <1>1
<1>3. subject' \subseteq InBatch
  BY <1>1 DEF EngineInv, CallKept, InBatch, Done
<1> DEFINE S == {c}
           l == IF S = {} THEN log ELSE Write(log, Decided(S, o))
<1>4. JournalAppend(l, "decide") /\ open' = open \ S
  BY <1>1, <1>2
<1>5. l = (IF S = {} THEN log ELSE Write(log, Decided(S, o))) /\ S \in SUBSET open
  BY <1>2
<1> HIDE DEF S, l
<1> QED
  BY <1>1, <1>2, <1>3, <1>4, <1>5, DecisionKeeps

LEMMA CancelBatchKeeps ==
    ASSUME EngineInv, CancelBatch PROVE EngineInv'
<1> DEFINE l == IF open = {} THEN log ELSE Write(log, Decided(open, "cancelled"))
<1>1. /\ pc = "batch" /\ JournalAppend(l, "drain") /\ open' = open \ open
      /\ UNCHANGED <<fresh, turn, step, then, tried, cancelled, call, heard, signals, subject, host,
                     runs, crashes>>
  BY DEF CancelBatch
<1>2. subject' \subseteq InBatch /\ open \in SUBSET open
  BY <1>1, Parts DEF EngineInv, BatchTyped
<1>3. l = (IF open = {} THEN log ELSE Write(log, Decided(open, "cancelled")))
  OBVIOUS
<1> HIDE DEF l
<1> QED
  BY <1>1, <1>2, <1>3, DecisionKeeps

\* The batch is abandoned; its calls stay as they are in the log.
LEMMA AbandonKeeps ==
    ASSUME EngineInv, Drained \/ \E c \in Calls : ReleaseFails(c) PROVE EngineInv'
<1>1. Live /\ NoBatch /\ pc' = "finish" /\ UNCHANGED <<log, local, host, ghost>>
  BY DEF Drained, ReleaseFails, Live
<1>2. LogKept' /\ RunsKept' /\ GrammarKept'
  BY <1>1, LogRests
<1>3. RunKept' /\ RunTyped'
  BY <1>1 DEF EngineInv, RunKept, RunTyped, TypeOK, Live
<1>4. BatchTyped' /\ BatchKept' /\ \A d \in Calls : CallKept(d)'
  BY <1>1, NoBatchAfter DEF NoBatch
<1> QED
  BY <1>2, <1>3, <1>4, Together

LEMMA HearKeeps ==
    ASSUME EngineInv, NEW c \in Calls, Hear(c) PROVE EngineInv'
<1>1. /\ pc = "batch" /\ ~cancelled /\ Live /\ call[c] \in Done /\ heard' = heard \cup {c}
      /\ UNCHANGED <<log, pc, local, call, signals, open, subject, host, ghost>>
  BY DEF Hear, InLoop, Live
<1>2. LogKept' /\ RunsKept' /\ GrammarKept'
  BY <1>1, LogRests
<1>3. RunKept' /\ RunTyped'
  BY <1>1 DEF EngineInv, RunKept, RunTyped, TypeOK
<1>4. BatchTyped' /\ BatchKept'
  <2>1. InBatch' = InBatch /\ c \in InBatch
    BY <1>1 DEF InBatch, Done
  <2> QED
    BY <1>1, <2>1, Parts DEF EngineInv, BatchTyped, BatchKept, Live
<1>5. ASSUME NEW d \in Calls PROVE CallKept(d)'
  <2>1. CallKept(d)
    BY DEF EngineInv
  <2>2. d \in heard' => call[d] \in Done
    BY <1>1, <2>1 DEF CallKept
  <2>3. d \in Questions /\ call[d] \in Done => log.question[d] # "pending"
    BY <1>1, <2>1 DEF CallKept
  <2> QED
    BY <1>1, <2>1, <2>2, <2>3 DEF CallKept, Here
<1> QED
  BY <1>2, <1>3, <1>4, <1>5, Together

LEMMA ReleaseKeeps ==
    ASSUME EngineInv, NEW c \in Calls, Release(c) PROVE EngineInv'
<1>1. /\ pc = "decide" /\ Live /\ call[c] = "awaiting" /\ subject' = {} /\ pc' = "batch" /\ Live'
      /\ call' = [call EXCEPT ![c] = IF log.approval[c] = "allowed" THEN "released" ELSE "error"]
      /\ UNCHANGED <<log, local, heard, signals, open, host, ghost>>
  BY DEF Release, Live
<1>2. LogKept' /\ RunsKept' /\ GrammarKept'
  BY <1>1, LogRests
<1>3. RunKept' /\ RunTyped'
  BY <1>1 DEF EngineInv, RunKept, RunTyped, TypeOK
<1>4. /\ call' \in [Calls -> Done \cup Stages \cup {"off"}]
      /\ call'[c] = (IF log.approval[c] = "allowed" THEN "released" ELSE "error")
      /\ \A d \in Calls : d # c => call'[d] = call[d]
  BY <1>1, LiveFacts DEF BatchTyped, Stages, Done
<1>5. InBatch' = InBatch
  BY <1>1, <1>4 DEF InBatch
<1>6. BatchTyped' /\ BatchKept'
  <2>1. PendingApprovals(log') = PendingApprovals(log) /\ OutcomeUnknown(log') = OutcomeUnknown(log)
    BY <1>1
  <2> QED
    BY <1>1, <1>4, <1>5, <2>1, LiveFacts DEF BatchTyped, BatchKept, Stages
<1>7. ASSUME NEW d \in Calls PROVE CallKept(d)'
  <2>1. CASE d = c
    <3>1. /\ c \notin Questions /\ c \notin signals /\ c \notin heard /\ runs[c] = 0
          /\ log.at[c] = Here(log) /\ log.inStep /\ log.result[c] = "none"
      BY <1>1 DEF EngineInv, CallKept, Done
    <3>2. c \in open => log.approval[c] = "asked"
      BY <1>1, LiveFacts DEF BatchTyped, PendingApprovals
    <3>3. c \notin signals' /\ c \notin heard' /\ runs'[c] = 0 /\ (c \in open' => call'[c] = "error")
      BY <1>1, <1>4, <3>1, <3>2
    <3>4. log'.at[c] = Here(log') /\ log'.inStep /\ log'.result[c] = "none"
      BY <1>1, <3>1 DEF Here
    <3>5. call'[c] \in {"released", "error"}
          /\ (call'[c] = "released" => log'.approval[c] = "allowed")
      BY <1>1, <1>4
    <3> QED
      BY <2>1, <3>1, <3>3, <3>4, <3>5 DEF CallKept, Done
  <2>2. CASE d # c
    BY <1>1, <1>4, <2>2 DEF EngineInv, CallKept, Here
  <2> QED
    BY <2>1, <2>2
<1> QED
  BY <1>2, <1>3, <1>6, <1>7, Together

\* All completions are in, and the results of all calls fit.
LEMMA FinishBatchKeeps ==
    ASSUME EngineInv, FinishBatch PROVE EngineInv'
<1> DEFINE r == [c \in InBatch |-> call[c]]
           l == Write(log, Results(r))
<1>1. /\ pc = "batch" /\ Live /\ heard = InBatch /\ JournalAppend(l, "close") /\ NoBatch
      /\ UNCHANGED <<fresh, turn, step, then, tried, cancelled, host, runs, crashes>>
  BY DEF FinishBatch, Live
<1>2. /\ log \in Logs(0..MaxTurns, Nat) /\ ~log.bad /\ log.inTurn /\ log.inStep
      /\ log.turn > 0 /\ InBatch \subseteq Calls /\ OutcomeUnknown(log) \subseteq InBatch
      /\ \A c \in InBatch : Made(log, c) /\ log.at[c] = Here(log) /\ log.result[c] = "none"
  BY <1>1, LiveFacts
<1>3. \A c \in InBatch : /\ call[c] \in Done
                         /\ c \in Questions => log.question[c] # "pending"
                         /\ c \in Questions /\ call[c] = "ok" => log.question[c] # "none"
  BY <1>1, <1>2 DEF EngineInv, CallKept
<1>4. \A c \in DOMAIN r : ResultFits(log, c, r[c])
  BY <1>2, <1>3 DEF ResultFits
<1> DEFINE result == [c \in Calls |-> IF c \in InBatch THEN call[c] ELSE log.result[c]]
<1>5. l = [log EXCEPT !.result = result]
  <2>1. l = [log EXCEPT !.result = [c \in Calls |-> IF c \in DOMAIN r THEN r[c] ELSE @[c]]]
    BY <1>2, <1>4, WriteResults
  <2>2. [c \in Calls |-> IF c \in DOMAIN r THEN r[c] ELSE log.result[c]] = result
    OBVIOUS
  <2> HIDE DEF result, r, l
  <2> QED
    BY <2>1, <2>2, Zenon
<1>6. /\ result \in [Calls -> {"none", "ok", "error", "unknown"}]
      /\ \A c \in Calls : result[c] = IF c \in InBatch THEN call[c] ELSE log.result[c]
  BY <1>2, <1>3 DEF Logs, Done
<1> HIDE DEF result, r, l
<1>7. /\ l \in Logs(0..MaxTurns, Nat) /\ l.result = result
      /\ l.turn = log.turn /\ l.inTurn = log.inTurn /\ l.step = log.step /\ l.inStep = log.inStep
      /\ l.said = log.said /\ l.bad = log.bad /\ l.at = log.at
      /\ l.approval = log.approval /\ l.question = log.question
  BY <1>2, <1>5, <1>6 DEF Logs
<1>8. /\ log' = l /\ pc' = "close" /\ UNCHANGED refused
      /\ buffer' = IF buffer = "held" THEN "written" ELSE buffer
  BY <1>1, <1>2, <1>7 DEF JournalAppend, Accepted
<1>9. Here(log') = Here(log) /\ \A c \in Calls : Made(log', c) <=> Made(log, c)
  BY <1>7, <1>8 DEF Here, Made
<1>10. OutcomeUnknown(log') = {}
  <2>1. Incomplete(log') \subseteq Incomplete(log) \ InBatch
    BY <1>2, <1>3, <1>6, <1>7, <1>8, <1>9 DEF Incomplete, Done
  <2>2. OutcomeUnknown(log') \subseteq OutcomeUnknown(log) \ InBatch
    BY <1>7, <1>8, <2>1 DEF OutcomeUnknown, Interactions, PendingApprovals, RecoverableQuestions
  <2> QED
    BY <1>2, <2>2
<1>11. LogKept'
  <2>1. ASSUME NEW d \in Calls
        PROVE  /\ log'.result[d] # "none" \/ log'.approval[d] # "none" \/ log'.question[d] # "none"
                     => Made(log', d)
               /\ log'.approval[d] # "none" => d \notin Questions
               /\ log'.question[d] # "none" => d \in Questions
    BY <1>2, <1>6, <1>7, <1>8, <1>9 DEF EngineInv, LogKept
  <2>2. \A d \in Calls : log'.inStep /\ d \in OutcomeUnknown(log') => log'.at[d] = Here(log')
    BY <1>10
  <2>3. /\ ~log'.bad
        /\ log'.inStep => log'.inTurn
        /\ log'.inTurn => log'.turn > 0
        /\ log'.turn > 0 => log'.step <= StepLimit[log'.turn]
    BY <1>7, <1>8 DEF EngineInv, LogKept
  <2> QED
    BY <1>7, <1>8, <2>1, <2>2, <2>3 DEF LogKept
<1>12. RunsKept' /\ GrammarKept'
  BY <1>1, <1>7, <1>8, <1>9 DEF EngineInv, RunsKept, RunsOnce, AllowedBeforeRun, GrammarKept
<1>13. RunKept' /\ RunTyped'
  BY <1>1, <1>2, <1>7, <1>8 DEF EngineInv, RunKept, RunTyped, TypeOK
<1>14. BatchTyped' /\ BatchKept' /\ \A d \in Calls : CallKept(d)'
  BY <1>1, <1>8, <1>10, NoBatchAfter DEF NoBatch
<1> QED
  BY <1>11, <1>12, <1>13, <1>14, Together

--------------------------------------------------------------------------------
(* The invariant *)

LEMMA InitHolds == Init => EngineInv
<1> SUFFICES ASSUME Init PROVE EngineInv
  OBVIOUS
<1>1. /\ log = EmptyLog /\ pc = "off" /\ call = [c \in Calls |-> "off"]
      /\ heard = {} /\ signals = {} /\ open = {} /\ subject = {} /\ runs = [c \in Calls |-> 0]
      /\ fresh = FALSE /\ turn = 0 /\ step = 0 /\ then = "step" /\ tried = FALSE
      /\ buffer = "none" /\ cancelled = FALSE /\ attached = TRUE /\ known = {}
      /\ refused = {} /\ crashes = 0
  BY DEF Init
<1>2. log \in Logs(0..MaxTurns, Nat) /\ ~log.bad /\ ~log.inStep /\ ~log.inTurn /\ log.turn = 0
  BY <1>1 DEF EmptyLog, Logs, Coordinates, Nowhere
<1>3. \A c \in Calls : log.result[c] = "none" /\ log.approval[c] = "none" /\ log.question[c] = "none"
  BY <1>1 DEF EmptyLog
<1>4. LogKept
  BY <1>2, <1>3 DEF LogKept
<1>5. InBatch = {}
  BY <1>1 DEF InBatch
<1>6. TypeOK
  <2>1. /\ call \in [Calls -> Done \cup {"off", "queued", "asking", "awaiting", "released",
                                        "running", "waiting"}]
        /\ runs \in [Calls -> 0..2] /\ 0 \in 0..MaxTurns /\ crashes \in 0..MaxCrashes
    BY <1>1
  <2>2. step \in (IF turn = 0 THEN {0} ELSE 0..StepLimit[turn])
    BY <1>1
  <2> QED
    BY <1>1, <1>2, <1>5, <2>1, <2>2, Zenon DEF TypeOK
<1>7. RunKept /\ BatchKept /\ RunsKept /\ GrammarKept
  BY <1>1, <1>5 DEF RunKept, BatchKept, RunsKept, RunsOnce, AllowedBeforeRun, GrammarKept
<1>8. \A c \in Calls : CallKept(c)
  BY <1>1 DEF CallKept, Done
<1> QED
  BY <1>4, <1>6, <1>7, <1>8 DEF EngineInv

LEMMA StutterKeeps ==
    ASSUME EngineInv, UNCHANGED vars PROVE EngineInv'
<1>1. UNCHANGED <<log, pc, fresh, turn, step, then, tried, buffer, cancelled, call, heard, signals,
                  open, subject, attached, known, runs, refused, crashes>>
  BY DEF vars
<1>2. LogKept' /\ RunsKept' /\ GrammarKept'
  BY <1>1, LogRests
<1>3. RunKept' /\ RunTyped'
  <2>1. OpenInteractions' = OpenInteractions
    BY <1>1 DEF OpenInteractions
  <2> QED
    BY <1>1, <2>1 DEF EngineInv, RunKept, RunTyped, TypeOK
<1>4. BatchTyped' /\ BatchKept'
  BY <1>1, Parts DEF EngineInv, BatchTyped, BatchKept, InBatch, Live
<1>5. ASSUME NEW d \in Calls PROVE CallKept(d)'
  BY <1>1 DEF EngineInv, CallKept, Here
<1> QED
  BY <1>2, <1>3, <1>4, <1>5, Together

LEMMA StepKeeps == EngineInv /\ [Next]_vars => EngineInv'
<1> SUFFICES ASSUME EngineInv, [Next]_vars PROVE EngineInv'
  OBVIOUS
<1>1. CASE StartRun \/ HostResume \/ Crash
  BY <1>1, BeginsKeeps, CrashKeeps
<1>2. CASE EngineStep
  <2>1. CASE \E c \in Calls : HearApproval(c) \/ Release(c) \/ ReleaseFails(c) \/ Hear(c)
    BY <2>1, HearApprovalKeeps, ReleaseKeeps, AbandonKeeps, HearKeeps
  <2>2. CASE FinishBatch \/ CancelBatch \/ Drained
    BY <2>2, FinishBatchKeeps, CancelBatchKeeps, AbandonKeeps
  <2>3. CASE CloseStep \/ FinishStep \/ FinishTurn \/ ModelSays \/ ModelCalls
    BY <2>3, CloseStepKeeps, FinishStepKeeps, FinishTurnKeeps, ModelSaysKeeps, ModelCallsKeeps
  <2>4. CASE LeaveLoop \/ PrepareEnds \/ Stream \/ StopModel \/ ModelFails \/ ModelInterrupted
    BY <2>4, QuietKeeps
  <2>5. CASE InitJournal \/ NextStep \/ Compact \/ ModelOverflows \/ CompactionEnds
             \/ SendRequest \/ Checkpoint
    BY <2>5, InitJournalKeeps, NextStepKeeps, CompactKeeps, SendKeeps
  <2> QED
    BY <1>2, <2>1, <2>2, <2>3, <2>4, <2>5 DEF EngineStep
<1>3. CASE UserStep
  <2>1. CASE Cancel
    BY <2>1, CancelKeeps
  <2>2. CASE \E c \in Calls, o \in {"allowed", "rejected"} : Decide(c, o)
    BY <2>2, DecideKeeps
  <2>3. CASE \E c \in Questions, how \in {"resolved", "cancelled"} : Settle(c, how)
    BY <2>3, SettleKeeps
  <2> QED
    BY <1>3, <2>1, <2>2, <2>3 DEF UserStep
<1>4. ASSUME NEW c \in Calls, ToolStep(c) PROVE EngineInv'
  BY <1>4, FailsKeeps, GateKeeps, StartKeeps, EndKeeps, AskUserKeeps DEF ToolStep
<1>5. CASE UNCHANGED vars
  BY <1>5, StutterKeeps
<1> QED
  BY <1>1, <1>2, <1>3, <1>4, <1>5 DEF Next

\* The engine speaks the grammar of the log: the one append it is ever refused
\* is the end of a step over a question that waits (journal_append and
\* finalize_journal in core/src/engine.rs); and a tool that asked for approval
\* runs only once the decision is durable (handle_runtime_approval).
THEOREM JournalIsKept == Spec => []JournalKept
<1>1. EngineInv => JournalKept
  BY DEF EngineInv, JournalKept, RunsKept
<1> QED
  BY <1>1, InitHolds, StepKeeps, PTL DEF Spec

\* Over crashes, recoveries and cancels a plain handler is started once, and
\* the model is never asked to go on over a plain call without a result
\* (initialize_journal and the batch loop in core/src/engine.rs).
THEOREM CallsAreKept == Spec => []CallsKept
<1>1. EngineInv => CallsKept
  <2> SUFFICES ASSUME EngineInv PROVE CallsKept
    OBVIOUS
  <2>1. RunsOnce
    BY DEF EngineInv, RunsKept
  <2>2. pc = "model" => OutcomeUnknown(log) = {}
    BY AllAnswered DEF Live
  <2>3. UnansweredAreInteractions
    BY <2>2 DEF UnansweredAreInteractions, OutcomeUnknown
  <2> QED
    BY <2>1, <2>3 DEF CallsKept
<1> QED
  BY <1>1, InitHolds, StepKeeps, PTL DEF Spec

================================================================================
