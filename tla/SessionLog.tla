------------------------------ MODULE SessionLog ------------------------------
(* The grammar of one session's event log, as validate_log enforces it on   *)
(* every append, and the projections a recovery reads from it.  A log is    *)
(* represented by its fold: what validate_log knows after the last event.   *)
(* Inbox, goal, schedule and command events are other models' concern, and  *)
(* the text of messages is no part of the grammar.                          *)
EXTENDS Naturals

CONSTANTS Calls,            \* identities of tool calls
          Questions         \* those of ask_user_question
ASSUME QuestionsAreCalls == Questions \subseteq Calls

Nowhere == <<0, 0>>         \* the coordinates of a call not made yet

\* turn, step: the last numbers used; at: turn and step of each call;
\* bad: an event was refused, and with it the batch it came in.
EmptyLog ==
    [turn |-> 0, inTurn |-> FALSE, step |-> 0, inStep |-> FALSE,
     requested |-> FALSE, said |-> FALSE, compacting |-> FALSE,
     at       |-> [c \in Calls |-> Nowhere],
     result   |-> [c \in Calls |-> "none"],
     approval |-> [c \in Calls |-> "none"],
     question |-> [c \in Calls |-> "none"],
     bad |-> FALSE]

Coordinates(Turns, Steps) == Turns \X Steps

\* What a log may be, for turns and steps numbered within the given sets.
Logs(Turns, Steps) ==
    [turn : Turns, inTurn : BOOLEAN, step : Steps, inStep : BOOLEAN,
     requested : BOOLEAN, said : BOOLEAN, compacting : BOOLEAN,
     at       : [Calls -> Coordinates(Turns, Steps)],
     result   : [Calls -> {"none", "ok", "error", "unknown"}],
     approval : [Calls -> {"none", "asked", "allowed", "rejected", "cancelled"}],
     question : [Calls -> {"none", "pending", "resolved", "cancelled"}],
     bad : BOOLEAN]

--------------------------------------------------------------------------------
(* Events.  An assistant message comes with the tool/call events that mirror *)
(* it; results and decisions are sets of events about different calls.       *)

TurnStart(t)       == [type |-> "turn/start", turn |-> t]
TurnEnd(t)         == [type |-> "turn/end", turn |-> t]
StepStart(t, s)    == [type |-> "step/start", turn |-> t, step |-> s]
StepEnd(t, s)      == [type |-> "step/end", turn |-> t, step |-> s]
UserMessage        == [type |-> "user/message"]
RequestHeader      == [type |-> "request/header"]
Chunk(t, s)        == [type |-> "assistant/chunk", turn |-> t, step |-> s]
Assistant(t, s, S) == [type |-> "assistant/message", turn |-> t, step |-> s, calls |-> S]
Asked(c)           == [type |-> "approval/asked", call |-> c]
Decided(S, o)      == [type |-> "approval/decided", calls |-> S, outcome |-> o]
Requested(c)       == [type |-> "question/requested", call |-> c]
Settled(c, how)    == [type |-> "question/settled", call |-> c, how |-> how]
Results(r)         == [type |-> "tool/result", results |-> r]
CompactionStart    == [type |-> "compaction/start"]
CompactionApplied  == [type |-> "compaction/applied"]
CompactionFailed   == [type |-> "compaction/failed"]

--------------------------------------------------------------------------------
(* validate_log *)

Here(l) == <<l.turn, l.step>>
InOpenStep(l, e) == l.inStep /\ <<e.turn, e.step>> = Here(l)
Made(l, c) == l.at[c] # Nowhere

\* A question of the open step that nobody has settled.
QuestionWaits(l) ==
    \E c \in Questions : l.question[c] = "pending" /\ l.result[c] = "none"
                         /\ l.inStep /\ l.at[c] = Here(l)

\* An approval is known by its call: its id is made of the run, the step and
\* the call's place in the batch, and a recovered run keeps the old one.

\* The result of call c: once; an authoritative one inside the call's step; of
\* a question only after its settlement, and a success only if it was asked.
ResultFits(l, c, outcome) ==
    /\ Made(l, c) /\ l.result[c] = "none"
    /\ outcome # "unknown" => l.inStep /\ l.at[c] = Here(l)
    /\ c \in Questions => /\ l.question[c] # "pending"
                          /\ outcome = "ok" => l.question[c] # "none"

Allowed(l, e) ==
    /\ ~l.bad
    /\ \/ e.type = "turn/start" /\ ~l.inTurn /\ e.turn = l.turn + 1
       \/ e.type = "turn/end" /\ l.inTurn /\ ~l.inStep /\ e.turn = l.turn
       \/ /\ e.type = "step/start" /\ l.inTurn /\ ~l.inStep
          /\ e.turn = l.turn /\ e.step = l.step + 1
       \/ e.type = "step/end" /\ InOpenStep(l, e) /\ ~QuestionWaits(l)
       \/ e.type = "user/message" /\ l.inTurn /\ ~l.inStep
       \/ e.type = "request/header" /\ l.inStep /\ ~l.requested /\ ~l.said
       \/ e.type = "assistant/chunk" /\ InOpenStep(l, e) /\ ~l.said
       \/ /\ e.type = "assistant/message" /\ InOpenStep(l, e) /\ ~l.said
          /\ \A c \in e.calls : ~Made(l, c)
       \/ /\ e.type = "approval/asked" /\ l.inTurn
          /\ Made(l, e.call) /\ l.result[e.call] = "none"
          /\ l.approval[e.call] = "none"
       \/ /\ e.type = "approval/decided" /\ l.inTurn
          /\ \A c \in e.calls : l.approval[c] = "asked"
       \/ /\ e.type = "question/requested" /\ e.call \in Questions
          /\ l.inStep /\ l.at[e.call] = Here(l)
          /\ l.result[e.call] = "none" /\ l.question[e.call] = "none"
       \/ e.type = "question/settled" /\ l.question[e.call] \in {"pending", e.how}
       \/ /\ e.type = "tool/result"
          /\ \A c \in DOMAIN e.results : ResultFits(l, c, e.results[c])
       \/ e.type = "compaction/start" /\ l.inTurn
       \/ e.type = "compaction/applied" /\ l.inTurn /\ l.compacting
       \/ e.type = "compaction/failed" /\ l.compacting

\* The log after an event it accepts.
Effect(l, e) ==
    CASE e.type = "turn/start" -> [l EXCEPT !.turn = e.turn, !.inTurn = TRUE, !.step = 0]
      [] e.type = "turn/end"   -> [l EXCEPT !.inTurn = FALSE]
      [] e.type = "step/start" -> [l EXCEPT !.step = e.step, !.inStep = TRUE,
                                            !.requested = FALSE, !.said = FALSE]
      [] e.type = "step/end"   -> [l EXCEPT !.inStep = FALSE]
      [] e.type = "request/header" -> [l EXCEPT !.requested = TRUE]
      [] e.type = "assistant/message" ->
            [l EXCEPT !.said = TRUE,
                      !.at = [c \in Calls |-> IF c \in e.calls THEN Here(l) ELSE @[c]]]
      [] e.type = "approval/asked" -> [l EXCEPT !.approval[e.call] = "asked"]
      [] e.type = "approval/decided" ->
            [l EXCEPT !.approval = [c \in Calls |-> IF c \in e.calls
                                                    THEN e.outcome ELSE @[c]]]
      [] e.type = "question/requested" -> [l EXCEPT !.question[e.call] = "pending"]
      [] e.type = "question/settled" -> [l EXCEPT !.question[e.call] = e.how]
      [] e.type = "tool/result" ->
            [l EXCEPT !.result = [c \in Calls |-> IF c \in DOMAIN e.results
                                                  THEN e.results[c] ELSE @[c]]]
      [] e.type = "compaction/start" -> [l EXCEPT !.compacting = TRUE]
      [] e.type \in {"compaction/applied", "compaction/failed"} ->
            [l EXCEPT !.compacting = FALSE]
      [] e.type \in {"user/message", "assistant/chunk"} -> l

\* append_batch_at: one refused event refuses its whole batch.
Write(l, e) == IF Allowed(l, e) THEN Effect(l, e) ELSE [l EXCEPT !.bad = TRUE]

--------------------------------------------------------------------------------
(* recovery.rs *)

Incomplete(l) == {c \in Calls : Made(l, c) /\ l.result[c] = "none"}

PendingApprovals(l)     == {c \in Incomplete(l) : l.approval[c] = "asked"}
RecoverableQuestions(l) == {c \in Incomplete(l) : l.question[c] # "none"}
Interactions(l)         == PendingApprovals(l) \cup RecoverableQuestions(l)

\* The calls outcome_unknown_recovery balances: all but the interactions.
OutcomeUnknown(l) == Incomplete(l) \ Interactions(l)
================================================================================
