----------------------------- MODULE Compaction -----------------------------
(* The step loop of a turn around its model rounds (xharness-core, run_steps)*)
(* with the context it prepares (xharness-context), the admission of its     *)
(* tokens (xharness-token), and compaction (xharness-compaction): a prefix   *)
(* of the surface is summed up by the model and replaced in the log by a     *)
(* checkpoint.  A seq is the index of an event in the log; a message is its  *)
(* seq, its price and, once the context policy has shortened it, its lean    *)
(* price.  What a round is, is ModelRound's matter; here it has an outcome.  *)
EXTENDS Sequences, SequencesExt, FiniteSetsExt, Naturals

CONSTANTS Window, MinOut, Target, Margin,   \* TokenBudget
          ThresholdRatio, RetainRatio,      \* CompactionConfig, in percent
          Summaries,                        \* max_summary_attempts
          Recoveries,                       \* max_overflow_retries + 1
          Continuations, TurnOutput,        \* max_output_continuations, max_turn_output_tokens
          MaxSteps,                         \* config.max_steps
          ProviderIds,                      \* the call ids a provider uses
          MaxMessages, MaxUpsets            \* bounds on a log and on failures

ASSUME BudgetAssumption ==
    /\ {Window, MinOut, Target, Margin, Summaries, Recoveries, Continuations, TurnOutput,
        MaxSteps, MaxMessages, MaxUpsets} \subseteq Nat
    /\ 0 < MinOut /\ MinOut <= Target /\ MinOut + Margin < Window /\ 0 < Summaries
ASSUME RatioAssumption ==
    ThresholdRatio \in 1..100 /\ RetainRatio \in 0..100 /\ RetainRatio < ThresholdRatio

\* CompactionConfig::resolve
Scaled(ratio) == (Window * ratio) \div 100
Threshold == Scaled(ThresholdRatio)
Retain    == Scaled(RetainRatio)

VARIABLES
    history,    \* the session log's events that matter here
    messages,   \* the run's copy of the surface, as seqs
    ahead,      \* the log has events the run does not know of
    phase,      \* "idle", "prepare", "summing", "round", "tools"; "off"
    step,
    pressed,    \* pressure_attempted
    recoveries, \* overflow_recoveries
    trigger,    \* of the compaction under way: "pressure", "admission", "provider"
    covers,     \* its shadowed_seqs
    tries,
    continues,  \* pending_continuation is set
    continued,  \* output_continuations
    spent,      \* cumulative_output_tokens
    request,    \* the last request sent
    upsets

turnState == <<step, recoveries, continues, continued, spent>>
summing   == <<trigger, covers, tries>>
contextVars == <<history, messages, ahead, phase, pressed, turnState, summing, request, upsets>>

Upset == upsets > 0 /\ upsets' = upsets - 1

--------------------------------------------------------------------------------
(* The log and its surface *)

Event(k, price) == [k |-> k, price |-> price, lean |-> price, calls |-> <<>>,
                    of |-> <<>>, call |-> 0, id |-> "none"]
User(price)    == Event("user", price)
Say(price, ids) == [Event("say", price) EXCEPT !.calls = ids]
\* A result names the say, the call's place in it and the provider's id.
Result(say, n) == [Event("result", 2) EXCEPT !.lean = 1, !.of = <<say>>, !.call = n,
                                             !.id = history[say].calls[n]]
Checkpoint(seqs, price) == [Event("checkpoint", price) EXCEPT !.of = seqs]
Mark(k) == Event(k, 0)
IsMessage(e) == e.k \in {"user", "say", "result", "checkpoint"}

\* flush_tool_results: what a batch returned, in the order of its calls.
Flush(h, s) ==
    IF s.held = {} THEN s.shown
    ELSE s.shown \o SetToSortSeq(s.held, LAMBDA a, b : h[a].call < h[b].call)
\* replace_surface
ReplaceAllButLast(shown, seqs, i) ==    \* bug: the end of the range is exclusive
    LET p == CHOOSE p \in DOMAIN shown : shown[p] = seqs[1]
    IN  SubSeq(shown, 1, p - 1) \o <<i>> \o SubSeq(shown, p + Len(seqs) - 1, Len(shown))
Replace(shown, seqs, i) ==
    LET p == CHOOSE p \in DOMAIN shown : shown[p] = seqs[1]
    IN  SubSeq(shown, 1, p - 1) \o <<i>> \o SubSeq(shown, p + Len(seqs), Len(shown))
Shows(shown) == [shown |-> shown, held |-> {}]
\* derive_surface_messages
Surface(h) ==
    LET upto[i \in 0..Len(h)] ==
        IF i = 0 THEN Shows(<<>>)
        ELSE LET s == upto[i - 1] IN
             CASE h[i].k \in {"user", "say"} -> Shows(Append(Flush(h, s), i))
               [] h[i].k = "result"          -> [s EXCEPT !.held = @ \cup {i}]
               [] h[i].k = "checkpoint"      -> Shows(Replace(Flush(h, s), h[i].of, i))
               [] OTHER                      -> s
    IN  Flush(h, upto[Len(h)])

\* Every price is 1 or 2.
Dear(seqs, p(_)) == Len(SelectSeq(seqs, p))
Price(seqs) == Len(seqs) + Dear(seqs, LAMBDA i : history[i].price = 2)
Lean(seqs)  == Len(seqs) + Dear(seqs, LAMBDA i : history[i].lean = 2)

Messages == Cardinality({i \in DOMAIN history : IsMessage(history[i])})
Room     == Messages < MaxMessages
Log(h)  == history' = history \o h
\* journal_append of events the run then keeps in memory as well.
Record(es) ==
    /\ ~ahead /\ Log(es) /\ UNCHANGED ahead
    /\ messages' = messages \o [i \in DOMAIN es |-> Len(history) + i]
OpenCalls ==
    {<<i, n>> \in (DOMAIN history) \X (1..2) :
        /\ history[i].k = "say" /\ n \in DOMAIN history[i].calls
        /\ \A r \in DOMAIN history :
              ~(history[r].k = "result" /\ history[r].of = <<i>> /\ history[r].call = n)}

--------------------------------------------------------------------------------
(* The planner *)

\* surface_node: what the node calls, by the provider's ids
Called(i)  == IF history[i].k = "say" THEN history[i].calls ELSE <<>>
\* validate_and_price_boundaries: nothing called before k waits for its result.
Balanced(nodes, k) ==
    LET before == {nodes[j] : j \in 1..(k - 1)} IN
    \A i \in before : \A n \in DOMAIN Called(i) :
        \E r \in before : history[r].k = "result" /\ history[r].id = Called(i)[n]
SafeBoundary(nodes, k) == Balanced(nodes, k)
\* The planner takes a call id that is on the surface twice for an error.
UniqueIds(nodes) ==
    \A i, j \in ToSet(nodes) : \A m \in DOMAIN Called(i), n \in DOMAIN Called(j) :
        Called(i)[m] = Called(j)[n] => i = j /\ m = n
\* select_compactable_range: the node to keep from, 1 if nothing may go.
KeepFrom(nodes, retain) ==
    LET tail == {k \in DOMAIN nodes : Price(SubSeq(nodes, k, Len(nodes))) >= retain}
        from == IF tail = {} THEN 1 ELSE Max(tail)
    IN  Max({1} \cup {k \in 1..from : SafeBoundary(nodes, k)})
\* plan: the seqs to replace; <<>> if it is not needed or not possible.
Plan(why, input) ==
    LET nodes == Surface(history)
        keep  == KeepFrom(nodes, IF why = "pressure" THEN Retain ELSE 0)
    IN  IF \/ why = "pressure" /\ input < Threshold
           \/ nodes = <<>> \/ keep = 1
        THEN <<>> ELSE SubSeq(nodes, 1, keep - 1)
PlanFails(why, input) ==
    /\ ~(why = "pressure" /\ input < Threshold)
    /\ ~UniqueIds(Surface(history))

--------------------------------------------------------------------------------
\* No turn has been asked for, and none can be.
ContextOff ==
    /\ history = <<>> /\ messages = <<>> /\ ahead = FALSE /\ phase = "off"
    /\ step = 0 /\ pressed = FALSE /\ recoveries = 0
    /\ trigger = "none" /\ covers = <<>> /\ tries = 0
    /\ continues = FALSE /\ continued = 0 /\ spent = 0
    /\ request = [input |-> 0, out |-> 0, of |-> <<>>] /\ upsets = 0
ContextInit ==
    /\ history = <<>> /\ messages = <<>> /\ ahead = FALSE /\ phase = "idle"
    /\ step = 0 /\ pressed = FALSE /\ recoveries = 0
    /\ trigger = "none" /\ covers = <<>> /\ tries = 0
    /\ continues = FALSE /\ continued = 0 /\ spent = 0
    /\ request = [input |-> 0, out |-> 0, of |-> <<>>] /\ upsets = MaxUpsets

\* A turn starts on the log's surface.
Ask(price) ==
    /\ phase = "idle" /\ Room
    /\ Log(<<User(price)>>) /\ messages' = Surface(history')
    /\ phase' = "prepare" /\ step' = 1 /\ ahead' = FALSE
    /\ pressed' = FALSE /\ recoveries' = 0 /\ continues' = FALSE /\ continued' = 0 /\ spent' = 0
    /\ UNCHANGED <<summing, request, upsets>>

Over == phase' = "idle" /\ UNCHANGED <<step, pressed>>
NextStep ==
    IF step < MaxSteps THEN phase' = "prepare" /\ step' = step + 1 /\ pressed' = FALSE ELSE Over

\* The context policy shortens results; a continuation is a message of its own.
Input     == Lean(messages) + (IF continues THEN 1 ELSE 0)
Available == Window - MinOut - Margin
Fits      == Input <= Available
Least(a, b) == IF a < b THEN a ELSE b
Most(a, b)  == IF a > b THEN a ELSE b
TargetOnly(input) == Target             \* bug: the input's share is forgotten
Output(input) == Least(Target, Window - input - Margin)

Begin(why, seqs) ==
    /\ ~ahead /\ Log(<<Mark("start")>>)
    /\ phase' = "summing" /\ trigger' = why /\ covers' = seqs /\ tries' = 0
    /\ UNCHANGED <<messages, ahead>>
\* A compaction that ended in an error: under pressure the step goes on.
NotCompacted ==
    IF trigger = "pressure" THEN phase' = "prepare" /\ UNCHANGED <<step, pressed>> ELSE Over

Press ==
    /\ phase = "prepare" /\ Fits /\ ~pressed /\ pressed' = TRUE
    /\ LET seqs == Plan("pressure", Input) IN
       IF PlanFails("pressure", Input) \/ seqs = <<>>
       THEN UNCHANGED <<history, messages, ahead, phase, summing>> ELSE Begin("pressure", seqs)
    /\ UNCHANGED <<turnState, request, upsets>>
\* journal_request_header, then the request.
Request ==
    /\ phase = "prepare" /\ Fits /\ pressed
    /\ IF ahead THEN Over /\ UNCHANGED request
       ELSE /\ phase' = "round"
            /\ request' = [input |-> Input, of |-> messages,
                           out |-> Least(Output(Input), Most(1, TurnOutput - Least(spent, TurnOutput)))]
            /\ UNCHANGED <<step, pressed>>
    /\ UNCHANGED <<history, messages, ahead, recoveries, continues, continued, spent, summing, upsets>>
\* The request does not fit, or the provider says so.
Recover(why) ==
    IF recoveries < Recoveries
    THEN /\ recoveries' = recoveries + 1
         /\ LET seqs == Plan(why, Input) IN
            IF PlanFails(why, Input) \/ seqs = <<>>
            THEN Over /\ UNCHANGED <<history, messages, ahead, summing>>
            ELSE Begin(why, seqs) /\ UNCHANGED <<step, pressed>>
    ELSE Over /\ UNCHANGED <<recoveries, history, messages, ahead, summing>>
Exceeded ==
    /\ phase = "prepare" /\ ~Fits /\ ~ahead /\ Recover("admission")
    /\ UNCHANGED <<continues, continued, spent, request, upsets>>
ProviderOverflows ==
    /\ phase = "round" /\ Upset /\ Recover("provider")
    /\ UNCHANGED <<continues, continued, spent, request>>
\* The provider counts the request's tokens, or cannot, and an estimate does;
\* a count that fails ends the run.
CountFails ==
    /\ phase = "prepare" /\ Upset /\ Over
    /\ UNCHANGED <<history, messages, ahead, recoveries, continues, continued, spent, summing, request>>
\* A steering message or a pause while it counts: the step ends, and the next
\* one starts with what was said.
BrokenOff(said) ==
    /\ phase = "prepare" /\ Upset /\ Room /\ Record(said) /\ NextStep
    /\ UNCHANGED <<recoveries, continues, continued, spent, summing, request>>

--------------------------------------------------------------------------------
(* The summary *)

Closed(es) == Log(es) /\ UNCHANGED <<messages, ahead>>
SummaryFails ==
    /\ phase = "summing" /\ Upset
    /\ IF tries + 1 < Summaries
       THEN tries' = tries + 1 /\ UNCHANGED <<history, messages, ahead, phase, step, pressed>>
       ELSE Closed(<<Mark("failed")>>) /\ NotCompacted /\ UNCHANGED tries
    /\ UNCHANGED <<recoveries, continues, continued, spent, trigger, covers, request>>
SummaryStopped ==
    /\ phase = "summing" /\ Upset
    /\ Closed(<<Mark("failed")>>) /\ Over
    /\ UNCHANGED <<recoveries, continues, continued, spent, summing, request>>
\* The log takes a checkpoint only for a run of nodes of its surface.
Replaceable(seqs) ==
    LET nodes == Surface(history) IN
    seqs # <<>> /\ \E p \in 0..(Len(nodes) - Len(seqs)) : SubSeq(nodes, p + 1, p + Len(seqs)) = seqs
Reloaded(h) == Surface(h)
\* The summary, the checkpoint and the end are one append; a summary no
\* smaller than what it stands for is refused.
Summed(price) ==
    /\ phase = "summing"
    /\ IF price >= Price(covers)
       THEN Closed(<<Mark("failed")>>) /\ NotCompacted
       ELSE /\ Replaceable(covers)
            /\ Log(<<Checkpoint(covers, price), Mark("end")>>)
            /\ messages' = Reloaded(history') /\ UNCHANGED ahead
            /\ IF trigger = "provider" THEN NextStep
               ELSE phase' = "prepare" /\ UNCHANGED <<step, pressed>>
    /\ UNCHANGED <<recoveries, continues, continued, spent, summing, request, upsets>>
\* An append of the compaction is refused, or lands and its flush fails.
NotWritten ==
    /\ phase = "summing" /\ Upset /\ NotCompacted /\ UNCHANGED messages
    /\ \/ UNCHANGED <<history, ahead>>
       \/ ahead' = TRUE /\ \E price \in {1, Price(covers)} :
             history' = history \o (IF price < Price(covers)
                                    THEN <<Checkpoint(covers, price), Mark("end")>>
                                    ELSE <<Mark("failed")>>)
    /\ UNCHANGED <<recoveries, continues, continued, spent, summing, request>>

--------------------------------------------------------------------------------
(* The round and the tools *)

Spends(n) == spent' = spent + n
Answers(price) ==
    /\ phase = "round" /\ Room /\ Record(<<Say(price, <<>>)>>) /\ Over
    /\ continues' = FALSE /\ Spends(1)
    /\ UNCHANGED <<recoveries, continued, summing, request, upsets>>
CallsFor(ids) ==
    /\ phase = "round" /\ Room /\ Record(<<Say(1, ids)>>) /\ phase' = "tools"
    /\ continues' = FALSE /\ Spends(1)
    /\ UNCHANGED <<step, pressed, recoveries, continued, summing, request, upsets>>
\* FinishReason::Length
CutShort ==
    /\ phase = "round" /\ Room /\ Record(<<Say(1, <<>>)>>) /\ Spends(request.out)
    /\ IF continued < Continuations /\ spent + request.out < TurnOutput
       THEN continued' = continued + 1 /\ continues' = TRUE /\ NextStep
       ELSE Over /\ continues' = FALSE /\ UNCHANGED continued
    /\ UNCHANGED <<recoveries, summing, request, upsets>>
\* Steered in the round: what came is kept, then the message.
Interrupted(price) ==
    /\ phase = "round" /\ Upset /\ Room
    /\ \E came \in BOOLEAN :
          Record((IF came THEN <<Say(1, <<>>)>> ELSE <<>>) \o <<User(price)>>)
    /\ continues' = FALSE /\ NextStep
    /\ UNCHANGED <<recoveries, continued, spent, summing, request>>
RoundFails ==
    /\ phase = "round" /\ Upset /\ Over
    /\ UNCHANGED <<history, messages, ahead, recoveries, continues, continued, spent, summing, request>>
\* Results land as the calls end; the run keeps them in the order of the calls.
Returns(c) ==
    /\ phase = "tools" /\ c \in OpenCalls /\ Log(<<Result(c[1], c[2])>>)
    /\ IF OpenCalls = {c} THEN messages' = Surface(history') /\ NextStep
       ELSE UNCHANGED <<messages, phase, step, pressed>>
    /\ UNCHANGED <<ahead, recoveries, continues, continued, spent, summing, request, upsets>>
\* The process is killed; recovery answers the calls that were open.
Killed ==
    /\ phase \notin {"idle", "off"} /\ Upset
    /\ Log([i \in 1..Cardinality(OpenCalls) |->
                LET c == SetToSortSeq(OpenCalls, LAMBDA a, b : a[2] < b[2])[i] IN Result(c[1], c[2])])
    /\ phase' = "idle" /\ messages' = <<>> /\ ahead' = FALSE
    /\ UNCHANGED <<pressed, turnState, summing, request>>

Prices == {1, 2}
ContextNext ==
    \/ \E p \in Prices : Ask(p) \/ BrokenOff(<<User(p)>>) \/ Summed(p) \/ Answers(p) \/ Interrupted(p)
    \/ \E i, j \in ProviderIds : CallsFor(<<i>>) \/ (i # j /\ CallsFor(<<i, j>>))
    \/ \E c \in OpenCalls : Returns(c)
    \/ Press \/ Request \/ Exceeded \/ ProviderOverflows
    \/ BrokenOff(<<>>) \/ CountFails \/ SummaryFails \/ SummaryStopped \/ NotWritten
    \/ CutShort \/ RoundFails \/ Killed
ContextDone == (phase = "off" \/ (~Room /\ phase \in {"idle", "round"})) /\ UNCHANGED contextVars

--------------------------------------------------------------------------------
(* Properties *)

Sent == phase = "round"

\* What a request sends has each result behind its call and each call before
\* its result, whatever was compacted between.
SurfacePaired ==
    Sent =>
        LET at(i) == CHOOSE p \in DOMAIN messages : messages[p] = i
            shown == ToSet(messages)
        IN  /\ \A r \in shown : history[r].k = "result" =>
                  history[r].of[1] \in shown /\ at(history[r].of[1]) < at(r)
            /\ \A s \in shown : \A n \in DOMAIN Called(s) :
                  \E r \in shown : history[r].k = "result" /\ history[r].of = <<s>> /\ history[r].call = n

\* Every message of the log is on the surface once, or stands behind exactly
\* one checkpoint: a compaction forgets nothing and covers nothing twice.
NothingForgotten ==
    LET shown == Surface(history) IN
    \A i \in DOMAIN history : IsMessage(history[i]) =>
        1 = Cardinality({p \in DOMAIN shown : shown[p] = i})
          + Cardinality({c \in DOMAIN history : history[c].k = "checkpoint" /\ i \in ToSet(history[c].of)})

\* A request leaves room in the window for the output it asks for and the margin.
RequestFits ==
    Sent => request.out >= 1 /\ request.input + request.out + Margin <= Window

\* What is sent is what the log would give a run that started now.
SentIsCurrent == Sent => request.of = Surface(history)

\* What is sent fits the window, pairs every call with its result and is current.
RequestsAreSound == RequestFits /\ SurfacePaired /\ SentIsCurrent

\* Compaction finds the surface well formed (planner.rs, engine.rs).
Plannable == phase = "prepare" => UniqueIds(Surface(history))
================================================================================
