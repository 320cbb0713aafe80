------------------------------ MODULE Questions ------------------------------
(***************************************************************************)
(* Questions put to the user (xharness-host questions.rs, with             *)
(* xharness-interaction's state machine, the session's question events and *)
(* the host's AGENTS.md writer).  A call of ask_user_question records its  *)
(* question and waits; requests of browsers settle it in the log and wake  *)
(* the waiter, which also polls the log.  One question per session, all in *)
(* one workspace.  An answer stands for the whole form that was sent.      *)
(***************************************************************************)
EXTENDS Naturals, FiniteSets

CONSTANTS Questions,
          Answers,       \* forms a user may send
          Empty,         \* the one of them that answers nothing
          Lasting,       \* questions whose answers also go to AGENTS.md
          Replies,       \* requests to POST /api/respond, one each
          Sends,         \* the settlements each of them may carry: [of |-> question, says |-> form]
          MaxAsks,       \* runs of the tool call, per question
          MaxTroubles    \* crashes, faults, stopped calls, dropped requests and the user's
                         \* own edits of AGENTS.md, in all

\* The forms are told from what the log and the tool say otherwise, the callers from nobody.
ASSUME QuestionAssumption ==
    /\ Empty \in Answers /\ Answers \cap {"none", "waits", "closed", "error"} = {}
    /\ MaxAsks \in Nat
    /\ Questions \cap Replies = {} /\ "nobody" \notin Questions \union Replies
    /\ \A r \in Replies : \A sent \in Sends[r] : sent.of \in Questions

VARIABLES stands,        \* what the session's log says of each question
          flushed,       \* and what it says once the process has crashed
          told,          \* the call's result in the log
          ask,           \* the tool call: where it is, what it read, the entry it waits on
          asks,          \* how often the call has run
          hub,           \* the pending map: the entry of each question, 0 for none
          settlement,    \* the watch channel of each entry
          reply,         \* the requests
          memory,        \* AGENTS.md: an entry per question and the user's own text
          gate,          \* who holds the writer's mutex
          writing,       \* what each writer read, while its write goes on
          skipped,       \* replies that appended nothing, the question being settled
          upset,         \* questions whose call was stopped or met a fault
          spent          \* crashes, faults, stops, dropped requests and edits so far

questionVars == <<stands, flushed, told, ask, asks, hub, settlement, reply, memory,
                  gate, writing, skipped, upset, spent>>

Writers == Questions \union Replies
Nobody == "nobody"
Blank == [entries |-> [q \in Questions |-> "none"], own |-> 0]
Unread == [base |-> Blank, of |-> "none", says |-> "none"]
Away == [at |-> "away", saw |-> "none", entry |-> 0]
Unsent == [at |-> "unsent", of |-> "none", says |-> "none", entry |-> 0]

QuestionInit ==
    /\ stands = [q \in Questions |-> "none"]
    /\ flushed = stands
    /\ told = [q \in Questions |-> "none"]
    /\ ask = [q \in Questions |-> Away]
    /\ asks = [q \in Questions |-> 0]
    /\ hub = [q \in Questions |-> 0]
    /\ settlement = [q \in Questions |-> [e \in 1..MaxAsks |-> "none"]]
    /\ reply = [r \in Replies |-> Unsent]
    /\ memory = Blank
    /\ gate = Nobody
    /\ writing = [w \in Writers |-> Unread]
    /\ skipped = {}
    /\ upset = {}
    /\ spent = [crash |-> 0, fault |-> 0, stop |-> 0, drop |-> 0, edit |-> 0]

Spend(what) == /\ spent.crash + spent.fault + spent.stop + spent.drop + spent.edit < MaxTroubles
               /\ spent' = [spent EXCEPT ![what] = @ + 1]
AskAt(q, at) == ask[q].at = at
AskGoes(q, at, saw) == ask' = [ask EXCEPT ![q] = [at |-> at, saw |-> saw, entry |-> @.entry]]
ReplyAt(r, at) == reply[r].at = at
ReplyGoes(r, at) == reply' = [reply EXCEPT ![r].at = at]

\* question_state looks only at questions whose call has no result yet.
State(q) == IF told[q] = "none" THEN stands[q] ELSE "none"

\* The validator's state machine: what is settled may only be settled the same way again.
MaySettle(q, how) == stands[q] \in {"waits", how}

ToBeRemembered(q, answer) == q \in Lasting /\ answer \in Answers \ {Empty}

-----------------------------------------------------------------------------
(* The tool call *)

\* The call is run, or replayed by the recovery of its turn.
Call(q) ==
    /\ AskAt(q, "away") /\ told[q] = "none" /\ asks[q] < MaxAsks
    /\ asks' = [asks EXCEPT ![q] = @ + 1]
    /\ AskGoes(q, "look", "none")
    /\ UNCHANGED <<stands, flushed, told, hub, settlement, reply, memory, gate, writing,
                   skipped, upset, spent>>

Look(q) ==
    /\ AskAt(q, "look")
    /\ CASE State(q) = "none" -> AskGoes(q, "request", "none")
         [] State(q) = "waits" -> AskGoes(q, "insert", "none")
         [] State(q) = "closed" -> AskGoes(q, "result", "error")
         [] OTHER -> AskGoes(q, "persist", State(q))
    /\ UNCHANGED <<stands, flushed, told, asks, hub, settlement, reply, memory, gate,
                   writing, skipped, upset, spent>>

Request(q) ==
    /\ AskAt(q, "request")
    /\ stands' = [stands EXCEPT ![q] = "waits"]
    /\ AskGoes(q, "flush", "none")
    /\ UNCHANGED <<flushed, told, asks, hub, settlement, reply, memory, gate, writing,
                   skipped, upset, spent>>

Flushed(q) == flushed' = [flushed EXCEPT ![q] = stands[q]]

RequestFlushed(q) ==
    /\ AskAt(q, "flush") /\ Flushed(q)
    /\ AskGoes(q, "insert", "none")
    /\ UNCHANGED <<stands, told, asks, hub, settlement, reply, memory, gate, writing,
                   skipped, upset, spent>>

\* The entry an earlier run of the call left in the map is joined.
Insert(q) ==
    /\ AskAt(q, "insert")
    /\ LET entry == IF hub[q] = 0 THEN asks[q] ELSE hub[q]
       IN /\ hub' = [hub EXCEPT ![q] = entry]
          /\ ask' = [ask EXCEPT ![q] = [at |-> "wait", saw |-> "none", entry |-> entry]]
    /\ UNCHANGED <<stands, flushed, told, asks, settlement, reply, memory, gate, writing,
                   skipped, upset, spent>>

ResultOf(what) == IF what = "closed" THEN "error" ELSE what

Notified(q) ==
    /\ AskAt(q, "wait") /\ settlement[q][ask[q].entry] # "none"
    /\ AskGoes(q, "result", ResultOf(settlement[q][ask[q].entry]))
    /\ UNCHANGED <<stands, flushed, told, asks, hub, settlement, reply, memory, gate,
                   writing, skipped, upset, spent>>

\* Mutant: the waiter trusts the notification alone.
PollIdle(q) == FALSE
\* Mutant: finish_pending is not called for what the poll found closed.
PollLeaves(q) ==
    /\ AskAt(q, "wait") /\ settlement[q][ask[q].entry] = "none"
    /\ \/ stands[q] = "closed" /\ AskGoes(q, "result", "error")
       \/ stands[q] \in Answers /\ AskGoes(q, "polled", stands[q])
    /\ UNCHANGED <<stands, flushed, told, asks, hub, settlement, reply, memory, gate,
                   writing, skipped, upset, spent>>

\* Every 500 ms the waiter reads the log itself; a settled channel is looked at first.
Poll(q) ==
    /\ AskAt(q, "wait") /\ settlement[q][ask[q].entry] = "none"
    /\ \/ /\ stands[q] = "closed"
          /\ AskGoes(q, "result", "error")
          /\ hub' = [hub EXCEPT ![q] = 0]
       \/ /\ stands[q] \in Answers
          /\ AskGoes(q, "polled", stands[q])
          /\ UNCHANGED hub
    /\ UNCHANGED <<stands, flushed, told, asks, settlement, reply, memory, gate, writing,
                   skipped, upset, spent>>

\* With the answer remembered where it has to be; what the poll found leaves the map too.
Returns(q) ==
    /\ hub' = IF AskAt(q, "polled") THEN [hub EXCEPT ![q] = 0] ELSE hub
    /\ AskGoes(q, "result", ask[q].saw)

Unremembered(q) ==
    /\ ask[q].at \in {"persist", "polled"} /\ ~ToBeRemembered(q, ask[q].saw)
    /\ Returns(q)
    /\ UNCHANGED <<stands, flushed, told, asks, settlement, reply, memory, gate, writing,
                   skipped, upset, spent>>

\* The engine records the result.  The log takes no result for a question that waits: the
\* run ends there and the call is replayed when the session is restored.
Record(q) ==
    /\ AskAt(q, "result")
    /\ IF stands[q] = "waits" THEN UNCHANGED <<told, flushed>>
                              ELSE told' = [told EXCEPT ![q] = ask[q].saw] /\ Flushed(q)
    /\ ask' = [ask EXCEPT ![q] = [at |-> IF stands[q] = "waits" THEN "stopped" ELSE "ended",
                                  saw |-> "none", entry |-> 0]]
    /\ UNCHANGED <<stands, asks, hub, settlement, reply, memory, gate, writing, skipped,
                   upset, spent>>

\* The call is cancelled, which only detaches it, or dropped after its grace.  A write it
\* was waiting for goes on without the mutex.
Detach(q) ==
    /\ ask[q].at \notin {"away", "stopped", "ended", "result"}
    /\ Spend("stop")
    /\ AskGoes(q, "result", "error")
    /\ gate' = IF gate = q THEN Nobody ELSE gate
    /\ upset' = upset \union {q}
    /\ UNCHANGED <<stands, flushed, told, asks, hub, settlement, reply, memory, writing,
                   skipped>>

\* The store refuses the request or its flush, or a read.
AskFails(q) ==
    /\ ask[q].at \in {"look", "request", "flush", "wait"}
    /\ Spend("fault")
    /\ AskGoes(q, "result", "error")
    /\ upset' = upset \union {q}
    /\ UNCHANGED <<stands, flushed, told, asks, hub, settlement, reply, memory, gate,
                   writing, skipped>>

\* The stopped session is resumed within the process.
Resume(q) ==
    /\ AskAt(q, "stopped") /\ asks[q] < MaxAsks
    /\ AskGoes(q, "away", "none")
    /\ UNCHANGED <<stands, flushed, told, asks, hub, settlement, reply, memory, gate,
                   writing, skipped, upset, spent>>

-----------------------------------------------------------------------------
(* Requests that settle a question *)

\* A closure, or a form that the question's options and fields admit.
WellFormed(says) == says \in Answers \union {"closed"}

\* A question that is not in the map is NotPending at once.
Respond(r) ==
    /\ ReplyAt(r, "unsent")
    /\ \E sent \in Sends[r] :
           /\ hub[sent.of] # 0
           /\ reply' = [reply EXCEPT ![r] = [at |-> "first", of |-> sent.of,
                                             says |-> sent.says, entry |-> hub[sent.of]]]
    /\ UNCHANGED <<stands, flushed, told, ask, asks, hub, settlement, memory, gate, writing,
                   skipped, upset, spent>>

\* The first read: an answer to a settled question passes if it is the one that stands.
FirstRead(r) ==
    LET says == reply[r].says
        state == State(reply[r].of)
    IN /\ ReplyAt(r, "first")
       /\ ReplyGoes(r, IF ~WellFormed(says) THEN "bad"
                       ELSE IF state = "waits" THEN IF says = "closed" THEN "append" ELSE "second"
                       ELSE IF state \notin Answers \/ says = "closed" THEN "not pending"
                       ELSE IF says = state THEN "second" ELSE "bad")
       /\ UNCHANGED <<stands, flushed, told, ask, asks, hub, settlement, memory, gate,
                      writing, skipped, upset, spent>>

\* The second read decides whether there is anything to append.
SecondRead(r) ==
    /\ ReplyAt(r, "second")
    /\ IF State(reply[r].of) = "waits"
       THEN ReplyGoes(r, "append") /\ UNCHANGED skipped
       ELSE ReplyGoes(r, "persist") /\ skipped' = skipped \union {r}
    /\ UNCHANGED <<stands, flushed, told, ask, asks, hub, settlement, memory, gate, writing,
                   upset, spent>>

\* Revision conflicts are retried; what another request settled meanwhile is refused.
AppendReply(r) ==
    LET q == reply[r].of IN
    /\ ReplyAt(r, "append")
    /\ IF MaySettle(q, reply[r].says)
       THEN stands' = [stands EXCEPT ![q] = reply[r].says] /\ ReplyGoes(r, "flush")
       ELSE UNCHANGED stands /\ ReplyGoes(r, "bad")
    /\ UNCHANGED <<flushed, told, ask, asks, hub, settlement, memory, gate, writing, skipped,
                   upset, spent>>

\* Mutant: the flush is left to the store.
AppendUnflushed(r) ==
    /\ ReplyAt(r, "flush")
    /\ ReplyGoes(r, IF reply[r].says = "closed" THEN "settle" ELSE "persist")
    /\ UNCHANGED <<stands, flushed, told, ask, asks, hub, settlement, memory, gate, writing,
                   skipped, upset, spent>>

AppendFlushed(r) ==
    /\ ReplyAt(r, "flush") /\ Flushed(reply[r].of)
    /\ ReplyGoes(r, IF reply[r].says = "closed" THEN "settle" ELSE "persist")
    /\ UNCHANGED <<stands, told, ask, asks, hub, settlement, memory, gate, writing, skipped,
                   upset, spent>>

NothingToRemember(r) ==
    /\ ReplyAt(r, "persist") /\ ~ToBeRemembered(reply[r].of, reply[r].says)
    /\ ReplyGoes(r, "settle")
    /\ UNCHANGED <<stands, flushed, told, ask, asks, hub, settlement, memory, gate, writing,
                   skipped, upset, spent>>

\* The waiter of the entry is notified and the question leaves the map, whichever entry the
\* map has by now.
Settle(r) ==
    LET q == reply[r].of IN
    /\ ReplyAt(r, "settle")
    /\ settlement' = [settlement EXCEPT ![q][reply[r].entry] = reply[r].says]
    /\ hub' = [hub EXCEPT ![q] = 0]
    /\ ReplyGoes(r, "accepted")
    /\ UNCHANGED <<stands, flushed, told, ask, asks, memory, gate, writing, skipped, upset,
                   spent>>

\* The store or the read fails; what was appended stays in the log.
ReplyFails(r) ==
    /\ reply[r].at \in {"first", "second", "append", "flush"}
    /\ Spend("fault")
    /\ ReplyGoes(r, "bad")
    /\ upset' = upset \union {reply[r].of}
    /\ UNCHANGED <<stands, flushed, told, ask, asks, hub, settlement, memory, gate, writing,
                   skipped>>

Replied == {"accepted", "bad", "not pending", "dropped"}

\* The browser is gone and its request's future with it, but not a write it waited for.
Drop(r) ==
    /\ reply[r].at \notin Replied \union {"unsent"}
    /\ Spend("drop")
    /\ ReplyGoes(r, "dropped")
    /\ gate' = IF gate = r THEN Nobody ELSE gate
    /\ upset' = upset \union {reply[r].of}
    /\ UNCHANGED <<stands, flushed, told, ask, asks, hub, settlement, memory, writing,
                   skipped>>

-----------------------------------------------------------------------------
(* AGENTS.md *)

About(w) == IF w \in Questions THEN w ELSE reply[w].of
Gives(w) == IF w \in Questions THEN ask[w].saw ELSE reply[w].says
WantsToWrite(w) == /\ IF w \in Questions THEN ask[w].at \in {"persist", "polled"}
                                         ELSE ReplyAt(w, "persist")
                   /\ ToBeRemembered(About(w), Gives(w))

\* The mutex is taken and the file read in a blocking task.
StartWrite(w) ==
    /\ WantsToWrite(w) /\ gate = Nobody /\ writing[w] = Unread
    /\ gate' = w
    /\ writing' = [writing EXCEPT ![w] = [base |-> memory, of |-> About(w), says |-> Gives(w)]]
    /\ UNCHANGED <<stands, flushed, told, ask, asks, hub, settlement, reply, memory, skipped,
                   upset, spent>>

\* Mutant: the entry is appended to a section that is started anew.
RewrittenAlone(job) == [Blank EXCEPT !.entries[job.of] = job.says]

Rewritten(job) == [job.base EXCEPT !.entries[job.of] = job.says]

WriterGoes(w, ok) ==
    IF w \in Questions
    THEN /\ IF ok THEN Returns(w) ELSE AskGoes(w, "result", "error") /\ UNCHANGED hub
         /\ UNCHANGED reply
    ELSE ReplyGoes(w, IF ok THEN "settle" ELSE "bad") /\ UNCHANGED <<ask, hub>>

\* The file is replaced by what was read with the entry put in, and the mutex given back.
EndWrite(w) ==
    /\ writing[w] # Unread
    /\ memory' = Rewritten(writing[w])
    /\ writing' = [writing EXCEPT ![w] = Unread]
    /\ IF gate = w THEN gate' = Nobody /\ WriterGoes(w, TRUE)
                   ELSE UNCHANGED <<gate, ask, hub, reply>>
    /\ UNCHANGED <<stands, flushed, told, asks, settlement, skipped, upset, spent>>

\* The file cannot be written, or its directory not synced after the rename.
WriteFails(w) ==
    /\ writing[w] # Unread /\ gate = w
    /\ Spend("fault")
    /\ memory' \in {memory, Rewritten(writing[w])}
    /\ writing' = [writing EXCEPT ![w] = Unread]
    /\ gate' = Nobody
    /\ WriterGoes(w, FALSE)
    /\ upset' = upset \union {About(w)}
    /\ UNCHANGED <<stands, flushed, told, asks, settlement, skipped>>

\* The user saves AGENTS.md in an editor.
UserEdits ==
    /\ Spend("edit")
    /\ memory' = [memory EXCEPT !.own = @ + 1]
    /\ UNCHANGED <<stands, flushed, told, ask, asks, hub, settlement, reply, gate, writing,
                   skipped, upset>>

\* The log keeps what was flushed and maybe more; the hub and all tasks are gone, and the
\* host restores the sessions.
QuestionCrash ==
    /\ Spend("crash")
    /\ \E kept \in SUBSET Questions :
           stands' = [q \in Questions |-> IF q \in kept THEN stands[q] ELSE flushed[q]]
    /\ flushed' = stands'
    /\ ask' = [q \in Questions |-> IF AskAt(q, "ended") THEN ask[q] ELSE Away]
    /\ hub' = [q \in Questions |-> 0]
    /\ settlement' = [q \in Questions |-> [e \in 1..MaxAsks |-> "none"]]
    /\ reply' = [r \in Replies |-> IF reply[r].at \in Replied \union {"unsent"}
                                   THEN reply[r] ELSE [reply[r] EXCEPT !.at = "dropped"]]
    /\ gate' = Nobody
    /\ writing' = [w \in Writers |-> Unread]
    /\ UNCHANGED <<told, asks, memory, skipped, upset>>

AskStep(q) ==
    \/ Call(q) \/ Look(q) \/ Request(q) \/ RequestFlushed(q) \/ Insert(q)
    \/ Notified(q) \/ Poll(q) \/ Unremembered(q) \/ Record(q)
ReplyStep(r) ==
    \/ FirstRead(r) \/ SecondRead(r) \/ AppendReply(r) \/ AppendFlushed(r)
    \/ NothingToRemember(r) \/ Settle(r)
WriteStep(w) == StartWrite(w) \/ EndWrite(w)

QuestionNext ==
    \/ \E q \in Questions : AskStep(q) \/ Detach(q) \/ AskFails(q) \/ Resume(q)
    \/ \E r \in Replies : Respond(r) \/ ReplyStep(r) \/ ReplyFails(r) \/ Drop(r)
    \/ \E w \in Writers : WriteStep(w) \/ WriteFails(w)
    \/ UserEdits
    \/ QuestionCrash

QuestionSpec == QuestionInit /\ [][QuestionNext]_questionVars

\* The tool calls and requests are tasks of the runtime, which polls what is ready; the
\* writes are blocking tasks and end; the mutex is fair.  No task goes round in a loop that
\* changes the state, so fairness to all of them together is fairness to each.
QuestionTasks ==
    \/ \E q \in Questions : AskStep(q)
    \/ \E r \in Replies : ReplyStep(r)
    \/ \E w \in Writers : WriteStep(w)
QuestionFairness == WF_questionVars(QuestionTasks)

-----------------------------------------------------------------------------
Accepted(q) == {r \in Replies : ReplyAt(r, "accepted") /\ reply[r].of = q}
Raced(q) == \E r \in skipped : reply[r].of = q

\* Among the requests about a question that appended what they say, those that were accepted
\* say the same, and the log says it even after a crash (questions.rs respond: the settlement
\* is appended and flushed before the request is answered).
AcceptedStands ==
    \A q \in Questions : \A r \in Accepted(q) \ skipped : flushed[q] = reply[r].says

\* The model is given the answer that stands in the log, whichever of the notification, the
\* poll and the replay brought it; an answer is turned into an error only when the call was
\* stopped or something failed under it.
ToldStands ==
    \A q \in Questions : told[q] # "none" /\ ~Raced(q) =>
        \/ told[q] = ResultOf(stands[q])
        \/ told[q] = "error" /\ q \in upset

\* An answer once accepted stands, in the log and before the model.
AnswersStand == AcceptedStands /\ ToldStands

\* An answer with a lasting destination that the model was told is in AGENTS.md, whoever
\* wrote it there and whatever other sessions of the workspace write
\* (DurableQuestionHub::persist_agent_markdown, ManagedAgentMarkdownSink).
Remembered ==
    (\A q \in Questions : ~Raced(q)) /\ spent.drop + spent.stop = 0 =>
        \A q \in Questions : ToBeRemembered(q, told[q]) => memory.entries[q] = told[q]

\* An answer that is flushed reaches the call, whether or not its request lived to notify
\* the waiter, unless the session was stopped.
AnswersArrive ==
    \A q \in Questions :
        flushed[q] \in Answers ~> told[q] # "none" \/ AskAt(q, "stopped")

\* A question whose call has ended leaves the hub, and with it every browser's screen, also
\* when the call was stopped and replayed while a request settled it; not when a request was
\* dropped or the store failed between the settlement and finish_pending.
CardsClear ==
    \A q \in Questions :
        told[q] # "none" ~> hub[q] = 0 \/ spent.fault + spent.drop > 0

\* An answer that differs from the accepted one is refused (docs/specs/user-questions.md:
\* an id reused with a different answer fails closed).
DifferentAnswersFail ==
    \A q \in Questions : \A r, s \in Accepted(q) : reply[r].says = reply[s].says

\* A save of the user is not undone (docs/specs/user-questions.md: the writer protects the
\* user's content with a compare-and-swap).
UserTextKept == [][memory'.own >= memory.own]_questionVars
=============================================================================
