----------------------------- MODULE ModelRound -----------------------------
(* One model round of the turn engine (xharness-core, model_round) over the  *)
(* OpenAI adapter (xharness-provider-openai): a request is sent, the reply   *)
(* arrives as server-sent events that the normalizer turns into deltas, the  *)
(* engine adds them up, emits them and journals them in batches, and sends   *)
(* the request again if it failed before any delta.  The user may steer,     *)
(* pause or cancel at any moment.  A reply's content is a sequence of        *)
(* pieces, <<attempt, call, number>>, where text counts as call 0; the bytes *)
(* of a frame are not modelled, only whether the last one was cut.           *)
EXTENDS Sequences, SequencesExt, FiniteSets, Naturals

CONSTANTS Calls,        \* indexes of tool calls in a reply
          MaxFrames,    \* bound on the frames of a reply
          Retries,      \* config.provider_retries
          Batch,        \* STREAM_JOURNAL_BATCH_EVENTS
          MaxFaults     \* bound on failures and commands

ASSUME RoundAssumption ==
    /\ MaxFrames \in Nat /\ Retries \in Nat /\ Batch \in Nat \ {0} /\ MaxFaults \in Nat
    /\ Calls \subseteq Nat \ {0}

VARIABLES
    \* the server and the connection
    protocol,   \* "chat" or "responses"
    meant,      \* what this attempt's reply says: text and arguments
    progress,   \* per call: "none", "added" (announced), "item" (finished)
    wire,       \* frames sent and not yet read
    line,       \* the connection: "open", "said" (all of it), "eof", "broken"
    \* the adapter
    seen,       \* argument_seen
    ready,      \* events not yet taken by the engine
    \* the engine
    at,         \* "off", "send", "read", "retry", "fail", "over"
    attempt, sawDelta,
    text, args, \* ModelRound::text and calls_by_index
    result,     \* how the round ended
    paused, commandsOpen,
    \* the journal
    chunks,     \* what the session log holds of the reply
    marks,      \* the log's llm/retry, llm/retry-started and closing events
    held,       \* pending_stream_events
    behind,     \* the log has events the run does not know of
    \* ghosts
    emitted,    \* deltas the consumer was given
    faults

server == <<protocol, meant, progress, wire, line>>
round  == <<attempt, sawDelta, text, args, result>>
flow   == <<paused, commandsOpen>>
journal == <<chunks, marks, held, behind>>
roundVars == <<server, seen, ready, at, round, flow, journal, emitted, faults>>

NoContent == [text |-> <<>>, args |-> [c \in Calls |-> <<>>]]
Frame(k, c, p) == [k |-> k, c |-> c, p |-> p]
NoCall == 0
Fault  == faults > 0 /\ faults' = faults - 1

\* A new attempt has a new connection, parser and normalizer.
Connection ==
    /\ meant' = NoContent /\ progress' = [c \in Calls |-> "none"]
    /\ wire' = <<>> /\ line' = "open" /\ seen' = {} /\ ready' = <<>>

RoundOff ==
    /\ protocol = "chat" /\ meant = NoContent /\ progress = [c \in Calls |-> "none"]
    /\ wire = <<>> /\ line = "open" /\ seen = {} /\ ready = <<>>
    /\ at = "off" /\ attempt = 1 /\ sawDelta = FALSE /\ text = <<>>
    /\ args = [c \in Calls |-> <<>>] /\ result = "none"
    /\ paused = FALSE /\ commandsOpen = TRUE
    /\ chunks = <<>> /\ marks = <<>> /\ held = <<>> /\ behind = FALSE
    /\ emitted = <<>> /\ faults = MaxFaults
RoundInit ==
    /\ protocol \in {"chat", "responses"}
    /\ meant = NoContent /\ progress = [c \in Calls |-> "none"]
    /\ wire = <<>> /\ line = "open" /\ seen = {} /\ ready = <<>>
    /\ at = "send" /\ attempt = 1 /\ sawDelta = FALSE /\ text = <<>>
    /\ args = [c \in Calls |-> <<>>] /\ result = "none"
    /\ paused = FALSE /\ commandsOpen = TRUE
    /\ chunks = <<>> /\ marks = <<>> /\ held = <<>> /\ behind = FALSE
    /\ emitted = <<>> /\ faults = MaxFaults

--------------------------------------------------------------------------------
(* The server.  Its frames are those of the two protocols: Chat sends the    *)
(* arguments of a call in deltas; Responses announces a call, may send its   *)
(* arguments in deltas and repeats them whole with the finished item.        *)

Frames == Len(meant.text) + Cardinality({c \in Calls : progress[c] = "added"})
            + 2 * Cardinality({c \in Calls : progress[c] = "item"})
Pieces == Len(meant.text) + FoldLeft(LAMBDA n, c : n + Len(meant.args[c]), 0, SetToSeq(Calls))
Piece(c, said) == <<attempt, c, Len(said) + 1>>
CanSay == at = "read" /\ line = "open" /\ Frames + Pieces < MaxFrames
Put(f) == wire' = Append(wire, f)
ServerSays == UNCHANGED <<protocol, line, seen, ready, at, round, flow, journal, emitted, faults>>

SayText ==
    /\ CanSay
    /\ meant' = [meant EXCEPT !.text = Append(@, Piece(NoCall, @))]
    /\ Put(Frame("text", NoCall, <<Piece(NoCall, meant.text)>>))
    /\ UNCHANGED progress /\ ServerSays
Announce(c) ==
    /\ CanSay /\ protocol = "responses" /\ progress[c] = "none"
    /\ progress' = [progress EXCEPT ![c] = "added"]
    /\ Put(Frame("added", c, <<>>))
    /\ UNCHANGED meant /\ ServerSays
SayArguments(c) ==
    /\ CanSay
    /\ progress[c] = IF protocol = "chat" THEN "none" ELSE "added"
    /\ meant' = [meant EXCEPT !.args[c] = Append(@, Piece(c, @))]
    /\ Put(Frame("args", c, <<Piece(c, meant.args[c])>>))
    /\ UNCHANGED progress /\ ServerSays
\* An item whose arguments came in deltas repeats them; another one has its own.
FinishItem(c) ==
    /\ CanSay /\ protocol = "responses" /\ progress[c] # "item"
    /\ LET whole == IF meant.args[c] = <<>> THEN <<Piece(c, <<>>)>> ELSE meant.args[c] IN
       /\ meant' = [meant EXCEPT !.args[c] = whole]
       /\ Put(Frame("item", c, whole))
    /\ progress' = [progress EXCEPT ![c] = "item"]
    /\ ServerSays
\* A chunk that ends no event: a comment, a delta that is empty, a part of a
\* line.  Nothing bounds how many come, and each resets the idle timeout.
KeepAlive ==
    /\ at = "read" /\ line = "open" /\ wire = <<>>
    /\ Put(Frame("alive", NoCall, <<>>))
    /\ UNCHANGED <<meant, progress>> /\ ServerSays
\* [DONE] or response.completed.
SayDone ==
    /\ at = "read" /\ line = "open"
    /\ Put(Frame("done", NoCall, <<>>)) /\ line' = "said"
    /\ UNCHANGED <<protocol, meant, progress, seen, ready, at, round, flow, journal, emitted, faults>>
\* An error event, a payload that is no JSON or a line over the parser's limit.
SayError ==
    /\ at = "read" /\ line = "open" /\ Fault
    /\ Put(Frame("error", NoCall, <<>>)) /\ line' = "said"
    /\ UNCHANGED <<protocol, meant, progress, seen, ready, at, round, flow, journal, emitted>>
\* The server closes the connection: after a whole frame, or inside the last
\* one, which the parser then hands on as it is.
HangUp ==
    /\ at = "read" /\ line = "open" /\ Fault
    /\ line' = "eof"
    /\ \/ UNCHANGED wire
       \/ wire # <<>> /\ wire' = [wire EXCEPT ![Len(wire)] = Frame("error", NoCall, <<>>)]
    /\ UNCHANGED <<protocol, meant, progress, seen, ready, at, round, flow, journal, emitted>>
\* The connection fails; what was not read is lost.
Break ==
    /\ at = "read" /\ line = "open" /\ Fault
    /\ line' = "broken"
    /\ \E n \in 0..Len(wire) : wire' = SubSeq(wire, 1, n)
    /\ UNCHANGED <<protocol, meant, progress, seen, ready, at, round, flow, journal, emitted>>

--------------------------------------------------------------------------------
(* The adapter *)

Delta(k, c, p) == [k |-> k, c |-> c, p |-> p]
RepeatsArguments(f) == TRUE         \* bug: a finished item is always a delta
Unheard(f) == f.c \notin seen
\* OpenAiStreamNormalizer::consume
Events(f) ==
    CASE f.k = "text"  -> <<Delta("text", NoCall, f.p)>>
      [] f.k = "added" -> <<Delta("args", f.c, <<>>)>>
      [] f.k = "args"  -> <<Delta("args", f.c, f.p)>>
      [] f.k = "item"  -> IF Unheard(f) THEN <<Delta("args", f.c, f.p)>> ELSE <<>>
      [] f.k = "alive" -> <<>>
      [] OTHER         -> <<Delta(f.k, NoCall, <<>>)>>

Feed ==
    /\ at = "read" /\ wire # <<>> /\ ready = <<>>
    /\ LET f == Head(wire) IN
       /\ ready' = Events(f)
       /\ seen' = IF f.k \in {"args", "item"} THEN seen \cup {f.c} ELSE seen
    /\ wire' = Tail(wire)
    /\ UNCHANGED <<protocol, meant, progress, line, at, round, flow, journal, emitted, faults>>

--------------------------------------------------------------------------------
(* The engine *)

Ends(r) == at' = "over" /\ result' = r
Fails   == at' = "fail" /\ result' = "failed"

MayRetry(retryable) == retryable /\ ~sawDelta /\ attempt <= Retries
\* What follows an attempt that failed.
Failed(retryable) ==
    IF MayRetry(retryable) THEN at' = "retry" /\ UNCHANGED result ELSE Fails

\* The request: refused, not answered in time, or answered with a stream.
Send ==
    /\ at = "send" /\ ~paused
    /\ at' = "read" /\ Connection
    /\ UNCHANGED <<protocol, round, flow, journal, emitted, faults>>
SendFails ==
    /\ at = "send" /\ ~paused /\ Fault
    /\ \/ \E retryable \in BOOLEAN : Failed(retryable)  \* 408, 429, 5xx, network, timeout
       \/ ~sawDelta /\ at' = "over" /\ result' = "overflow"
    /\ UNCHANGED <<server, seen, ready, attempt, sawDelta, text, args, flow, journal, emitted>>

\* journal_append of what is held and of a mark.  A flush that fails leaves
\* the run behind the log, with what it held still held.
ConflictsPass == TRUE               \* bug: any intervening event is let through
InStep == ~behind
Write(mark) ==
    /\ InStep
    /\ chunks' = chunks \o held /\ marks' = Append(marks, <<mark, attempt>>)
    /\ held' = <<>> /\ UNCHANGED behind
WriteFails(mark) ==
    \/ UNCHANGED journal
    \/ /\ InStep /\ behind' = TRUE
       /\ chunks' = chunks \o held /\ marks' = Append(marks, <<mark, attempt>>)
       /\ UNCHANGED held
NextMark == IF marks # <<>> /\ Last(marks) = <<"scheduled", attempt>> THEN "started" ELSE "scheduled"
ScheduleRetry ==
    /\ at = "retry" /\ NextMark = "scheduled" /\ Write("scheduled")
    /\ UNCHANGED <<server, seen, ready, at, round, flow, emitted, faults>>
StartRetry ==
    /\ at = "retry" /\ NextMark = "started" /\ Write("started")
    /\ attempt' = attempt + 1 /\ at' = "send"
    /\ UNCHANGED <<server, seen, ready, sawDelta, text, args, result, flow, emitted, faults>>
RetryNotWritten ==
    /\ at = "retry" /\ Fault /\ Fails /\ WriteFails(NextMark)
    /\ UNCHANGED <<server, seen, ready, attempt, sawDelta, text, args, flow, emitted>>

\* journal_chunk: held, or written with its batch (which is also full after a
\* while), and then emitted.
Pieced(e) == IF e.p = <<>> THEN <<>> ELSE e.p
Hold(all, e) ==
    \/ /\ Len(all) < Batch
       /\ held' = all /\ UNCHANGED <<chunks, marks, behind>>
       /\ emitted' = emitted \o Pieced(e) /\ UNCHANGED <<at, result, faults>>
    \/ /\ InStep /\ chunks' = chunks \o all /\ held' = <<>> /\ UNCHANGED <<marks, behind>>
       /\ emitted' = emitted \o Pieced(e) /\ UNCHANGED <<at, result, faults>>
    \/ /\ Fault /\ Fails
       /\ held' = all /\ UNCHANGED <<chunks, marks, behind, emitted>>
TakeDelta ==
    /\ at = "read" /\ ~paused /\ ready # <<>> /\ Head(ready).k \in {"text", "args"}
    /\ LET e == Head(ready) IN
       /\ sawDelta' = TRUE /\ ready' = Tail(ready)
       /\ text' = IF e.k = "text" THEN text \o e.p ELSE text
       /\ args' = IF e.k = "args" THEN [args EXCEPT ![e.c] = @ \o e.p] ELSE args
       /\ Hold(held \o Pieced(e), e)
    /\ UNCHANGED <<server, seen, attempt, flow>>
TakeDone ==
    /\ at = "read" /\ ~paused /\ ready # <<>> /\ Head(ready).k = "done"
    /\ Ends("completed") /\ ready' = <<>>
    /\ UNCHANGED <<server, seen, attempt, sawDelta, text, args, flow, journal, emitted, faults>>
TakeError ==
    /\ at = "read" /\ ~paused /\ ready # <<>> /\ Head(ready).k = "error"
    /\ Failed(FALSE) /\ ready' = <<>>
    /\ UNCHANGED <<server, seen, attempt, sawDelta, text, args, flow, journal, emitted, faults>>
\* stream_idle_timeout: the engine polls a stream on which nothing comes.  It
\* is the only deadline once the headers are there.
Silence ==
    /\ at = "read" /\ ~paused /\ ready = <<>> /\ wire = <<>> /\ line \in {"open", "said"}
    /\ line' = "broken"
    /\ UNCHANGED <<protocol, meant, progress, wire, seen, ready, at, round, flow, journal, emitted, faults>>
\* The stream's end: "SSE stream ended before protocol completion", or the
\* transport's error, which may be retried.
TakeEnd ==
    /\ at = "read" /\ ~paused /\ ready = <<>> /\ wire = <<>> /\ line \in {"eof", "broken"}
    /\ Failed(line = "broken")
    /\ UNCHANGED <<server, seen, ready, attempt, sawDelta, text, args, flow, journal, emitted, faults>>

--------------------------------------------------------------------------------
(* Commands: heard while the engine waits for the provider *)

Listens == at \in {"send", "read"} /\ commandsOpen
Stop    == Ends("stopped")
Steer ==
    /\ Listens /\ Fault
    /\ Ends("interrupted") /\ args' = [c \in Calls |-> <<>>]
    /\ UNCHANGED <<server, seen, ready, attempt, sawDelta, text, flow, journal, emitted>>
Pause ==
    /\ Listens /\ ~paused /\ Fault /\ paused' = TRUE
    /\ UNCHANGED <<server, seen, ready, at, round, commandsOpen, journal, emitted>>
Resume ==
    /\ Listens /\ paused /\ paused' = FALSE
    /\ UNCHANGED <<server, seen, ready, at, round, commandsOpen, journal, emitted, faults>>
Cancel ==
    /\ at \in {"send", "read"} /\ Fault /\ Stop
    /\ UNCHANGED <<server, seen, ready, attempt, sawDelta, text, args, flow, journal, emitted>>
WaitsOn  == UNCHANGED <<at, result>>     \* bug: a pause that nobody can end
GivesUp  == IF paused THEN Stop ELSE UNCHANGED <<at, result>>
\* The handle is dropped: a paused run stops, another goes on without commands.
HandleGone ==
    /\ Listens /\ Fault /\ commandsOpen' = FALSE
    /\ GivesUp
    /\ UNCHANGED <<server, seen, ready, attempt, sawDelta, text, args, paused, journal, emitted>>

\* The message of a reply that completed or was interrupted, after what is
\* held; it is flushed if it has calls.
Answered == result \in {"completed", "interrupted"}
SaveMessage ==
    /\ at = "over" /\ Answered /\ Write("message") /\ at' = "off"
    /\ UNCHANGED <<server, seen, ready, round, flow, emitted, faults>>
MessageNotSaved ==
    /\ at = "over" /\ Answered /\ Fault /\ Fails /\ WriteFails("message")
    /\ UNCHANGED <<server, seen, ready, attempt, sawDelta, text, args, flow, emitted>>
\* finalize_journal: the turn's end, after what is held.  A log that moved on
\* with events of the run itself is a conflict.
Finalize ==
    /\ at = "fail" \/ (at = "over" /\ ~Answered)
    /\ \/ Write("end")
       \/ ~InStep /\ UNCHANGED journal
    /\ at' = "off"
    /\ UNCHANGED <<server, seen, ready, round, flow, emitted, faults>>

--------------------------------------------------------------------------------
Serve ==
    \/ SayText \/ KeepAlive \/ SayDone \/ SayError \/ HangUp \/ Break
    \/ \E c \in Calls : Announce(c) \/ SayArguments(c) \/ FinishItem(c)
EngineStep ==
    \/ Send \/ ScheduleRetry \/ StartRetry \/ Feed \/ TakeDelta \/ TakeDone \/ TakeError
    \/ Silence \/ TakeEnd \/ SaveMessage \/ Finalize
Command == Steer \/ Pause \/ Resume \/ Cancel \/ HandleGone
RoundNext == Serve \/ EngineStep \/ SendFails \/ RetryNotWritten \/ MessageNotSaved \/ Command
RoundSpec == RoundInit /\ [][RoundNext]_roundVars
RoundDone == at = "off" /\ UNCHANGED roundVars

\* The run's task is polled.  Nobody owes it a frame, an end or a resume.
RoundFairness == WF_roundVars(EngineStep)

--------------------------------------------------------------------------------
(* Properties *)

\* A completed round holds what one reply said, text and arguments in order
\* and once, whichever protocol, however many attempts came before it.
OneReply == result = "completed" => text = meant.text /\ args = meant.args

\* What the log holds of the reply is what the consumer was given, in order
\* and once, and of one attempt, whatever append or flush failed.
ChunksOnce ==
    /\ IsInjective(chunks)
    /\ \A i, j \in DOMAIN chunks : chunks[i][1] = chunks[j][1]
    /\ IsPrefix(chunks, emitted) \/ IsPrefix(emitted, chunks)

\* A round ends, unless who paused it and still can never resumes it, or the
\* server sends for ever and never ends: no deadline covers either.
HeldByUser   == <>[](paused /\ commandsOpen)
DripsForEver == []<><<KeepAlive>>_roundVars
RoundSettles == HeldByUser \/ DripsForEver \/ []<>(at = "off")
================================================================================
