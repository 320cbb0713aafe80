---------------------------- MODULE SessionView ----------------------------
(***************************************************************************)
(* One session's log, what the host shows of it and what a browser makes   *)
(* of that (xharness-host control.rs, driver.rs, rpc.rs and restore.rs,    *)
(* and the browser's session runtime).  Requests change the title, goal,   *)
(* model, preset or permissions by appending to the log with a receipt; a  *)
(* turn appends beside them; every reader folds a cut of the log under the *)
(* projection lock and announces what is new.  An event's sequence is its  *)
(* place in the log, and a projection is the last event of its kind.       *)
(***************************************************************************)
EXTENDS Integers, Sequences, FiniteSets, FiniteSetsExt, SequencesExt

CONSTANTS Handlers,   \* requests in flight
          Asks,       \* what each of them may ask: [rpc, method, says, ref]
          MaxSlips    \* dropped handlers, failed flushes, disconnections, restarts
                      \* and lost routes, in all

AllAsks == UNION {Asks[h] : h \in Handlers}
Methods == {"title", "model", "preset", "create", "edit", "pause", "resume", "complete", "clear",
            "policy", "plan"}
ASSUME AsksAreAsks ==
    /\ \A ask \in AllAsks : {"rpc", "method", "says", "ref"} \subseteq DOMAIN ask /\ ask.method \in Methods
    /\ {"free", "driver", "browser"} \cap Handlers = {} /\ MaxSlips \in Nat

VARIABLES log,        \* the session's events: [is, says]
          memory,     \* SessionRecord: the cursor, and the receipts by rpc id
          running,    \* SessionRecord.running
          routable,   \* whether the models asked for are routed
          handler,    \* requests: where they are, what they commit, where it leads
          gate,       \* the session's admission lock
          window,     \* the session's projection lock
          sync,       \* each reader's cut and what it has yet to announce
          engine,     \* the turn, and the journal length it knows
          line,       \* the mux connection: its state and the frames on their way
          rows,       \* the browser's projection store
          page,       \* the browser's window of events
          reader,     \* its request for the history
          upset,      \* what went wrong that a property makes room for
          slips

viewVars == <<log, memory, running, routable, handler, gate, window, sync, engine, line,
              rows, page, reader, upset, slips>>
browserVars == <<rows, page, reader>>

Free == "free"
Driver == "driver"
Browser == "browser"
Readers == Handlers \union {Driver, Browser}
Commands == {"policy", "plan"}       \* /permission and /plan
Keys == {"title", "goal", "usage"} \union Commands
NoGoal == [id |-> 0, revision |-> 0, phase |-> "none"]
Rpcs == {ask.rpc : ask \in AllAsks}
Event(is, says) == [is |-> is, says |-> says]

\* What the first n events say.
Count(is, n) == Cardinality({i \in 1..n : log[i].is = is})
Latest(is, n, blank) == LET at == {i \in 1..n : log[i].is = is}
                        IN IF at = {} THEN blank ELSE log[Max(at)].says
Blank(key) == CASE key = "goal" -> NoGoal [] key = "usage" -> 0 [] OTHER -> "none"
Shown(key, n) == IF key = "usage" THEN Count("end", n) ELSE Latest(key, n, Blank(key))
Goal(n) == Shown("goal", n)

NoReceipt == [ask |-> <<>>, seq |-> 0]
\* Mutant: the receipt's own sequence for that of the state event before it.
RestoredAtReceipt(n) == [rpc \in Rpcs |->
    LET at == {i \in 1..n : log[i].is = "receipt" /\ log[i].says.rpc = rpc}
    IN IF at = {} THEN NoReceipt ELSE [ask |-> log[Max(at)].says, seq |-> Max(at)]]

Restored(n) == [rpc \in Rpcs |->
    LET at == {i \in 1..n : log[i].is = "receipt" /\ log[i].says.rpc = rpc}
    IN IF at = {} THEN NoReceipt ELSE [ask |-> log[Max(at)].says, seq |-> Max(at) - 1]]

Idle == [at |-> "idle", ask |-> "none", batch |-> <<>>, leads |-> "none", told |-> 0]
Synced == [at |-> "off", from |-> 0, to |-> 0]
Unread == [at |-> "off", asOf |-> 0, values |-> 0]
Closed == [at |-> "cold", tail |-> 0, later |-> <<>>, baseline |-> 0, again |-> FALSE, hole |-> FALSE]

\* A browser may be there or not, and only some of the requests may ever be sent.
ViewInit(watched, asking) ==
    /\ log = <<Event("goal", [id |-> 1, revision |-> 1, phase |-> "active"])>>
    /\ memory = [cursor |-> 1, receipts |-> [rpc \in Rpcs |-> NoReceipt]]
    /\ running = FALSE /\ routable = TRUE
    /\ handler = [h \in Handlers |-> IF h \in asking THEN Idle ELSE [Idle EXCEPT !.at = "lost"]]
    /\ gate = Free /\ window = Free
    /\ sync = [p \in Readers |-> Synced]
    /\ engine = [at |-> "idle", known |-> 0, followed |-> FALSE]
    /\ line = [at |-> IF watched THEN "down" ELSE "absent", feed |-> <<>>]
    /\ rows = [key \in Keys |-> [says |-> Blank(key), seq |-> 0]]
    /\ page = Closed
    /\ reader = Unread
    /\ upset = {} /\ slips = 0

Slip == slips < MaxSlips /\ slips' = slips + 1
At(h, at) == handler[h].at = at
Goes(h, at) == handler' = [handler EXCEPT ![h].at = at]
Commits(h, batch, leads) ==
    handler' = [handler EXCEPT ![h].at = "append", ![h].batch = batch, ![h].leads = leads]
Tells(h, at, told) == handler' = [handler EXCEPT ![h].at = at, ![h].told = told]

\* Frames reach a browser that has subscribed.
Pushed(frames) == line' = IF line.at \in {"down", "absent"} THEN line ELSE [line EXCEPT !.feed = @ \o frames]
Projection(key, says, seq) == [is |-> "projection", key |-> key, says |-> says, seq |-> seq]

-----------------------------------------------------------------------------
(* Readers: sync_authoritative_session *)

Wants(p) == CASE p = Driver -> running /\ memory.cursor < Len(log)
              [] p = Browser -> reader.at = "sync"
              [] OTHER -> At(p, "sync")

\* Mutant: the projection lock is taken for the write alone.
LoadUnlocked(p) ==
    /\ Wants(p) /\ sync[p].at = "off" /\ memory.cursor < Len(log)
    /\ sync' = [sync EXCEPT ![p] = [at |-> "loaded", from |-> 0, to |-> Len(log)]]
    /\ UNCHANGED <<log, memory, running, routable, handler, gate, window, engine, line,
                   browserVars, upset, slips>>

LoadLog(p) ==
    /\ Wants(p) /\ sync[p].at = "off" /\ window = Free /\ memory.cursor < Len(log)
    /\ window' = p
    /\ sync' = [sync EXCEPT ![p] = [at |-> "loaded", from |-> 0, to |-> Len(log)]]
    /\ UNCHANGED <<log, memory, running, routable, handler, gate, engine, line, browserVars,
                   upset, slips>>

\* What the reader was about, once memory holds its cut.
Proceeds(p) ==
    CASE p = Driver -> UNCHANGED <<handler, reader>>
      [] p = Browser -> reader' = [reader EXCEPT !.at = "load"] /\ UNCHANGED handler
      [] OTHER -> Goes(p, handler[p].leads) /\ UNCHANGED reader

\* A cut that holds nothing new changes nothing.
NothingNew(p) ==
    /\ Wants(p) /\ sync[p].at = "off" /\ window = Free /\ memory.cursor = Len(log)
    /\ Proceeds(p)
    /\ UNCHANGED <<log, memory, running, routable, gate, window, sync, engine, line, rows, page,
                   upset, slips>>

Project(p) ==
    /\ sync[p].at = "loaded" /\ sync[p].to >= memory.cursor
    /\ memory' = [cursor |-> sync[p].to, receipts |-> Restored(sync[p].to)]
    /\ sync' = [sync EXCEPT ![p].at = "announce", ![p].from = memory.cursor]
    /\ UNCHANGED <<log, running, routable, handler, gate, window, engine, line, browserVars,
                   upset, slips>>

\* The end of a turn moves the metrics, whose projection goes out with it.
Announce(p) ==
    /\ sync[p].at = "announce"
    /\ Pushed([i \in 1..(sync[p].to - sync[p].from) |->
                 [is |-> "event", seq |-> sync[p].from + i]])
    /\ sync' = [sync EXCEPT ![p] = Synced]
    /\ window' = Free
    /\ Proceeds(p)
    /\ UNCHANGED <<log, memory, running, routable, gate, engine, rows, page, upset, slips>>

-----------------------------------------------------------------------------
(* Requests *)

Release(h) == gate' = IF gate = h THEN Free ELSE gate

\* session.selectModel looks at the routes before it looks for a receipt; a command
\* has none.  A request that finds the lock taken arrives when it is free.
Admit(h, ask) ==
    /\ At(h, "idle") /\ gate = Free
    /\ LET new == [Idle EXCEPT !.ask = ask]
       IN CASE ask.method = "model" /\ ~routable ->
                 handler' = [handler EXCEPT ![h] = [new EXCEPT !.at = "error"]] /\ UNCHANGED gate
            [] ask.method \in Commands ->
                 /\ handler' = [handler EXCEPT ![h] = [new EXCEPT !.at = "append",
                                    !.batch = <<Event("run", h)>>, !.leads = "choose"]]
                 /\ gate' = h
            [] OTHER ->
                 /\ handler' = [handler EXCEPT ![h] = [new EXCEPT !.at = "sync", !.leads = "replay"]]
                 /\ gate' = h
    /\ UNCHANGED <<log, memory, running, routable, window, sync, engine, line, browserVars,
                   upset, slips>>

\* The state event of each method, none if it refuses; the goal methods go by the goal
\* that memory holds.
Refuses == <<>>
Renamed(ask) == <<Event("title", ask.says)>>
ModelSelected(ask) == <<Event("model", ask.says)>>
PresetSelected(ask) == IF running THEN Refuses ELSE <<Event("preset", ask.says)>>

GoalEvent(goal) == <<Event("goal", goal)>>
GoalCreated(goal) ==
    LET ids == {log[i].says.id : i \in {j \in DOMAIN log : log[j].is = "goal"}}
    IN IF goal = NoGoal \/ goal.phase = "complete"
       THEN GoalEvent([id |-> Max(ids) + 1, revision |-> 1, phase |-> "active"])
       ELSE Refuses
GoalEdited(goal) == GoalEvent([goal EXCEPT !.revision = @ + 1])
GoalMoved(goal, from, to) ==
    IF goal.phase \in from THEN GoalEvent([goal EXCEPT !.revision = @ + 1, !.phase = to])
    ELSE Refuses
GoalCleared == GoalEvent(NoGoal)

\* What a method that names the current goal makes of it.
GoalChanged(method, goal) ==
    CASE method = "edit" -> GoalEdited(goal)
      [] method = "pause" -> GoalMoved(goal, {"active"}, "paused")
      [] method = "resume" -> GoalMoved(goal, {"active", "paused"}, "active")
      [] method = "complete" -> GoalMoved(goal, {"active", "paused"}, "complete")
      [] method = "clear" -> GoalCleared

State(h) ==
    LET ask == handler[h].ask
        goal == Goal(memory.cursor)
        fits == goal # NoGoal /\ ask.ref = [id |-> goal.id, revision |-> goal.revision]
    IN CASE ask.method = "title" -> Renamed(ask)
         [] ask.method = "model" -> ModelSelected(ask)
         [] ask.method = "preset" -> PresetSelected(ask)
         [] ask.method = "create" -> GoalCreated(goal)
         [] OTHER -> IF fits THEN GoalChanged(ask.method, goal) ELSE Refuses

\* The reply carries the state event's sequence where the method promises it.
Reply(ask, seq) == IF ask.method = "title" THEN seq ELSE 0

Decide(h) ==
    /\ At(h, "replay")
    /\ LET ask == handler[h].ask
           receipt == memory.receipts[ask.rpc]
       IN IF receipt.seq # 0 /\ receipt.ask = ask
          THEN Tells(h, "ok", Reply(ask, receipt.seq)) /\ Release(h)
          ELSE IF receipt.seq # 0 \/ State(h) = Refuses
          THEN Tells(h, "error", 0) /\ Release(h)
          ELSE /\ Commits(h, Append(State(h), Event("receipt", ask)), "reply")
               /\ UNCHANGED gate
    /\ UNCHANGED <<log, memory, running, routable, window, sync, engine, line, browserVars,
                   upset, slips>>

\* The journal's validator: a receipt is new, and a goal follows from the one before.
ValidGoal(old, new) ==
    \/ new = NoGoal /\ old # NoGoal
    \/ new.revision = 1 /\ new.phase = "active" /\ (old = NoGoal \/ old.phase = "complete")
       /\ \A i \in DOMAIN log : log[i].is = "goal" => log[i].says.id # new.id
    \/ new.id = old.id /\ new.revision = old.revision + 1
       /\ (old.phase = "complete" => new.phase = "complete")
Valid(batch) == \A i \in DOMAIN batch :
    /\ batch[i].is = "goal" => ValidGoal(Goal(Len(log)), batch[i].says)
    /\ batch[i].is = "receipt" => Restored(Len(log))[batch[i].says.rpc].seq = 0

\* persist_session_events: the append is repeated at the newest revision.
AppendBatch(h) ==
    /\ At(h, "append")
    /\ IF Valid(handler[h].batch)
       THEN log' = log \o handler[h].batch /\ Goes(h, "sync") /\ UNCHANGED <<gate, upset>>
       ELSE /\ Tells(h, "error", 0) /\ Release(h)
            /\ upset' = upset \union {"refused"} /\ UNCHANGED log
    /\ UNCHANGED <<memory, running, routable, window, sync, engine, line, browserVars, slips>>

SessionNotFlushed(h) ==
    /\ At(h, "append") /\ Valid(handler[h].batch) /\ Slip
    /\ log' = log \o handler[h].batch
    /\ Tells(h, "error", 0) /\ Release(h)
    /\ upset' = upset \union {"unannounced"}
    /\ UNCHANGED <<memory, running, routable, window, sync, engine, line, browserVars>>

Replied(h) ==
    /\ At(h, "reply")
    /\ LET ask == handler[h].ask
           state == handler[h].batch[1]
           seq == memory.cursor - 1
       IN /\ memory' = [memory EXCEPT !.receipts[ask.rpc] = [ask |-> ask, seq |-> seq]]
          /\ Tells(h, "ok", Reply(ask, seq))
          /\ upset' = upset \union (IF log[seq].is = state.is THEN {} ELSE {"overtaken"})
          /\ IF state.is \in Keys
             THEN Pushed(<<Projection(state.is, state.says, memory.cursor)>>)
             ELSE UNCHANGED line
    /\ Release(h)
    /\ UNCHANGED <<log, running, routable, window, sync, engine, browserVars, slips>>

\* The run of a command, what it sets and its end are commits of their own; a plan mode
\* that stands already is not set again.
Choose(h) ==
    /\ At(h, "choose")
    /\ LET ask == handler[h].ask
           stands == ask.method = "plan" /\ Shown("plan", memory.cursor) = ask.says
       IN IF running \/ stands THEN Commits(h, <<Event("done", h)>>, "said")
          ELSE Commits(h, <<Event(ask.method, ask.says)>>, "chosen")
    /\ UNCHANGED <<log, memory, running, routable, gate, window, sync, engine, line,
                   browserVars, upset, slips>>

ChoiceShown(h) ==
    /\ At(h, "chosen")
    /\ Pushed(<<Projection(handler[h].ask.method, handler[h].ask.says, memory.cursor)>>)
    /\ Commits(h, <<Event("done", h)>>, "said")
    /\ UNCHANGED <<log, memory, running, routable, gate, window, sync, engine, browserVars,
                   upset, slips>>

Said(h) ==
    /\ At(h, "said")
    /\ Tells(h, "ok", 0) /\ Release(h)
    /\ UNCHANGED <<log, memory, running, routable, window, sync, engine, line, browserVars,
                   upset, slips>>

\* The client went away and its handler with it; between a projection and its
\* announcement there is no point at which it could be dropped.
DropHandler(h) ==
    /\ handler[h].at \notin {"idle", "ok", "error", "lost"} /\ sync[h].at # "announce"
    /\ Slip
    /\ Goes(h, "lost") /\ Release(h)
    /\ window' = IF window = h THEN Free ELSE window
    /\ sync' = [sync EXCEPT ![h] = Synced]
    /\ upset' = upset \union {"unannounced"}
    /\ UNCHANGED <<log, memory, running, routable, engine, line, browserVars>>

Reroute ==
    /\ routable /\ Slip /\ routable' = FALSE
    /\ UNCHANGED <<log, memory, running, handler, gate, window, sync, engine, line,
                   browserVars, upset>>

-----------------------------------------------------------------------------
(* The turn *)

\* A prompt marks the session before its turn starts; a reminder's turn starts first.
Prompted ==
    /\ engine.at = "idle" /\ ~running /\ gate = Free
    /\ running' = TRUE /\ engine' = [engine EXCEPT !.at = "asked", !.followed = TRUE]
    /\ UNCHANGED <<log, memory, routable, handler, gate, window, sync, line, browserVars,
                   upset, slips>>

Starts(from) ==
    /\ engine.at = from
    /\ log' = Append(log, Event("start", from))
    /\ engine' = [engine EXCEPT !.at = "open", !.known = Len(log) + 1]
    /\ UNCHANGED <<memory, running, routable, handler, gate, window, sync, line, browserVars,
                   upset, slips>>
StartTurn == Starts("asked")
Reminded == Starts("idle")

\* start_background_turn
Follow ==
    /\ engine.at \in {"open", "ended", "broken"} /\ ~engine.followed
    /\ running' = TRUE /\ engine' = [engine EXCEPT !.followed = TRUE]
    /\ UNCHANGED <<log, memory, routable, handler, gate, window, sync, line, browserVars,
                   upset, slips>>

\* What may come between two appends of the engine.
Allowed == {"title", "goal", "model", "plan", "receipt", "run", "done"}
Intervened == \E i \in (engine.known + 1)..Len(log) : log[i].is \notin Allowed

Ends ==
    /\ engine.at = "open"
    /\ IF Intervened THEN engine' = [engine EXCEPT !.at = "broken"] /\ UNCHANGED log
       ELSE /\ log' = Append(log, Event("end", ""))
            /\ engine' = [engine EXCEPT !.at = "ended", !.known = Len(log) + 1]
    /\ UNCHANGED <<memory, running, routable, handler, gate, window, sync, line, browserVars,
                   upset, slips>>

\* The end of drive_session: what the turn left is projected before the session rests.
Rest ==
    /\ running /\ engine.at \in {"ended", "broken"}
    /\ memory.cursor >= engine.known /\ sync[Driver].at = "off"
    /\ running' = FALSE
    /\ UNCHANGED <<log, memory, routable, handler, gate, window, sync, engine, line,
                   browserVars, upset, slips>>

-----------------------------------------------------------------------------
(* The browser *)

Subscribe ==
    /\ line.at = "down"
    /\ line' = [at |-> "subscribed", feed |-> <<>>]
    /\ UNCHANGED <<log, memory, running, routable, handler, gate, window, sync, engine,
                   browserVars, upset, slips>>

\* What was pushed since the subscription follows the baseline.
Baseline ==
    /\ line.at = "subscribed"
    /\ line' = [at |-> "up", feed |-> <<[is |-> "subscribed", seq |-> memory.cursor]>> \o line.feed]
    /\ UNCHANGED <<log, memory, running, routable, handler, gate, window, sync, engine,
                   browserVars, upset, slips>>

Open ==
    /\ line.at = "up" /\ page.at = "cold" /\ reader.at = "off"
    /\ page' = [page EXCEPT !.at = "loading"] /\ reader' = [reader EXCEPT !.at = "sync"]
    /\ UNCHANGED <<log, memory, running, routable, handler, gate, window, sync, engine, line,
                   rows, upset, slips>>

\* session_history, after its sync: a second cut, and then the values in memory.
LoadPage ==
    /\ reader.at = "load"
    /\ reader' = [reader EXCEPT !.at = "values", !.asOf = Len(log)]
    /\ UNCHANGED <<log, memory, running, routable, handler, gate, window, sync, engine, line,
                   rows, page, upset, slips>>

ReadValues ==
    /\ reader.at = "values"
    /\ reader' = [reader EXCEPT !.at = "back", !.values = memory.cursor]
    /\ UNCHANGED <<log, memory, running, routable, handler, gate, window, sync, engine, line,
                   rows, page, upset, slips>>

\* A row gives way to a later sequence only.
Applied(row, says, seq) == IF seq > row.seq THEN [says |-> says, seq |-> seq] ELSE row

\* Mutant: what arrived while the page loaded is forgotten.
StitchesNone(tail, later) == [tail |-> tail, hole |-> FALSE]

Stitched(tail, later) ==
    [tail |-> Max({tail} \union ToSet(later)),
     hole |-> \E seq \in ToSet(later) : \E gap \in (tail + 1)..seq : gap \notin ToSet(later)]

Install ==
    /\ reader.at = "back"
    /\ LET stitched == Stitched(reader.asOf, page.later)
           short == page.at = "loading" /\ ~page.again /\ page.baseline > stitched.tail
       IN /\ rows' = [key \in Keys |->
                        Applied(rows[key], Shown(key, reader.values), reader.asOf)]
          /\ page' = [page EXCEPT !.at = IF short THEN "loading" ELSE "open",
                                  !.again = short, !.later = <<>>,
                                  !.tail = stitched.tail, !.hole = stitched.hole]
          /\ reader' = [Unread EXCEPT !.at = IF short THEN "sync" ELSE "off"]
          /\ upset' = upset \union (IF reader.values < reader.asOf THEN {"mixed"} ELSE {})
    /\ UNCHANGED <<log, memory, running, routable, handler, gate, window, sync, engine, line,
                   slips>>

\* acceptLiveEvent
Accept(seq) ==
    CASE page.at \in {"loading", "repair"} ->
           page' = [page EXCEPT !.later = Append(@, seq)] /\ UNCHANGED reader
      [] page.at = "open" /\ page.tail # 0 /\ seq > page.tail + 1 ->
           /\ page' = [page EXCEPT !.at = "repair", !.later = Append(@, seq)]
           /\ reader' = [reader EXCEPT !.at = "sync"]
      [] page.at = "open" /\ (page.tail = 0 \/ seq <= page.tail + 1) ->
           page' = [page EXCEPT !.tail = Max({@, seq})] /\ UNCHANGED reader
      [] OTHER -> UNCHANGED <<page, reader>>

\* A baseline drops the rows past it and then brings a projection of every key.
Rebased(key, seq) ==
    Applied(IF rows[key].seq <= seq THEN rows[key] ELSE [says |-> Blank(key), seq |-> 0],
            Shown(key, seq), seq)

Deliver ==
    /\ line.at = "up" /\ line.feed # <<>>
    /\ line' = [line EXCEPT !.feed = Tail(@)]
    /\ LET frame == Head(line.feed)
       IN CASE frame.is = "event" ->
                 /\ Accept(frame.seq)
                 /\ rows' = IF log[frame.seq].is # "end" THEN rows
                            ELSE [rows EXCEPT !["usage"] =
                                    Applied(@, Shown("usage", frame.seq), frame.seq)]
            [] frame.is = "projection" ->
                 /\ rows' = [rows EXCEPT ![frame.key] = Applied(@, frame.says, frame.seq)]
                 /\ UNCHANGED <<page, reader>>
            [] OTHER ->
                 /\ rows' = [key \in Keys |-> Rebased(key, frame.seq)]
                 /\ page' = [page EXCEPT !.baseline = frame.seq] /\ UNCHANGED reader
    /\ UNCHANGED <<log, memory, running, routable, handler, gate, window, sync, engine, upset,
                   slips>>

\* The window is rebuilt on the next connection; the rows stay.
Gone ==
    /\ line' = [line EXCEPT !.at = IF @ = "absent" THEN @ ELSE "down", !.feed = <<>>]
    /\ page' = Closed /\ reader' = Unread
    /\ UNCHANGED rows

Disconnect ==
    /\ line.at \notin {"down", "absent"} /\ sync[Browser].at # "announce" /\ Slip
    /\ Gone
    /\ sync' = [sync EXCEPT ![Browser] = Synced]
    /\ window' = IF window = Browser THEN Free ELSE window
    /\ UNCHANGED <<log, memory, running, routable, handler, gate, engine, upset>>

\* The host's memory is folded from the log again; recovery has closed the turn.
Restart ==
    /\ Slip /\ Gone
    /\ log' = IF engine.at \in {"open", "broken"} THEN Append(log, Event("end", "")) ELSE log
    /\ memory' = [cursor |-> Len(log'), receipts |-> Restored(Len(log))]
    /\ running' = FALSE
    /\ handler' = [h \in Handlers |-> IF handler[h].at \in {"idle", "ok", "error", "lost"}
                                      THEN handler[h] ELSE [handler[h] EXCEPT !.at = "lost"]]
    /\ gate' = Free /\ window' = Free
    /\ sync' = [p \in Readers |-> Synced]
    /\ engine' = IF engine.at \in {"idle", "asked"} THEN [engine EXCEPT !.at = "idle"]
                 ELSE [engine EXCEPT !.at = "ended", !.followed = TRUE]
    /\ upset' = upset \ {"unannounced"}
    /\ UNCHANGED routable

ViewNext ==
    \/ \E p \in Readers : LoadLog(p) \/ NothingNew(p) \/ Project(p) \/ Announce(p)
    \/ \E h \in Handlers : \/ \E ask \in Asks[h] : Admit(h, ask)
                           \/ Decide(h) \/ AppendBatch(h) \/ SessionNotFlushed(h) \/ Replied(h) \/ Choose(h) \/ ChoiceShown(h) \/ Said(h)
                           \/ DropHandler(h)
    \/ Reroute
    \/ Prompted \/ StartTurn \/ Reminded \/ Follow \/ Ends \/ Rest
    \/ Subscribe \/ Baseline \/ Open \/ LoadPage \/ ReadValues \/ Install \/ Deliver
    \/ Disconnect \/ Restart
ViewSpec == (\E watched \in BOOLEAN, asking \in SUBSET Handlers : ViewInit(watched, asking)) /\ [][ViewNext]_viewVars

-----------------------------------------------------------------------------
(* Properties *)

Resting ==
    /\ line.at = "up" /\ line.feed = <<>> /\ page.at = "open" /\ reader.at = "off"
    /\ \A h \in Handlers : handler[h].at \in {"idle", "ok", "error", "lost"}
    /\ ~running /\ engine.at \in {"idle", "ended"}
    /\ memory.cursor = Len(log)

Shows == /\ page.tail = Len(log) /\ ~page.hole
         /\ \A key \in Keys : rows[key].says = Shown(key, Len(log))

\* Once everything has come to rest, a connected browser shows the whole log and the
\* values of its last events; unless a request died between its append and the
\* announcement of its projection.
ShowsTheLog == Resting /\ "unannounced" \notin upset => Shows

\* It does so too unless a history reply paired old values with a newer sequence.
ShowsTheLogUnlessMixed == "mixed" \notin upset => ShowsTheLog

\* Whatever reads the log, and when, each event is announced once and in its place.
AnnouncedInOrder ==
    \A i, j \in DOMAIN line.feed :
        /\ i < j /\ line.feed[i].is = "event" /\ line.feed[j].is = "event"
        /\ \A k \in (i + 1)..(j - 1) : line.feed[k].is # "event"
        => line.feed[j].seq = line.feed[i].seq + 1

\* A request repeated under its id, by whatever failed in between, gets the reply the
\* first one got; unless the turn appended before the first could read its sequence.
RepeatsAgree ==
    "overtaken" \notin upset =>
        \A g, h \in Handlers : At(g, "ok") /\ At(h, "ok") /\ handler[g].ask = handler[h].ask
                                 => handler[g].told = handler[h].told

\* What the handlers let through, the validator accepts: they have seen the goal and the
\* receipts it will see.
NeverRefused == "refused" \notin upset

\* No preset or policy lands inside a turn, save one of a reminder not followed yet.
PoliciesWait ==
    \A i \in DOMAIN log : log[i].is \in {"preset", "policy"} =>
        \A s \in 1..(i - 1) : log[s].is = "start" =>
            \/ \E e \in s..i : log[e].is = "end"
            \/ log[s].says = "idle"

\* What the session's commands promise to whoever repeats them, to the validator and
\* to the turn beside them.
CommandsKept == RepeatsAgree /\ NeverRefused /\ PoliciesWait
=============================================================================
