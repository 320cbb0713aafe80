----------------------------- MODULE HostControl -----------------------------
(***************************************************************************)
(* The mutations of the workspace control log as a host performs them      *)
(* (crates/xharness-host/src/control.rs and the handlers of rpc.rs):       *)
(* under the control gate a request is answered from its receipt, or       *)
(* validated against memory, appended at memory's revision, flushed, and   *)
(* read back.  Clients repeat a request whose answer they did not get;     *)
(* a host drops the handler of a client that went away; hosts and the      *)
(* machine fail.                                                           *)
(***************************************************************************)
EXTENDS ControlLog

CONSTANTS
  Hosts,      \* host processes over one directory
  Cwd,        \* host -> the directory it is started in, or NONE
  Default,    \* "workspace-default", the one of Own that stands for it
  Strays,     \* directories of restored sessions that a workspace may not hold
  Payloads,   \* request -> the payloads a client may send under its id
  MaxFaults   \* bounds dropped handlers, write errors and crashes

\* A payload names its operation and what that operation is about; a workspace
\* nobody created is not there, like one that was deleted.
ASSUME HostControlAssumption ==
  /\ NONE \notin Workspaces /\ MaxFaults \in Nat
  /\ Own \in Seq(ToSet(Own)) /\ Default \in ToSet(Own) /\ Requests \cap ToSet(Own) = {}
  /\ \A r \in Requests : \A m \in Payloads[r] :
       /\ m.op \in {"create", "rename", "delete", "move", "place", "archive", "update", "replace"}
       /\ m.op = "create" => m.path # NONE
       /\ m.op \in {"rename", "delete", "move", "place"} => m.ws \in Workspaces
       /\ m.op = "move" => m.before \in Workspaces \cup {NONE}

VARIABLES
  up,         \* the hosts that serve requests
  revision,   \* host -> control_revision
  memory,     \* host -> the workspaces it holds, with that much of the log applied
  router,     \* host -> the settings revision its model registry was built from
  call,       \* host -> the mutation that holds the control gate
  answers,    \* what clients were told, errors left out: [rpc, how, at]
  faults

hostVars == <<up, revision, memory, router, call, answers, faults>>
vars == <<storeVars, hostVars>>

Idle == [step |-> "idle"]

\* The members of S that a list has, in the order it names them first.
Listed(list, S) ==
  LET kept[i \in 0..Len(list)] ==
        IF i = 0 THEN <<>>
        ELSE IF list[i] \in S /\ \A j \in 1..(i - 1) : list[j] # list[i]
               THEN Append(kept[i - 1], list[i]) ELSE kept[i - 1]
  IN  kept[Len(list)]

\* apply_control_projection: what the log has or has removed is as the log
\* says, what else memory held stays; the log's order goes first, then memory's.
Merged(p, q) ==
  LET path == [w \in Workspaces |->
                 IF p.path[w] # NONE \/ w \in p.removed THEN p.path[w] ELSE q.path[w]]
  IN  [path |-> path, archived |-> p.archived, settings |-> p.settings,
       order |-> Listed(p.order \o q.order \o Own, {w \in Workspaces : path[w] # NONE})]

\* HostState::new: a workspace for the directory the host is started in.
Fresh(h) ==
  [path |-> [w \in Workspaces |-> IF w = Default THEN Cwd[h] ELSE NONE], order |-> <<>>]

\* attach_workspace: one for a restored session whose directory none in memory
\* has, under an id that memory does not have.
Attached(q) ==
  LET free == {w \in ToSet(Own) : q.path[w] = NONE}
      homeless == Strays \ {q.path[w] : w \in Workspaces}
  IN  {[q EXCEPT !.path = [w \in Workspaces |-> IF w \in DOMAIN new THEN new[w] ELSE q.path[w]]] :
         new \in {f \in UNION {[D -> homeless] : D \in SUBSET free} : IsInjective(f)}}

\* What a host that starts holds: the log is applied before and after its
\* sessions are restored.
Booted(h, p) ==
  UNION {{Merged(p, q) : q \in Attached(restored)} : restored \in {Merged(p, Fresh(h))}}

Answered(r, how, at) == answers' = answers \cup {[rpc |-> r, how |-> how, at |-> at]}
Releases(h) == call' = [call EXCEPT ![h] = Idle]
Settled(r) == \E a \in answers : a.rpc = r

\* What each handler makes of a payload and of memory: whether it refuses, and
\* the state events it would commit.  A directory that is a workspace already
\* commits its receipt alone.
Exists(p, w) == p.path[w] # NONE
Without(order, w) == Listed(order, Workspaces \ {w})
Before(order, w, anchor) ==
  LET rest == Without(order, w)
  IN  IF anchor \in ToSet(rest) THEN InsertAt(rest, CHOOSE i \in DOMAIN rest : rest[i] = anchor, w)
      ELSE Append(rest, w)

Defined(w, path) == [type |-> "defined", ws |-> w, path |-> path]
Ordered(ids) == [type |-> "order", ids |-> ids]

WorkspaceCreate(p, r, m) ==
  [refuses |-> FALSE,
   events |-> IF \E w \in Workspaces : p.path[w] = m.path THEN {}
              ELSE {Defined(r, m.path), Ordered(Append(p.order, r))}]

WorkspaceRename(p, m) ==
  [refuses |-> ~Exists(p, m.ws), events |-> {Defined(m.ws, p.path[m.ws])}]

WorkspaceDelete(p, m) ==
  [refuses |-> ~Exists(p, m.ws),
   events |-> {[type |-> "removed", ws |-> m.ws], Ordered(Without(p.order, m.ws))}]

WorkspaceInsertBefore(p, m) ==
  LET refuses == \/ ~Exists(p, m.ws)
                 \/ m.before # NONE /\ (m.before = m.ws \/ ~Exists(p, m.before))
  IN  [refuses |-> refuses,
       events |-> IF refuses THEN {} ELSE {Ordered(Before(p.order, m.ws, m.before))}]

\* The order of sessions inside a workspace is part of its definition.
WorkspaceInsertSessionBefore(p, m) == WorkspaceRename(p, m)

WorkspaceArchiveSession(p, m) ==
  [refuses |-> FALSE, events |-> {[type |-> "archived", ids |-> p.archived \cup {m.session}]}]

SettingsUpdate(p, m) ==
  [refuses |-> m.expected \notin {NONE, p.settings},
   events |-> {[type |-> "settings", revision |-> p.settings + 1]}]
SettingsReplace(p, m) == SettingsUpdate(p, m)

Handles(p, r, m) ==
  CASE m.op = "create"  -> WorkspaceCreate(p, r, m)
    [] m.op = "rename"  -> WorkspaceRename(p, m)
    [] m.op = "delete"  -> WorkspaceDelete(p, m)
    [] m.op = "move"    -> WorkspaceInsertBefore(p, m)
    [] m.op = "place"   -> WorkspaceInsertSessionBefore(p, m)
    [] m.op = "archive" -> WorkspaceArchiveSession(p, m)
    [] m.op = "update"  -> SettingsUpdate(p, m)
    [] m.op = "replace" -> SettingsReplace(p, m)

\* The receipt memory holds for a request, if any.
Receipts(r, n) == {i \in 1..n : file[i].rpc = r}

\* A client sends a request it has no answer to, to any host that serves; the
\* handler takes the gate (nothing it read before matters).  The receipt in
\* memory answers it, the payload is refused, or a batch is made for the
\* revision memory is at.
Arrives(h, r, m) ==
  /\ h \in up /\ m \in Payloads[r] /\ ~Settled(r)
  /\ call[h] = Idle /\ \A g \in Hosts : call[g] # Idle => call[g].rpc # r
  /\ UNCHANGED <<storeVars, up, revision, memory, router, faults>>

Replay(h, r, m) ==
  /\ Arrives(h, r, m)
  /\ \E i \in Receipts(r, revision[h]) :
       Answered(r, IF file[i].payload = m THEN "replayed" ELSE "conflict", i)
  /\ UNCHANGED call

Refuse(h, r, m) ==
  /\ Arrives(h, r, m)
  /\ Receipts(r, revision[h]) = {} /\ Handles(memory[h], r, m).refuses
  /\ Answered(r, "refused", 0)
  /\ UNCHANGED call

Prepare(h, r, m) ==
  /\ Arrives(h, r, m)
  /\ Receipts(r, revision[h]) = {} /\ ~Handles(memory[h], r, m).refuses
  /\ call' = [call EXCEPT ![h] =
       [step |-> "append", rpc |-> r, expected |-> revision[h],
        batch |-> [rpc |-> r, payload |-> m, events |-> Handles(memory[h], r, m).events]]]
  /\ UNCHANGED answers

At(h, step) == h \in up /\ call[h].step = step
Goes(h, step) == call' = [call EXCEPT ![h].step = step]
Fault == faults < MaxFaults /\ faults' = faults + 1
Fails(h) == Releases(h) /\ UNCHANGED answers   \* an error: the client may try again

\* append: the compare and swap on the revision, then the log's own checks.
Current(h) == call[h].expected = Len(file)
Lands(h) == Readable /\ Current(h) /\ ValidNext(file, call[h].batch)

AppendBatch(h) ==
  /\ At(h, "append") /\ Lands(h)
  /\ Write(call[h].batch)
  /\ Goes(h, "flush")
  /\ UNCHANGED <<up, revision, memory, router, answers, faults>>

AppendConflicts(h) ==
  /\ At(h, "append") /\ Readable /\ ~Current(h)
  /\ Goes(h, "reread")
  /\ UNCHANGED <<storeVars, up, revision, memory, router, answers, faults>>

\* What the log's own validation refuses it refuses again: that is an answer.
AppendRefused(h) ==
  /\ At(h, "append")
  /\ \/ ~Readable /\ UNCHANGED answers
     \/ /\ Readable /\ Current(h) /\ ~ValidNext(file, call[h].batch)
        /\ Answered(call[h].rpc, "refused", 0)
  /\ Releases(h)
  /\ UNCHANGED <<storeVars, up, revision, memory, router, faults>>

AppendFails(h) ==
  /\ At(h, "append") /\ Readable /\ Current(h) /\ Fault
  /\ (Lands(h) /\ Partial(call[h].batch)) \/ UNCHANGED storeVars
  /\ Fails(h)
  /\ UNCHANGED <<up, revision, memory, router>>

\* flush: the barrier, and the check that nobody appended in between.
Flush(h) ==
  /\ At(h, "flush") /\ Readable
  /\ Sync
  /\ IF Len(file) = call[h].expected + 1
       THEN Goes(h, "reload") /\ UNCHANGED answers
       ELSE Fails(h)
  /\ UNCHANGED <<up, revision, memory, router, faults>>

FlushFails(h) ==
  /\ At(h, "flush") /\ Fault
  /\ Fails(h)
  /\ UNCHANGED <<storeVars, up, revision, memory, router>>

\* The registry a settings change prepared is activated, other mutations leave
\* it; what another host changed is in memory but not in it.
Activated(h) ==
  LET changed == {e \in call[h].batch.events : e.type = "settings"}
  IN  IF changed = {} THEN router[h] ELSE (CHOOSE e \in changed : TRUE).revision

\* reload_control_projection: the log is read back and applied.
Rereads(h) ==
  /\ revision' = [revision EXCEPT ![h] = Len(file)]
  /\ \E p \in {Projection(file)} : memory' = [memory EXCEPT ![h] = Merged(p, memory[h])]

\* The projection is read back, the registry prepared for new settings is
\* activated, and the client is told.
Reload(h) ==
  /\ At(h, "reload") /\ Readable
  /\ Rereads(h)
  /\ router' = [router EXCEPT ![h] = Activated(h)]
  /\ Answered(call[h].rpc, "committed", call[h].expected + 1)
  /\ Releases(h)
  /\ UNCHANGED <<storeVars, up, faults>>

\* Mutant: a lost race is an error and memory is left as it was.
GivesUp(h) ==
  /\ At(h, "reread") /\ Readable
  /\ Fails(h)
  /\ UNCHANGED <<storeVars, up, revision, memory, router, faults>>

\* After a lost race the projection is read back and only this request's own
\* receipt counts as success; nothing is flushed and no registry activated.
Reread(h) ==
  /\ At(h, "reread") /\ Readable
  /\ Rereads(h)
  /\ LET r == call[h].rpc
         found == Receipts(r, Len(file))
         same == {i \in found : file[i].payload = call[h].batch.payload}
     IN  \E i \in IF found = {} THEN {0} ELSE found :
           Answered(r, IF i \in same THEN "replayed" ELSE "conflict", i)
  /\ Releases(h)
  /\ UNCHANGED <<storeVars, up, router, faults>>

\* The client goes away, and with it the handler's future: whatever blocking
\* step runs still ends, nothing after it does.
DropHandler(h) ==
  /\ h \in up /\ call[h] # Idle /\ Fault
  /\ Releases(h)
  /\ UNCHANGED <<storeVars, up, revision, memory, router, answers>>

\* A host process dies, maybe in the middle of its append; the machine loses
\* power; a host starts, unless it cannot read the log.
Forgets(down) ==
  /\ up' = up \ down
  /\ call' = [h \in Hosts |-> IF h \in down THEN Idle ELSE call[h]]
  /\ UNCHANGED <<revision, memory, router, answers>>

Crash(h) ==
  /\ h \in up /\ Fault /\ Forgets({h})
  /\ \/ UNCHANGED storeVars
     \/ /\ call[h].step = "append" /\ Readable /\ Current(h)
        /\ HeaderCut \/ (Lands(h) /\ Partial(call[h].batch))

PowerFails == Fault /\ Forgets(Hosts) /\ LoseUnsynced

Start(h) ==
  /\ h \notin up /\ Readable
  /\ up' = up \cup {h}
  /\ revision' = [revision EXCEPT ![h] = Len(file)]
  /\ \E p \in {Projection(file)} : \E q \in Booted(h, p) : memory' = [memory EXCEPT ![h] = q]
  /\ router' = [router EXCEPT ![h] = Projection(file).settings]
  /\ UNCHANGED <<storeVars, call, answers, faults>>

Init ==
  /\ StoreInit
  /\ up = Hosts
  /\ memory \in [Hosts -> UNION {Booted(h, Nothing) : h \in Hosts}]
  /\ \A h \in Hosts : memory[h] \in Booted(h, Nothing)
  /\ revision = [h \in Hosts |-> 0] /\ router = [h \in Hosts |-> 0]
  /\ call = [h \in Hosts |-> Idle]
  /\ answers = {} /\ faults = 0

Serves(h) ==
  \/ AppendBatch(h) \/ AppendConflicts(h) \/ AppendRefused(h)
  \/ Flush(h) \/ Reload(h) \/ Reread(h)

ClientSends(r) == \E h \in Hosts, m \in Payloads[r] :
              Replay(h, r, m) \/ Refuse(h, r, m) \/ Prepare(h, r, m)

Next ==
  \/ \E r \in Requests : ClientSends(r)
  \/ \E h \in Hosts : Serves(h) \/ AppendFails(h) \/ FlushFails(h) \/ DropHandler(h)
                      \/ Crash(h) \/ Start(h)
  \/ PowerFails

Spec == Init /\ [][Next]_vars

\* The hosts go on with what they serve and are started again, and clients
\* repeat what they were not answered; nothing says whose turn it is.
HostsGoOn == \E h \in Hosts : Serves(h) \/ Start(h)
ClientsRepeat == \E r \in Requests : ClientSends(r)
FairSpec == Spec /\ WF_vars(HostsGoOn) /\ WF_vars(ClientsRepeat)

-----------------------------------------------------------------------------
\* Every variable has its type, and no host remembers more than the log has.
ControlTypeOK ==
  /\ head \in {"none", "torn", "written"}
  /\ synced \in 0..Len(file) /\ (head # "written" => file = <<>>)
  /\ \A i \in DOMAIN file : file[i].rpc \in Requests /\ file[i].payload \in Payloads[file[i].rpc]
  /\ up \subseteq Hosts /\ faults \in 0..MaxFaults
  /\ \A h \in Hosts : /\ call[h].step \in {"idle", "append", "flush", "reload", "reread"}
                      /\ h \in up => revision[h] \in 0..Len(file)
  /\ \A a \in answers : a.how \in {"committed", "replayed", "conflict", "refused"}

\* A host that told a client its mutation is committed had it on the disk: no
\* crash, power failure or other host's append ever takes it out of the log.
CommittedStays ==
  \A a \in answers : a.how = "committed" => a.at <= synced /\ file[a.at].rpc = a.rpc

\* A workspace a host made for itself that the log does not have, under a path
\* the log has given to another: defining it (a rename, an order of its
\* sessions) is what memory allows and the log does not.
Clashes(p, events) ==
  \E e \in events : /\ e.type = "defined" /\ e.ws \in ToSet(Own) /\ p.path[e.ws] = NONE
                     /\ \E w \in Workspaces : p.path[w] = e.path

\* The compare and swap leaves the log's own validation nothing to refuse but
\* that: what was validated against memory, however old and whatever the host
\* added to it, is valid wherever it may land.
SwapSuffices ==
  \A h \in up : At(h, "append") /\ Current(h) =>
     \/ ValidNext(file, call[h].batch)
     \/ Clashes(Projection(file), call[h].batch.events)

\* The control log keeps what was committed, by two processes that validated
\* against memories of different age and with workspaces of their own.
ControlKept == ControlTypeOK /\ CommittedStays /\ SwapSuffices

\* A client that repeats its request is answered in the end, whatever was
\* dropped or crashed before, unless the header itself was cut.
RepeatsAreAnswered == <>(~Readable \/ \A r \in Requests : Settled(r))

\* docs/specs/control-store.md: only after flush() completes does the host
\* return success.
SuccessIsFlushed ==
  \A a \in answers : a.how \in {"committed", "replayed"} => a.at <= synced
=============================================================================
