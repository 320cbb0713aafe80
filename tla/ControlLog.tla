----------------------------- MODULE ControlLog -----------------------------
(***************************************************************************)
(* The workspace control log (crates/xharness-control): a file of batches, *)
(* one per committed mutation, appended by compare and swap on the number  *)
(* of batches.  A process lock and a file lock make load, append and flush *)
(* atomic between the hosts that share the directory; a crash, a write     *)
(* error and a power failure are not so polite.                            *)
(***************************************************************************)
EXTENDS Integers, Sequences, SequencesExt, FiniteSets

CONSTANTS
  Requests,   \* RPC ids; a workspace is named by the request that created it
  Own,        \* the ids of the workspaces hosts make for themselves, in order
  NONE

VARIABLES
  head,       \* the header line: "none" (no file), "torn", "written"
  file,       \* the batches a load accepts; half a record after them is skipped
              \* by a load and cut off by the next append, and a last record
              \* without its newline is accepted and gets it from the next one
  synced      \* how many batches a power failure cannot take

storeVars == <<head, file, synced>>

Workspaces == Requests \cup ToSet(Own)

\* What a load folds the batches to.  A batch holds its state events as a set:
\* no two are about the same thing, so their order does not matter.
Nothing == [path |-> [w \in Workspaces |-> NONE], removed |-> {}, order |-> <<>>,
            archived |-> {}, settings |-> 0]

Folded(p, events) ==
  [path |-> IF \E e \in events : e.type = "defined"
              THEN LET d == CHOOSE e \in events : e.type = "defined"
                   IN  [p.path EXCEPT ![d.ws] = d.path]
            ELSE IF \E e \in events : e.type = "removed"
              THEN [p.path EXCEPT ![(CHOOSE e \in events : e.type = "removed").ws] = NONE]
            ELSE p.path,
   removed |-> {w \in Workspaces : \/ \E e \in events : e.type = "removed" /\ e.ws = w
                                   \/ /\ w \in p.removed
                                      /\ \A e \in events : ~(e.type = "defined" /\ e.ws = w)},
   order |-> IF \E e \in events : e.type = "order"
               THEN (CHOOSE e \in events : e.type = "order").ids ELSE p.order,
   archived |-> IF \E e \in events : e.type = "archived"
               THEN (CHOOSE e \in events : e.type = "archived").ids ELSE p.archived,
   settings |-> IF \E e \in events : e.type = "settings"
               THEN (CHOOSE e \in events : e.type = "settings").revision ELSE p.settings]

ProjectionAt(batches, n) ==
  LET P[i \in 0..n] == IF i = 0 THEN Nothing ELSE Folded(P[i - 1], batches[i].events)
  IN  P[n]
Projection(batches) == ProjectionAt(batches, Len(batches))

\* What the projection refuses, event by event: a changed identity, a path
\* used twice, an order with a repeated id, a settings revision out of step.
Accepts(p, e) ==
  CASE e.type = "defined"  -> /\ p.path[e.ws] \in {NONE, e.path}
                              /\ \A w \in Workspaces \ {e.ws} : p.path[w] # e.path
    [] e.type = "order"    -> IsInjective(e.ids)
    [] e.type = "settings" -> e.revision = p.settings + 1
    [] OTHER               -> TRUE

\* A log that was valid stays so with one more batch.
ValidNext(batches, batch) ==
  /\ \A i \in DOMAIN batches : batches[i].rpc # batch.rpc
  /\ \A e \in batch.events : Accepts(Projection(batches), e)

Readable == head # "torn"

\* An append that the compare and swap lets through.
Write(batch) == head' = "written" /\ file' = Append(file, batch) /\ UNCHANGED synced

\* A write that ends early leaves the record without its newline or nothing of
\* it that counts.
Partial(batch) ==
  \/ Write(batch)
  \/ head' = "written" /\ UNCHANGED <<file, synced>>

\* A header that was not written: the file is removed when the write fails,
\* and stays, empty or cut, when the process dies.
HeaderCut == head = "none" /\ head' = "torn" /\ UNCHANGED <<file, synced>>

\* Mutant: a flush that syncs the directory only.
SyncDirectory == UNCHANGED storeVars

Sync == synced' = Len(file) /\ UNCHANGED <<head, file>>

\* The header is synced before the first batch; later batches only by a flush.
LoseUnsynced ==
  \E k \in synced..Len(file) : file' = SubSeq(file, 1, k) /\ UNCHANGED <<head, synced>>

StoreInit == head = "none" /\ file = <<>> /\ synced = 0
=============================================================================
