------------------------------- MODULE JsonlStore -------------------------------
(***************************************************************************)
(* One session file of the JSONL store (xharness-session-jsonl): a header  *)
(* line, then one line per append batch.  Store handles of several         *)
(* processes share it under an advisory lock, each with a snapshot cache.  *)
(* A write may stop half way (error, killed process), and a power loss     *)
(* takes whatever was never synced.                                        *)
(*                                                                         *)
(* Bytes are abstracted to whole lines and the state of the end of the     *)
(* file: "ended" by a newline, "bare" (a whole record, no newline yet) or  *)
(* "torn" (part of a record after the last newline).  A fingerprint is     *)
(* taken to tell any two contents of the file apart.                       *)
(***************************************************************************)
EXTENDS Naturals, Sequences

CONSTANTS
    Handles,        \* store handles, each in a process of its own
    Nobody,         \* the lock is free
    MaxAppends,     \* bound on append attempts that pass the revision check
    MaxLosses       \* bound on power losses

ASSUME StoreAssumption ==
    /\ Nobody \notin Handles
    /\ MaxAppends \in Nat
    /\ MaxLosses \in Nat

VARIABLES
    file,           \* the file as readers see it: [exists, lines, tail]
    disk,           \* what a power loss certainly leaves of it
    lock,           \* holder of the advisory lock
    op,             \* each handle's place in create() or append()
    loaded,         \* the snapshot its append works from
    cache,          \* each handle's cached snapshot and its fingerprint
    view,           \* batches each handle's caller has been shown
    created,        \* create() has returned the session
    acked,          \* acknowledged appends, [batch, at, boot]
    flushed,        \* batches the last successful flush covered
    tries, losses   \* append attempts and power losses so far

promises == <<created, acked, flushed>>
storeVars == <<file, disk, lock, op, loaded, cache, view, promises, tries, losses>>

Header  == [kind |-> "header", prev |-> 0, batch |-> 0]
Garbage == [kind |-> "garbage", prev |-> 0, batch |-> 0]
Batch(b, rev) == [kind |-> "batch", prev |-> rev, batch |-> b]
Record  == [kind : {"header", "garbage", "batch"}, prev : Nat, batch : Nat]
Files   == [exists : BOOLEAN, lines : Seq(Record), tail : {"ended", "bare", "torn"}]

Absent  == [exists |-> FALSE, lines |-> <<>>, tail |-> "ended"]
NoCache == [for |-> Absent, lines |-> <<>>, bare |-> FALSE]

StoreTypeOK ==
    /\ file \in Files /\ disk \in Files
    /\ lock \in Handles \cup {Nobody}
    /\ op \in [Handles -> {"idle", "header", "repair", "separate", "write"}]
    /\ \A h \in Handles : op[h] # "idle" <=> lock = h
    /\ loaded \in [Handles -> [lines : Seq(Record), bare : BOOLEAN]]
    /\ cache \in [Handles -> [for : Files, lines : Seq(Record), bare : BOOLEAN]]
    /\ view \in [Handles -> Seq(1..MaxAppends)]
    /\ created \in BOOLEAN
    /\ acked \subseteq [batch : 1..MaxAppends, at : Nat, boot : Nat]
    /\ flushed \in Seq(1..MaxAppends)
    /\ tries \in 0..MaxAppends /\ losses \in 0..MaxLosses

Nothing == [lines |-> <<>>, bare |-> FALSE]

StoreInit ==
    /\ file = Absent /\ disk = Absent /\ lock = Nobody
    /\ op = [h \in Handles |-> "idle"]
    /\ loaded = [h \in Handles |-> Nothing]
    /\ cache = [h \in Handles |-> NoCache]
    /\ view = [h \in Handles |-> <<>>]
    /\ created = FALSE /\ acked = {} /\ flushed = <<>>
    /\ tries = 0 /\ losses = 0

--------------------------------------------------------------------------------
(* Reading the file *)

\* parse_file accepts: a header, then batches of continuous revisions.  An
\* unfinished last line is dropped, a whole one without newline is kept.
Readable(f) ==
    /\ f.exists /\ f.lines # <<>>
    /\ f.lines[1] = Header
    /\ \A i \in 2..Len(f.lines) : f.lines[i].kind = "batch" /\ f.lines[i].prev = i - 2

Parse(f) == [lines |-> f.lines, bare |-> f.tail = "bare"]

\* bug: a snapshot is used whatever became of the file
AnySnapshot(h) ==
    IF cache[h].for.exists
    THEN [lines |-> cache[h].lines, bare |-> cache[h].bare]
    ELSE Parse(file)

\* load_file_cached / take_file_cached: the snapshot if its fingerprint is
\* the file's, otherwise the parsed file.
Snapshot(h) ==
    IF cache[h].for = file
    THEN [lines |-> cache[h].lines, bare |-> cache[h].bare]
    ELSE Parse(file)

Remember(h, f, l) == cache' = [cache EXCEPT ![h] = [for |-> f, lines |-> l.lines, bare |-> l.bare]]
Forget(h) == cache' = [cache EXCEPT ![h] = NoCache]

\* Batches of the lines ls; the revision is their number.
BatchesOf(ls) == [i \in 1..(Len(ls) - 1) |-> ls[i + 1].batch]

Log == IF Readable(file) THEN BatchesOf(file.lines) ELSE <<>>

(* Writing at its end *)

\* The file after the record r, or a part of it, is appended to f: "torn"
\* without its end, "bare" without its newline, "ended" all of it.  What
\* follows an unfinished line becomes part of that line.
Put(f, r, cut) ==
    LET base == IF f.tail = "bare" THEN SubSeq(f.lines, 1, Len(f.lines) - 1) ELSE f.lines
    IN  IF f.tail = "ended"
        THEN [exists |-> f.exists, lines |-> IF cut = "torn" THEN f.lines ELSE Append(f.lines, r),
              tail |-> cut]
        ELSE [exists |-> f.exists, lines |-> IF cut = "ended" THEN Append(base, Garbage) ELSE base,
              tail |-> IF cut = "ended" THEN "ended" ELSE "torn"]

NewBatch(h) == Batch(tries, Len(view[h]))

\* What an error or a kill in the middle of h's operation may leave.
Interrupted(h) ==
    LET cut(r) == {file} \cup {Put(file, r, c) : c \in {"torn", "bare", "ended"}}
    IN  IF op[h] = "header" THEN cut(Header)
        ELSE IF op[h] = "write" THEN cut(NewBatch(h))
        ELSE {file}

\* The operation of h ends.
Leave(h) ==
    /\ lock' = Nobody
    /\ op' = [op EXCEPT ![h] = "idle"]
    /\ loaded' = [loaded EXCEPT ![h] = Nothing]

--------------------------------------------------------------------------------
(* create() *)

\* Exclusive create: an existing file is left alone.
CreateFile(h) ==
    /\ lock = Nobody /\ ~file.exists
    /\ file' = [Absent EXCEPT !.exists = TRUE]
    /\ lock' = h /\ op' = [op EXCEPT ![h] = "header"]
    /\ UNCHANGED <<disk, loaded, cache, view, promises, tries, losses>>

\* The header is written and synced, then the directory.
CreateHeader(h) ==
    /\ op[h] = "header"
    /\ file' = Put(file, Header, "ended")
    /\ disk' = file'
    /\ Remember(h, file', Parse(file'))
    /\ view' = [view EXCEPT ![h] = <<>>]
    /\ created' = TRUE
    /\ Leave(h)
    /\ UNCHANGED <<acked, flushed, tries, losses>>

\* An error: the file is removed, if it can be; a failed sync of the
\* directory leaves a complete header behind.
CreateFails(h) ==
    /\ op[h] = "header"
    /\ \/ file' \in {Absent} \cup Interrupted(h) /\ UNCHANGED disk
       \/ file' = Put(file, Header, "ended") /\ disk' = file'
    /\ Leave(h)
    /\ UNCHANGED <<cache, view, promises, tries, losses>>

--------------------------------------------------------------------------------
(* load() and flush() *)

Load(h) ==
    /\ lock = Nobody /\ Readable(file)
    /\ view' = [view EXCEPT ![h] = BatchesOf(Snapshot(h).lines)]
    /\ Remember(h, file, Snapshot(h))
    /\ UNCHANGED <<file, disk, lock, op, loaded, promises, tries, losses>>

NoSync  == UNCHANGED disk   \* bug: the file is not synced
SyncAll == disk' = file

Flush(h) ==
    /\ lock = Nobody /\ Readable(file)
    /\ SyncAll
    /\ flushed' = BatchesOf(Snapshot(h).lines)
    /\ Remember(h, file, Snapshot(h))
    /\ UNCHANGED <<file, lock, op, loaded, view, created, acked, tries, losses>>

\* The sync failed, after or before it reached the disk; the cache is cold.
FlushFails(h) ==
    /\ lock = Nobody /\ Readable(file)
    /\ disk' \in {disk, file}
    /\ Forget(h)
    /\ UNCHANGED <<file, lock, op, loaded, view, promises, tries, losses>>

--------------------------------------------------------------------------------
(* append(), at the revision the caller was shown last *)

Expected(h) == Len(view[h])
Matches(h)  == Len(Snapshot(h).lines) - 1 = Expected(h)

AppendConflict(h) ==
    /\ lock = Nobody /\ Readable(file)
    /\ ~Matches(h)
    /\ Remember(h, file, Snapshot(h))
    /\ UNCHANGED <<file, disk, lock, op, loaded, view, promises, tries, losses>>

AppendBegin(h) ==
    /\ lock = Nobody /\ Readable(file)
    /\ Matches(h)
    /\ tries < MaxAppends
    /\ tries' = tries + 1
    /\ loaded' = [loaded EXCEPT ![h] = Snapshot(h)]
    /\ Forget(h)
    /\ lock' = h /\ op' = [op EXCEPT ![h] = "repair"]
    /\ UNCHANGED <<file, disk, view, promises, losses>>

\* truncate_torn_tail: back to the length of the accepted lines.
Truncated(l) == [exists |-> TRUE, lines |-> l.lines, tail |-> IF l.bare THEN "bare" ELSE "ended"]

AppendRepair(h) ==
    /\ op[h] = "repair"
    /\ file' = Truncated(loaded[h])
    /\ op' = [op EXCEPT ![h] = "separate"]
    /\ UNCHANGED <<disk, lock, loaded, cache, view, promises, tries, losses>>

AppendSeparate(h) ==
    /\ op[h] = "separate"
    /\ file' = IF loaded[h].bare THEN [file EXCEPT !.tail = "ended"] ELSE file
    /\ op' = [op EXCEPT ![h] = "write"]
    /\ UNCHANGED <<disk, lock, loaded, cache, view, promises, tries, losses>>

\* The whole line is written and the append acknowledged.  The file is
\* flushed to the operating system, not synced.
AppendWrite(h) ==
    /\ op[h] = "write"
    /\ file' = Put(file, NewBatch(h), "ended")
    /\ LET l == [lines |-> Append(loaded[h].lines, NewBatch(h)), bare |-> FALSE]
       IN  /\ Remember(h, file', l)
           /\ view' = [view EXCEPT ![h] = BatchesOf(l.lines)]
    /\ acked' = acked \cup {[batch |-> tries, at |-> Expected(h) + 1, boot |-> losses]}
    /\ Leave(h)
    /\ UNCHANGED <<disk, created, flushed, tries, losses>>

\* An error at any of the three writes.  The last one may have written a
\* part of the line, or all of it.
AppendFails(h) ==
    /\ op[h] \in {"repair", "separate", "write"}
    /\ file' \in Interrupted(h)
    /\ Leave(h)
    /\ UNCHANGED <<disk, cache, view, promises, tries, losses>>

--------------------------------------------------------------------------------
(* Processes and power *)

\* The process dies and restarts; the operating system keeps the file and
\* frees the lock.
Kill(h) ==
    /\ file' \in Interrupted(h)
    /\ lock' = IF lock = h THEN Nobody ELSE lock
    /\ op' = [op EXCEPT ![h] = "idle"]
    /\ loaded' = [loaded EXCEPT ![h] = Nothing]
    /\ Forget(h)
    /\ view' = [view EXCEPT ![h] = <<>>]
    /\ UNCHANGED <<disk, promises, tries, losses>>

\* What may be left: the synced file, or it and more of what was written
\* since, cut anywhere.
Survivors ==
    {disk} \cup
    {f \in {[exists |-> file.exists, lines |-> SubSeq(file.lines, 1, k), tail |-> t] :
               k \in Len(disk.lines)..Len(file.lines), t \in {"ended", "bare", "torn"}} :
       /\ f.lines = <<>> => f.tail # "bare"
       /\ ~f.exists => f.tail # "torn"
       /\ f.lines = disk.lines /\ disk.tail = "ended" => f.tail # "bare"
       /\ f.lines = file.lines => f.tail = file.tail \/ f.tail = "bare" \/ file.tail = "torn"}

PowerLoss ==
    /\ losses < MaxLosses
    /\ losses' = losses + 1
    /\ file' \in Survivors
    /\ disk' = file'
    /\ lock' = Nobody
    /\ op' = [h \in Handles |-> "idle"]
    /\ loaded' = [h \in Handles |-> Nothing]
    /\ cache' = [h \in Handles |-> NoCache]
    /\ view' = [h \in Handles |-> <<>>]
    /\ UNCHANGED <<promises, tries>>

HandleStep(h) ==
    \/ CreateFile(h) \/ CreateHeader(h) \/ CreateFails(h)
    \/ Load(h) \/ Flush(h) \/ FlushFails(h)
    \/ AppendConflict(h) \/ AppendBegin(h) \/ AppendRepair(h) \/ AppendSeparate(h)
    \/ AppendWrite(h) \/ AppendFails(h) \/ Kill(h)

StoreNext == PowerLoss \/ \E h \in Handles : HandleStep(h)

StoreSpec == StoreInit /\ [][StoreNext]_storeVars

--------------------------------------------------------------------------------
(* Properties *)

\* A session that create() returned can always be read again, however
\* writes were cut short: no torn tail ever ends up in the middle.
LogReadable == created => Readable(file)

\* Until power is lost, an acknowledged append stays at the revision it was
\* acknowledged at, whatever other processes append, repair or cache.  In
\* particular two processes cannot both win one revision.
AckedStays ==
    \A a \in acked : a.boot = losses => a.at \in DOMAIN Log /\ Log[a.at] = a.batch

\* The log grows by whole batches, each once, and a power loss never takes
\* one that a flush has acknowledged.
Abstract == INSTANCE AppendLog WITH
                Batches <- 1..MaxAppends, log <- Log, durable <- Len(flushed)
ImplementsAppendLog == Abstract!LogSpec

\* What the file keeps through cut writes, kills and other processes: it can be
\* read, and acknowledged batches are where they were acknowledged.
FileKept == StoreTypeOK /\ LogReadable /\ AckedStays
================================================================================
