------------------------------ MODULE FsService ------------------------------
(***************************************************************************)
(* xharness-fs: reads, writes and literal edits of workspace files, each   *)
(* a blocking operation that holds its target's lock, with the version     *)
(* check (compare-and-swap) that keeps a session from replacing what it    *)
(* has not observed.  A version stands for a file's metadata and digest.   *)
(* Targets, locks and observations belong to a service; the application    *)
(* builds one per working directory and permission preset, so two sessions *)
(* on one workspace may use two of them.                                   *)
(***************************************************************************)
EXTENDS Naturals, FiniteSets, Functions

CONSTANTS Calls,        \* callers of an operation, one each
          Files,        \* physical files
          Sessions,
          ServiceOf,    \* the service a session's tools use
          Outsider,     \* a process that does not go through any service
          Absent, NoVersion,
          MaxOutside    \* bound on the outsider's changes

VARIABLES files,        \* what each file holds: a version or Absent
          observed,     \* ObservationStore: [session, file] -> version, Absent, NoVersion
          op,           \* the operation of each caller
          shown,        \* history: the versions a session's operations read or wrote
          outside       \* changes made by the outsider so far

Kinds == {"read", "write", "edit"}
Idle == [pc |-> "idle", kind |-> "read", session |-> NoVersion, file |-> NoVersion,
         base |-> NoVersion]

\* A version names its writer: two writes never produce the same stamp.
Version(writer, n) == [by |-> writer, n |-> n]
Versions == [by: Calls \union {Outsider}, n: 0 .. MaxOutside]

FsInit ==
    /\ files \in [Files -> {Absent, Version(Outsider, 0)}]
    /\ observed = [p \in Sessions \X Files |-> files[p[2]]]     \* read in an earlier turn
    /\ shown = [s \in Sessions |-> {files[f] : f \in Files} \ {Absent}]
    /\ op = [c \in Calls |-> Idle]
    /\ outside = 0

Seen(c) == observed[<<op[c].session, op[c].file>>]
Held(c) == files[op[c].file]
At(c, pc) == op[c].pc = pc
Go(c, pc) == op' = [op EXCEPT ![c].pc = pc]

\* Operations inside run_blocking hold the lock of their target.
Holds(c) == op[c].pc \in {"check", "final", "rename", "record"}
SameTarget(c, d) == /\ op[c].file = op[d].file
                    /\ ServiceOf[op[c].session] = ServiceOf[op[d].session]
\* Mutant: the lock is not shared by the callers of one target.
NoLock(c) == Holds(c) \/ ~Holds(c)
LockFree(c) == \A d \in Calls \ {c} : Holds(d) => ~SameTarget(c, d)

\* The handler calls the service; it first waits for the target's lock.
Begin(c, kind, s, f) ==
    /\ At(c, "idle")
    /\ op' = [op EXCEPT ![c] = [pc |-> "lock", kind |-> kind, session |-> s, file |-> f,
                                base |-> NoVersion]]
    /\ UNCHANGED <<files, observed, shown, outside>>

Lock(c) ==
    /\ At(c, "lock")
    /\ LockFree(c)
    /\ Go(c, "check")
    /\ UNCHANGED <<files, observed, shown, outside>>

Observe(c, version) ==
    /\ observed' = [observed EXCEPT ![<<op[c].session, op[c].file>>] = version]
    /\ shown' = [shown EXCEPT ![op[c].session] = @ \union ({version} \ {Absent})]

\* read_page: scan, then record the version (or the absence) that was scanned.
Read(c) ==
    /\ At(c, "check")
    /\ op[c].kind = "read"
    /\ Observe(c, Held(c))
    /\ Go(c, "ok")
    /\ UNCHANGED <<files, outside>>

\* A cursor of another digest, a file that changed under the scan: nothing is recorded.
ReadFails(c) ==
    /\ At(c, "check")
    /\ op[c].kind = "read"
    /\ Held(c) # Absent
    /\ Go(c, "failed")
    /\ UNCHANGED <<files, observed, shown, outside>>

Authorized(c) ==
    IF Held(c) = Absent THEN op[c].kind = "write" /\ Seen(c) \in {NoVersion, Absent}
                        ELSE Seen(c) = Held(c)

\* write and edit_literal: compare what the session observed with what is there.
Authorize(c) ==
    /\ At(c, "check")
    /\ op[c].kind # "read"
    /\ Authorized(c)
    /\ op' = [op EXCEPT ![c].pc = "final", ![c].base = Held(c)]
    /\ UNCHANGED <<files, observed, shown, outside>>

Reject(c) ==
    /\ At(c, "check")
    /\ op[c].kind # "read"
    /\ ~Authorized(c) \/ op[c].kind = "edit"     \* an edit also needs its literal, once
    /\ Go(c, "failed")
    /\ UNCHANGED <<files, observed, shown, outside>>

\* atomic_publish compares the version with the baseline before it makes the temporary file
\* and again after that file is durable.  Stamps do not recur, so the second look sees all
\* the first would have; on a difference the temporary file is dropped.
FinalCheck(c) ==
    /\ At(c, "final")
    /\ Go(c, IF Held(c) = op[c].base THEN "rename" ELSE "failed")
    /\ UNCHANGED <<files, observed, shown, outside>>

\* publish_temp: a creation refuses to replace (RENAME_NOREPLACE), a replacement does not look.
Publish(c) ==
    /\ At(c, "rename")
    /\ IF op[c].base = Absent /\ Held(c) # Absent
       THEN /\ Go(c, "failed")
            /\ UNCHANGED <<files, shown>>
       ELSE /\ files' = [files EXCEPT ![op[c].file] = Version(c, 0)]
            /\ shown' = [shown EXCEPT ![op[c].session] = @ \union {Version(c, 0)}]
            /\ Go(c, "record")
    /\ UNCHANGED <<observed, outside>>

\* After the rename the version is read back from the file, whoever wrote it last.
Record(c) ==
    /\ At(c, "record")
    /\ IF Held(c) = Absent
       THEN Go(c, "failed") /\ UNCHANGED observed
       ELSE /\ observed' = [observed EXCEPT ![<<op[c].session, op[c].file>>] = Held(c)]
            /\ Go(c, "ok")
    /\ UNCHANGED <<files, shown, outside>>

\* An I/O error before the rename changes nothing; after it the file stays replaced, and the
\* session's observation is still of the version before.
IoFails(c) ==
    /\ op[c].pc \in {"final", "record"}
    /\ Go(c, "failed")
    /\ UNCHANGED <<files, observed, shown, outside>>

\* The caller's future is dropped while it waits for the lock: nothing was begun.
Forgone(c) ==
    /\ At(c, "lock")
    /\ Go(c, "failed")
    /\ UNCHANGED <<files, observed, shown, outside>>

\* The file is changed or removed past every service.
OutsiderChanges(f) ==
    /\ outside < MaxOutside
    /\ outside' = outside + 1
    /\ files' = [files EXCEPT ![f] = IF @ # Absent /\ @.by = Outsider
                                     THEN Absent ELSE Version(Outsider, outside + 1)]
    /\ UNCHANGED <<observed, op, shown>>

Work(c) == \/ Lock(c) \/ Read(c) \/ ReadFails(c) \/ Authorize(c) \/ Reject(c)
           \/ FinalCheck(c) \/ Publish(c) \/ Record(c) \/ IoFails(c)

FsTypeOK ==
    /\ files \in [Files -> Versions \union {Absent}]
    /\ observed \in [Sessions \X Files -> Versions \union {Absent, NoVersion}]
    /\ \A c \in Calls : /\ op[c].kind \in Kinds
                        /\ Holds(c) => op[c].session \in Sessions /\ op[c].file \in Files
    /\ shown \in [Sessions -> SUBSET Versions]
    /\ outside \in 0 .. MaxOutside
==============================================================================
