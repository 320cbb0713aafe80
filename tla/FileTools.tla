------------------------------ MODULE FileTools ------------------------------
(***************************************************************************)
(* The file tools of xharness-coding-tools: batches of read, write and     *)
(* edit calls whose handlers are operations of the file service.  A call   *)
(* that is cancelled or out of time waits for its handler for a grace; a   *)
(* handler given up then is dropped, but a blocking operation it began     *)
(* goes on to its end with nobody waiting for it.                          *)
(***************************************************************************)
EXTENDS ToolBatch, Functions

CONSTANTS SessionOf,        \* the session of each batch
          KindOf, FileOf,   \* the tool and the file of each call
          ServiceOf, Outsider, Absent, NoVersion, MaxOutside

VARIABLES files, observed, op, shown, outside

Sessions == {SessionOf[b] : b \in Batches}
Files == {FileOf[c] : c \in AllCalls}

INSTANCE FsService WITH Calls <- AllCalls

FileToolsAssumption ==
    /\ KindOf \in [AllCalls -> Kinds \union {"other"}]
    /\ MaxOutside \in Nat
ASSUME FileToolsAssumption

fileVars == <<files, observed, op, shown, outside>>
vars == <<toolVars, fileVars>>

Init == ToolInit /\ FsInit

\* A tool of another kind (a shell command) is only known to return or not.
OnFile(c) == KindOf[c] # "other"
Finished(c) == op[c].pc \in {"ok", "failed"}

\* A handler begins its operation when it is entered; the argument errors it returns before
\* it calls the service count as the pipeline's refusals.
Entered(c) ==
    IF OnFile(c) THEN Begin(c, KindOf[c], SessionOf[BatchOf(c)], FileOf[c])
                 ELSE UNCHANGED fileVars

Answer(c) ==
    /\ IF OnFile(c) THEN Finished(c) /\ Returns(c, op[c].pc)
                    ELSE \E how \in {"ok", "failed"} : Returns(c, how)
    /\ UNCHANGED fileVars

\* Mutant: a cancelled call is settled at once.
SettlesAtOnce(c) == Quiesces(c) /\ UNCHANGED fileVars

CleansUp(c) ==
    /\ OnFile(c) => Finished(c)
    /\ Quiesces(c)
    /\ UNCHANGED fileVars

GivesUp(c) ==
    /\ ~Finished(c)
    /\ Abandon(c)
    /\ IF op[c].pc = "lock" THEN Forgone(c) ELSE UNCHANGED fileVars

\* What a batch does without any help from its handlers.
Timed(c) == \/ (Refuse(c) \/ Interrupt(c)) /\ UNCHANGED fileVars
            \/ CleansUp(c) \/ GivesUp(c)
Poll(b) == \/ Launch(b) /\ UNCHANGED fileVars
           \/ \E c \in CallsOf(b) : Timed(c)

\* Every call has ended and no background work is left: the only states that may stop.
Done ==
    /\ \A c \in AllCalls : phase[c] = "done" /\ (Finished(c) \/ op[c].pc = "idle")
    /\ UNCHANGED vars

Next ==
    \/ \E b \in Batches : Poll(b) \/ (Cancel(b) /\ UNCHANGED fileVars)
    \/ \E c \in AllCalls : \/ (Approve(c) \/ Allow(c)) /\ Entered(c)
                           \/ Answer(c)
                           \/ Work(c) /\ UNCHANGED toolVars
    \/ \E f \in Files : OutsiderChanges(f) /\ UNCHANGED toolVars
    \/ Done

Spec == Init /\ [][Next]_vars

TypeOK == ToolTypeOK /\ FsTypeOK

\* A replacement never destroys content its session has not read or written, unless that
\* content came from outside the service in the window the code calls best-effort: sessions
\* of one service never lose each other's updates (FsService::write's promise).
OverwritesAreInformed ==
    [][\A c \in AllCalls :
        /\ op[c].pc = "rename" /\ op'[c].pc = "record"
        /\ files[op[c].file] \notin shown[op[c].session] \union {Absent}
        => LET by == files[op[c].file].by
           IN \/ by = Outsider
              \/ ServiceOf[SessionOf[BatchOf(by)]] # ServiceOf[op[c].session]]_vars

\* A call whose work still goes on in the background is reported as not quiescent: its
\* failure is a CleanupTimeout, never an ordinary failure or cancellation.
SettledMeansQuiet ==
    \A c \in AllCalls :
        phase[c] = "done" /\ ~Finished(c) /\ op[c].pc # "idle" => outcome[c] = "abandoned"
==============================================================================
