----------------------------- MODULE MCFileTools -----------------------------
EXTENDS FileTools
CONSTANTS b1, b2, write, read, edit, bash, s1, s2, f1, workspace

\* Two sessions on one workspace: one writes the file and reads it back, the other edits it
\* and then runs a shell command, which must wait for the edit.
MCBatches == {b1, b2}
MCBatched == b1 :> <<write, read>> @@ b2 :> <<edit, bash>>
MCMode == write :> "keyed" @@ read :> "parallel" @@ edit :> "keyed" @@ bash :> "exclusive"
MCKey == [c \in {write, read, edit, bash} |-> f1]
MCKind == write :> "write" @@ read :> "read" @@ edit :> "edit" @@ bash :> "other"
MCFile == [c \in {write, read, edit, bash} |-> f1]
MCSession == b1 :> s1 @@ b2 :> s2
MCExecutor == b1 :> s1 @@ b2 :> s2
MCService == s1 :> workspace @@ s2 :> workspace
==============================================================================
