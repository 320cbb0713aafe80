------------------------------ MODULE MCShellJobs ------------------------------
(* The registry with two attempts whose producers are arbitrary, or with one *)
(* shell command as the producer: two instances in one state graph, of which *)
(* a behaviour takes one.                                                    *)
EXTENDS ShellJobs
CONSTANTS j1, j2, o1, k1, w1, none
VARIABLE producer

MCOwner == [j \in {j1, j2} |-> o1]
MCKind  == [j \in {j1, j2} |-> "bash"]

Arbitrary == producer = "any" /\ Next /\ UNCHANGED shellState
OneShell  == producer = "shell" /\ ShellNext /\ slot'[j2] = "none" /\ owner'[j2] = "none"

MCInit == ShellInit /\ producer \in {"any", "shell"}
MCSpec ==
    /\ MCInit
    /\ [][(Arbitrary \/ OneShell) /\ UNCHANGED producer]_<<shellVars, producer>>
    /\ ShellFairness
================================================================================
