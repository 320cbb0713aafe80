---------------------------- MODULE MCModelCalls ----------------------------
(* A model round, or the turns whose rounds have outcomes: two instances in  *)
(* one state graph, of which a behaviour takes one.                          *)
EXTENDS ModelRound, Compaction

Init == \/ RoundInit /\ ContextOff
        \/ RoundOff /\ ContextInit
Next == \/ RoundNext /\ UNCHANGED contextVars
        \/ ContextNext /\ UNCHANGED roundVars
        \/ RoundDone /\ ContextDone
Spec == Init /\ [][Next]_<<roundVars, contextVars>> /\ RoundFairness
================================================================================
