--------------------------- MODULE MCEngineAndStore ---------------------------
(* The events of a session: the engine that appends them, with a question    *)
(* and two ordinary calls and a first turn of two steps, or the store that   *)
(* keeps them, in two processes.  Two instances in one state graph, of which *)
(* a behaviour takes one.  Ordinary calls are interchangeable, and so are    *)
(* the processes.                                                            *)
EXTENDS MCTurnEngine, JsonlStore

CONSTANTS p1, p2
VARIABLE part

TwoHandles == {p1, p2}
Alike      == Symmetry \cup Permutations(TwoHandles)

\* The engine may come to rest; the two processes always have something to do.
Engine == part = "engine" /\ (Next \/ UNCHANGED vars) /\ UNCHANGED storeVars
Store  == part = "store" /\ StoreNext /\ UNCHANGED vars
MCInit == Init /\ StoreInit /\ part \in {"engine", "store"}
MCSpec == MCInit /\ [][(Engine \/ Store) /\ UNCHANGED part]_<<vars, storeVars, part>>
===============================================================================
