----------------------------- MODULE MCTurnEngine -----------------------------
(* A question and ordinary tool calls, which are interchangeable; a first    *)
(* turn of one or two steps and a second turn of one.                        *)
EXTENDS TurnEngine, TLC

CONSTANTS q, a, b
ThreeCalls  == {q, a, b}
TwoCalls    == {q, a}
OneQuestion == {q}
Symmetry    == Permutations({a, b})
OneAndOne   == <<1, 1>>
TwoAndOne   == <<2, 1>>
================================================================================
