---------------------------- MODULE MCDelegation ----------------------------
(* Instances of Delegation for TLC. *)
EXTENDS Delegation

CONSTANT c1
MCTo == [m \in Sends |-> c1]
================================================================================
