----------------------------- MODULE MCAgentInbox -----------------------------
(* Instances of AgentInbox for TLC: inputs are model values. *)
EXTENDS AgentInbox, TLC
CONSTANTS f1, f2, f3, s1, s2

ThreeFollowups == {f1, f2, f3}
Steering       == {s1, s2}
OneSteering    == {s1}
TwoFollowups   == {f1, f2}
TwoAndOne      == {f1, f2, s1}
Nothing        == {}
================================================================================
