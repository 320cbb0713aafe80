----------------------------- MODULE MCQuestions -----------------------------
EXTENDS Questions
CONSTANTS q1, q2, yes, no, r1, r2
\* Two browsers answer one question differently, or one of them closes it or answers another.
MCSends == [r \in Replies |->
    IF r = r1 THEN {[of |-> q1, says |-> yes]}
              ELSE {[of |-> q1, says |-> yes], [of |-> q1, says |-> no],
                    [of |-> q1, says |-> "closed"], [of |-> q2, says |-> yes],
                    [of |-> q2, says |-> "nonsense"]}]
Spec == QuestionSpec /\ QuestionFairness
==============================================================================
