SPECIFICATION Spec
CONSTANTS
  q1 = q1 q2 = q2 yes = yes no = no r1 = r1 r2 = r2
  Questions = {q1, q2}
  Answers = {yes, no}
  Empty = no
  Lasting = {q1, q2}
  Replies = {r1, r2}
  Sends <- MCSends
  MaxAsks = 2
  MaxTroubles = 1
INVARIANTS AnswersStand Remembered
PROPERTIES AnswersArrive CardsClear
CHECK_DEADLOCK FALSE
