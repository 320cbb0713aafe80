--------------------------- MODULE MCHostControl ---------------------------
EXTENDS HostControl, TLC
CONSTANTS r1, r2, r3, d0, p1, p2, h1, h2

MCOwn == <<d0>>
MCCwd == (h1 :> p1) @@ (h2 :> p2)
MCPayloads ==
  (r1 :> {[op |-> "create", path |-> p2]})
  @@ (r2 :> {[op |-> "rename", ws |-> d0], [op |-> "delete", ws |-> r1]})
  @@ (r3 :> {[op |-> "update", expected |-> 0], [op |-> "move", ws |-> r1, before |-> d0]})
=============================================================================
