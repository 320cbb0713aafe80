------------------------------- MODULE HostProofs ------------------------------
(***************************************************************************)
(* The host of a session: its driver, and the questions it puts to the     *)
(* user.                                                                   *)
(***************************************************************************)
EXTENDS HostDriver, Questions, SequenceTheorems, WellFoundedInduction, TLAPS

(***************************************************************************)
(* The driver of a session under any prompts, timers, stops, edits,        *)
(* failures and restarts: one driver follows each turn, and no input is    *)
(* run twice.                                                              *)
(***************************************************************************)

USE InputsAssumption DEF InputsAssumption

\* A request on its way into a queue, and what the driver does with an input.
Waiting == {"resume", "unpause", "route", "admit"}
Requesting == Waiting \cup {"idle", "gate", "push", "sync", "unqueue", "steering", "notice"}
Driving == {"start", "wake", "follow"}

\* The log: each input in one place of one queue, logged, and done if it ran.
QueuesOK ==
    /\ inbox \in Seq(Inputs) /\ IsInjective(inbox)
    /\ steps \subseteq Inputs /\ steps \cap ToSet(inbox) = {}
LoggedOK ==
    /\ logged \subseteq Inputs /\ mailbox \subseteq logged
    /\ ToSet(inbox) \subseteq logged /\ steps \subseteq logged
    /\ done \subseteq logged /\ prepared \subseteq logged
RanOK ==
    ran \in [Inputs -> Nat] /\ \A i \in Inputs : ran[i] # 0 => i \in done

\* The worker has a turn's input exactly while it runs that turn.
WorkerOK ==
    /\ wpc \in {"off", "idle", "load", "acquire"} \cup Turning \cup Ending
    /\ cur # none <=> wpc \in Turning \cup Ending
    /\ mailbox # {} => wpc \in Turning \cup Ending
    /\ open \in done \cup {none} /\ cur \in done \cup {none}
    /\ logPaused \in BOOLEAN /\ wake \in BOOLEAN
SubsOK ==
    /\ sub \in [Inputs -> Live \cup {"none", "over", "parked", "lagged"}]
    /\ \A i \in Inputs : sub[i] # "none" => i \in logged

\* The driver's state says whether it has an input in hand, and whether it runs.
DriveOK ==
    /\ dpc \in {"off", "spawn", "top", "rest", "pop", "empty"} \cup Driving
    /\ work \in Inputs \cup {none} /\ (work # none <=> dpc \in Driving)
    /\ bg \in Deliveries \cup {none}
    /\ running \in BOOLEAN /\ up \in {"up", "restoring", "down"} /\ OneDriver
RequestsOK ==
    /\ pc \in [Inputs -> Requesting] /\ mode \in [Inputs -> {"queue", "steer", "remove"}]
    /\ \A i \in Deliveries : pc[i] \in {"idle", "notice"}
    /\ \A i \in Prompts : pc[i] # "notice"
RecordOK ==
    /\ queue \in Seq(Inputs) /\ paused \in BOOLEAN
    /\ accepted \subseteq Prompts /\ removed \subseteq Prompts
SyncOK ==
    /\ \A i \in Inputs : pc[i] = "sync" => dpc = "spawn"
    /\ \A i, j \in Inputs : pc[i] = "sync" /\ pc[j] = "sync" => i = j

\* A host that is not up yet has no driver, no request and nothing prepared.
DownOK ==
    /\ up # "up" => /\ dpc = "off" /\ ~running /\ cmds = <<>> /\ bg = none
                    /\ \A i \in Inputs : pc[i] = "idle"
                    /\ wpc = "off" => prepared = {}
    /\ up = "down" => wpc = "off"

\* What the host knows: every prompt in the driver's hands, and every one in
\* the log but for what was steered.
KnownInHand ==
    \A i \in Prompts : i \in ToSet(queue) \/ i = work => i \in known
KnownLogged ==
    /\ up = "restoring" => logged \cap Prompts \subseteq known
    /\ up # "down" => \A i \in logged \cap Prompts : i \in known \cup accepted \/ pc[i] = "push"

\* A request at the admission gate is new or a repeat; one that may still put its input
\* in the queue has none there.
GateIsNew ==
    \A i \in Inputs : pc[i] = "gate" => i \notin accepted \cup removed
WaitsOnce ==
    \A i \in Inputs : pc[i] \in Waiting => /\ i \notin ToSet(queue)
                                           /\ work = i => mode[i] = "steer" /\ pc[i] # "admit"

\* Subscriptions that are kept are open, and approvals are the driver's.
PreparedOpen ==
    \A i \in prepared : sub[i] # "none"
HandsFree ==
    /\ dpc \in {"wake", "follow"} => work \notin prepared
    /\ bg \notin prepared /\ \A i \in Deliveries : pc[i] = "notice" => i \notin prepared
ShownOK ==
    shown \cap Prompts \subseteq {work} /\ (dpc # "follow" => shown \cap Prompts = {})
GateOK ==
    admitting \in Prompts \cup {Free} /\ (admitting # Free => pc[admitting] # "idle")

\* A steering command belongs to one request that waits for it.
CmdsOK ==
    /\ cmds \in Seq([kind : {"steer", "stop", "answer"}, by : Inputs \cup Stops])
    /\ \A k \in DOMAIN cmds : cmds[k].kind = "steer" =>
         /\ cmds[k].by \in Prompts /\ pc[cmds[k].by] = "steering"
         /\ \A n \in DOMAIN cmds : cmds[n].kind = "steer" /\ cmds[n].by = cmds[k].by => n = k

\* Nobody stopped the session, as far as the ghosts tell.
StopsOK ==
    /\ stop \in [Stops -> {"idle", "pause", "set", "send", "wait"}]
    /\ "left out" \in trouble => "stopped" \in trouble
    /\ "stopped" \notin trouble =>
         /\ ~logPaused /\ ~paused /\ \A s \in Stops : stop[s] = "idle"
         /\ \A k \in DOMAIN cmds : cmds[k].kind # "stop"

\* As long as no edit raced with the driver and no restart left inputs out, an
\* input is pending or done, once in the queue, and in the hands of one task.
Calm == trouble \cap {"raced", "left out"} = {}
Gone(i) == i \notin ToSet(inbox) \cup steps \cup done \cup prepared
CalmLog ==
    Calm => /\ ToSet(inbox) \cap done = {} /\ mailbox \subseteq steps \ done
            /\ "unreconciled" \notin trouble =>
                 /\ \A i \in Inputs : ran[i] <= 1
                 /\ steps \cap done # {} => wpc \in {"off", "turn", "turn ends"}
CalmQueue ==
    Calm => /\ IsInjective(queue)
            /\ IF up = "restoring" /\ wpc = "off" THEN queue = inbox
               ELSE \A i \in ToSet(queue) : i \in prepared \/ pc[i] = "unqueue"
CalmStart ==
    Calm => (dpc = "start" => work \in prepared /\ work \notin ToSet(queue))
CalmWaits ==
    Calm => \A i \in Inputs : pc[i] \in Waiting \cup {"steering"} => Gone(i) /\ i \notin ToSet(queue)
CalmEdits ==
    Calm => \A i \in Inputs : pc[i] = "unqueue" => Gone(i)
CalmPushes ==
    Calm => \A i \in Inputs : pc[i] = "push" =>
              i \in prepared /\ i \notin ToSet(queue) /\ ~(dpc = "start" /\ work = i)
CalmRemoved ==
    Calm => \A i \in removed : Gone(i) /\ i \notin ToSet(queue) /\ pc[i] = "idle"

\* Every turn to come or under way has its subscription, and a task that reads
\* it, unless the session was upset.
Even == trouble \cap {"stopped", "lagged", "raced", "fault"} = {}
Attached(i) == work = i \/ bg = i \/ (i \in ToSet(queue) /\ i \in prepared) \/ pc[i] \in {"push", "notice"}
Coming(i) == i \in ToSet(inbox) \/ (i = cur /\ cur # none)
EvenUp ==
    Even => (up = "up" => \A i \in Inputs : Coming(i) => sub[i] \in Live /\ Attached(i))
EvenRestored ==
    Even => (up = "restoring" /\ wpc # "off" =>
         /\ ToSet(inbox) \subseteq prepared /\ prepared = ToSet(queue)
         /\ \A i \in Inputs : Coming(i) => sub[i] \in Live
         /\ \A i, j \in Inputs \ prepared : sub[i] # "none" /\ sub[j] # "none" => i = j)
EvenOpen ==
    Even => ((up = "up" \/ wpc # "off") /\ open # none => wpc \in Turning)

LogInv   == QueuesOK /\ LoggedOK /\ RanOK /\ WorkerOK /\ SubsOK
TaskInv  == DriveOK /\ RequestsOK /\ RecordOK /\ SyncOK /\ DownOK /\ CmdsOK /\ StopsOK
HandInv  == KnownInHand /\ KnownLogged /\ GateIsNew /\ WaitsOnce /\ PreparedOpen /\ HandsFree
            /\ ShownOK /\ GateOK
CalmInv  == CalmLog /\ CalmQueue /\ CalmStart /\ CalmWaits /\ CalmEdits /\ CalmPushes /\ CalmRemoved
EvenInv  == EvenUp /\ EvenRestored /\ EvenOpen
DriverInv == LogInv /\ TaskInv /\ HandInv /\ CalmInv /\ EvenInv

-----------------------------------------------------------------------------
(* Lists of inputs *)

LEMMA FirstOne ==
  ASSUME NEW S \in SUBSET Nat, S # {}
  PROVE  \E m \in S : \A n \in S : m <= n
<1>1. PICK m \in S : \A n \in S : ~ (<<n, m>> \in OpToRel(<, Nat))
  BY NatLessThanWellFounded, WFMin
<1>2. \A n \in S : ~ (n < m)
  BY <1>1 DEF OpToRel
<1> QED
  BY <1>2

LEMMA ListOf ==
    ASSUME NEW S, NEW s \in Seq(S)
    PROVE  Len(s) \in Nat /\ DOMAIN s = 1..Len(s) /\ \A n \in 1..Len(s) : s[n] \in S
    OBVIOUS

LEMMA Appended ==
    ASSUME NEW S, NEW s \in Seq(S), NEW x \in S
    PROVE  /\ Append(s, x) \in Seq(S) /\ ToSet(Append(s, x)) = ToSet(s) \cup {x}
           /\ IsInjective(s) /\ x \notin ToSet(s) => IsInjective(Append(s, x))
<1>1. PICK t : t = Append(s, x)
  OBVIOUS
<1>2. /\ t \in Seq(S) /\ DOMAIN t = 1..(Len(s) + 1) /\ t[Len(s) + 1] = x
      /\ DOMAIN s = 1..Len(s) /\ Len(s) \in Nat /\ \A n \in 1..Len(s) : t[n] = s[n]
  BY <1>1
<1>3. \A n \in DOMAIN t : n \in 1..Len(s) \/ n = Len(s) + 1
  BY <1>2
<1>4. ToSet(t) = ToSet(s) \cup {x}
  <2>1. (\A n \in 1..Len(s) : n \in DOMAIN t) /\ Len(s) + 1 \in DOMAIN t
    BY <1>2
  <2> QED
    BY <1>2, <1>3, <2>1 DEF ToSet
<1>5. ASSUME IsInjective(s), x \notin ToSet(s) PROVE IsInjective(t)
  <2>1. \A n \in 1..Len(s) : s[n] # x
    BY <1>2, <1>5 DEF ToSet
  <2> QED
    BY <1>2, <1>3, <1>5, <2>1 DEF IsInjective
<1> QED
  BY <1>1, <1>2, <1>4, <1>5

LEMMA Taken ==
    ASSUME NEW S, NEW s \in Seq(S), s # <<>>
    PROVE  /\ Head(s) \in S /\ Head(s) \in ToSet(s) /\ Tail(s) \in Seq(S)
           /\ ToSet(s) = ToSet(Tail(s)) \cup {Head(s)}
           /\ IsInjective(s) => IsInjective(Tail(s)) /\ Head(s) \notin ToSet(Tail(s))
<1>1. PICK t, h : t = Tail(s) /\ h = Head(s)
  OBVIOUS
<1>2. /\ Len(s) \in Nat /\ Len(s) # 0 /\ DOMAIN s = 1..Len(s) /\ \A n \in 1..Len(s) : s[n] \in S
      /\ h = s[1] /\ t \in Seq(S) /\ DOMAIN t = 1..(Len(s) - 1) /\ \A n \in 1..(Len(s) - 1) : t[n] = s[n + 1]
  BY <1>1, HeadTailProperties, EmptySeq
<1>3. 1 \in 1..Len(s) /\ \A n \in 1..(Len(s) - 1) : n + 1 \in 1..Len(s)
  BY <1>2
<1>4. ToSet(s) = ToSet(t) \cup {h}
  <2>1. ASSUME NEW n \in 1..Len(s), n # 1 PROVE n - 1 \in 1..(Len(s) - 1) /\ s[n] = t[n - 1]
    BY <1>2, <2>1
  <2>2. ASSUME NEW x \in ToSet(s) PROVE x \in ToSet(t) \cup {h}
    <3>1. PICK n \in 1..Len(s) : x = s[n]
      BY <1>2 DEF ToSet
    <3>2. n # 1 => n - 1 \in DOMAIN t /\ x = t[n - 1]
      BY <1>2, <2>1, <3>1
    <3> QED
      BY <1>2, <3>1, <3>2 DEF ToSet
  <2>3. ASSUME NEW x \in ToSet(t) \cup {h} PROVE x \in ToSet(s)
    BY <1>2, <1>3 DEF ToSet
  <2> QED
    BY <2>2, <2>3
<1>5. ASSUME IsInjective(s) PROVE IsInjective(t) /\ h \notin ToSet(t)
  <2>1. \A n, m \in 1..Len(s) : s[n] = s[m] => n = m
    BY <1>2, <1>5 DEF IsInjective
  <2>2. \A n, m \in 1..(Len(s) - 1) : t[n] = t[m] => n = m
    BY <1>2, <1>3, <2>1
  <2>3. \A n \in 1..(Len(s) - 1) : t[n] # h
    BY <1>2, <1>3, <2>1
  <2> QED
    BY <1>2, <2>2, <2>3 DEF IsInjective, ToSet
<1> QED
  BY <1>1, <1>2, <1>3, <1>4, <1>5 DEF ToSet

\* What is kept of the first entries of a list.
KeptOf(k, s, out, n) ==
  k = [i \in 0..n |-> IF i = 0 THEN <<>> ELSE IF s[i] \in out THEN k[i - 1] ELSE Append(k[i - 1], s[i])]

LEMMA KeptOfExists ==
  ASSUME NEW s, NEW out, NEW n \in Nat
  PROVE  \E k : KeptOf(k, s, out, n)
<1> DEFINE S == {m \in Nat : ~ \E k : KeptOf(k, s, out, m)}
<1>1. ASSUME S # {} PROVE FALSE
  <2>1. PICK m \in S : \A q \in S : m <= q
    <3>1. S \in SUBSET Nat
      OBVIOUS
    <3> HIDE DEF S
    <3> QED
      BY <1>1, <3>1, FirstOne
  <2>2. m \in Nat /\ ~ \E k : KeptOf(k, s, out, m)
    BY <2>1
  <2>3. CASE m = 0
    <3>1. KeptOf([i \in 0..0 |-> <<>>], s, out, 0)
      BY DEF KeptOf
    <3> QED
      BY <2>2, <2>3, <3>1
  <2>4. CASE m # 0
    <3>1. m - 1 \in Nat /\ m - 1 \notin S
      <4>1. m \in Nat
        BY <2>1
      <4> HIDE DEF S
      <4> QED
        BY <2>1, <2>4, <4>1
    <3>2. PICK k : KeptOf(k, s, out, m - 1)
      BY <3>1
    <3> DEFINE last == IF s[m] \in out THEN k[m - 1] ELSE Append(k[m - 1], s[m])
               q == [i \in 0..m |-> IF i = m THEN last ELSE k[i]]
    <3>3. \A i \in 0..m : q[i] = IF i = m THEN last ELSE k[i]
      OBVIOUS
    <3>4. q = [i \in 0..m |-> q[i]]
      OBVIOUS
    <3>5. \A i \in 0..(m - 1) : k[i] = IF i = 0 THEN <<>>
                                       ELSE IF s[i] \in out THEN k[i - 1] ELSE Append(k[i - 1], s[i])
      BY <3>2 DEF KeptOf
    <3> HIDE DEF q, last
    <3>6. ASSUME NEW i \in 0..m
          PROVE  q[i] = IF i = 0 THEN <<>> ELSE IF s[i] \in out THEN q[i - 1] ELSE Append(q[i - 1], s[i])
      <4>1. CASE i # m
        <5>1. i \in 0..(m - 1) /\ (i # 0 => i - 1 \in 0..m /\ i - 1 # m)
          BY <2>2, <4>1
        <5> QED
          BY <3>3, <3>5, <4>1, <5>1
      <4>2. CASE i = m
        <5>1. m \in 0..m /\ m - 1 \in 0..m /\ m - 1 # m
          BY <2>2, <2>4
        <5>2. q[m] = last /\ q[m - 1] = k[m - 1]
          BY <3>3, <5>1
        <5> QED
          BY <2>4, <4>2, <5>2 DEF last
      <4> QED
        BY <4>1, <4>2
    <3>7. q = [i \in 0..m |-> IF i = 0 THEN <<>> ELSE IF s[i] \in out THEN q[i - 1] ELSE Append(q[i - 1], s[i])]
      BY <3>4, <3>6, Zenon
    <3> QED
      BY <2>2, <3>7 DEF KeptOf
  <2> QED
    BY <2>3, <2>4
<1>2. n \notin S
  BY <1>1
<1> QED
  BY <1>2

LEMMA Left ==
    ASSUME NEW S, NEW s \in Seq(S), NEW out
    PROVE  /\ Without(s, out) \in Seq(S) /\ ToSet(Without(s, out)) = ToSet(s) \ out
           /\ IsInjective(s) => IsInjective(Without(s, out))
<1>1. Len(s) \in Nat /\ DOMAIN s = 1..Len(s) /\ \A i \in 1..Len(s) : s[i] \in S
  OBVIOUS
<1> DEFINE k == CHOOSE k : k = [i \in 0..Len(s) |->
                   IF i = 0 THEN <<>> ELSE IF s[i] \in out THEN k[i - 1] ELSE Append(k[i - 1], s[i])]
<1>2. KeptOf(k, s, out, Len(s))
  <2>1. PICK q : KeptOf(q, s, out, Len(s))
    BY <1>1, KeptOfExists
  <2> QED
    BY <2>1 DEF KeptOf
<1>3. Without(s, out) = k[Len(s)]
  BY DEF Without
<1> HIDE DEF k
<1>4. \A i \in 0..Len(s) : k[i] = IF i = 0 THEN <<>>
                                  ELSE IF s[i] \in out THEN k[i - 1] ELSE Append(k[i - 1], s[i])
  BY <1>2 DEF KeptOf
<1> DEFINE Good(i) == /\ k[i] \in Seq(S) /\ ToSet(k[i]) = {s[j] : j \in 1..i} \ out
                      /\ IsInjective(s) => IsInjective(k[i])
           W == {i \in 0..Len(s) : ~Good(i)}
<1>5. ASSUME W # {} PROVE FALSE
  <2>1. PICK i \in W : \A q \in W : i <= q
    <3>1. W \in SUBSET Nat
      BY <1>1
    <3> HIDE DEF W
    <3> QED
      BY <1>5, <3>1, FirstOne
  <2>2. i \in 0..Len(s) /\ ~Good(i) /\ i \in Nat
    BY <1>1, <2>1
  <2>3. i # 0
    <3>1. k[0] = <<>> /\ 1..0 = {}
      BY <1>1, <1>4
    <3>2. <<>> \in Seq(S) /\ ToSet(<<>>) = {} /\ IsInjective(<<>>)
      BY EmptySeq DEF IsInjective, ToSet
    <3>3. Good(0)
      BY <3>1, <3>2
    <3> QED
      BY <2>2, <3>3
  <2>4. PICK j \in 0..Len(s) : j = i - 1 /\ i = j + 1
    BY <1>1, <2>2, <2>3
  <2>5. Good(j)
    <3>1. ~(i <= j)
      BY <1>1, <2>4
    <3>2. j \notin W
      <4> HIDE DEF W
      <4> QED
        BY <2>1, <3>1
    <3> QED
      BY <3>2
  <2>6. k[i] = IF s[i] \in out THEN k[j] ELSE Append(k[j], s[i])
    BY <1>4, <2>2, <2>3, <2>4
  <2>7. PICK A, B : A = {s[x] : x \in 1..j} /\ B = {s[x] : x \in 1..i}
    OBVIOUS
  <2>8. B = A \cup {s[i]} /\ s[i] \in S /\ (IsInjective(s) => s[i] \notin A)
    <3>1. 1..i = (1..j) \cup {i} /\ i \notin 1..j /\ i \in 1..Len(s) /\ 1..j \subseteq 1..Len(s)
      BY <1>1, <2>2, <2>3, <2>4
    <3>2. s[i] \in S /\ (IsInjective(s) => \A x \in 1..j : s[x] # s[i])
      BY <1>1, <3>1 DEF IsInjective
    <3>3. {s[x] : x \in 1..i} = {s[x] : x \in 1..j} \cup {s[i]}
      BY <3>1, Zenon
    <3> QED
      BY <2>7, <3>2, <3>3
  <2>9. k[j] \in Seq(S) /\ ToSet(k[j]) = A \ out /\ (IsInjective(s) => IsInjective(k[j]))
    BY <2>5, <2>7
  <2>10. k[i] \in Seq(S) /\ ToSet(k[i]) = B \ out /\ (IsInjective(s) => IsInjective(k[i]))
    <3>1. CASE s[i] \in out
      BY <2>6, <2>8, <2>9, <3>1
    <3>2. CASE s[i] \notin out
      <4>1. k[i] = Append(k[j], s[i])
        BY <2>6, <3>2
      <4>2. /\ k[i] \in Seq(S) /\ ToSet(k[i]) = ToSet(k[j]) \cup {s[i]}
            /\ IsInjective(k[j]) /\ s[i] \notin ToSet(k[j]) => IsInjective(k[i])
        BY <2>8, <2>9, <4>1, Appended
      <4> QED
        BY <2>8, <2>9, <3>2, <4>2
    <3> QED
      BY <3>1, <3>2
  <2> QED
    BY <2>2, <2>7, <2>10, Zenon
<1>6. Good(Len(s))
  <2> HIDE DEF Good
  <2>1. Len(s) \in 0..Len(s)
    BY <1>1
  <2>2. W = {}
    <3> HIDE DEF W
    <3> QED
      BY <1>5
  <2> QED
    BY <2>1, <2>2
<1>7. ToSet(s) = {s[j] : j \in 1..Len(s)}
  BY <1>1 DEF ToSet
<1> QED
  BY <1>3, <1>6, <1>7

-----------------------------------------------------------------------------
(* The steps *)

LEMMA Kinds ==
    ASSUME DriverInv
    PROVE  /\ Prompts \subseteq Inputs /\ Deliveries \subseteq Inputs /\ Prompts \cap Deliveries = {}
           /\ ToSet(queue) \subseteq Inputs /\ ToSet(inbox) \subseteq Inputs /\ removed \subseteq Inputs
           /\ prepared \subseteq Inputs /\ steps \subseteq Inputs /\ done \subseteq Inputs
           /\ none \notin Inputs /\ Free \notin Inputs
<1>1. queue \in Seq(Inputs) /\ inbox \in Seq(Inputs) /\ removed \subseteq Prompts
  BY DEF DriverInv, LogInv, QueuesOK, TaskInv, RecordOK
<1>2. \A n \in DOMAIN queue : queue[n] \in Inputs
  BY <1>1
<1>3. \A n \in DOMAIN inbox : inbox[n] \in Inputs
  BY <1>1
<1>4. ToSet(queue) \subseteq Inputs /\ ToSet(inbox) \subseteq Inputs
  BY <1>2, <1>3 DEF ToSet
<1>5. prepared \subseteq Inputs /\ steps \subseteq Inputs /\ done \subseteq Inputs
  BY DEF DriverInv, LogInv, LoggedOK
<1> QED
  BY <1>1, <1>4, <1>5 DEF Inputs

\* The control channel: commands are put at its end and taken from its front.
Commands == [kind : {"steer", "stop", "answer"}, by : Inputs \cup Stops]

LEMMA CmdsGrow ==
    ASSUME CmdsOK, NEW c \in Commands, cmds' = Append(cmds, c),
           c.kind = "steer" => c.by \in Prompts /\ pc'[c.by] = "steering" /\ pc[c.by] # "steering",
           \A j \in Prompts : pc[j] = "steering" => pc'[j] = "steering"
    PROVE  CmdsOK' /\ \A k \in DOMAIN cmds' : cmds'[k] = c \/ \E n \in DOMAIN cmds : cmds'[k] = cmds[n]
<1>1. PICK s, t : s = cmds /\ t = cmds'
  OBVIOUS
<1>2. s \in Seq(Commands) /\ t = Append(s, c)
  BY <1>1 DEF CmdsOK, Commands
<1>3. /\ t \in Seq(Commands) /\ Len(s) \in Nat /\ DOMAIN s = 1..Len(s) /\ DOMAIN t = 1..(Len(s) + 1)
      /\ t[Len(s) + 1] = c /\ \A k \in 1..Len(s) : t[k] = s[k]
  BY <1>2
<1>4. ASSUME NEW k \in DOMAIN t
      PROVE  (k \in DOMAIN s /\ t[k] = s[k]) \/ (k = Len(s) + 1 /\ k \notin DOMAIN s)
  <2>1. k \in 1..(Len(s) + 1) /\ (k \in 1..Len(s) \/ (k = Len(s) + 1 /\ k \notin 1..Len(s)))
    BY <1>3
  <2> QED
    BY <1>3, <2>1
<1>5. \A k \in DOMAIN s : s[k].kind = "steer" => /\ s[k].by \in Prompts /\ pc[s[k].by] = "steering"
                                                /\ \A n \in DOMAIN s : s[n].kind = "steer" /\ s[n].by = s[k].by => n = k
  BY <1>1 DEF CmdsOK
<1>6. ASSUME NEW k \in DOMAIN t, t[k].kind = "steer"
      PROVE  /\ t[k].by \in Prompts /\ pc'[t[k].by] = "steering"
             /\ \A n \in DOMAIN t : t[n].kind = "steer" /\ t[n].by = t[k].by => n = k
  <2>1. CASE k \in DOMAIN s /\ t[k] = s[k]
    <3>1. t[k].by \in Prompts /\ pc[t[k].by] = "steering"
      BY <1>5, <1>6, <2>1
    <3>2. ASSUME NEW n \in DOMAIN t, t[n].kind = "steer", t[n].by = t[k].by PROVE n = k
      BY <1>3, <1>4, <1>5, <1>6, <2>1, <3>1, <3>2
    <3> QED
      BY <3>1, <3>2
  <2>2. CASE k = Len(s) + 1
    <3>1. t[k] = c
      BY <1>3, <2>2
    <3>2. ASSUME NEW n \in DOMAIN t, t[n].kind = "steer", t[n].by = t[k].by PROVE n = k
      BY <1>3, <1>4, <1>5, <1>6, <2>2, <3>1, <3>2
    <3> QED
      BY <1>6, <3>1, <3>2
  <2> QED
    BY <1>4, <2>1, <2>2
<1>7. CmdsOK'
  BY <1>1, <1>3, <1>6 DEF CmdsOK, Commands
<1>8. \A k \in DOMAIN t : t[k] = c \/ \E n \in DOMAIN s : t[k] = s[n]
  BY <1>3, <1>4
<1> QED
  BY <1>1, <1>7, <1>8

LEMMA CmdsShrink ==
    ASSUME CmdsOK, cmds # <<>>, cmds' = Tail(cmds),
           \A j \in Prompts : pc[j] = "steering" =>
             pc'[j] = "steering" \/ (Head(cmds).kind = "steer" /\ j = Head(cmds).by)
    PROVE  /\ CmdsOK' /\ Head(cmds) \in Commands /\ \E n \in DOMAIN cmds : Head(cmds) = cmds[n]
           /\ Head(cmds).kind = "steer" => Head(cmds).by \in Prompts /\ pc[Head(cmds).by] = "steering"
           /\ \A k \in DOMAIN cmds' : \E n \in DOMAIN cmds : cmds'[k] = cmds[n]
<1>1. PICK s, t, h : s = cmds /\ t = cmds' /\ h = Head(cmds)
  OBVIOUS
<1>2. s \in Seq(Commands) /\ s # <<>> /\ t = Tail(s) /\ h = Head(s)
  BY <1>1 DEF CmdsOK, Commands
<1>3. /\ t \in Seq(Commands) /\ h \in Commands /\ Len(s) \in Nat /\ DOMAIN s = 1..Len(s)
      /\ DOMAIN t = 1..(Len(s) - 1) /\ 1 \in DOMAIN s /\ h = s[1]
      /\ \A k \in 1..(Len(s) - 1) : t[k] = s[k + 1]
  BY <1>2, HeadTailProperties, EmptySeq
<1>4. \A k \in DOMAIN t : k + 1 \in DOMAIN s /\ k + 1 # 1 /\ t[k] = s[k + 1]
  BY <1>3
<1>5. \A k \in DOMAIN s : s[k].kind = "steer" => /\ s[k].by \in Prompts /\ pc[s[k].by] = "steering"
                                                /\ \A n \in DOMAIN s : s[n].kind = "steer" /\ s[n].by = s[k].by => n = k
  BY <1>1 DEF CmdsOK
<1>6. ASSUME NEW k \in DOMAIN t, t[k].kind = "steer"
      PROVE  /\ t[k].by \in Prompts /\ pc'[t[k].by] = "steering"
             /\ \A n \in DOMAIN t : t[n].kind = "steer" /\ t[n].by = t[k].by => n = k
  <2>1. t[k].by \in Prompts /\ pc[t[k].by] = "steering"
    BY <1>4, <1>5, <1>6
  <2>2. ~(h.kind = "steer" /\ t[k].by = h.by)
    BY <1>3, <1>4, <1>5, <1>6
  <2>3. ASSUME NEW n \in DOMAIN t, t[n].kind = "steer", t[n].by = t[k].by PROVE n = k
    <3>1. n + 1 = k + 1
      BY <1>4, <1>5, <1>6, <2>3
    <3> QED
      BY <1>3, <3>1
  <2> QED
    BY <1>1, <2>1, <2>2, <2>3
<1>7. CmdsOK'
  BY <1>1, <1>3, <1>6 DEF CmdsOK, Commands
<1>8. h.kind = "steer" => h.by \in Prompts /\ pc[h.by] = "steering"
  BY <1>3, <1>5
<1> QED
  BY <1>1, <1>3, <1>4, <1>7, <1>8

LEMMA CmdsDropped ==
    ASSUME cmds' = <<>> PROVE CmdsOK' /\ DOMAIN cmds' = {}
<1>1. <<>> \in Seq(Commands) /\ DOMAIN <<>> = {}
  BY EmptySeq
<1> QED
  BY <1>1 DEF CmdsOK, Commands

LEMMA CmdsKept ==
    ASSUME CmdsOK, cmds' = cmds, \A j \in Prompts : pc[j] = "steering" => pc'[j] = "steering"
    PROVE  CmdsOK'
    BY DEF CmdsOK

\* What is even is calm: inputs are left out only of a session that was stopped.
LEMMA EvenIsCalm ==
    ASSUME DriverInv, Even PROVE Calm
    BY DEF DriverInv, TaskInv, StopsOK, Even, Calm

-----------------------------------------------------------------------------
(* What a step leaves alone it does not disturb *)

LEMMA QueuesOKSame ==
    ASSUME QueuesOK, UNCHANGED <<inbox, steps>>
    PROVE  QueuesOK'
    BY DEF QueuesOK

LEMMA LoggedOKSame ==
    ASSUME LoggedOK, UNCHANGED <<inbox, steps, done, logged, mailbox, prepared>>
    PROVE  LoggedOK'
    BY DEF LoggedOK

LEMMA RanOKSame ==
    ASSUME RanOK, UNCHANGED <<ran, done>>
    PROVE  RanOK'
    BY DEF RanOK

LEMMA WorkerOKSame ==
    ASSUME WorkerOK, UNCHANGED <<wpc, open, cur, mailbox, done, logPaused, wake>>
    PROVE  WorkerOK'
    BY DEF WorkerOK, Turning, Ending

LEMMA SubsOKSame ==
    ASSUME SubsOK, UNCHANGED <<sub, logged>>
    PROVE  SubsOK'
    BY DEF SubsOK, Live

LEMMA DriveOKSame ==
    ASSUME DriveOK, UNCHANGED <<dpc, work, bg, running, up, trouble>>
    PROVE  DriveOK'
    BY DEF DriveOK, Driving, OneDriver

LEMMA RequestsOKSame ==
    ASSUME RequestsOK, UNCHANGED <<pc, mode>>
    PROVE  RequestsOK'
    BY DEF RequestsOK, Requesting, Waiting

LEMMA RecordOKSame ==
    ASSUME RecordOK, UNCHANGED <<queue, paused, accepted, removed>>
    PROVE  RecordOK'
    BY DEF RecordOK

LEMMA SyncOKSame ==
    ASSUME SyncOK, UNCHANGED <<pc, dpc>>
    PROVE  SyncOK'
    BY DEF SyncOK, Driving, Requesting, Waiting

LEMMA DownOKSame ==
    ASSUME DownOK, UNCHANGED <<up, dpc, running, cmds, bg, wpc, prepared, pc>>
    PROVE  DownOK'
    BY DEF DownOK, Driving

LEMMA CmdsOKSame ==
    ASSUME CmdsOK, UNCHANGED <<cmds, pc>>
    PROVE  CmdsOK'
    BY DEF CmdsOK, Requesting, Waiting

LEMMA StopsOKSame ==
    ASSUME StopsOK, UNCHANGED <<stop, trouble, logPaused, paused, cmds>>
    PROVE  StopsOK'
    BY DEF StopsOK

LEMMA KnownInHandSame ==
    ASSUME KnownInHand, UNCHANGED <<queue, work, known>>
    PROVE  KnownInHand'
    BY DEF KnownInHand

LEMMA KnownLoggedSame ==
    ASSUME KnownLogged, UNCHANGED <<up, logged, known, accepted, pc>>
    PROVE  KnownLogged'
    BY DEF KnownLogged

LEMMA GateIsNewSame ==
    ASSUME GateIsNew, UNCHANGED <<pc, accepted, removed>>
    PROVE  GateIsNew'
    BY DEF GateIsNew

LEMMA WaitsOnceSame ==
    ASSUME WaitsOnce, UNCHANGED <<pc, queue, work, mode>>
    PROVE  WaitsOnce'
    BY DEF WaitsOnce, Waiting

LEMMA PreparedOpenSame ==
    ASSUME PreparedOpen, UNCHANGED <<prepared, sub>>
    PROVE  PreparedOpen'
    BY DEF PreparedOpen, Live

LEMMA HandsFreeSame ==
    ASSUME HandsFree, UNCHANGED <<dpc, work, prepared, bg, pc>>
    PROVE  HandsFree'
    BY DEF HandsFree, Driving

LEMMA ShownOKSame ==
    ASSUME ShownOK, UNCHANGED <<shown, work, dpc>>
    PROVE  ShownOK'
    BY DEF ShownOK

LEMMA GateOKSame ==
    ASSUME GateOK, UNCHANGED <<admitting, pc>>
    PROVE  GateOK'
    BY DEF GateOK

LEMMA CalmLogSame ==
    ASSUME CalmLog, UNCHANGED <<trouble, inbox, steps, done, ran, mailbox, wpc>>
    PROVE  CalmLog'
    BY DEF CalmLog, Calm

LEMMA CalmLogGoes ==
    ASSUME CalmLog, UNCHANGED <<trouble, inbox, steps, done, ran, mailbox>>,
           wpc \in {"off", "turn", "turn ends"} => wpc' \in {"off", "turn", "turn ends"}
    PROVE  CalmLog'
    BY DEF CalmLog, Calm

LEMMA CalmQueueSame ==
    ASSUME CalmQueue, UNCHANGED <<trouble, queue, up, wpc, inbox, prepared, pc>>
    PROVE  CalmQueue'
    BY DEF CalmQueue, Calm

LEMMA CalmStartSame ==
    ASSUME CalmStart, UNCHANGED <<trouble, dpc, work, prepared, queue>>
    PROVE  CalmStart'
    BY DEF CalmStart, Calm

LEMMA CalmWaitsSame ==
    ASSUME CalmWaits, UNCHANGED <<trouble, pc, inbox, steps, done, prepared, queue>>
    PROVE  CalmWaits'
    BY DEF CalmWaits, Calm, Gone, Waiting

LEMMA CalmEditsSame ==
    ASSUME CalmEdits, UNCHANGED <<trouble, pc, inbox, steps, done, prepared>>
    PROVE  CalmEdits'
    BY DEF CalmEdits, Calm, Gone

LEMMA CalmPushesSame ==
    ASSUME CalmPushes, UNCHANGED <<trouble, pc, prepared, queue, dpc, work>>
    PROVE  CalmPushes'
    BY DEF CalmPushes, Calm

LEMMA CalmRemovedSame ==
    ASSUME CalmRemoved, UNCHANGED <<trouble, removed, inbox, steps, done, prepared, queue, pc>>
    PROVE  CalmRemoved'
    BY DEF CalmRemoved, Calm, Gone

LEMMA EvenUpSame ==
    ASSUME EvenUp, UNCHANGED <<trouble, up, inbox, cur, sub, work, bg, queue, prepared, pc>>
    PROVE  EvenUp'
    BY DEF EvenUp, Even, Attached, Coming, Live

LEMMA EvenRestoredSame ==
    ASSUME EvenRestored, UNCHANGED <<trouble, up, wpc, inbox, prepared, queue, cur, sub>>
    PROVE  EvenRestored'
    BY DEF EvenRestored, Even, Coming, Live

LEMMA EvenOpenSame ==
    ASSUME EvenOpen, UNCHANGED <<trouble, up, wpc, open>>
    PROVE  EvenOpen'
    BY DEF EvenOpen, Even, Turning

-----------------------------------------------------------------------------
(* Requests: session.prompt *)

LEMMA PromptKeeps ==
    ASSUME DriverInv, NEW i \in Prompts, NEW m \in {"queue", "steer"}, Prompt(i, m)
    PROVE  DriverInv'
<1>1. LogInv /\ TaskInv /\ HandInv /\ CalmInv /\ EvenInv
  BY DEF DriverInv
<1>2. UNCHANGED <<inbox, steps, done, logged, logPaused, open, wpc, cur, wake, mailbox, prepared, sub, up, queue,
                known, paused, running, shown, dpc, work, bg, cmds, admitting, stop, accepted, removed, lost,
                ran, trouble, budget>>
  BY DEF Prompt, vars, log, worker, runtime, record, host, driver, rpc, ghost
<1>3. /\ QueuesOK' /\ LoggedOK' /\ RanOK' /\ WorkerOK' /\ SubsOK' /\ DriveOK' /\ RecordOK'
      /\ StopsOK' /\ KnownInHand' /\ PreparedOpen' /\ ShownOK' /\ CalmLog' /\ CalmStart'
      /\ EvenRestored' /\ EvenOpen'
  BY <1>1, <1>2, QueuesOKSame, LoggedOKSame, RanOKSame, WorkerOKSame, SubsOKSame, DriveOKSame,
     RecordOKSame, StopsOKSame, KnownInHandSame, PreparedOpenSame, ShownOKSame, CalmLogSame,
     CalmStartSame, EvenRestoredSame, EvenOpenSame
  DEF LogInv, TaskInv, HandInv, CalmInv, EvenInv
<1>4. RequestsOK'
  BY <1>1, <1>2, Kinds DEF Prompt, RequestsOK, Requesting, Waiting, TaskInv
<1>5. SyncOK'
  BY <1>1, <1>2 DEF Prompt, SyncOK, Driving, Requesting, Waiting, TaskInv
<1>6. DownOK'
  BY <1>1, <1>2 DEF Prompt, DownOK, Driving, TaskInv
<1>7. CmdsOK'
  BY <1>1, <1>2 DEF Prompt, CmdsOK, Requesting, Waiting, TaskInv
<1>8. KnownLogged'
  BY <1>1, <1>2 DEF Prompt, KnownLogged, HandInv
<1>9. GateIsNew'
  BY <1>1, <1>2 DEF Prompt, GateIsNew, HandInv
<1>10. WaitsOnce'
  BY <1>1, <1>2 DEF Prompt, WaitsOnce, Waiting, HandInv
<1>11. HandsFree'
  BY <1>1, <1>2 DEF Prompt, HandsFree, Driving, HandInv
<1>12. GateOK'
  BY <1>1, <1>2 DEF Prompt, GateOK, HandInv
<1>13. CalmQueue'
  BY <1>1, <1>2, Kinds
  DEF Prompt, CalmQueue, Calm, QueuesOK, RecordOK, RequestsOK, Requesting, Waiting, LogInv, TaskInv,
      CalmInv
<1>14. CalmWaits'
  BY <1>1, <1>2
  DEF Prompt, CalmWaits, Calm, Gone, Waiting, RequestsOK, Requesting, RecordOK, TaskInv, CalmInv
<1>15. CalmEdits'
  BY <1>1, <1>2 DEF Prompt, CalmEdits, Calm, Gone, RequestsOK, Requesting, Waiting, TaskInv, CalmInv
<1>16. CalmPushes'
  BY <1>1, <1>2
  DEF Prompt, CalmPushes, Calm, RequestsOK, Requesting, Waiting, RecordOK, TaskInv, CalmInv
<1>17. CalmRemoved'
  BY <1>1, <1>2, Kinds
  DEF Prompt, CalmRemoved, Calm, Gone, RequestsOK, Requesting, Waiting, RecordOK, TaskInv, CalmInv
<1>18. EvenUp'
  BY <1>1, <1>2 DEF Prompt, EvenUp, Even, Attached, Coming, Live, EvenInv
<1> QED
  BY <1>3, <1>4, <1>5, <1>6, <1>7, <1>8, <1>9, <1>10, <1>11, <1>12, <1>13, <1>14, <1>15, <1>16, <1>17,
     <1>18
  DEF DriverInv, LogInv, TaskInv, HandInv, CalmInv, EvenInv

LEMMA AdmissionKeeps ==
    ASSUME DriverInv, NEW i \in Prompts, Admission(i)
    PROVE  DriverInv'
<1>1. LogInv /\ TaskInv /\ HandInv /\ CalmInv /\ EvenInv
  BY DEF DriverInv
<1>2. UNCHANGED <<inbox, steps, done, logged, logPaused, open, wpc, cur, wake, mailbox, prepared, sub, up, queue,
                known, paused, running, shown, dpc, work, bg, cmds, mode, stop, removed, lost, ran,
                trouble, budget>>
  BY DEF Admission, Known, vars, log, worker, runtime, record, host, driver, rpc, ghost
<1>3. /\ i \in Inputs /\ pc[i] = "gate" /\ \A j \in Inputs : j # i => pc'[j] = pc[j]
      /\ \/ i \in known /\ pc'[i] = "idle" /\ admitting' = admitting /\ accepted' = accepted \cup {i}
         \/ i \notin known /\ pc'[i] \in {"resume", "route"} /\ admitting' = i /\ accepted' = accepted
  BY <1>1, Kinds DEF Admission, Known, TaskInv, RequestsOK
<1>4. i \notin known => i \notin logged /\ i \notin ToSet(queue) /\ work # i /\ i \notin done
  BY <1>1, <1>3, Kinds
  DEF LogInv, LoggedOK, TaskInv, DownOK, HandInv, KnownLogged, KnownInHand, GateIsNew
<1>5. i \notin known => i \notin prepared /\ i \notin steps /\ i \notin ToSet(inbox)
  BY <1>1, <1>4 DEF LogInv, LoggedOK
<1>6. /\ QueuesOK' /\ LoggedOK' /\ RanOK' /\ WorkerOK' /\ SubsOK' /\ DriveOK' /\ StopsOK'
      /\ KnownInHand' /\ PreparedOpen' /\ ShownOK' /\ CalmLog' /\ CalmStart' /\ EvenRestored'
      /\ EvenOpen'
  BY <1>1, <1>2, QueuesOKSame, LoggedOKSame, RanOKSame, WorkerOKSame, SubsOKSame, DriveOKSame,
     StopsOKSame, KnownInHandSame, PreparedOpenSame, ShownOKSame, CalmLogSame, CalmStartSame,
     EvenRestoredSame, EvenOpenSame
  DEF LogInv, TaskInv, HandInv, CalmInv, EvenInv
<1>7. RequestsOK'
  BY <1>1, <1>2, <1>3, Kinds DEF Admission, Known, RequestsOK, Requesting, Waiting, TaskInv
<1>8. RecordOK'
  BY <1>1, <1>2, <1>3, <1>4 DEF RecordOK, TaskInv
<1>9. SyncOK'
  BY <1>1, <1>2, <1>3 DEF SyncOK, Driving, Requesting, Waiting, TaskInv
<1>10. DownOK'
  BY <1>1, <1>2, <1>3, <1>5 DEF DownOK, Driving, TaskInv
<1>11. CmdsOK'
  BY <1>1, <1>2, <1>3, Kinds DEF CmdsOK, Requesting, Waiting, TaskInv
<1>12. KnownLogged'
  BY <1>1, <1>2, <1>3, <1>4, <1>5, Kinds DEF KnownLogged, HandInv
<1>13. GateIsNew'
  BY <1>1, <1>2, <1>3 DEF GateIsNew, HandInv
<1>14. WaitsOnce'
  BY <1>1, <1>2, <1>3, <1>4 DEF WaitsOnce, Waiting, HandInv
<1>15. HandsFree'
  BY <1>1, <1>2, <1>3, <1>4, <1>5, Kinds DEF HandsFree, Driving, HandInv
<1>16. GateOK'
  BY <1>1, <1>2, <1>3 DEF Admission, Known, GateOK, HandInv
<1>17. CalmQueue'
  BY <1>1, <1>2, <1>3, <1>4, <1>5, Kinds DEF CalmQueue, Calm, CalmInv
<1>18. CalmWaits'
  BY <1>1, <1>2, <1>3, <1>4, <1>5 DEF CalmWaits, Calm, Gone, Waiting, CalmInv
<1>19. CalmEdits'
  BY <1>1, <1>2, <1>3, <1>4, <1>5 DEF CalmEdits, Calm, Gone, CalmInv
<1>20. CalmPushes'
  BY <1>1, <1>2, <1>3, <1>4, <1>5 DEF CalmPushes, Calm, CalmInv
<1>21. CalmRemoved'
  BY <1>1, <1>2, <1>3, <1>4, <1>5, Kinds DEF CalmRemoved, Calm, Gone, CalmInv
<1>22. EvenUp'
  BY <1>1, <1>2, <1>3, <1>4, <1>5 DEF EvenUp, Even, Attached, Coming, Live, EvenInv
<1> QED
  BY <1>6, <1>7, <1>8, <1>9, <1>10, <1>11, <1>12, <1>13, <1>14, <1>15, <1>16, <1>17, <1>18, <1>19,
     <1>20, <1>21, <1>22
  DEF DriverInv, LogInv, TaskInv, HandInv, CalmInv, EvenInv

LEMMA ResumeLogKeeps ==
    ASSUME DriverInv, NEW i \in Prompts, ResumeLog(i)
    PROVE  DriverInv'
<1>1. LogInv /\ TaskInv /\ HandInv /\ CalmInv /\ EvenInv
  BY DEF DriverInv
<1>2. UNCHANGED <<inbox, steps, done, logged, open, wpc, cur, wake, mailbox, prepared, sub, up, queue, known,
                paused, running, shown, dpc, work, bg, cmds, mode, admitting, stop, accepted, removed, lost,
                ran, trouble, budget>>
  BY DEF ResumeLog, vars, log, worker, runtime, record, host, driver, rpc, ghost
<1>3. /\ QueuesOK' /\ LoggedOK' /\ RanOK' /\ SubsOK' /\ DriveOK' /\ RecordOK' /\ KnownInHand'
      /\ PreparedOpen' /\ ShownOK' /\ CalmLog' /\ CalmStart' /\ EvenRestored' /\ EvenOpen'
  BY <1>1, <1>2, QueuesOKSame, LoggedOKSame, RanOKSame, SubsOKSame, DriveOKSame, RecordOKSame,
     KnownInHandSame, PreparedOpenSame, ShownOKSame, CalmLogSame, CalmStartSame, EvenRestoredSame,
     EvenOpenSame
  DEF LogInv, TaskInv, HandInv, CalmInv, EvenInv
<1>4. WorkerOK'
  BY <1>1, <1>2 DEF ResumeLog, WorkerOK, Turning, Ending, LogInv
<1>5. RequestsOK'
  BY <1>1, <1>2, Kinds DEF ResumeLog, RequestsOK, Requesting, Waiting, TaskInv
<1>6. SyncOK'
  BY <1>1, <1>2 DEF ResumeLog, SyncOK, Driving, Requesting, Waiting, TaskInv
<1>7. DownOK'
  BY <1>1, <1>2 DEF ResumeLog, DownOK, Driving, TaskInv
<1>8. CmdsOK'
  BY <1>1, <1>2 DEF ResumeLog, CmdsOK, Requesting, Waiting, TaskInv
<1>9. StopsOK'
  BY <1>1, <1>2 DEF ResumeLog, StopsOK, TaskInv
<1>10. KnownLogged'
  BY <1>1, <1>2 DEF ResumeLog, KnownLogged, HandInv
<1>11. GateIsNew'
  BY <1>1, <1>2 DEF ResumeLog, GateIsNew, HandInv
<1>12. WaitsOnce'
  BY <1>1, <1>2 DEF ResumeLog, WaitsOnce, Waiting, HandInv
<1>13. HandsFree'
  BY <1>1, <1>2 DEF ResumeLog, HandsFree, Driving, HandInv
<1>14. GateOK'
  BY <1>1, <1>2 DEF ResumeLog, GateOK, HandInv
<1>15. CalmQueue'
  BY <1>1, <1>2, Kinds
  DEF ResumeLog, CalmQueue, Calm, QueuesOK, RecordOK, RequestsOK, Requesting, Waiting, LogInv, TaskInv,
      CalmInv
<1>16. CalmWaits'
  BY <1>1, <1>2
  DEF ResumeLog, CalmWaits, Calm, Gone, Waiting, RequestsOK, Requesting, RecordOK, TaskInv, CalmInv
<1>17. CalmEdits'
  BY <1>1, <1>2 DEF ResumeLog, CalmEdits, Calm, Gone, RequestsOK, Requesting, Waiting, TaskInv, CalmInv
<1>18. CalmPushes'
  BY <1>1, <1>2
  DEF ResumeLog, CalmPushes, Calm, RequestsOK, Requesting, Waiting, RecordOK, TaskInv, CalmInv
<1>19. CalmRemoved'
  BY <1>1, <1>2, Kinds
  DEF ResumeLog, CalmRemoved, Calm, Gone, RequestsOK, Requesting, Waiting, RecordOK, TaskInv, CalmInv
<1>20. EvenUp'
  BY <1>1, <1>2 DEF ResumeLog, EvenUp, Even, Attached, Coming, Live, EvenInv
<1> QED
  BY <1>3, <1>4, <1>5, <1>6, <1>7, <1>8, <1>9, <1>10, <1>11, <1>12, <1>13, <1>14, <1>15, <1>16, <1>17,
     <1>18, <1>19, <1>20
  DEF DriverInv, LogInv, TaskInv, HandInv, CalmInv, EvenInv

LEMMA ResumeMemoryKeeps ==
    ASSUME DriverInv, NEW i \in Prompts, ResumeMemory(i)
    PROVE  DriverInv'
<1>1. LogInv /\ TaskInv /\ HandInv /\ CalmInv /\ EvenInv
  BY DEF DriverInv
<1>2. UNCHANGED <<inbox, steps, done, logged, logPaused, open, wpc, cur, wake, mailbox, prepared, sub, up, queue,
                known, running, shown, dpc, work, bg, cmds, mode, admitting, stop, accepted, removed, lost,
                ran, trouble, budget>>
  BY DEF ResumeMemory, vars, log, worker, runtime, record, host, driver, rpc, ghost
<1>3. /\ QueuesOK' /\ LoggedOK' /\ RanOK' /\ WorkerOK' /\ SubsOK' /\ DriveOK' /\ KnownInHand'
      /\ PreparedOpen' /\ ShownOK' /\ CalmLog' /\ CalmStart' /\ EvenRestored' /\ EvenOpen'
  BY <1>1, <1>2, QueuesOKSame, LoggedOKSame, RanOKSame, WorkerOKSame, SubsOKSame, DriveOKSame,
     KnownInHandSame, PreparedOpenSame, ShownOKSame, CalmLogSame, CalmStartSame, EvenRestoredSame,
     EvenOpenSame
  DEF LogInv, TaskInv, HandInv, CalmInv, EvenInv
<1>4. RequestsOK'
  BY <1>1, <1>2, Kinds DEF ResumeMemory, RequestsOK, Requesting, Waiting, TaskInv
<1>5. RecordOK'
  BY <1>1, <1>2 DEF ResumeMemory, RecordOK, TaskInv
<1>6. SyncOK'
  BY <1>1, <1>2 DEF ResumeMemory, SyncOK, Driving, Requesting, Waiting, TaskInv
<1>7. DownOK'
  BY <1>1, <1>2 DEF ResumeMemory, DownOK, Driving, TaskInv
<1>8. CmdsOK'
  BY <1>1, <1>2 DEF ResumeMemory, CmdsOK, Requesting, Waiting, TaskInv
<1>9. StopsOK'
  BY <1>1, <1>2 DEF ResumeMemory, StopsOK, TaskInv
<1>10. KnownLogged'
  BY <1>1, <1>2 DEF ResumeMemory, KnownLogged, HandInv
<1>11. GateIsNew'
  BY <1>1, <1>2 DEF ResumeMemory, GateIsNew, HandInv
<1>12. WaitsOnce'
  BY <1>1, <1>2 DEF ResumeMemory, WaitsOnce, Waiting, HandInv
<1>13. HandsFree'
  BY <1>1, <1>2 DEF ResumeMemory, HandsFree, Driving, HandInv
<1>14. GateOK'
  BY <1>1, <1>2 DEF ResumeMemory, GateOK, HandInv
<1>15. CalmQueue'
  BY <1>1, <1>2, Kinds
  DEF ResumeMemory, CalmQueue, Calm, QueuesOK, RecordOK, RequestsOK, Requesting, Waiting, LogInv,
      TaskInv, CalmInv
<1>16. CalmWaits'
  BY <1>1, <1>2
  DEF ResumeMemory, CalmWaits, Calm, Gone, Waiting, RequestsOK, Requesting, RecordOK, TaskInv, CalmInv
<1>17. CalmEdits'
  BY <1>1, <1>2
  DEF ResumeMemory, CalmEdits, Calm, Gone, RequestsOK, Requesting, Waiting, TaskInv, CalmInv
<1>18. CalmPushes'
  BY <1>1, <1>2
  DEF ResumeMemory, CalmPushes, Calm, RequestsOK, Requesting, Waiting, RecordOK, TaskInv, CalmInv
<1>19. CalmRemoved'
  BY <1>1, <1>2, Kinds
  DEF ResumeMemory, CalmRemoved, Calm, Gone, RequestsOK, Requesting, Waiting, RecordOK, TaskInv,
      CalmInv
<1>20. EvenUp'
  BY <1>1, <1>2 DEF ResumeMemory, EvenUp, Even, Attached, Coming, Live, EvenInv
<1> QED
  BY <1>3, <1>4, <1>5, <1>6, <1>7, <1>8, <1>9, <1>10, <1>11, <1>12, <1>13, <1>14, <1>15, <1>16, <1>17,
     <1>18, <1>19, <1>20
  DEF DriverInv, LogInv, TaskInv, HandInv, CalmInv, EvenInv

LEMMA RouteKeeps ==
    ASSUME DriverInv, NEW i \in Prompts, Route(i)
    PROVE  DriverInv'
<1>1. LogInv /\ TaskInv /\ HandInv /\ CalmInv /\ EvenInv
  BY DEF DriverInv
<1>2. UNCHANGED <<inbox, steps, done, logged, logPaused, open, wpc, cur, wake, mailbox, prepared, sub, up, queue,
                known, paused, running, shown, dpc, work, bg, mode, stop, accepted, removed, ran,
                trouble, budget>>
  BY DEF Route, Answered, RefusedBy, vars, log, worker, runtime, record, host, driver, rpc, ghost
<1>3. /\ i \in Inputs /\ pc[i] = "route" /\ \A j \in Inputs : j # i => pc'[j] = pc[j]
      /\ \/ pc'[i] = "idle" /\ admitting' = Free /\ cmds' = cmds
         \/ pc'[i] = "steering" /\ admitting' = admitting /\ cmds' = Append(cmds, [kind |-> "steer", by |-> i])
         \/ pc'[i] = "admit" /\ admitting' = admitting /\ cmds' = cmds /\ (mode[i] = "steer" => ~running)
  BY <1>1, Kinds DEF Route, Answered, RefusedBy, TaskInv, RequestsOK
<1>4. pc'[i] = "admit" => work # i
  BY <1>1, <1>3, Kinds DEF TaskInv, DriveOK, OneDriver, Driving, HandInv, WaitsOnce, Waiting
<1>5. /\ CmdsOK'
      /\ \A k \in DOMAIN cmds' : cmds'[k].kind = "steer" \/ \E n \in DOMAIN cmds : cmds'[k] = cmds[n]
  <2>1. CASE cmds' = cmds
    BY <1>1, <1>3, <2>1, CmdsKept, Kinds DEF TaskInv
  <2>2. CASE cmds' = Append(cmds, [kind |-> "steer", by |-> i]) /\ pc'[i] = "steering"
    <3>1. PICK c : c = [kind |-> "steer", by |-> i]
      OBVIOUS
    <3>2. c \in Commands /\ c.kind = "steer" /\ c.by = i
      BY <1>3, <3>1 DEF Commands
    <3>3. CmdsOK' /\ \A k \in DOMAIN cmds' : cmds'[k] = c \/ \E n \in DOMAIN cmds : cmds'[k] = cmds[n]
      BY <1>1, <1>3, <2>2, <3>1, <3>2, CmdsGrow, Kinds DEF TaskInv
    <3> QED
      BY <3>2, <3>3
  <2> QED
    BY <1>3, <2>1, <2>2
<1>6. /\ QueuesOK' /\ LoggedOK' /\ RanOK' /\ WorkerOK' /\ SubsOK' /\ DriveOK' /\ RecordOK'
      /\ KnownInHand' /\ PreparedOpen' /\ ShownOK' /\ CalmLog' /\ CalmStart' /\ EvenRestored'
      /\ EvenOpen'
  BY <1>1, <1>2, QueuesOKSame, LoggedOKSame, RanOKSame, WorkerOKSame, SubsOKSame, DriveOKSame,
     RecordOKSame, KnownInHandSame, PreparedOpenSame, ShownOKSame, CalmLogSame, CalmStartSame,
     EvenRestoredSame, EvenOpenSame
  DEF LogInv, TaskInv, HandInv, CalmInv, EvenInv
<1>7. RequestsOK'
  BY <1>1, <1>2, <1>3, <1>4, Kinds DEF Route, Answered, RequestsOK, Requesting, Waiting, TaskInv
<1>8. SyncOK'
  BY <1>1, <1>2, <1>3, <1>4 DEF SyncOK, Driving, Requesting, Waiting, TaskInv
<1>9. DownOK'
  BY <1>1, <1>2, <1>3, <1>4, <1>5 DEF DownOK, Driving, TaskInv
<1>10. CmdsOK'
  BY <1>5
<1>11. StopsOK'
  BY <1>1, <1>2, <1>3, <1>5 DEF StopsOK, TaskInv
<1>12. KnownLogged'
  BY <1>1, <1>2, <1>3, <1>4, Kinds DEF KnownLogged, HandInv
<1>13. GateIsNew'
  BY <1>1, <1>2, <1>3, <1>4 DEF GateIsNew, HandInv
<1>14. WaitsOnce'
  BY <1>1, <1>2, <1>3, <1>4 DEF WaitsOnce, Waiting, HandInv
<1>15. HandsFree'
  BY <1>1, <1>2, <1>3, <1>4, Kinds DEF HandsFree, Driving, HandInv
<1>16. GateOK'
  BY <1>1, <1>2, <1>3, <1>4, Kinds DEF GateOK, HandInv
<1>17. CalmQueue'
  BY <1>1, <1>2, <1>3, <1>4, Kinds DEF CalmQueue, Calm, CalmInv
<1>18. CalmWaits'
  BY <1>1, <1>2, <1>3, <1>4 DEF CalmWaits, Calm, Gone, Waiting, CalmInv
<1>19. CalmEdits'
  BY <1>1, <1>2, <1>3, <1>4 DEF CalmEdits, Calm, Gone, CalmInv
<1>20. CalmPushes'
  BY <1>1, <1>2, <1>3, <1>4 DEF CalmPushes, Calm, CalmInv
<1>21. CalmRemoved'
  BY <1>1, <1>2, <1>3, <1>4, Kinds DEF CalmRemoved, Calm, Gone, CalmInv
<1>22. EvenUp'
  BY <1>1, <1>2, <1>3, <1>4 DEF EvenUp, Even, Attached, Coming, Live, EvenInv
<1> QED
  BY <1>6, <1>7, <1>8, <1>9, <1>10, <1>11, <1>12, <1>13, <1>14, <1>15, <1>16, <1>17, <1>18, <1>19,
     <1>20, <1>21, <1>22
  DEF DriverInv, LogInv, TaskInv, HandInv, CalmInv, EvenInv

\* The worker that a preparation starts reconciles the queues: what is calm is
\* left as it was.
LEMMA Prepares ==
    ASSUME DriverInv, NEW i \in Inputs, Prepare(i)
    PROVE  /\ i \notin ToSet(inbox) \cup steps /\ logged' = logged \cup {i}
           /\ inbox' \in Seq(Inputs) /\ IsInjective(inbox')
           /\ i \in ToSet(inbox') /\ ToSet(inbox') \subseteq ToSet(inbox) \cup {i}
           /\ Calm => ToSet(inbox') = ToSet(inbox) \cup {i}
           /\ steps' \subseteq steps /\ (mailbox \subseteq steps => mailbox \subseteq steps')
           /\ steps' \cap done # {} => steps' = steps /\ wpc # "off"
           /\ wpc' = IF wpc = "off" THEN "idle" ELSE wpc
           /\ UNCHANGED <<done, logPaused, open, cur, wake, mailbox>>
<1>1. /\ inbox \in Seq(Inputs) /\ IsInjective(inbox)
      /\ i \notin ToSet(inbox) \cup steps /\ logged' = logged \cup {i}
      /\ UNCHANGED <<done, logPaused, open, cur, wake, mailbox>>
      /\ mailbox # {} => wpc # "off" /\ (Calm => ToSet(inbox) \cap done = {})
  BY DEF DriverInv, LogInv, QueuesOK, WorkerOK, Turning, Ending, CalmInv, CalmLog, Prepare, Pending
<1>2. PICK t : t = IF wpc = "off" THEN Unconsumed ELSE inbox
  OBVIOUS
<1>3. /\ inbox' = Append(t, i) /\ wpc' = IF wpc = "off" THEN "idle" ELSE wpc
      /\ steps' = IF wpc = "off" THEN steps \ done ELSE steps
  BY <1>2 DEF Prepare
<1>4. /\ t \in Seq(Inputs) /\ IsInjective(t)
      /\ ToSet(t) = IF wpc = "off" THEN ToSet(inbox) \ done ELSE ToSet(inbox)
  BY <1>1, <1>2, Left DEF Unconsumed
<1>5. inbox' \in Seq(Inputs) /\ ToSet(inbox') = ToSet(t) \cup {i} /\ IsInjective(inbox')
  BY <1>1, <1>3, <1>4, Appended
<1>6. Calm => ToSet(inbox) \cap done = {}
  BY DEF DriverInv, CalmInv, CalmLog
<1> QED
  BY <1>1, <1>3, <1>4, <1>5, <1>6

LEMMA AdmitTurnKeeps ==
    ASSUME DriverInv, NEW i \in Prompts, AdmitTurn(i)
    PROVE  DriverInv'
<1>1. LogInv /\ TaskInv /\ HandInv /\ CalmInv /\ EvenInv
  BY DEF DriverInv
<1>2. UNCHANGED <<done, logPaused, open, cur, wake, mailbox, up, queue, known, paused, running, shown,
                dpc, work, bg, cmds, mode, stop, accepted, removed, ran, trouble, budget>>
  BY
  DEF AdmitTurn, Answered, RefusedBy, Prepare, Pending, vars, log, worker, runtime, record, host,
      driver, rpc, ghost
<1>3. /\ i \in Inputs /\ pc[i] = "admit" /\ \A j \in Inputs : j # i => pc'[j] = pc[j]
      /\ up = "up"
      /\ \/ /\ i \in prepared /\ pc'[i] = "push"
            /\ UNCHANGED <<inbox, steps, logged, wpc, sub, prepared, admitting, lost>>
         \/ /\ i \notin prepared /\ pc'[i] = "push" /\ Prepare(i) /\ sub'[i] = "open"
            /\ sub' \in [Inputs -> Live \cup {"none", "over", "parked", "lagged"}]
            /\ (\A j \in Inputs : j # i => sub'[j] = sub[j])
            /\ prepared' = prepared \cup {i} /\ admitting' = admitting
         \/ /\ i \notin prepared /\ pc'[i] = "idle" /\ admitting' = Free /\ i \in ToSet(inbox) \cup steps
            /\ UNCHANGED <<inbox, steps, logged, wpc, sub, prepared>>
  BY <1>1, Kinds DEF AdmitTurn, Pending, Answered, RefusedBy, TaskInv, RequestsOK, DownOK,
     LogInv, SubsOK, Live, log, worker, runtime
<1>4. i \notin ToSet(queue) /\ work # i
  BY <1>1, <1>3 DEF HandInv, WaitsOnce, Waiting
<1>5. Prepare(i) =>
      /\ i \notin ToSet(inbox) \cup steps /\ logged' = logged \cup {i}
      /\ inbox' \in Seq(Inputs) /\ IsInjective(inbox')
      /\ i \in ToSet(inbox') /\ ToSet(inbox') \subseteq ToSet(inbox) \cup {i}
      /\ Calm => ToSet(inbox') = ToSet(inbox) \cup {i}
      /\ steps' \subseteq steps /\ (mailbox \subseteq steps => mailbox \subseteq steps')
      /\ steps' \cap done # {} => steps' = steps /\ wpc # "off"
      /\ wpc' = IF wpc = "off" THEN "idle" ELSE wpc
  BY <1>3, Prepares
<1>6. Calm => Gone(i)
  BY <1>1, <1>3 DEF CalmInv, CalmWaits, Waiting
<1>7. Even => Calm
  BY EvenIsCalm
<1>8. Calm => /\ prepared' = prepared \cup {i} /\ pc'[i] = "push"
              /\ ToSet(inbox') = ToSet(inbox) \cup {i} /\ sub'[i] = "open"
  BY <1>3, <1>5, <1>6 DEF Gone
<1>9. /\ RanOK' /\ DriveOK' /\ RecordOK' /\ StopsOK' /\ KnownInHand' /\ ShownOK'
  BY <1>1, <1>2, RanOKSame, DriveOKSame, RecordOKSame, StopsOKSame, KnownInHandSame, ShownOKSame
  DEF LogInv, TaskInv, HandInv, CalmInv, EvenInv
<1>10. QueuesOK'
  BY <1>1, <1>2, <1>3, <1>5, <1>8 DEF QueuesOK, LogInv
<1>11. LoggedOK'
  BY <1>1, <1>2, <1>3, <1>5, <1>8 DEF LoggedOK, LogInv
<1>12. WorkerOK'
  BY <1>1, <1>2, <1>3, <1>5 DEF WorkerOK, Turning, Ending, LogInv
<1>13. SubsOK'
  BY <1>1, <1>2, <1>3, <1>5, <1>8 DEF SubsOK, Live, LogInv
<1>14. RequestsOK'
  BY <1>1, <1>2, <1>3, <1>5, <1>8, Kinds DEF AdmitTurn, Answered, RequestsOK, Requesting, Waiting, TaskInv
<1>15. SyncOK'
  BY <1>1, <1>2, <1>3, <1>5, <1>8 DEF SyncOK, Driving, Requesting, Waiting, TaskInv
<1>16. DownOK'
  BY <1>1, <1>2, <1>3, <1>5, <1>8 DEF DownOK, Driving, TaskInv
<1>17. CmdsOK'
  BY <1>1, <1>2, <1>3, <1>5, <1>8, Kinds DEF CmdsOK, Requesting, Waiting, TaskInv
<1>18. KnownLogged'
  BY <1>1, <1>2, <1>3, <1>5, <1>8, Kinds DEF KnownLogged, HandInv
<1>19. GateIsNew'
  BY <1>1, <1>2, <1>3, <1>5, <1>8 DEF GateIsNew, HandInv
<1>20. WaitsOnce'
  BY <1>1, <1>2, <1>3, <1>4, <1>5, <1>8 DEF WaitsOnce, Waiting, HandInv
<1>21. PreparedOpen'
  BY <1>1, <1>2, <1>3, <1>5, <1>8, Kinds DEF PreparedOpen, Live, HandInv
<1>22. HandsFree'
  BY <1>1, <1>2, <1>3, <1>4, <1>5, <1>8
  DEF HandsFree, Driving, DriveOK, OneDriver, RequestsOK, Requesting, Waiting, LoggedOK, WaitsOnce,
      LogInv, TaskInv, HandInv
<1>23. GateOK'
  BY <1>1, <1>2, <1>3, <1>5, <1>8, Kinds DEF GateOK, HandInv
<1>24. CalmLog'
  <2>1. Calm' => Calm
    BY <1>2 DEF Calm
  <2>2. /\ steps' \subseteq steps /\ (mailbox \subseteq steps => mailbox \subseteq steps')
        /\ steps' \cap done # {} => steps' = steps /\ wpc' = wpc
    BY <1>3, <1>5
  <2>3. Calm => Gone(i) /\ ToSet(inbox') = ToSet(inbox) \cup {i}
    BY <1>5, <1>6, <1>8
  <2>4. Calm => /\ ToSet(inbox') \cap done = {} /\ mailbox \subseteq steps' \ done
                /\ "unreconciled" \notin trouble => \A j \in Inputs : ran[j] <= 1
    BY <1>1, <2>2, <2>3 DEF CalmInv, CalmLog, Gone
  <2>5. Calm /\ "unreconciled" \notin trouble /\ steps' \cap done # {}
          => wpc' \in {"off", "turn", "turn ends"}
    <3>1. Calm /\ "unreconciled" \notin trouble /\ steps \cap done # {}
            => wpc \in {"off", "turn", "turn ends"}
      BY <1>1 DEF CalmInv, CalmLog
    <3> QED
      BY <2>2, <3>1
  <2>6. trouble' = trouble /\ done' = done /\ mailbox' = mailbox /\ ran' = ran
    BY <1>2
  <2>7. Calm => /\ ToSet(inbox') \cap done' = {} /\ mailbox' \subseteq steps' \ done'
                /\ "unreconciled" \notin trouble' => \A j \in Inputs : ran'[j] <= 1
    BY <2>4, <2>6
  <2>8. Calm /\ "unreconciled" \notin trouble' /\ steps' \cap done' # {}
          => wpc' \in {"off", "turn", "turn ends"}
    BY <2>5, <2>6
  <2> QED
    <3>1. ASSUME Calm'
          PROVE  /\ ToSet(inbox') \cap done' = {} /\ mailbox' \subseteq steps' \ done'
                 /\ "unreconciled" \notin trouble' => \A j \in Inputs : ran'[j] <= 1
                 /\ "unreconciled" \notin trouble' /\ steps' \cap done' # {}
                      => wpc' \in {"off", "turn", "turn ends"}
      BY <2>1, <2>7, <2>8, <3>1
    <3> QED
      BY <3>1 DEF CalmLog
<1>25. CalmQueue'
  BY <1>1, <1>2, <1>3, <1>4, <1>5, <1>6, <1>7, <1>8, Kinds DEF CalmQueue, Calm, CalmInv
<1>26. CalmStart'
  BY <1>1, <1>2, <1>3, <1>4, <1>5, <1>6, <1>7, <1>8 DEF CalmStart, Calm, CalmInv
<1>27. CalmWaits'
  <2>1. Calm' => Calm
    BY <1>2 DEF Calm
  <2>2. Calm => /\ ToSet(inbox') = ToSet(inbox) \cup {i}
                /\ prepared' = prepared \cup {i} /\ pc'[i] = "push" /\ steps' \subseteq steps
    BY <1>3, <1>5, <1>6, <1>8 DEF Gone
  <2>3. ASSUME Calm, NEW j \in Inputs, pc'[j] \in Waiting \cup {"steering"}
        PROVE  j # i /\ Gone(j) /\ j \notin ToSet(queue)
    BY <1>1, <1>3, <2>2, <2>3 DEF CalmInv, CalmWaits, Waiting
  <2>4. ASSUME Calm', NEW j \in Inputs, pc'[j] \in Waiting \cup {"steering"}
        PROVE  /\ j \notin ToSet(inbox') \cup steps' \cup done' \cup prepared'
               /\ j \notin ToSet(queue')
    <3>1. Calm /\ j # i /\ Gone(j) /\ j \notin ToSet(queue)
      BY <2>1, <2>3, <2>4
    <3> QED
      BY <1>2, <2>2, <3>1 DEF Gone
  <2> QED
    BY <2>4 DEF CalmWaits, Gone
<1>28. CalmEdits'
  BY <1>1, <1>2, <1>3, <1>5, <1>6, <1>7, <1>8
  DEF CalmEdits, Calm, Gone, RequestsOK, Requesting, Waiting, TaskInv, CalmInv
<1>29. CalmPushes'
  BY <1>1, <1>2, <1>3, <1>4, <1>5, <1>6, <1>7, <1>8 DEF CalmPushes, Calm, CalmInv
<1>30. CalmRemoved'
  BY <1>1, <1>2, <1>3, <1>4, <1>5, <1>6, <1>7, <1>8, Kinds DEF CalmRemoved, Calm, Gone, CalmInv
<1>31. EvenUp'
  BY <1>1, <1>2, <1>3, <1>4, <1>5, <1>6, <1>7, <1>8 DEF EvenUp, Even, Attached, Coming, Live, EvenInv
<1>32. EvenRestored'
  BY <1>1, <1>2, <1>3, <1>4, <1>5, <1>6, <1>7, <1>8 DEF EvenRestored, Even, Coming, Live, EvenInv
<1>33. EvenOpen'
  BY <1>1, <1>2, <1>3, <1>5, <1>6, <1>7, <1>8 DEF EvenOpen, Even, Turning, EvenInv
<1> QED
  BY <1>9, <1>10, <1>11, <1>12, <1>13, <1>14, <1>15, <1>16, <1>17, <1>18, <1>19, <1>20, <1>21, <1>22,
     <1>23, <1>24, <1>25, <1>26, <1>27, <1>28, <1>29, <1>30, <1>31, <1>32, <1>33
  DEF DriverInv, LogInv, TaskInv, HandInv, CalmInv, EvenInv

LEMMA PushKeeps ==
    ASSUME DriverInv, NEW i \in Prompts, Push(i)
    PROVE  DriverInv'
<1>1. LogInv /\ TaskInv /\ HandInv /\ CalmInv /\ EvenInv
  BY DEF DriverInv
<1>2. UNCHANGED <<inbox, steps, done, logged, logPaused, open, wpc, cur, wake, mailbox, prepared, sub, up,
                paused, shown, work, bg, cmds, mode, stop, removed, lost, ran, budget>>
  BY DEF Push, Answered, MayStart, vars, log, worker, runtime, record, host, driver, rpc, ghost
<1>3. /\ i \in Inputs /\ pc[i] = "push" /\ \A j \in Inputs : j # i => pc'[j] = pc[j]
      /\ queue' = Append(queue, i) /\ known' = known \cup {i} /\ up = "up" /\ trouble' = trouble
      /\ \/ ~running /\ running' = TRUE /\ dpc' = "spawn" /\ pc'[i] = "sync" /\ admitting' = admitting
            /\ accepted' = accepted /\ dpc = "off" /\ work = none
         \/ running' = running /\ dpc' = dpc /\ pc'[i] = "idle" /\ admitting' = Free
            /\ accepted' = accepted \cup {i}
  BY <1>1, Kinds DEF Push, MayStart, Answered, TaskInv, RequestsOK, DownOK, DriveOK, OneDriver, Driving
<1>4. /\ queue' \in Seq(Inputs) /\ ToSet(queue') = ToSet(queue) \cup {i}
      /\ IsInjective(queue) /\ i \notin ToSet(queue) => IsInjective(queue')
  BY <1>1, <1>3, Appended DEF TaskInv, RecordOK
<1>5. CmdsOK'
  BY <1>1, <1>2, <1>3, CmdsKept, Kinds DEF TaskInv
<1>6. Calm => i \in prepared /\ i \notin ToSet(queue) /\ ~(dpc = "start" /\ work = i)
  BY <1>1, <1>3 DEF CalmInv, CalmPushes
<1>7. Even => Calm
  BY EvenIsCalm
<1>8. /\ QueuesOK' /\ LoggedOK' /\ RanOK' /\ WorkerOK' /\ SubsOK' /\ PreparedOpen'
  BY <1>1, <1>2, QueuesOKSame, LoggedOKSame, RanOKSame, WorkerOKSame, SubsOKSame, PreparedOpenSame
  DEF LogInv, TaskInv, HandInv, CalmInv, EvenInv
<1>9. DriveOK'
  <2>1. OneDriver'
    <3>1. OneDriver /\ UNCHANGED <<up, trouble>>
      BY <1>1, <1>2, <1>3 DEF TaskInv, DriveOK
    <3>2. CASE running' = TRUE /\ dpc' = "spawn"
      BY <3>1, <3>2 DEF OneDriver
    <3>3. CASE running' = running /\ dpc' = dpc
      BY <3>1, <3>3 DEF OneDriver
    <3> QED
      BY <1>3, <3>2, <3>3
  <2>2. /\ dpc' \in {"off", "spawn", "top", "rest", "pop", "empty"} \cup Driving
        /\ work' \in Inputs \cup {none} /\ (work' # none <=> dpc' \in Driving)
    BY <1>1, <1>2, <1>3 DEF TaskInv, DriveOK, Driving
  <2> QED
    BY <1>1, <1>2, <1>3, <2>1, <2>2 DEF TaskInv, DriveOK
<1>10. RequestsOK'
  BY <1>1, <1>2, <1>3, Kinds DEF Push, Answered, RequestsOK, Requesting, Waiting, TaskInv
<1>11. RecordOK'
  BY <1>1, <1>2, <1>3, <1>4, <1>6 DEF RecordOK, TaskInv
<1>12. SyncOK'
  <2>1. \A j \in Inputs : j # i /\ pc'[j] = "sync" => dpc = "spawn" /\ pc[j] = "sync"
    BY <1>1, <1>3 DEF TaskInv, SyncOK
  <2>2. (dpc = "off" /\ dpc' = "spawn" /\ pc'[i] = "sync") \/ (dpc' = dpc /\ pc'[i] = "idle")
    BY <1>3
  <2> QED
    BY <1>1, <2>1, <2>2 DEF TaskInv, SyncOK
<1>13. DownOK'
  BY <1>1, <1>2, <1>3, <1>6 DEF DownOK, Driving, TaskInv
<1>14. CmdsOK'
  BY <1>5
<1>15. StopsOK'
  BY <1>1, <1>2, <1>3 DEF StopsOK, TaskInv
<1>16. KnownInHand'
  BY <1>1, <1>2, <1>3, <1>4, <1>6 DEF KnownInHand, HandInv
<1>17. KnownLogged'
  BY <1>1, <1>2, <1>3, Kinds DEF KnownLogged, HandInv
<1>18. GateIsNew'
  BY <1>1, <1>2, <1>3 DEF GateIsNew, HandInv
<1>19. WaitsOnce'
  BY <1>1, <1>2, <1>3, <1>4, <1>6 DEF WaitsOnce, Waiting, HandInv
<1>20. HandsFree'
  BY <1>1, <1>2, <1>3, <1>6, Kinds DEF HandsFree, Driving, HandInv
<1>21. ShownOK'
  BY <1>1, <1>2, <1>3, <1>6 DEF ShownOK, HandInv
<1>22. GateOK'
  BY <1>1, <1>2, <1>3, Kinds DEF GateOK, HandInv
<1>23. CalmLog'
  BY <1>1, <1>2, <1>3, <1>6, <1>7 DEF CalmLog, Calm, CalmInv
<1>24. CalmQueue'
  BY <1>1, <1>2, <1>3, <1>4, <1>6, <1>7, Kinds DEF CalmQueue, Calm, CalmInv
<1>25. CalmStart'
  BY <1>1, <1>2, <1>3, <1>4, <1>6, <1>7 DEF CalmStart, Calm, CalmInv
<1>26. CalmWaits'
  BY <1>1, <1>2, <1>3, <1>4, <1>6, <1>7 DEF CalmWaits, Calm, Gone, Waiting, CalmInv
<1>27. CalmEdits'
  BY <1>1, <1>2, <1>3, <1>6, <1>7 DEF CalmEdits, Calm, Gone, CalmInv
<1>28. CalmPushes'
  BY <1>1, <1>2, <1>3, <1>4, <1>6, <1>7 DEF CalmPushes, Calm, CalmInv
<1>29. CalmRemoved'
  BY <1>1, <1>2, <1>3, <1>4, <1>6, <1>7, Kinds DEF CalmRemoved, Calm, Gone, CalmInv
<1>30. EvenUp'
  BY <1>1, <1>2, <1>3, <1>4, <1>6, <1>7 DEF EvenUp, Even, Attached, Coming, Live, EvenInv
<1>31. EvenRestored'
  BY <1>1, <1>2, <1>3, <1>4, <1>6, <1>7 DEF EvenRestored, Even, Coming, Live, EvenInv
<1>32. EvenOpen'
  BY <1>1, <1>2, <1>3, <1>6, <1>7 DEF EvenOpen, Even, Turning, EvenInv
<1> QED
  BY <1>8, <1>9, <1>10, <1>11, <1>12, <1>13, <1>14, <1>15, <1>16, <1>17, <1>18, <1>19, <1>20, <1>21,
     <1>22, <1>23, <1>24, <1>25, <1>26, <1>27, <1>28, <1>29, <1>30, <1>31, <1>32
  DEF DriverInv, LogInv, TaskInv, HandInv, CalmInv, EvenInv

LEMMA SpawnKeeps ==
    ASSUME DriverInv, NEW i \in Prompts, Spawn(i)
    PROVE  DriverInv'
<1>1. LogInv /\ TaskInv /\ HandInv /\ CalmInv /\ EvenInv
  BY DEF DriverInv
<1>2. UNCHANGED <<inbox, steps, done, logged, logPaused, open, wpc, cur, wake, mailbox, prepared, sub, up, queue,
                known, paused, running, shown, work, bg, cmds, mode, stop, removed, lost, ran, trouble,
                budget>>
  BY DEF Spawn, Answered, vars, log, worker, runtime, record, host, driver, rpc, ghost
<1>3. i \in Inputs /\ pc[i] = "sync" /\ dpc' = "top"
  BY Kinds DEF Spawn
<1>4. dpc = "spawn" /\ work = none
  BY <1>1, <1>3 DEF TaskInv, SyncOK, DriveOK, Driving
<1>5. /\ QueuesOK' /\ LoggedOK' /\ RanOK' /\ WorkerOK' /\ SubsOK' /\ StopsOK' /\ KnownInHand'
      /\ PreparedOpen' /\ CalmLog' /\ EvenRestored' /\ EvenOpen'
  BY <1>1, <1>2, QueuesOKSame, LoggedOKSame, RanOKSame, WorkerOKSame, SubsOKSame, StopsOKSame,
     KnownInHandSame, PreparedOpenSame, CalmLogSame, EvenRestoredSame, EvenOpenSame
  DEF LogInv, TaskInv, HandInv, CalmInv, EvenInv
<1>6. DriveOK'
  BY <1>1, <1>2, <1>3, <1>4 DEF DriveOK, Driving, OneDriver, TaskInv
<1>7. RequestsOK'
  BY <1>1, <1>2, Kinds DEF Spawn, Answered, RequestsOK, Requesting, Waiting, TaskInv
<1>8. RecordOK'
  BY <1>1, <1>2 DEF Spawn, RecordOK, TaskInv
<1>9. SyncOK'
  BY <1>1, <1>2, <1>3, <1>4
  DEF Spawn, Answered, SyncOK, Driving, Requesting, Waiting, DriveOK, OneDriver, RequestsOK, TaskInv
<1>10. DownOK'
  BY <1>1, <1>2, <1>3, <1>4 DEF DownOK, Driving, TaskInv
<1>11. CmdsOK'
  BY <1>1, <1>2 DEF Spawn, Answered, CmdsOK, Requesting, Waiting, TaskInv
<1>12. KnownLogged'
  BY <1>1, <1>2 DEF Spawn, Answered, KnownLogged, HandInv
<1>13. GateIsNew'
  BY <1>1, <1>2 DEF Spawn, Answered, GateIsNew, HandInv
<1>14. WaitsOnce'
  BY <1>1, <1>2, <1>4 DEF Spawn, Answered, WaitsOnce, Waiting, HandInv
<1>15. HandsFree'
  BY <1>1, <1>2, <1>3, <1>4 DEF Spawn, Answered, HandsFree, Driving, HandInv
<1>16. ShownOK'
  BY <1>1, <1>2, <1>3, <1>4 DEF ShownOK, HandInv
<1>17. GateOK'
  BY <1>1, <1>2 DEF Spawn, Answered, GateOK, HandInv
<1>18. CalmQueue'
  BY <1>1, <1>2, Kinds
  DEF Spawn, Answered, CalmQueue, Calm, QueuesOK, RecordOK, RequestsOK, Requesting, Waiting, LogInv,
      TaskInv, CalmInv
<1>19. CalmStart'
  BY <1>1, <1>2, <1>3, <1>4 DEF CalmStart, Calm, CalmInv
<1>20. CalmWaits'
  BY <1>1, <1>2
  DEF Spawn, Answered, CalmWaits, Calm, Gone, Waiting, RequestsOK, Requesting, RecordOK, TaskInv,
      CalmInv
<1>21. CalmEdits'
  BY <1>1, <1>2
  DEF Spawn, Answered, CalmEdits, Calm, Gone, RequestsOK, Requesting, Waiting, TaskInv, CalmInv
<1>22. CalmPushes'
  BY <1>1, <1>2, <1>3, <1>4
  DEF Spawn, Answered, CalmPushes, Calm, RequestsOK, Requesting, Waiting, RecordOK, TaskInv, CalmInv
<1>23. CalmRemoved'
  BY <1>1, <1>2, Kinds
  DEF Spawn, Answered, CalmRemoved, Calm, Gone, RequestsOK, Requesting, Waiting, RecordOK, TaskInv,
      CalmInv
<1>24. EvenUp'
  BY <1>1, <1>2, <1>4 DEF Spawn, Answered, EvenUp, Even, Attached, Coming, Live, EvenInv
<1> QED
  BY <1>5, <1>6, <1>7, <1>8, <1>9, <1>10, <1>11, <1>12, <1>13, <1>14, <1>15, <1>16, <1>17, <1>18, <1>19,
     <1>20, <1>21, <1>22, <1>23, <1>24
  DEF DriverInv, LogInv, TaskInv, HandInv, CalmInv, EvenInv

LEMMA SpawnFailsKeeps ==
    ASSUME DriverInv, NEW i \in Prompts, SpawnFails(i)
    PROVE  DriverInv'
<1>1. LogInv /\ TaskInv /\ HandInv /\ CalmInv /\ EvenInv
  BY DEF DriverInv
<1>2. UNCHANGED <<inbox, steps, done, logged, logPaused, open, wpc, cur, wake, mailbox, prepared, sub, up, queue,
                known, paused, running, shown, work, bg, mode, accepted, removed, lost, ran>>
  BY DEF SpawnFails, Answered, Upset, vars, log, worker, runtime, record, host, driver, rpc, ghost
<1>3. /\ i \in Inputs /\ pc[i] = "sync" /\ dpc' = "off" /\ cmds' = <<>>
      /\ trouble' = trouble \cup {"fault"}
  BY Kinds DEF SpawnFails, Upset
<1>4. dpc = "spawn" /\ work = none
  BY <1>1, <1>3 DEF TaskInv, SyncOK, DriveOK, Driving
<1>5. DOMAIN cmds' = {} /\ stop' = [s \in Stops |-> IF stop[s] = "wait" THEN "idle" ELSE stop[s]]
  BY <1>3, CmdsDropped DEF SpawnFails
<1>6. /\ QueuesOK' /\ LoggedOK' /\ RanOK' /\ WorkerOK' /\ SubsOK' /\ RecordOK' /\ KnownInHand'
      /\ PreparedOpen'
  BY <1>1, <1>2, QueuesOKSame, LoggedOKSame, RanOKSame, WorkerOKSame, SubsOKSame, RecordOKSame,
     KnownInHandSame, PreparedOpenSame
  DEF LogInv, TaskInv, HandInv, CalmInv, EvenInv
<1>7. DriveOK'
  BY <1>1, <1>2, <1>3, <1>4 DEF DriveOK, Driving, OneDriver, TaskInv
<1>8. RequestsOK'
  BY <1>1, <1>2, Kinds DEF SpawnFails, Answered, RequestsOK, Requesting, Waiting, TaskInv
<1>9. SyncOK'
  BY <1>1, <1>2, <1>3, <1>4
  DEF SpawnFails, Answered, SyncOK, Driving, Requesting, Waiting, DriveOK, OneDriver, RequestsOK,
      TaskInv
<1>10. DownOK'
  BY <1>1, <1>2, <1>3, <1>4, <1>5 DEF DownOK, Driving, TaskInv
<1>11. CmdsOK'
  BY <1>1, <1>2, <1>3, <1>5 DEF CmdsOK, Requesting, Waiting, TaskInv
<1>12. StopsOK'
  BY <1>1, <1>2, <1>3, <1>5 DEF StopsOK, TaskInv
<1>13. KnownLogged'
  BY <1>1, <1>2 DEF SpawnFails, Answered, KnownLogged, HandInv
<1>14. GateIsNew'
  BY <1>1, <1>2 DEF SpawnFails, Answered, GateIsNew, HandInv
<1>15. WaitsOnce'
  BY <1>1, <1>2, <1>4 DEF SpawnFails, Answered, WaitsOnce, Waiting, HandInv
<1>16. HandsFree'
  BY <1>1, <1>2, <1>3, <1>4 DEF SpawnFails, Answered, HandsFree, Driving, HandInv
<1>17. ShownOK'
  BY <1>1, <1>2, <1>3, <1>4 DEF ShownOK, HandInv
<1>18. GateOK'
  BY <1>1, <1>2 DEF SpawnFails, Answered, GateOK, HandInv
<1>19. CalmLog'
  BY <1>1, <1>2, <1>3 DEF CalmLog, Calm, CalmInv
<1>20. CalmQueue'
  BY <1>1, <1>2, <1>3, Kinds
  DEF SpawnFails, Answered, Upset, CalmQueue, Calm, QueuesOK, RecordOK, RequestsOK, Requesting,
      Waiting, LogInv, TaskInv, CalmInv
<1>21. CalmStart'
  BY <1>1, <1>2, <1>3, <1>4 DEF CalmStart, Calm, CalmInv
<1>22. CalmWaits'
  BY <1>1, <1>2, <1>3
  DEF SpawnFails, Answered, Upset, CalmWaits, Calm, Gone, Waiting, RequestsOK, Requesting, RecordOK,
      TaskInv, CalmInv
<1>23. CalmEdits'
  BY <1>1, <1>2, <1>3
  DEF SpawnFails, Answered, Upset, CalmEdits, Calm, Gone, RequestsOK, Requesting, Waiting, TaskInv,
      CalmInv
<1>24. CalmPushes'
  BY <1>1, <1>2, <1>3, <1>4
  DEF SpawnFails, Answered, Upset, CalmPushes, Calm, RequestsOK, Requesting, Waiting, RecordOK,
      TaskInv, CalmInv
<1>25. CalmRemoved'
  BY <1>1, <1>2, <1>3, Kinds
  DEF SpawnFails, Answered, Upset, CalmRemoved, Calm, Gone, RequestsOK, Requesting, Waiting, RecordOK,
      TaskInv, CalmInv
<1>26. EvenUp'
  BY <1>1, <1>2, <1>3, <1>4 DEF EvenUp, Even, Attached, Coming, Live, EvenInv
<1>27. EvenRestored'
  BY <1>1, <1>2, <1>3 DEF EvenRestored, Even, Coming, Live, EvenInv
<1>28. EvenOpen'
  BY <1>1, <1>2, <1>3 DEF EvenOpen, Even, Turning, EvenInv
<1> QED
  BY <1>6, <1>7, <1>8, <1>9, <1>10, <1>11, <1>12, <1>13, <1>14, <1>15, <1>16, <1>17, <1>18, <1>19,
     <1>20, <1>21, <1>22, <1>23, <1>24, <1>25, <1>26, <1>27, <1>28
  DEF DriverInv, LogInv, TaskInv, HandInv, CalmInv, EvenInv

-----------------------------------------------------------------------------
(* Requests: edits of the queue, stops and approvals *)

LEMMA TakeBackKeeps ==
    ASSUME DriverInv, NEW i \in Prompts, NEW m \in {"remove", "steer"}, TakeBack(i, m)
    PROVE  DriverInv'
<1>1. LogInv /\ TaskInv /\ HandInv /\ CalmInv /\ EvenInv
  BY DEF DriverInv
<1>2. UNCHANGED <<done, logged, logPaused, open, wpc, cur, wake, mailbox, up, queue, known, paused, running,
                shown, dpc, work, bg, cmds, stop, accepted, removed, lost, ran>>
  BY DEF TakeBack, Minus, Pending, Upset, vars, log, worker, runtime, record, host, driver, rpc, ghost
<1>3. /\ i \in Inputs /\ up = "up" /\ pc[i] = "idle" /\ \A j \in Inputs : j # i => pc'[j] = pc[j]
      /\ pc'[i] = "unqueue" /\ admitting' = i /\ i \in ToSet(inbox) \cup steps /\ i \in accepted
      /\ inbox' = Without(inbox, {i}) /\ steps' = steps \ {i} /\ prepared' = prepared \ {i}
      /\ \A j \in Inputs : j # i => sub'[j] = sub[j]
      /\ trouble' = trouble \cup (IF work = i \/ i \in mailbox \cup done THEN {"raced"} ELSE {})
  BY <1>1, Kinds DEF TakeBack, Minus, Pending, Upset, TaskInv, RequestsOK, LogInv, SubsOK
<1>4. /\ inbox' \in Seq(Inputs) /\ ToSet(inbox') = ToSet(inbox) \ {i}
      /\ IsInjective(inbox) => IsInjective(inbox')
  BY <1>1, <1>3, Left DEF LogInv, QueuesOK
<1>5. Calm' => Calm /\ trouble' = trouble /\ work # i /\ i \notin mailbox \cup done
  BY <1>3 DEF Calm
<1>6. Even' => Even /\ Calm /\ work # i /\ i \notin mailbox \cup done
  BY <1>3, EvenIsCalm DEF Even
<1>7. /\ "left out" \in trouble' <=> "left out" \in trouble
      /\ "stopped" \in trouble' <=> "stopped" \in trouble
  BY <1>3
<1>8. Calm' => i \notin done
  BY <1>5
<1>9. /\ RanOK' /\ WorkerOK' /\ RecordOK' /\ KnownInHand' /\ ShownOK'
  BY <1>1, <1>2, RanOKSame, WorkerOKSame, RecordOKSame, KnownInHandSame, ShownOKSame
  DEF LogInv, TaskInv, HandInv, CalmInv, EvenInv
<1>10. QueuesOK'
  BY <1>1, <1>2, <1>3, <1>4 DEF QueuesOK, LogInv
<1>11. LoggedOK'
  BY <1>1, <1>2, <1>3, <1>4, <1>8 DEF LoggedOK, LogInv
<1>12. SubsOK'
  BY <1>1, <1>2, <1>3 DEF TakeBack, SubsOK, Live, LogInv
<1>13. DriveOK'
  BY <1>1, <1>2, <1>3, <1>5, <1>7 DEF DriveOK, Driving, OneDriver, TaskInv
<1>14. RequestsOK'
  BY <1>1, <1>2, <1>3 DEF TakeBack, RequestsOK, Requesting, Waiting, TaskInv
<1>15. SyncOK'
  BY <1>1, <1>2, <1>3 DEF TaskInv, SyncOK
<1>16. DownOK'
  BY <1>1, <1>2, <1>3 DEF DownOK, Driving, TaskInv
<1>17. CmdsOK'
  BY <1>1, <1>2, <1>3 DEF TakeBack, CmdsOK, Requesting, Waiting, TaskInv
<1>18. StopsOK'
  BY <1>1, <1>2, <1>3, <1>5, <1>7 DEF StopsOK, TaskInv
<1>19. KnownLogged'
  BY <1>1, <1>2, <1>3 DEF TakeBack, KnownLogged, HandInv
<1>20. GateIsNew'
  BY <1>1, <1>2, <1>3 DEF GateIsNew, HandInv
<1>21. WaitsOnce'
  BY <1>1, <1>2, <1>3 DEF TakeBack, WaitsOnce, Waiting, HandInv
<1>22. PreparedOpen'
  BY <1>1, <1>2, <1>3 DEF TakeBack, PreparedOpen, Live, HandInv
<1>23. HandsFree'
  BY <1>1, <1>2, <1>3 DEF TakeBack, HandsFree, Driving, HandInv
<1>24. GateOK'
  BY <1>1, <1>2, <1>3 DEF GateOK, HandInv
<1>25. CalmLog'
  BY <1>1, <1>2, <1>3, <1>4, <1>5, <1>6, <1>7, <1>8 DEF CalmLog, Calm, CalmInv
<1>26. CalmQueue'
  BY <1>1, <1>2, <1>3, <1>4, <1>5, <1>6, <1>7, <1>8, Kinds DEF CalmQueue, Calm, CalmInv
<1>27. CalmStart'
  BY <1>1, <1>2, <1>3, <1>5, <1>6, <1>7, <1>8 DEF CalmStart, Calm, CalmInv
<1>28. CalmWaits'
  BY <1>1, <1>2, <1>3, <1>4, <1>5, <1>6, <1>7, <1>8 DEF CalmWaits, Calm, Gone, Waiting, CalmInv
<1>29. CalmEdits'
  BY <1>1, <1>2, <1>3, <1>4, <1>5, <1>6, <1>7, <1>8 DEF CalmEdits, Calm, Gone, CalmInv
<1>30. CalmPushes'
  BY <1>1, <1>2, <1>3, <1>5, <1>6, <1>7, <1>8 DEF CalmPushes, Calm, CalmInv
<1>31. CalmRemoved'
  BY <1>1, <1>2, <1>3, <1>4, <1>5, <1>6, <1>7, <1>8, Kinds DEF CalmRemoved, Calm, Gone, CalmInv
<1>32. EvenUp'
  <2>1. ASSUME Even', NEW j \in Inputs, Coming(j)' PROVE sub'[j] \in Live /\ Attached(j)'
    <3>1. Even /\ Coming(j) /\ work # i /\ Calm
      BY <1>2, <1>4, <1>6, <2>1 DEF Coming
    <3>2. sub[j] \in Live /\ Attached(j)
      BY <1>1, <1>2, <1>3, <3>1 DEF EvenInv, EvenUp
    <3>3. j # i
      BY <1>1, <1>2, <1>4, <1>6, <2>1, <3>1 DEF Coming, LogInv, WorkerOK
    <3> QED
      BY <1>2, <1>3, <1>4, <3>1, <3>2, <3>3 DEF Attached
  <2> QED
    BY <2>1 DEF EvenUp
<1>33. EvenRestored'
  BY <1>1, <1>2, <1>3, <1>4, <1>5, <1>6, <1>7, <1>8 DEF EvenRestored, Even, Coming, Live, EvenInv
<1>34. EvenOpen'
  BY <1>1, <1>2, <1>3, <1>5, <1>6, <1>7, <1>8 DEF EvenOpen, Even, Turning, EvenInv
<1> QED
  BY <1>9, <1>10, <1>11, <1>12, <1>13, <1>14, <1>15, <1>16, <1>17, <1>18, <1>19, <1>20, <1>21, <1>22,
     <1>23, <1>24, <1>25, <1>26, <1>27, <1>28, <1>29, <1>30, <1>31, <1>32, <1>33, <1>34
  DEF DriverInv, LogInv, TaskInv, HandInv, CalmInv, EvenInv

LEMMA UnqueueKeeps ==
    ASSUME DriverInv, NEW i \in Prompts, Unqueue(i)
    PROVE  DriverInv'
<1>1. LogInv /\ TaskInv /\ HandInv /\ CalmInv /\ EvenInv
  BY DEF DriverInv
<1>2. UNCHANGED <<inbox, steps, done, logged, logPaused, open, wpc, cur, wake, mailbox, prepared, sub, up, known,
                paused, running, shown, dpc, work, bg, cmds, mode, stop, accepted, lost, ran, trouble,
                budget>>
  BY
  DEF Unqueue, OffQueue, Minus, Answered, vars, log, worker, runtime, record, host, driver, rpc, ghost
<1>3. /\ i \in Inputs /\ pc[i] = "unqueue" /\ \A j \in Inputs : j # i => pc'[j] = pc[j]
      /\ queue' = Without(queue, {i}) /\ up = "up"
      /\ \/ mode[i] = "steer" /\ pc'[i] \in {"resume", "route"} /\ admitting' = admitting /\ removed' = removed
         \/ pc'[i] = "idle" /\ admitting' = Free /\ removed' = removed \cup {i}
  BY <1>1, Kinds DEF Unqueue, OffQueue, Minus, Answered, TaskInv, RequestsOK, DownOK
<1>4. /\ queue' \in Seq(Inputs) /\ ToSet(queue') = ToSet(queue) \ {i}
      /\ IsInjective(queue) => IsInjective(queue')
  BY <1>1, <1>3, Left DEF TaskInv, RecordOK
<1>5. Calm => Gone(i)
  BY <1>1, <1>3 DEF CalmInv, CalmEdits
<1>6. Even => Calm
  BY EvenIsCalm
<1>7. /\ QueuesOK' /\ LoggedOK' /\ RanOK' /\ WorkerOK' /\ SubsOK' /\ DriveOK' /\ StopsOK'
      /\ PreparedOpen' /\ ShownOK' /\ CalmLog' /\ EvenOpen'
  BY <1>1, <1>2, QueuesOKSame, LoggedOKSame, RanOKSame, WorkerOKSame, SubsOKSame, DriveOKSame,
     StopsOKSame, PreparedOpenSame, ShownOKSame, CalmLogSame, EvenOpenSame
  DEF LogInv, TaskInv, HandInv, CalmInv, EvenInv
<1>8. RequestsOK'
  BY <1>1, <1>2, <1>3, Kinds DEF Unqueue, Answered, RequestsOK, Requesting, Waiting, TaskInv
<1>9. RecordOK'
  BY <1>1, <1>2, <1>3, <1>4 DEF RecordOK, TaskInv
<1>10. SyncOK'
  BY <1>1, <1>2, <1>3 DEF SyncOK, Driving, Requesting, Waiting, TaskInv
<1>11. DownOK'
  BY <1>1, <1>2, <1>3 DEF DownOK, Driving, TaskInv
<1>12. CmdsOK'
  BY <1>1, <1>2, <1>3, Kinds DEF CmdsOK, Requesting, Waiting, TaskInv
<1>13. KnownInHand'
  BY <1>1, <1>2, <1>3, <1>4 DEF KnownInHand, HandInv
<1>14. KnownLogged'
  BY <1>1, <1>2, <1>3, Kinds DEF KnownLogged, HandInv
<1>15. GateIsNew'
  BY <1>1, <1>2, <1>3 DEF GateIsNew, HandInv
<1>16. WaitsOnce'
  BY <1>1, <1>2, <1>3, <1>4 DEF WaitsOnce, Waiting, HandInv
<1>17. HandsFree'
  BY <1>1, <1>2, <1>3, Kinds DEF HandsFree, Driving, HandInv
<1>18. GateOK'
  BY <1>1, <1>2, <1>3, Kinds DEF GateOK, HandInv
<1>19. CalmQueue'
  BY <1>1, <1>2, <1>3, <1>4, <1>5, <1>6, Kinds DEF CalmQueue, Calm, CalmInv
<1>20. CalmStart'
  BY <1>1, <1>2, <1>3, <1>4, <1>5, <1>6 DEF CalmStart, Calm, CalmInv
<1>21. CalmWaits'
  BY <1>1, <1>2, <1>3, <1>4, <1>5, <1>6 DEF CalmWaits, Calm, Gone, Waiting, CalmInv
<1>22. CalmEdits'
  BY <1>1, <1>2, <1>3, <1>5, <1>6 DEF CalmEdits, Calm, Gone, CalmInv
<1>23. CalmPushes'
  BY <1>1, <1>2, <1>3, <1>4, <1>5, <1>6 DEF CalmPushes, Calm, CalmInv
<1>24. CalmRemoved'
  BY <1>1, <1>2, <1>3, <1>4, <1>5, <1>6, Kinds DEF CalmRemoved, Calm, Gone, CalmInv
<1>25. EvenUp'
  <2>1. ASSUME Even', NEW j \in Inputs, Coming(j)' PROVE sub'[j] \in Live /\ Attached(j)'
    <3>1. Even /\ Coming(j)
      BY <1>2, <2>1 DEF Even, Coming
    <3>2. sub'[j] \in Live /\ Attached(j)
      BY <1>1, <1>2, <1>3, <3>1 DEF EvenInv, EvenUp
    <3>3. j # i
      BY <1>1, <1>5, <1>6, <3>1 DEF Coming, Gone, LogInv, WorkerOK
    <3> QED
      BY <1>2, <1>3, <1>4, <3>2, <3>3 DEF Attached
  <2> QED
    BY <2>1 DEF EvenUp
<1>26. EvenRestored'
  BY <1>1, <1>2, <1>3, <1>4, <1>5, <1>6 DEF EvenRestored, Even, Coming, Live, EvenInv
<1> QED
  BY <1>7, <1>8, <1>9, <1>10, <1>11, <1>12, <1>13, <1>14, <1>15, <1>16, <1>17, <1>18, <1>19, <1>20,
     <1>21, <1>22, <1>23, <1>24, <1>25, <1>26
  DEF DriverInv, LogInv, TaskInv, HandInv, CalmInv, EvenInv

LEMMA StopKeeps ==
    ASSUME DriverInv, NEW s \in Stops, Stop(s)
    PROVE  DriverInv'
<1>1. LogInv /\ TaskInv /\ HandInv /\ CalmInv /\ EvenInv
  BY DEF DriverInv
<1>2. UNCHANGED <<inbox, steps, done, logged, logPaused, open, wpc, cur, wake, mailbox, prepared, sub, up, queue,
                known, paused, running, shown, dpc, work, bg, cmds, pc, mode, admitting, accepted, removed,
                lost, ran>>
  BY DEF Stop, Upset, vars, log, worker, runtime, record, host, driver, rpc, ghost
<1>3. /\ QueuesOK' /\ LoggedOK' /\ RanOK' /\ WorkerOK' /\ SubsOK' /\ RequestsOK' /\ RecordOK'
      /\ SyncOK' /\ DownOK' /\ CmdsOK' /\ KnownInHand' /\ KnownLogged' /\ GateIsNew'
      /\ WaitsOnce' /\ PreparedOpen' /\ HandsFree' /\ ShownOK' /\ GateOK'
  BY <1>1, <1>2, QueuesOKSame, LoggedOKSame, RanOKSame, WorkerOKSame, SubsOKSame, RequestsOKSame,
     RecordOKSame, SyncOKSame, DownOKSame, CmdsOKSame, KnownInHandSame, KnownLoggedSame, GateIsNewSame,
     WaitsOnceSame, PreparedOpenSame, HandsFreeSame, ShownOKSame, GateOKSame
  DEF LogInv, TaskInv, HandInv, CalmInv, EvenInv
<1>4. DriveOK'
  BY <1>1, <1>2 DEF Stop, Upset, DriveOK, Driving, OneDriver, TaskInv
<1>5. StopsOK'
  BY <1>1, <1>2 DEF Stop, Upset, StopsOK, TaskInv
<1>6. CalmLog'
  BY <1>1, <1>2 DEF Stop, Upset, CalmLog, Calm, CalmInv
<1>7. CalmQueue'
  BY <1>1, <1>2 DEF Stop, Upset, CalmQueue, Calm, CalmInv
<1>8. CalmStart'
  BY <1>1, <1>2 DEF Stop, Upset, CalmStart, Calm, CalmInv
<1>9. CalmWaits'
  BY <1>1, <1>2 DEF Stop, Upset, CalmWaits, Calm, Gone, Waiting, CalmInv
<1>10. CalmEdits'
  BY <1>1, <1>2 DEF Stop, Upset, CalmEdits, Calm, Gone, CalmInv
<1>11. CalmPushes'
  BY <1>1, <1>2 DEF Stop, Upset, CalmPushes, Calm, CalmInv
<1>12. CalmRemoved'
  BY <1>1, <1>2 DEF Stop, Upset, CalmRemoved, Calm, Gone, CalmInv
<1>13. EvenUp'
  BY <1>1, <1>2 DEF Stop, Upset, EvenUp, Even, Attached, Coming, Live, EvenInv
<1>14. EvenRestored'
  BY <1>1, <1>2 DEF Stop, Upset, EvenRestored, Even, Coming, Live, EvenInv
<1>15. EvenOpen'
  BY <1>1, <1>2 DEF Stop, Upset, EvenOpen, Even, Turning, EvenInv
<1> QED
  BY <1>3, <1>4, <1>5, <1>6, <1>7, <1>8, <1>9, <1>10, <1>11, <1>12, <1>13, <1>14, <1>15
  DEF DriverInv, LogInv, TaskInv, HandInv, CalmInv, EvenInv

LEMMA StopLogKeeps ==
    ASSUME DriverInv, NEW s \in Stops, StopLog(s)
    PROVE  DriverInv'
<1>1. LogInv /\ TaskInv /\ HandInv /\ CalmInv /\ EvenInv
  BY DEF DriverInv
<1>2. UNCHANGED <<inbox, steps, done, logged, open, wpc, cur, wake, mailbox, prepared, sub, up, queue, known,
                paused, running, shown, dpc, work, bg, cmds, pc, mode, admitting, accepted, removed, lost,
                ran, trouble, budget>>
  BY DEF StopLog, vars, log, worker, runtime, record, host, driver, rpc, ghost
<1>3. /\ QueuesOK' /\ LoggedOK' /\ RanOK' /\ SubsOK' /\ DriveOK' /\ RequestsOK' /\ RecordOK'
      /\ SyncOK' /\ DownOK' /\ CmdsOK' /\ KnownInHand' /\ KnownLogged' /\ GateIsNew'
      /\ WaitsOnce' /\ PreparedOpen' /\ HandsFree' /\ ShownOK' /\ GateOK' /\ CalmLog'
      /\ CalmQueue' /\ CalmStart' /\ CalmWaits' /\ CalmEdits' /\ CalmPushes' /\ CalmRemoved'
      /\ EvenUp' /\ EvenRestored' /\ EvenOpen'
  BY <1>1, <1>2, QueuesOKSame, LoggedOKSame, RanOKSame, SubsOKSame, DriveOKSame, RequestsOKSame,
     RecordOKSame, SyncOKSame, DownOKSame, CmdsOKSame, KnownInHandSame, KnownLoggedSame, GateIsNewSame,
     WaitsOnceSame, PreparedOpenSame, HandsFreeSame, ShownOKSame, GateOKSame, CalmLogSame,
     CalmQueueSame, CalmStartSame, CalmWaitsSame, CalmEditsSame, CalmPushesSame, CalmRemovedSame,
     EvenUpSame, EvenRestoredSame, EvenOpenSame
  DEF LogInv, TaskInv, HandInv, CalmInv, EvenInv
<1>4. WorkerOK'
  BY <1>1, <1>2 DEF StopLog, WorkerOK, Turning, Ending, LogInv
<1>5. StopsOK'
  BY <1>1, <1>2 DEF StopLog, StopsOK, TaskInv
<1> QED
  BY <1>3, <1>4, <1>5 DEF DriverInv, LogInv, TaskInv, HandInv, CalmInv, EvenInv

LEMMA StopMemoryKeeps ==
    ASSUME DriverInv, NEW s \in Stops, StopMemory(s)
    PROVE  DriverInv'
<1>1. LogInv /\ TaskInv /\ HandInv /\ CalmInv /\ EvenInv
  BY DEF DriverInv
<1>2. UNCHANGED <<inbox, steps, done, logged, logPaused, open, wpc, cur, wake, mailbox, prepared, sub, up, queue,
                known, running, shown, dpc, work, bg, cmds, pc, mode, admitting, accepted, removed, lost,
                ran, trouble, budget>>
  BY DEF StopMemory, vars, log, worker, runtime, record, host, driver, rpc, ghost
<1>3. /\ QueuesOK' /\ LoggedOK' /\ RanOK' /\ WorkerOK' /\ SubsOK' /\ DriveOK' /\ RequestsOK'
      /\ SyncOK' /\ DownOK' /\ CmdsOK' /\ KnownInHand' /\ KnownLogged' /\ GateIsNew'
      /\ WaitsOnce' /\ PreparedOpen' /\ HandsFree' /\ ShownOK' /\ GateOK' /\ CalmLog'
      /\ CalmQueue' /\ CalmStart' /\ CalmWaits' /\ CalmEdits' /\ CalmPushes' /\ CalmRemoved'
      /\ EvenUp' /\ EvenRestored' /\ EvenOpen'
  BY <1>1, <1>2, QueuesOKSame, LoggedOKSame, RanOKSame, WorkerOKSame, SubsOKSame, DriveOKSame,
     RequestsOKSame, SyncOKSame, DownOKSame, CmdsOKSame, KnownInHandSame, KnownLoggedSame,
     GateIsNewSame, WaitsOnceSame, PreparedOpenSame, HandsFreeSame, ShownOKSame, GateOKSame,
     CalmLogSame, CalmQueueSame, CalmStartSame, CalmWaitsSame, CalmEditsSame, CalmPushesSame,
     CalmRemovedSame, EvenUpSame, EvenRestoredSame, EvenOpenSame
  DEF LogInv, TaskInv, HandInv, CalmInv, EvenInv
<1>4. RecordOK'
  BY <1>1, <1>2 DEF StopMemory, RecordOK, TaskInv
<1>5. StopsOK'
  BY <1>1, <1>2 DEF StopMemory, StopsOK, TaskInv
<1> QED
  BY <1>3, <1>4, <1>5 DEF DriverInv, LogInv, TaskInv, HandInv, CalmInv, EvenInv

LEMMA StopSendKeeps ==
    ASSUME DriverInv, NEW s \in Stops, StopSend(s)
    PROVE  DriverInv'
<1>1. LogInv /\ TaskInv /\ HandInv /\ CalmInv /\ EvenInv
  BY DEF DriverInv
<1>2. UNCHANGED <<inbox, steps, done, logged, logPaused, open, wpc, cur, wake, mailbox, prepared, sub, up, queue,
                known, paused, running, shown, dpc, work, bg, pc, mode, admitting, accepted, removed, lost,
                ran, trouble, budget>>
  BY DEF StopSend, vars, log, worker, runtime, record, host, driver, rpc, ghost
<1>3. cmds' = cmds \/ cmds' = Append(cmds, [kind |-> "stop", by |-> s])
  BY DEF StopSend
<1>4. CmdsOK'
  <2>1. CASE cmds' = cmds
    BY <1>1, <1>2, <2>1, CmdsKept DEF TaskInv
  <2>2. CASE cmds' = Append(cmds, [kind |-> "stop", by |-> s])
    <3>1. PICK c : c = [kind |-> "stop", by |-> s]
      OBVIOUS
    <3>2. c \in Commands /\ c.kind # "steer"
      BY <3>1 DEF Commands
    <3> QED
      BY <1>1, <1>2, <2>2, <3>1, <3>2, CmdsGrow DEF TaskInv
  <2> QED
    BY <1>3, <2>1, <2>2
<1>5. /\ QueuesOK' /\ LoggedOK' /\ RanOK' /\ WorkerOK' /\ SubsOK' /\ DriveOK' /\ RequestsOK'
      /\ RecordOK' /\ SyncOK' /\ KnownInHand' /\ KnownLogged' /\ GateIsNew' /\ WaitsOnce'
      /\ PreparedOpen' /\ HandsFree' /\ ShownOK' /\ GateOK' /\ CalmLog' /\ CalmQueue'
      /\ CalmStart' /\ CalmWaits' /\ CalmEdits' /\ CalmPushes' /\ CalmRemoved' /\ EvenUp'
      /\ EvenRestored' /\ EvenOpen'
  BY <1>1, <1>2, QueuesOKSame, LoggedOKSame, RanOKSame, WorkerOKSame, SubsOKSame, DriveOKSame,
     RequestsOKSame, RecordOKSame, SyncOKSame, KnownInHandSame, KnownLoggedSame, GateIsNewSame,
     WaitsOnceSame, PreparedOpenSame, HandsFreeSame, ShownOKSame, GateOKSame, CalmLogSame,
     CalmQueueSame, CalmStartSame, CalmWaitsSame, CalmEditsSame, CalmPushesSame, CalmRemovedSame,
     EvenUpSame, EvenRestoredSame, EvenOpenSame
  DEF LogInv, TaskInv, HandInv, CalmInv, EvenInv
<1>6. DownOK'
  BY <1>1, <1>2, <1>3 DEF StopSend, DownOK, Driving, TaskInv
<1>7. CmdsOK'
  BY <1>4
<1>8. StopsOK'
  BY <1>1, <1>2, <1>3 DEF StopSend, StopsOK, TaskInv
<1> QED
  BY <1>5, <1>6, <1>7, <1>8 DEF DriverInv, LogInv, TaskInv, HandInv, CalmInv, EvenInv

LEMMA AnswerKeeps ==
    ASSUME DriverInv, NEW i \in Inputs, Answer(i)
    PROVE  DriverInv'
<1>1. LogInv /\ TaskInv /\ HandInv /\ CalmInv /\ EvenInv
  BY DEF DriverInv
<1>2. UNCHANGED <<inbox, steps, done, logged, logPaused, open, wpc, cur, wake, mailbox, prepared, sub, up, queue,
                known, paused, running, shown, dpc, work, bg, pc, mode, admitting, stop, accepted, removed,
                lost, ran, trouble, budget>>
  BY DEF Answer, vars, log, worker, runtime, record, host, driver, rpc, ghost
<1>3. PICK c : c = [kind |-> "answer", by |-> i] /\ cmds' = Append(cmds, c)
  BY DEF Answer
<1>4. c \in Commands /\ c.kind = "answer"
  BY <1>3 DEF Commands
<1>5. CmdsOK' /\ \A k \in DOMAIN cmds' : cmds'[k] = c \/ \E n \in DOMAIN cmds : cmds'[k] = cmds[n]
  BY <1>1, <1>2, <1>3, <1>4, CmdsGrow DEF TaskInv
<1>6. /\ QueuesOK' /\ LoggedOK' /\ RanOK' /\ WorkerOK' /\ SubsOK' /\ DriveOK' /\ RequestsOK'
      /\ RecordOK' /\ SyncOK' /\ KnownInHand' /\ KnownLogged' /\ GateIsNew' /\ WaitsOnce'
      /\ PreparedOpen' /\ HandsFree' /\ ShownOK' /\ GateOK' /\ CalmLog' /\ CalmQueue'
      /\ CalmStart' /\ CalmWaits' /\ CalmEdits' /\ CalmPushes' /\ CalmRemoved' /\ EvenUp'
      /\ EvenRestored' /\ EvenOpen'
  BY <1>1, <1>2, QueuesOKSame, LoggedOKSame, RanOKSame, WorkerOKSame, SubsOKSame, DriveOKSame,
     RequestsOKSame, RecordOKSame, SyncOKSame, KnownInHandSame, KnownLoggedSame, GateIsNewSame,
     WaitsOnceSame, PreparedOpenSame, HandsFreeSame, ShownOKSame, GateOKSame, CalmLogSame,
     CalmQueueSame, CalmStartSame, CalmWaitsSame, CalmEditsSame, CalmPushesSame, CalmRemovedSame,
     EvenUpSame, EvenRestoredSame, EvenOpenSame
  DEF LogInv, TaskInv, HandInv, CalmInv, EvenInv
<1>7. DownOK'
  BY <1>1, <1>2, <1>3, <1>5 DEF Answer, DownOK, Driving, TaskInv
<1>8. CmdsOK'
  BY <1>5
<1>9. StopsOK'
  BY <1>1, <1>2, <1>3, <1>4, <1>5, Kinds DEF StopsOK, TaskInv
<1> QED
  BY <1>6, <1>7, <1>8, <1>9 DEF DriverInv, LogInv, TaskInv, HandInv, CalmInv, EvenInv

-----------------------------------------------------------------------------
(* The driver task *)

LEMMA DriverGoesKeeps ==
    ASSUME DriverInv, dpc \in {"top", "empty"}, dpc' \in {"top", "rest", "pop"},
           UNCHANGED <<log, runtime, host, work, bg, cmds, rpc, ghost>>
    PROVE  DriverInv'
<1>1. LogInv /\ TaskInv /\ HandInv /\ CalmInv /\ EvenInv
  BY DEF DriverInv
<1>2. UNCHANGED <<inbox, steps, done, logged, logPaused, open, wpc, cur, wake, mailbox, prepared, sub, up, queue,
                known, paused, running, shown, work, bg, cmds, pc, mode, admitting, stop, accepted, removed,
                lost, ran, trouble, budget>>
  BY DEF vars, log, worker, runtime, record, host, driver, rpc, ghost
<1>3. /\ QueuesOK' /\ LoggedOK' /\ RanOK' /\ WorkerOK' /\ SubsOK' /\ RequestsOK' /\ RecordOK'
      /\ CmdsOK' /\ StopsOK' /\ KnownInHand' /\ KnownLogged' /\ GateIsNew' /\ WaitsOnce'
      /\ PreparedOpen' /\ GateOK' /\ CalmLog' /\ CalmQueue' /\ CalmWaits' /\ CalmEdits'
      /\ CalmRemoved' /\ EvenUp' /\ EvenRestored' /\ EvenOpen'
  BY <1>1, <1>2, QueuesOKSame, LoggedOKSame, RanOKSame, WorkerOKSame, SubsOKSame, RequestsOKSame,
     RecordOKSame, CmdsOKSame, StopsOKSame, KnownInHandSame, KnownLoggedSame, GateIsNewSame,
     WaitsOnceSame, PreparedOpenSame, GateOKSame, CalmLogSame, CalmQueueSame, CalmWaitsSame,
     CalmEditsSame, CalmRemovedSame, EvenUpSame, EvenRestoredSame, EvenOpenSame
  DEF LogInv, TaskInv, HandInv, CalmInv, EvenInv
<1>4. DriveOK'
  BY <1>1, <1>2 DEF DriveOK, Driving, OneDriver, TaskInv
<1>5. SyncOK'
  BY <1>1, <1>2 DEF SyncOK, Driving, Requesting, Waiting, TaskInv
<1>6. DownOK'
  BY <1>1, <1>2 DEF DownOK, Driving, TaskInv
<1>7. HandsFree'
  BY <1>1, <1>2 DEF HandsFree, Driving, HandInv
<1>8. ShownOK'
  BY <1>1, <1>2 DEF ShownOK, HandInv
<1>9. CalmStart'
  BY <1>1, <1>2 DEF CalmStart, Calm, CalmInv
<1>10. CalmPushes'
  BY <1>1, <1>2 DEF CalmPushes, Calm, CalmInv
<1> QED
  BY <1>3, <1>4, <1>5, <1>6, <1>7, <1>8, <1>9, <1>10
  DEF DriverInv, LogInv, TaskInv, HandInv, CalmInv, EvenInv

LEMMA DriverPopsKeeps ==
    ASSUME DriverInv, DriverPops
    PROVE  DriverInv'
<1>1. LogInv /\ TaskInv /\ HandInv /\ CalmInv /\ EvenInv
  BY DEF DriverInv
<1>2. UNCHANGED <<inbox, steps, done, logged, logPaused, open, wpc, cur, wake, mailbox, prepared, sub, up, known,
                paused, running, shown, bg, cmds, pc, mode, admitting, stop, accepted, removed, lost, ran,
                budget>>
  BY DEF DriverPops, Pops, Goto, vars, log, worker, runtime, record, host, driver, rpc, ghost
<1>3. /\ dpc = "pop" /\ up = "up" /\ work = none /\ dpc # "start" /\ dpc # "follow"
      /\ \/ queue = <<>> /\ queue' = queue /\ dpc' = "empty" /\ work' = none /\ trouble' = trouble
         \/ queue # <<>> /\ queue' = Tail(queue) /\ dpc' = "start" /\ work' = Head(queue)
            /\ trouble' = IF work' # none /\ pc[work'] = "unqueue" THEN trouble \cup {"raced"}
                          ELSE trouble
  BY <1>1 DEF DriverPops, Pops, Goto, TaskInv, DriveOK, DownOK, Driving
<1>4. queue # <<>> => /\ work' \in Inputs /\ work' \in ToSet(queue) /\ queue' \in Seq(Inputs)
                      /\ ToSet(queue) = ToSet(queue') \cup {work'}
                      /\ IsInjective(queue) => IsInjective(queue') /\ work' \notin ToSet(queue')
  <2>1. PICK q, h, t : q = queue /\ h = Head(q) /\ t = Tail(q)
    OBVIOUS
  <2>2. ASSUME q # <<>>
        PROVE  /\ h \in Inputs /\ h \in ToSet(q) /\ t \in Seq(Inputs) /\ ToSet(q) = ToSet(t) \cup {h}
               /\ IsInjective(q) => IsInjective(t) /\ h \notin ToSet(t)
    <3>1. q \in Seq(Inputs)
      BY <1>1, <2>1 DEF TaskInv, RecordOK
    <3> QED
      BY <2>1, <2>2, <3>1, Taken
  <2>3. queue # <<>> => h = work' /\ t = queue'
    BY <1>3, <2>1
  <2> QED
    BY <2>1, <2>2, <2>3
<1>5. queue # <<>> /\ Calm' => Calm /\ trouble' = trouble /\ pc[work'] # "unqueue"
  BY <1>3, <1>4, Kinds DEF Calm
<1>6. /\ QueuesOK' /\ LoggedOK' /\ RanOK' /\ WorkerOK' /\ SubsOK' /\ RequestsOK' /\ CmdsOK'
      /\ KnownLogged' /\ GateIsNew' /\ PreparedOpen' /\ GateOK'
  BY <1>1, <1>2, QueuesOKSame, LoggedOKSame, RanOKSame, WorkerOKSame, SubsOKSame, RequestsOKSame,
     CmdsOKSame, KnownLoggedSame, GateIsNewSame, PreparedOpenSame, GateOKSame
  DEF LogInv, TaskInv, HandInv, CalmInv, EvenInv
<1>7. DriveOK'
  BY <1>1, <1>2, <1>3, <1>4, <1>5 DEF DriveOK, Driving, OneDriver, TaskInv
<1>8. RecordOK'
  BY <1>1, <1>2, <1>3, <1>4 DEF RecordOK, TaskInv
<1>9. SyncOK'
  BY <1>1, <1>2, <1>3 DEF SyncOK, Driving, Requesting, Waiting, TaskInv
<1>10. DownOK'
  BY <1>1, <1>2, <1>3 DEF DownOK, Driving, TaskInv
<1>11. StopsOK'
  BY <1>1, <1>2, <1>3, <1>5 DEF StopsOK, TaskInv
<1>12. KnownInHand'
  BY <1>1, <1>2, <1>3, <1>4, <1>5 DEF KnownInHand, HandInv
<1>13. WaitsOnce'
  BY <1>1, <1>2, <1>3, <1>4, <1>5 DEF WaitsOnce, Waiting, HandInv
<1>14. HandsFree'
  BY <1>1, <1>2, <1>3, <1>4, <1>5 DEF HandsFree, Driving, HandInv
<1>15. ShownOK'
  BY <1>1, <1>2, <1>3, <1>4, <1>5 DEF ShownOK, HandInv
<1>16. CalmLog'
  BY <1>1, <1>2, <1>3, <1>5 DEF CalmLog, Calm, CalmInv
<1>17. CalmQueue'
  BY <1>1, <1>2, <1>3, <1>4, <1>5 DEF CalmQueue, Calm, CalmInv
<1>18. CalmStart'
  BY <1>1, <1>2, <1>3, <1>4, <1>5 DEF CalmStart, Calm, CalmQueue, CalmInv
<1>19. CalmWaits'
  BY <1>1, <1>2, <1>3, <1>4, <1>5 DEF CalmWaits, Calm, Gone, Waiting, CalmInv
<1>20. CalmEdits'
  BY <1>1, <1>2, <1>3, <1>5 DEF CalmEdits, Calm, Gone, CalmInv
<1>21. CalmPushes'
  BY <1>1, <1>2, <1>3, <1>4, <1>5 DEF CalmPushes, Calm, CalmInv
<1>22. CalmRemoved'
  BY <1>1, <1>2, <1>3, <1>4, <1>5 DEF CalmRemoved, Calm, Gone, CalmInv
<1>23. EvenUp'
  BY <1>1, <1>2, <1>3, <1>4, <1>5 DEF EvenUp, Even, Attached, Coming, Live, EvenInv
<1>24. EvenRestored'
  BY <1>1, <1>2, <1>3, <1>4, <1>5 DEF EvenRestored, Even, Coming, Live, EvenInv
<1>25. EvenOpen'
  BY <1>1, <1>2, <1>3, <1>5 DEF EvenOpen, Even, Turning, EvenInv
<1> QED
  BY <1>6, <1>7, <1>8, <1>9, <1>10, <1>11, <1>12, <1>13, <1>14, <1>15, <1>16, <1>17, <1>18, <1>19,
     <1>20, <1>21, <1>22, <1>23, <1>24, <1>25
  DEF DriverInv, LogInv, TaskInv, HandInv, CalmInv, EvenInv

LEMMA DriverExitsKeeps ==
    ASSUME DriverInv, dpc \in {"rest", "empty"}, DriverExits
    PROVE  DriverInv'
<1>1. LogInv /\ TaskInv /\ HandInv /\ CalmInv /\ EvenInv
  BY DEF DriverInv
<1>2. UNCHANGED <<inbox, steps, done, logged, logPaused, open, wpc, cur, wake, mailbox, prepared, sub, up, queue,
                known, paused, shown, work, bg, mode, accepted, removed, ran, trouble, budget>>
  BY DEF DriverExits, DropControl, Goto, vars, log, worker, runtime, record, host, driver, rpc, ghost
<1>3. /\ running' = FALSE /\ dpc' = "off" /\ cmds' = <<>> /\ work = none /\ work' = work /\ up = "up"
      /\ stop' = [s \in Stops |-> IF stop[s] = "wait" THEN "idle" ELSE stop[s]]
      /\ pc' = [j \in Inputs |-> IF pc[j] = "steering" THEN "idle" ELSE pc[j]]
      /\ admitting' = IF admitting \in {j \in Inputs : pc[j] = "steering"} THEN Free ELSE admitting
  BY <1>1, <1>2 DEF DriverExits, DropControl, Goto, TaskInv, DriveOK, DownOK, Driving
<1>4. /\ \A j \in Inputs : \/ pc'[j] = pc[j] /\ pc[j] # "steering"
                           \/ pc'[j] = "idle" /\ pc[j] = "steering"
      /\ DOMAIN cmds' = {} /\ CmdsOK'
  BY <1>3, CmdsDropped
<1>5. /\ QueuesOK' /\ LoggedOK' /\ RanOK' /\ WorkerOK' /\ SubsOK' /\ RecordOK' /\ KnownInHand'
      /\ PreparedOpen' /\ CalmLog' /\ EvenRestored' /\ EvenOpen'
  BY <1>1, <1>2, QueuesOKSame, LoggedOKSame, RanOKSame, WorkerOKSame, SubsOKSame, RecordOKSame,
     KnownInHandSame, PreparedOpenSame, CalmLogSame, EvenRestoredSame, EvenOpenSame
  DEF LogInv, TaskInv, HandInv, CalmInv, EvenInv
<1>6. DriveOK'
  BY <1>1, <1>2, <1>3 DEF DriveOK, Driving, OneDriver, TaskInv
<1>7. RequestsOK'
  BY <1>1, <1>2, <1>3, <1>4, Kinds DEF RequestsOK, Requesting, Waiting, TaskInv
<1>8. SyncOK'
  BY <1>1, <1>2, <1>3, <1>4 DEF SyncOK, Driving, Requesting, Waiting, TaskInv
<1>9. DownOK'
  BY <1>1, <1>2, <1>3, <1>4 DEF DownOK, Driving, TaskInv
<1>10. CmdsOK'
  BY <1>4
<1>11. StopsOK'
  BY <1>1, <1>2, <1>3, <1>4 DEF StopsOK, TaskInv
<1>12. KnownLogged'
  BY <1>1, <1>2, <1>3, <1>4, Kinds DEF KnownLogged, HandInv
<1>13. GateIsNew'
  BY <1>1, <1>2, <1>3, <1>4 DEF GateIsNew, HandInv
<1>14. WaitsOnce'
  BY <1>1, <1>2, <1>3, <1>4 DEF WaitsOnce, Waiting, HandInv
<1>15. HandsFree'
  BY <1>1, <1>2, <1>3, <1>4, Kinds DEF HandsFree, Driving, HandInv
<1>16. ShownOK'
  BY <1>1, <1>2, <1>3 DEF ShownOK, HandInv
<1>17. GateOK'
  BY <1>1, <1>2, <1>3, <1>4, Kinds DEF GateOK, HandInv
<1>18. CalmQueue'
  BY <1>1, <1>2, <1>3, <1>4, Kinds DEF CalmQueue, Calm, CalmInv
<1>19. CalmStart'
  BY <1>1, <1>2, <1>3 DEF CalmStart, Calm, CalmInv
<1>20. CalmWaits'
  BY <1>1, <1>2, <1>3, <1>4 DEF CalmWaits, Calm, Gone, Waiting, CalmInv
<1>21. CalmEdits'
  BY <1>1, <1>2, <1>3, <1>4 DEF CalmEdits, Calm, Gone, CalmInv
<1>22. CalmPushes'
  BY <1>1, <1>2, <1>3, <1>4 DEF CalmPushes, Calm, CalmInv
<1>23. CalmRemoved'
  BY <1>1, <1>2, <1>3, <1>4, Kinds DEF CalmRemoved, Calm, Gone, CalmInv
<1>24. EvenUp'
  BY <1>1, <1>2, <1>3, <1>4 DEF EvenUp, Even, Attached, Coming, Live, EvenInv
<1> QED
  BY <1>5, <1>6, <1>7, <1>8, <1>9, <1>10, <1>11, <1>12, <1>13, <1>14, <1>15, <1>16, <1>17, <1>18, <1>19,
     <1>20, <1>21, <1>22, <1>23, <1>24
  DEF DriverInv, LogInv, TaskInv, HandInv, CalmInv, EvenInv

LEMMA StartTurnKeeps ==
    ASSUME DriverInv, StartTurn
    PROVE  DriverInv'
<1>1. LogInv /\ TaskInv /\ HandInv /\ CalmInv /\ EvenInv
  BY DEF DriverInv
<1>2. UNCHANGED <<done, logPaused, open, cur, wake, mailbox, up, queue, known, paused, running, shown, bg,
                cmds, pc, mode, admitting, stop, accepted, removed, lost, ran, trouble, budget>>
  BY DEF StartTurn, Goto, Prepare, Pending, vars, log, worker, runtime, record, host, driver, rpc, ghost
<1>3. /\ work \in Inputs /\ dpc = "start" /\ up = "up"
      /\ \/ /\ work \in prepared /\ prepared' = prepared \ {work} /\ dpc' = "wake"
            /\ UNCHANGED <<inbox, steps, logged, wpc, sub, work>>
         \/ /\ work \notin prepared /\ Prepare(work) /\ sub'[work] = "open" /\ dpc' = "wake"
            /\ sub' \in [Inputs -> Live \cup {"none", "over", "parked", "lagged"}]
            /\ (\A j \in Inputs : j # work => sub'[j] = sub[j])
            /\ UNCHANGED <<prepared, work>>
         \/ /\ work \notin prepared /\ dpc' = "top" /\ work' = none
            /\ UNCHANGED <<prepared, inbox, steps, logged, wpc, sub>>
  BY <1>1, Kinds DEF StartTurn, Goto, Pending, TaskInv, DriveOK, Driving, DownOK,
     LogInv, SubsOK, Live, log, worker, runtime
<1>4. Prepare(work) =>
      /\ work \notin ToSet(inbox) \cup steps /\ logged' = logged \cup {work}
      /\ inbox' \in Seq(Inputs) /\ IsInjective(inbox')
      /\ work \in ToSet(inbox') /\ ToSet(inbox') \subseteq ToSet(inbox) \cup {work}
      /\ steps' \subseteq steps
      /\ wpc' = IF wpc = "off" THEN "idle" ELSE wpc
  BY <1>3, Prepares
<1>5. Calm => work \in prepared /\ work \notin ToSet(queue)
  BY <1>1, <1>3 DEF CalmInv, CalmStart
<1>6. Even => Calm
  BY EvenIsCalm
<1>7. Calm => /\ prepared' = prepared \ {work} /\ dpc' = "wake"
              /\ UNCHANGED <<inbox, steps, logged, wpc, sub, work>>
  BY <1>3, <1>5
<1>8. /\ RanOK' /\ RequestsOK' /\ RecordOK' /\ CmdsOK' /\ StopsOK' /\ GateIsNew' /\ GateOK'
  BY <1>1, <1>2, RanOKSame, RequestsOKSame, RecordOKSame, CmdsOKSame, StopsOKSame, GateIsNewSame,
     GateOKSame
  DEF LogInv, TaskInv, HandInv, CalmInv, EvenInv
<1>9. QueuesOK'
  BY <1>1, <1>2, <1>3, <1>4 DEF QueuesOK, LogInv
<1>10. LoggedOK'
  BY <1>1, <1>2, <1>3, <1>4, <1>5, <1>7 DEF LoggedOK, LogInv
<1>11. WorkerOK'
  BY <1>1, <1>2, <1>3, <1>4 DEF WorkerOK, Turning, Ending, LogInv
<1>12. SubsOK'
  BY <1>1, <1>2, <1>3, <1>4 DEF SubsOK, Live, LogInv
<1>13. DriveOK'
  BY <1>1, <1>2, <1>3, <1>4, <1>5, <1>7 DEF DriveOK, Driving, OneDriver, TaskInv
<1>14. SyncOK'
  BY <1>1, <1>2, <1>3, <1>4, <1>7 DEF SyncOK, Driving, Requesting, Waiting, TaskInv
<1>15. DownOK'
  BY <1>1, <1>2, <1>3, <1>4, <1>5, <1>7 DEF DownOK, Driving, TaskInv
<1>16. KnownInHand'
  BY <1>1, <1>2, <1>3, <1>4, <1>5, Kinds DEF KnownInHand, HandInv
<1>17. KnownLogged'
  BY <1>1, <1>2, <1>3, <1>4
  DEF KnownLogged, RequestsOK, Requesting, Waiting, LoggedOK, KnownInHand, LogInv, TaskInv, HandInv
<1>18. WaitsOnce'
  BY <1>1, <1>2, <1>3, <1>4, <1>5 DEF WaitsOnce, Waiting, HandInv
<1>19. PreparedOpen'
  BY <1>1, <1>2, <1>3, <1>4, <1>5, <1>7, Kinds DEF PreparedOpen, Live, HandInv
<1>20. HandsFree'
  BY <1>1, <1>2, <1>3, <1>4, <1>5, <1>7 DEF HandsFree, Driving, HandInv
<1>21. ShownOK'
  BY <1>1, <1>2, <1>3, <1>4, <1>5, <1>7 DEF ShownOK, HandInv
<1>22. CalmLog'
  BY <1>1, <1>2, <1>3, <1>4, <1>5, <1>6, <1>7 DEF CalmLog, Calm, CalmInv
<1>23. CalmQueue'
  BY <1>1, <1>2, <1>3, <1>4, <1>5, <1>6, <1>7 DEF CalmQueue, Calm, CalmInv
<1>24. CalmStart'
  BY <1>1, <1>2, <1>3, <1>4, <1>5, <1>6, <1>7 DEF CalmStart, Calm, CalmInv
<1>25. CalmWaits'
  BY <1>1, <1>2, <1>3, <1>4, <1>5, <1>6, <1>7 DEF CalmWaits, Calm, Gone, Waiting, CalmInv
<1>26. CalmEdits'
  BY <1>1, <1>2, <1>3, <1>4, <1>5, <1>6, <1>7 DEF CalmEdits, Calm, Gone, CalmInv
<1>27. CalmPushes'
  BY <1>1, <1>2, <1>3, <1>4, <1>5, <1>6, <1>7 DEF CalmPushes, Calm, CalmInv
<1>28. CalmRemoved'
  BY <1>1, <1>2, <1>3, <1>4, <1>5, <1>6, <1>7 DEF CalmRemoved, Calm, Gone, CalmInv
<1>29. EvenUp'
  BY <1>1, <1>2, <1>3, <1>4, <1>5, <1>6, <1>7 DEF EvenUp, Even, Attached, Coming, Live, EvenInv
<1>30. EvenRestored'
  BY <1>1, <1>2, <1>3, <1>4, <1>5, <1>6, <1>7 DEF EvenRestored, Even, Coming, Live, EvenInv
<1>31. EvenOpen'
  BY <1>1, <1>2, <1>3, <1>4, <1>5, <1>6, <1>7 DEF EvenOpen, Even, Turning, EvenInv
<1> QED
  BY <1>8, <1>9, <1>10, <1>11, <1>12, <1>13, <1>14, <1>15, <1>16, <1>17, <1>18, <1>19, <1>20, <1>21,
     <1>22, <1>23, <1>24, <1>25, <1>26, <1>27, <1>28, <1>29, <1>30, <1>31
  DEF DriverInv, LogInv, TaskInv, HandInv, CalmInv, EvenInv

LEMMA WakesWorkerKeeps ==
    ASSUME DriverInv, WakesWorker
    PROVE  DriverInv'
<1>1. LogInv /\ TaskInv /\ HandInv /\ CalmInv /\ EvenInv
  BY DEF DriverInv
<1>2. UNCHANGED <<inbox, steps, done, logged, logPaused, open, wpc, cur, mailbox, prepared, sub, up, queue,
                known, paused, running, shown, work, bg, cmds, pc, mode, admitting, stop, accepted, removed,
                lost, ran, trouble, budget>>
  BY DEF WakesWorker, Goto, Hears, vars, log, worker, runtime, record, host, driver, rpc, ghost
<1>3. /\ QueuesOK' /\ LoggedOK' /\ RanOK' /\ SubsOK' /\ RequestsOK' /\ RecordOK' /\ CmdsOK'
      /\ StopsOK' /\ KnownInHand' /\ KnownLogged' /\ GateIsNew' /\ WaitsOnce' /\ PreparedOpen'
      /\ GateOK' /\ CalmLog' /\ CalmQueue' /\ CalmWaits' /\ CalmEdits' /\ CalmRemoved'
      /\ EvenUp' /\ EvenRestored' /\ EvenOpen'
  BY <1>1, <1>2, QueuesOKSame, LoggedOKSame, RanOKSame, SubsOKSame, RequestsOKSame, RecordOKSame,
     CmdsOKSame, StopsOKSame, KnownInHandSame, KnownLoggedSame, GateIsNewSame, WaitsOnceSame,
     PreparedOpenSame, GateOKSame, CalmLogSame, CalmQueueSame, CalmWaitsSame, CalmEditsSame,
     CalmRemovedSame, EvenUpSame, EvenRestoredSame, EvenOpenSame
  DEF LogInv, TaskInv, HandInv, CalmInv, EvenInv
<1>4. WorkerOK'
  BY <1>1, <1>2 DEF WakesWorker, Hears, WorkerOK, Turning, Ending, LogInv
<1>5. DriveOK'
  BY <1>1, <1>2 DEF WakesWorker, Goto, Hears, DriveOK, Driving, OneDriver, TaskInv
<1>6. SyncOK'
  BY <1>1, <1>2 DEF WakesWorker, Goto, Hears, SyncOK, Driving, Requesting, Waiting, TaskInv
<1>7. DownOK'
  BY <1>1, <1>2 DEF WakesWorker, Goto, Hears, DownOK, Driving, TaskInv
<1>8. HandsFree'
  BY <1>1, <1>2 DEF WakesWorker, Goto, Hears, HandsFree, Driving, HandInv
<1>9. ShownOK'
  BY <1>1, <1>2 DEF WakesWorker, Goto, Hears, ShownOK, HandInv
<1>10. CalmStart'
  BY <1>1, <1>2 DEF WakesWorker, Goto, Hears, CalmStart, Calm, CalmInv
<1>11. CalmPushes'
  BY <1>1, <1>2 DEF WakesWorker, Goto, Hears, CalmPushes, Calm, CalmInv
<1> QED
  BY <1>3, <1>4, <1>5, <1>6, <1>7, <1>8, <1>9, <1>10, <1>11
  DEF DriverInv, LogInv, TaskInv, HandInv, CalmInv, EvenInv

LEMMA DriverShowsKeeps ==
    ASSUME DriverInv, DriverShows
    PROVE  DriverInv'
<1>1. LogInv /\ TaskInv /\ HandInv /\ CalmInv /\ EvenInv
  BY DEF DriverInv
<1>2. UNCHANGED <<inbox, steps, done, logged, logPaused, open, wpc, cur, wake, mailbox, prepared, sub, up, queue,
                known, paused, running, dpc, work, bg, cmds, pc, mode, admitting, stop, accepted, removed,
                lost, ran, trouble, budget>>
  BY DEF DriverShows, Shows, vars, log, worker, runtime, record, host, driver, rpc, ghost
<1>3. /\ QueuesOK' /\ LoggedOK' /\ RanOK' /\ WorkerOK' /\ SubsOK' /\ DriveOK' /\ RequestsOK'
      /\ RecordOK' /\ SyncOK' /\ DownOK' /\ CmdsOK' /\ StopsOK' /\ KnownInHand' /\ KnownLogged'
      /\ GateIsNew' /\ WaitsOnce' /\ PreparedOpen' /\ HandsFree' /\ GateOK' /\ CalmLog'
      /\ CalmQueue' /\ CalmStart' /\ CalmWaits' /\ CalmEdits' /\ CalmPushes' /\ CalmRemoved'
      /\ EvenUp' /\ EvenRestored' /\ EvenOpen'
  BY <1>1, <1>2, QueuesOKSame, LoggedOKSame, RanOKSame, WorkerOKSame, SubsOKSame, DriveOKSame,
     RequestsOKSame, RecordOKSame, SyncOKSame, DownOKSame, CmdsOKSame, StopsOKSame, KnownInHandSame,
     KnownLoggedSame, GateIsNewSame, WaitsOnceSame, PreparedOpenSame, HandsFreeSame, GateOKSame,
     CalmLogSame, CalmQueueSame, CalmStartSame, CalmWaitsSame, CalmEditsSame, CalmPushesSame,
     CalmRemovedSame, EvenUpSame, EvenRestoredSame, EvenOpenSame
  DEF LogInv, TaskInv, HandInv, CalmInv, EvenInv
<1>4. ShownOK'
  BY <1>1, <1>2 DEF DriverShows, Shows, ShownOK, HandInv
<1> QED
  BY <1>3, <1>4 DEF DriverInv, LogInv, TaskInv, HandInv, CalmInv, EvenInv

LEMMA FollowEndsKeeps ==
    ASSUME DriverInv, FollowEnds
    PROVE  DriverInv'
<1>1. LogInv /\ TaskInv /\ HandInv /\ CalmInv /\ EvenInv
  BY DEF DriverInv
<1>2. UNCHANGED <<inbox, steps, done, logged, logPaused, open, wpc, cur, wake, mailbox, prepared, up, queue,
                known, paused, running, bg, cmds, pc, mode, admitting, stop, accepted, removed, lost, ran,
                trouble, budget>>
  BY
  DEF FollowEnds, Ended, Withdrawn, Goto, vars, log, worker, runtime, record, host, driver, rpc, ghost
<1>3. dpc = "follow" /\ \A i \in Inputs : i # work => sub'[i] = sub[i]
  BY <1>1 DEF FollowEnds, LogInv, SubsOK
<1>4. work \notin prepared
  BY <1>1, <1>3 DEF HandInv, HandsFree
<1>5. /\ QueuesOK' /\ LoggedOK' /\ RanOK' /\ WorkerOK' /\ RequestsOK' /\ RecordOK' /\ CmdsOK'
      /\ StopsOK' /\ KnownLogged' /\ GateIsNew' /\ GateOK' /\ CalmLog' /\ CalmQueue'
      /\ CalmWaits' /\ CalmEdits' /\ CalmRemoved' /\ EvenOpen'
  BY <1>1, <1>2, QueuesOKSame, LoggedOKSame, RanOKSame, WorkerOKSame, RequestsOKSame, RecordOKSame,
     CmdsOKSame, StopsOKSame, KnownLoggedSame, GateIsNewSame, GateOKSame, CalmLogSame, CalmQueueSame,
     CalmWaitsSame, CalmEditsSame, CalmRemovedSame, EvenOpenSame
  DEF LogInv, TaskInv, HandInv, CalmInv, EvenInv
<1>6. SubsOK'
  BY <1>1, <1>2, <1>3 DEF FollowEnds, Ended, SubsOK, Live, LogInv
<1>7. DriveOK'
  BY <1>1, <1>2, <1>4 DEF FollowEnds, Goto, DriveOK, Driving, OneDriver, TaskInv
<1>8. SyncOK'
  BY <1>1, <1>2 DEF FollowEnds, Goto, SyncOK, Driving, Requesting, Waiting, TaskInv
<1>9. DownOK'
  BY <1>1, <1>2, <1>4 DEF FollowEnds, Goto, DownOK, Driving, TaskInv
<1>10. KnownInHand'
  BY <1>1, <1>2, <1>4, Kinds DEF FollowEnds, KnownInHand, HandInv
<1>11. WaitsOnce'
  BY <1>1, <1>2, <1>4 DEF FollowEnds, WaitsOnce, Waiting, HandInv
<1>12. PreparedOpen'
  BY <1>1, <1>2, <1>3, <1>4, Kinds DEF PreparedOpen, Live, HandInv
<1>13. HandsFree'
  BY <1>1, <1>2, <1>4 DEF FollowEnds, Goto, HandsFree, Driving, HandInv
<1>14. ShownOK'
  BY <1>1, <1>2, <1>3, <1>4, Kinds
  DEF FollowEnds, Ended, Withdrawn, Goto, ShownOK, DriveOK, Driving, OneDriver, TaskInv, HandInv
<1>15. CalmStart'
  BY <1>1, <1>2, <1>4 DEF FollowEnds, Goto, CalmStart, Calm, CalmInv
<1>16. CalmPushes'
  BY <1>1, <1>2, <1>4 DEF FollowEnds, Goto, CalmPushes, Calm, CalmInv
<1>17. EvenUp'
  BY <1>1, <1>2, <1>3, <1>4 DEF FollowEnds, Ended, EvenUp, Even, Attached, Coming, Live, EvenInv
<1>18. EvenRestored'
  BY <1>1, <1>2, <1>3, <1>4 DEF FollowEnds, Ended, EvenRestored, Even, Coming, Live, EvenInv
<1> QED
  BY <1>5, <1>6, <1>7, <1>8, <1>9, <1>10, <1>11, <1>12, <1>13, <1>14, <1>15, <1>16, <1>17, <1>18
  DEF DriverInv, LogInv, TaskInv, HandInv, CalmInv, EvenInv

LEMMA ForwardsStopKeeps ==
    ASSUME DriverInv, ForwardsStop
    PROVE  DriverInv'
<1>1. LogInv /\ TaskInv /\ HandInv /\ CalmInv /\ EvenInv
  BY DEF DriverInv
<1>2. UNCHANGED <<inbox, steps, done, logged, logPaused, cur, mailbox, prepared, up, queue, known, paused,
                running, shown, dpc, work, bg, pc, mode, admitting, accepted, removed, lost, ran, trouble,
                budget>>
  BY
  DEF ForwardsStop, Forwards, Hears, Park, Parked, Turning, Ending, Live, vars, log, worker, runtime,
      record, host, driver, rpc, ghost
<1>3. /\ dpc = "follow" /\ up = "up" /\ cmds # <<>> /\ Head(cmds).kind = "stop" /\ cmds' = Tail(cmds)
  BY <1>1 DEF ForwardsStop, Forwards, TaskInv, DownOK
<1>4. /\ CmdsOK' /\ \E n \in DOMAIN cmds : Head(cmds) = cmds[n]
      /\ \A k \in DOMAIN cmds' : \E n \in DOMAIN cmds : cmds'[k] = cmds[n]
  BY <1>1, <1>2, <1>3, CmdsShrink DEF TaskInv
<1>5. "stopped" \in trouble
  BY <1>1, <1>3, <1>4 DEF TaskInv, StopsOK
<1>6. ~Even'
  BY <1>2, <1>5 DEF Even
<1>7. stop' \in [Stops -> {"idle", "pause", "set", "send", "wait"}]
  BY <1>1 DEF ForwardsStop, TaskInv, StopsOK
<1>8. sub' = sub \/ sub' = Parked(sub)
  BY DEF ForwardsStop, Park
<1>9. \A i \in Inputs : sub'[i] # "none" => sub[i] # "none"
  BY <1>1, <1>8 DEF Parked, LogInv, SubsOK, Live
<1>10. /\ QueuesOK' /\ LoggedOK' /\ RanOK' /\ DriveOK' /\ RequestsOK' /\ RecordOK' /\ SyncOK'
      /\ KnownInHand' /\ KnownLogged' /\ GateIsNew' /\ WaitsOnce' /\ HandsFree' /\ ShownOK'
      /\ GateOK' /\ CalmStart' /\ CalmWaits' /\ CalmEdits' /\ CalmPushes'
      /\ CalmRemoved'
  BY <1>1, <1>2, QueuesOKSame, LoggedOKSame, RanOKSame, DriveOKSame, RequestsOKSame, RecordOKSame,
     SyncOKSame, KnownInHandSame, KnownLoggedSame, GateIsNewSame, WaitsOnceSame, HandsFreeSame,
     ShownOKSame, GateOKSame, CalmStartSame, CalmWaitsSame, CalmEditsSame, CalmPushesSame,
     CalmRemovedSame
  DEF LogInv, TaskInv, HandInv, CalmInv, EvenInv
<1>11. WorkerOK'
  BY <1>1, <1>2 DEF ForwardsStop, Forwards, Hears, Park, Turning, Ending, Live, WorkerOK, LogInv
<1>12. SubsOK'
  BY <1>1, <1>2, <1>8, <1>9 DEF Parked, LogInv, SubsOK, Live
<1>13. DownOK'
  BY <1>1, <1>2, <1>3, <1>4 DEF DownOK, Driving, TaskInv
<1>14. CmdsOK'
  BY <1>4
<1>15. StopsOK'
  BY <1>1, <1>2, <1>3, <1>4, <1>5, <1>7 DEF StopsOK, TaskInv
<1>16. PreparedOpen'
  BY <1>1, <1>2, <1>3, <1>4, <1>5, <1>6, <1>7, <1>8, <1>9, Kinds
  DEF ForwardsStop, Forwards, Hears, Park, Parked, Turning, Ending, Live, PreparedOpen, SubsOK,
      LoggedOK, LogInv, HandInv
<1>17. CalmQueue'
  BY <1>1, <1>2, <1>5
  DEF ForwardsStop, Forwards, Hears, Park, Parked, Turning, Ending, Live, CalmQueue, Calm, CalmInv
<1>18. EvenUp'
  BY <1>6 DEF EvenUp
<1>19. EvenRestored'
  BY <1>6 DEF EvenRestored
<1>20. EvenOpen'
  BY <1>1, <1>2, <1>5, <1>6 DEF EvenOpen, Even, Turning, EvenInv
<1>21. CalmLog'
  <2>1. wpc \in {"off", "turn", "turn ends"} => wpc' \in {"off", "turn", "turn ends"}
    BY DEF ForwardsStop, Forwards, Hears, Park, Turning, Ending
  <2> QED
    BY <1>1, <1>2, <2>1, CalmLogGoes DEF CalmInv
<1> QED
  BY <1>21, <1>10, <1>11, <1>12, <1>13, <1>14, <1>15, <1>16, <1>17, <1>18, <1>19, <1>20
  DEF DriverInv, LogInv, TaskInv, HandInv, CalmInv, EvenInv

LEMMA ForwardsAnswerKeeps ==
    ASSUME DriverInv, ForwardsAnswer
    PROVE  DriverInv'
<1>1. LogInv /\ TaskInv /\ HandInv /\ CalmInv /\ EvenInv
  BY DEF DriverInv
<1>2. UNCHANGED <<inbox, steps, done, logged, logPaused, wpc, cur, wake, mailbox, prepared, sub, up, queue,
                known, paused, running, dpc, work, bg, pc, mode, admitting, stop, accepted, removed, lost,
                ran, trouble, budget>>
  BY
  DEF ForwardsAnswer, Forwards, Hears, Turning, Ending, vars, log, worker, runtime, record, host,
      driver, rpc, ghost
<1>3. /\ cmds # <<>> /\ Head(cmds).kind = "answer" /\ cmds' = Tail(cmds)
  BY <1>1 DEF ForwardsAnswer, Forwards
<1>4. /\ CmdsOK' /\ \E n \in DOMAIN cmds : Head(cmds) = cmds[n]
      /\ \A k \in DOMAIN cmds' : \E n \in DOMAIN cmds : cmds'[k] = cmds[n]
  BY <1>1, <1>2, <1>3, CmdsShrink DEF TaskInv
<1>5. /\ QueuesOK' /\ LoggedOK' /\ RanOK' /\ SubsOK' /\ DriveOK' /\ RequestsOK' /\ RecordOK'
      /\ SyncOK' /\ KnownInHand' /\ KnownLogged' /\ GateIsNew' /\ WaitsOnce' /\ PreparedOpen'
      /\ HandsFree' /\ GateOK' /\ CalmLog' /\ CalmQueue' /\ CalmStart' /\ CalmWaits'
      /\ CalmEdits' /\ CalmPushes' /\ CalmRemoved' /\ EvenUp' /\ EvenRestored'
  BY <1>1, <1>2, QueuesOKSame, LoggedOKSame, RanOKSame, SubsOKSame, DriveOKSame, RequestsOKSame,
     RecordOKSame, SyncOKSame, KnownInHandSame, KnownLoggedSame, GateIsNewSame, WaitsOnceSame,
     PreparedOpenSame, HandsFreeSame, GateOKSame, CalmLogSame, CalmQueueSame, CalmStartSame,
     CalmWaitsSame, CalmEditsSame, CalmPushesSame, CalmRemovedSame, EvenUpSame, EvenRestoredSame
  DEF LogInv, TaskInv, HandInv, CalmInv, EvenInv
<1>6. WorkerOK'
  BY <1>1, <1>2 DEF ForwardsAnswer, Forwards, Hears, Turning, Ending, WorkerOK, LogInv
<1>7. DownOK'
  BY <1>1, <1>2, <1>3, <1>4 DEF DownOK, Driving, TaskInv
<1>8. CmdsOK'
  BY <1>4
<1>9. StopsOK'
  BY <1>1, <1>2, <1>3, <1>4 DEF StopsOK, TaskInv
<1>10. ShownOK'
  BY <1>1, <1>2 DEF ForwardsAnswer, Forwards, Hears, Turning, Ending, ShownOK, HandInv
<1>11. EvenOpen'
  BY <1>1, <1>2 DEF ForwardsAnswer, Forwards, Hears, Turning, Ending, EvenOpen, Even, EvenInv
<1> QED
  BY <1>5, <1>6, <1>7, <1>8, <1>9, <1>10, <1>11
  DEF DriverInv, LogInv, TaskInv, HandInv, CalmInv, EvenInv

LEMMA ForwardsSteerKeeps ==
    ASSUME DriverInv, ForwardsSteer
    PROVE  DriverInv'
<1>1. LogInv /\ TaskInv /\ HandInv /\ CalmInv /\ EvenInv
  BY DEF DriverInv
<1>2. UNCHANGED <<inbox, done, logPaused, open, wpc, cur, prepared, sub, up, queue, paused,
                running, shown, dpc, work, bg, mode, stop, removed, ran, trouble, budget>>
  BY
  DEF ForwardsSteer, Forwards, Hears, Answered, RefusedBy, Pending, vars, log, worker, runtime, record,
      host, driver, rpc, ghost
<1>3. PICK i : i = Head(cmds).by
  OBVIOUS
<1>4. /\ dpc = "follow" /\ up = "up" /\ cmds # <<>> /\ Head(cmds).kind = "steer" /\ cmds' = Tail(cmds)
      /\ pc' = [pc EXCEPT ![i] = "idle"] /\ admitting' = Free
      /\ \/ /\ i \in ToSet(inbox) \cup steps /\ lost' = lost \cup ({i} \cap accepted)
            /\ UNCHANGED <<steps, logged, wake, mailbox, known, accepted>>
         \/ /\ i \notin ToSet(inbox) \cup steps /\ steps' = steps \cup {i} /\ logged' = logged \cup {i}
            /\ wake' = TRUE /\ accepted' = accepted \cup {i} /\ lost' = lost /\ known' = known \cup {i}
            /\ mailbox' = mailbox \/ (wpc \in Turning \cup Ending /\ mailbox' = mailbox \cup {i})
  BY <1>1, <1>3 DEF ForwardsSteer, Forwards, Answered, RefusedBy, Pending, TaskInv, DownOK
<1>5. \A j \in Inputs : j # i => pc'[j] = pc[j]
  BY <1>1, <1>4 DEF TaskInv, RequestsOK
<1>6. /\ CmdsOK' /\ i \in Prompts /\ pc[i] = "steering" /\ (\E n \in DOMAIN cmds : Head(cmds) = cmds[n])
      /\ \A k \in DOMAIN cmds' : \E n \in DOMAIN cmds : cmds'[k] = cmds[n]
  BY <1>1, <1>3, <1>4, <1>5, CmdsShrink, Kinds DEF TaskInv
<1>7. pc'[i] = "idle" /\ i \in Inputs
  BY <1>1, <1>4, <1>6, Kinds DEF TaskInv, RequestsOK
<1>8. Calm => Gone(i) /\ i \notin ToSet(queue)
  BY <1>1, <1>6, <1>7 DEF CalmInv, CalmWaits
<1>9. Even => Calm
  BY EvenIsCalm
<1>10. \A j \in Inputs : j # i /\ Gone(j) => Gone(j)'
  BY <1>2, <1>4 DEF Gone
<1>11. Calm' => Calm
  BY <1>2 DEF Calm
<1>12. /\ RanOK' /\ DriveOK' /\ PreparedOpen' /\ ShownOK' /\ CalmStart'
      /\ EvenRestored' /\ EvenOpen'
  BY <1>1, <1>2, RanOKSame, DriveOKSame, PreparedOpenSame, ShownOKSame, CalmStartSame,
     EvenRestoredSame, EvenOpenSame
  DEF LogInv, TaskInv, HandInv, CalmInv, EvenInv
<1>13. QueuesOK'
  BY <1>1, <1>2, <1>3, <1>4, <1>5, <1>6, <1>7, <1>8, <1>9, <1>10, <1>11, Kinds DEF QueuesOK, LogInv
<1>14. LoggedOK'
  BY <1>1, <1>2, <1>3, <1>4, <1>5, <1>6, <1>7, <1>8, <1>9, <1>10, <1>11, Kinds
  DEF LoggedOK, QueuesOK, LogInv
<1>15. WorkerOK'
  BY <1>1, <1>2, <1>4 DEF WorkerOK, Turning, Ending, LogInv
<1>16. SubsOK'
  BY <1>1, <1>2, <1>4 DEF SubsOK, Live, LogInv
<1>17. RequestsOK'
  BY <1>1, <1>2, <1>4, <1>5, <1>7 DEF RequestsOK, Requesting, Waiting, TaskInv
<1>18. RecordOK'
  BY <1>1, <1>2, <1>3, <1>4, <1>5, <1>6, <1>7, <1>8, <1>9, <1>10, <1>11, Kinds
  DEF RecordOK, QueuesOK, WorkerOK, Turning, Ending, LogInv, TaskInv
<1>19. SyncOK'
  BY <1>1, <1>2, <1>4, <1>5, <1>7 DEF SyncOK, Driving, Requesting, Waiting, TaskInv
<1>20. DownOK'
  BY <1>1, <1>2, <1>3, <1>4, <1>5, <1>6, <1>7 DEF DownOK, Driving, TaskInv
<1>21. CmdsOK'
  BY <1>6
<1>22. StopsOK'
  <2>1. \A k \in DOMAIN cmds' : \E n \in DOMAIN cmds : cmds'[k] = cmds[n]
    BY <1>6
  <2>2. UNCHANGED <<stop, trouble, logPaused, paused>>
    BY <1>2
  <2> QED
    BY <1>1, <2>1, <2>2 DEF TaskInv, StopsOK
<1>23. KnownLogged'
  BY <1>1, <1>2, <1>3, <1>4, <1>5, <1>6, <1>7, <1>8, <1>9, <1>10, <1>11, Kinds
  DEF KnownLogged, RequestsOK, Requesting, Waiting, LoggedOK, KnownInHand, LogInv, TaskInv, HandInv
<1>24. GateIsNew'
  BY <1>1, <1>2, <1>4, <1>5, <1>7 DEF GateIsNew, HandInv
<1>25. WaitsOnce'
  BY <1>1, <1>2, <1>4, <1>5, <1>7, <1>8 DEF WaitsOnce, Waiting, HandInv
<1>26. HandsFree'
  BY <1>1, <1>2, <1>4, <1>5, <1>7 DEF HandsFree, Driving, HandInv
<1>27. GateOK'
  BY <1>1, <1>2, <1>4, <1>5, <1>7 DEF GateOK, HandInv
<1>28. CalmLog'
  <2>1. Calm => /\ ToSet(inbox') \cap done' = {} /\ mailbox' \subseteq steps' \ done'
                /\ steps' \cap done' \subseteq steps \cap done
    BY <1>1, <1>2, <1>4, <1>8 DEF CalmInv, CalmLog, Gone
  <2> QED
    BY <1>1, <1>2, <1>11, <2>1 DEF CalmInv, CalmLog
<1>29. CalmQueue'
  <2>1. Calm => pc[i] # "unqueue" /\ up = "up"
    BY <1>4, <1>6
  <2>2. \A j \in ToSet(queue) : pc[j] = "unqueue" => pc'[j] = "unqueue"
    BY <1>5, <1>6, Kinds
  <2> QED
    BY <1>1, <1>2, <1>11, <2>1, <2>2 DEF CalmInv, CalmQueue
<1>30. CalmWaits'
  BY <1>1, <1>2, <1>5, <1>7, <1>10, <1>11 DEF CalmInv, CalmWaits, Waiting
<1>31. CalmEdits'
  BY <1>1, <1>2, <1>5, <1>7, <1>10, <1>11 DEF CalmInv, CalmEdits
<1>32. CalmPushes'
  BY <1>1, <1>2, <1>4, <1>5, <1>7, <1>8, <1>9, <1>11 DEF CalmPushes, Calm, CalmInv
<1>33. CalmRemoved'
  <2>1. ASSUME Calm, NEW j \in removed
        PROVE  Gone(j)' /\ j \notin ToSet(queue') /\ pc'[j] = "idle"
    <3>1. j \in Inputs /\ Gone(j) /\ j \notin ToSet(queue) /\ pc[j] = "idle"
      BY <1>1, <2>1, Kinds DEF CalmInv, CalmRemoved
    <3>2. j # i
      BY <1>6, <3>1
    <3> QED
      BY <1>2, <1>5, <1>10, <3>1, <3>2
  <2> QED
    BY <1>2, <1>11, <2>1 DEF CalmRemoved
<1>34. EvenUp'
  BY <1>1, <1>2, <1>3, <1>4, <1>5, <1>6, <1>7, <1>8, <1>9, <1>10, <1>11, Kinds
  DEF EvenUp, Even, Attached, Coming, Live, RequestsOK, Requesting, Waiting, TaskInv, EvenInv
<1>35. KnownInHand'
  BY <1>1, <1>2, <1>4 DEF KnownInHand, HandInv
<1> QED
  BY <1>35, <1>12, <1>13, <1>14, <1>15, <1>16, <1>17, <1>18, <1>19, <1>20, <1>21, <1>22, <1>23, <1>24, <1>25,
     <1>26, <1>27, <1>28, <1>29, <1>30, <1>31, <1>32, <1>33, <1>34
  DEF DriverInv, LogInv, TaskInv, HandInv, CalmInv, EvenInv

-----------------------------------------------------------------------------
(* A timer's delivery *)

LEMMA DeliverKeeps ==
    ASSUME DriverInv, NEW i \in Deliveries, Deliver(i)
    PROVE  DriverInv'
<1>1. LogInv /\ TaskInv /\ HandInv /\ CalmInv /\ EvenInv
  BY DEF DriverInv
<1>2. UNCHANGED <<steps, done, logPaused, open, wpc, cur, mailbox, prepared, up, queue, known, paused, running,
                shown, dpc, work, bg, cmds, mode, admitting, stop, accepted, removed, lost, ran>>
  BY DEF Deliver, Upset, vars, log, worker, runtime, record, host, driver, rpc, ghost
<1>3. /\ i \in Inputs /\ up = "up" /\ i \notin logged /\ \A j \in Inputs : j # i => pc'[j] = pc[j]
      /\ pc'[i] = "notice" /\ inbox' = Append(inbox, i) /\ logged' = logged \cup {i}
      /\ sub'[i] = "open" /\ (\A j \in Inputs : j # i => sub'[j] = sub[j]) /\ trouble' = trouble
      /\ wpc # "off"
  BY <1>1, Kinds DEF Deliver, Upset, TaskInv, RequestsOK, LogInv, SubsOK
<1>4. i \notin ToSet(inbox) /\ i \notin steps /\ i \notin done /\ i \notin prepared
  BY <1>1, <1>3 DEF LogInv, LoggedOK
<1>5. /\ inbox' \in Seq(Inputs) /\ ToSet(inbox') = ToSet(inbox) \cup {i}
      /\ IsInjective(inbox) => IsInjective(inbox')
  BY <1>1, <1>3, <1>4, Appended DEF LogInv, QueuesOK
<1>6. pc[i] \in {"idle", "notice"} /\ i \notin removed
  BY <1>1, Kinds DEF TaskInv, RequestsOK, RecordOK
<1>7. /\ RanOK' /\ RecordOK' /\ KnownInHand' /\ ShownOK'
  BY <1>1, <1>2, RanOKSame, RecordOKSame, KnownInHandSame, ShownOKSame
  DEF LogInv, TaskInv, HandInv, CalmInv, EvenInv
<1>8. QueuesOK'
  BY <1>1, <1>2, <1>3, <1>4, <1>5 DEF QueuesOK, LogInv
<1>9. LoggedOK'
  BY <1>1, <1>2, <1>3, <1>4, <1>5 DEF LoggedOK, LogInv
<1>10. WorkerOK'
  BY <1>1, <1>2, <1>4 DEF Deliver, WorkerOK, Turning, Ending, LogInv
<1>11. SubsOK'
  BY <1>1, <1>2, <1>3 DEF Deliver, SubsOK, Live, LogInv
<1>12. DriveOK'
  BY <1>1, <1>2, <1>3 DEF DriveOK, Driving, OneDriver, TaskInv
<1>13. RequestsOK'
  BY <1>1, <1>2, <1>3, <1>6 DEF Deliver, RequestsOK, Requesting, Waiting, TaskInv
<1>14. SyncOK'
  BY <1>1, <1>2, <1>3, <1>6 DEF SyncOK, Driving, Requesting, Waiting, TaskInv
<1>15. DownOK'
  BY <1>1, <1>2, <1>3, <1>4, <1>6 DEF DownOK, Driving, TaskInv
<1>16. CmdsOK'
  BY <1>1, <1>2, <1>3, <1>6 DEF Deliver, CmdsOK, Requesting, Waiting, TaskInv
<1>17. StopsOK'
  BY <1>1, <1>2, <1>3 DEF StopsOK, TaskInv
<1>18. KnownLogged'
  BY <1>1, <1>2, <1>3, <1>6 DEF Deliver, KnownLogged, HandInv
<1>19. GateIsNew'
  BY <1>1, <1>2, <1>3, <1>6 DEF GateIsNew, HandInv
<1>20. WaitsOnce'
  BY <1>1, <1>2, <1>3, <1>6 DEF WaitsOnce, Waiting, HandInv
<1>21. PreparedOpen'
  BY <1>1, <1>2, <1>3, <1>4 DEF Deliver, PreparedOpen, Live, HandInv
<1>22. HandsFree'
  BY <1>1, <1>2, <1>3, <1>4, <1>6 DEF Deliver, HandsFree, Driving, HandInv
<1>23. GateOK'
  BY <1>1, <1>2, <1>3, <1>6 DEF Deliver, GateOK, HandInv
<1>24. CalmLog'
  BY <1>1, <1>2, <1>3, <1>4, <1>5 DEF CalmLog, Calm, CalmInv
<1>25. CalmQueue'
  BY <1>1, <1>2, <1>3, <1>4, <1>5, <1>6, Kinds DEF CalmQueue, Calm, CalmInv
<1>26. CalmStart'
  BY <1>1, <1>2, <1>3, <1>4 DEF CalmStart, Calm, CalmInv
<1>27. CalmWaits'
  BY <1>1, <1>2, <1>3, <1>4, <1>5, <1>6 DEF CalmWaits, Calm, Gone, Waiting, CalmInv
<1>28. CalmEdits'
  BY <1>1, <1>2, <1>3, <1>4, <1>5, <1>6 DEF CalmEdits, Calm, Gone, CalmInv
<1>29. CalmPushes'
  BY <1>1, <1>2, <1>3, <1>4, <1>6 DEF CalmPushes, Calm, CalmInv
<1>30. CalmRemoved'
  BY <1>1, <1>2, <1>3, <1>4, <1>5, <1>6, Kinds DEF CalmRemoved, Calm, Gone, CalmInv
<1>31. EvenUp'
  BY <1>1, <1>2, <1>3, <1>4, <1>5, <1>6 DEF EvenUp, Even, Attached, Coming, Live, EvenInv
<1>32. EvenRestored'
  BY <1>1, <1>2, <1>3, <1>4, <1>5 DEF EvenRestored, Even, Coming, Live, EvenInv
<1>33. EvenOpen'
  BY <1>1, <1>2, <1>3 DEF EvenOpen, Even, Turning, EvenInv
<1> QED
  BY <1>7, <1>8, <1>9, <1>10, <1>11, <1>12, <1>13, <1>14, <1>15, <1>16, <1>17, <1>18, <1>19, <1>20,
     <1>21, <1>22, <1>23, <1>24, <1>25, <1>26, <1>27, <1>28, <1>29, <1>30, <1>31, <1>32, <1>33
  DEF DriverInv, LogInv, TaskInv, HandInv, CalmInv, EvenInv

LEMMA BackgroundTurnKeeps ==
    ASSUME DriverInv, NEW i \in Deliveries, BackgroundTurn(i)
    PROVE  DriverInv'
<1>1. LogInv /\ TaskInv /\ HandInv /\ CalmInv /\ EvenInv
  BY DEF DriverInv
<1>2. UNCHANGED <<inbox, steps, done, logged, logPaused, open, wpc, cur, wake, mailbox, prepared, sub, up, queue,
                known, paused, shown, cmds, mode, admitting, stop, accepted, removed, lost, ran, budget>>
  BY DEF BackgroundTurn, vars, log, worker, runtime, record, host, driver, rpc, ghost
<1>3. /\ i \in Inputs /\ pc[i] = "notice" /\ \A j \in Inputs : j # i => pc'[j] = pc[j]
      /\ pc'[i] = "idle" /\ running' = TRUE /\ i \notin prepared
      /\ \/ running /\ bg' = i /\ work' = work /\ dpc' = dpc /\ trouble' = trouble
         \/ ~running /\ bg' = bg /\ work' = i /\ dpc' = "follow" /\ trouble' = trouble
  BY <1>1, Kinds DEF BackgroundTurn, TaskInv, RequestsOK, DriveOK, OneDriver, HandInv, HandsFree
<1>4. bg = none /\ (~running => work = none)
  BY <1>1 DEF BackgroundTurn, TaskInv, DriveOK, OneDriver, Driving
<1>5. CmdsOK'
  BY <1>1, <1>2, <1>3, CmdsKept, Kinds DEF TaskInv
<1>6. /\ QueuesOK' /\ LoggedOK' /\ RanOK' /\ WorkerOK' /\ SubsOK' /\ RecordOK' /\ PreparedOpen'
  BY <1>1, <1>2, QueuesOKSame, LoggedOKSame, RanOKSame, WorkerOKSame, SubsOKSame, RecordOKSame,
     PreparedOpenSame
  DEF LogInv, TaskInv, HandInv, CalmInv, EvenInv
<1>7. DriveOK'
  BY <1>1, <1>2, <1>3, <1>4 DEF DriveOK, Driving, OneDriver, TaskInv
<1>8. RequestsOK'
  BY <1>1, <1>2, <1>3, Kinds DEF BackgroundTurn, RequestsOK, Requesting, Waiting, TaskInv
<1>9. SyncOK'
  BY <1>1, <1>2, <1>3 DEF SyncOK, Driving, Requesting, Waiting, DriveOK, OneDriver, RequestsOK, TaskInv
<1>10. DownOK'
  BY <1>1, <1>2, <1>3, <1>4 DEF DownOK, Driving, TaskInv
<1>11. CmdsOK'
  BY <1>5
<1>12. StopsOK'
  BY <1>1, <1>2, <1>3 DEF StopsOK, TaskInv
<1>13. KnownInHand'
  BY <1>1, <1>2, <1>3, <1>4 DEF KnownInHand, HandInv
<1>14. KnownLogged'
  BY <1>1, <1>2, <1>3, Kinds DEF KnownLogged, HandInv
<1>15. GateIsNew'
  BY <1>1, <1>2, <1>3 DEF GateIsNew, HandInv
<1>16. WaitsOnce'
  BY <1>1, <1>2, <1>3, <1>4 DEF WaitsOnce, Waiting, HandInv
<1>17. HandsFree'
  BY <1>1, <1>2, <1>3, <1>4, Kinds DEF HandsFree, Driving, HandInv
<1>18. ShownOK'
  BY <1>1, <1>2, <1>3, <1>4, Kinds DEF ShownOK, HandInv
<1>19. GateOK'
  BY <1>1, <1>2, <1>3, Kinds DEF GateOK, HandInv
<1>20. CalmLog'
  BY <1>1, <1>2, <1>3 DEF CalmLog, Calm, CalmInv
<1>21. CalmQueue'
  BY <1>1, <1>2, <1>3, Kinds DEF CalmQueue, Calm, CalmInv
<1>22. CalmStart'
  BY <1>1, <1>2, <1>3, <1>4 DEF CalmStart, Calm, CalmInv
<1>23. CalmWaits'
  BY <1>1, <1>2, <1>3 DEF CalmWaits, Calm, Gone, Waiting, CalmInv
<1>24. CalmEdits'
  BY <1>1, <1>2, <1>3 DEF CalmEdits, Calm, Gone, CalmInv
<1>25. CalmPushes'
  BY <1>1, <1>2, <1>3, <1>4 DEF CalmPushes, Calm, CalmInv
<1>26. CalmRemoved'
  BY <1>1, <1>2, <1>3, Kinds DEF CalmRemoved, Calm, Gone, CalmInv
<1>27. EvenUp'
  BY <1>1, <1>2, <1>3, <1>4 DEF EvenUp, Even, Attached, Coming, Live, EvenInv
<1>28. EvenRestored'
  BY <1>1, <1>2, <1>3 DEF EvenRestored, Even, Coming, Live, EvenInv
<1>29. EvenOpen'
  BY <1>1, <1>2, <1>3 DEF EvenOpen, Even, Turning, EvenInv
<1> QED
  BY <1>6, <1>7, <1>8, <1>9, <1>10, <1>11, <1>12, <1>13, <1>14, <1>15, <1>16, <1>17, <1>18, <1>19,
     <1>20, <1>21, <1>22, <1>23, <1>24, <1>25, <1>26, <1>27, <1>28, <1>29
  DEF DriverInv, LogInv, TaskInv, HandInv, CalmInv, EvenInv

LEMMA BackgroundShowsKeeps ==
    ASSUME DriverInv, BackgroundShows
    PROVE  DriverInv'
<1>1. LogInv /\ TaskInv /\ HandInv /\ CalmInv /\ EvenInv
  BY DEF DriverInv
<1>2. UNCHANGED <<inbox, steps, done, logged, logPaused, open, wpc, cur, wake, mailbox, prepared, sub, up, queue,
                known, paused, running, dpc, work, bg, cmds, pc, mode, admitting, stop, accepted, removed,
                lost, ran, trouble, budget>>
  BY DEF BackgroundShows, Shows, vars, log, worker, runtime, record, host, driver, rpc, ghost
<1>3. /\ QueuesOK' /\ LoggedOK' /\ RanOK' /\ WorkerOK' /\ SubsOK' /\ DriveOK' /\ RequestsOK'
      /\ RecordOK' /\ SyncOK' /\ DownOK' /\ CmdsOK' /\ StopsOK' /\ KnownInHand' /\ KnownLogged'
      /\ GateIsNew' /\ WaitsOnce' /\ PreparedOpen' /\ HandsFree' /\ GateOK' /\ CalmLog'
      /\ CalmQueue' /\ CalmStart' /\ CalmWaits' /\ CalmEdits' /\ CalmPushes' /\ CalmRemoved'
      /\ EvenUp' /\ EvenRestored' /\ EvenOpen'
  BY <1>1, <1>2, QueuesOKSame, LoggedOKSame, RanOKSame, WorkerOKSame, SubsOKSame, DriveOKSame,
     RequestsOKSame, RecordOKSame, SyncOKSame, DownOKSame, CmdsOKSame, StopsOKSame, KnownInHandSame,
     KnownLoggedSame, GateIsNewSame, WaitsOnceSame, PreparedOpenSame, HandsFreeSame, GateOKSame,
     CalmLogSame, CalmQueueSame, CalmStartSame, CalmWaitsSame, CalmEditsSame, CalmPushesSame,
     CalmRemovedSame, EvenUpSame, EvenRestoredSame, EvenOpenSame
  DEF LogInv, TaskInv, HandInv, CalmInv, EvenInv
<1>4. ShownOK'
  BY <1>1, <1>2 DEF BackgroundShows, Shows, ShownOK, DriveOK, Driving, OneDriver, TaskInv, HandInv
<1> QED
  BY <1>3, <1>4 DEF DriverInv, LogInv, TaskInv, HandInv, CalmInv, EvenInv

LEMMA BackgroundEndsKeeps ==
    ASSUME DriverInv, BackgroundEnds
    PROVE  DriverInv'
<1>1. LogInv /\ TaskInv /\ HandInv /\ CalmInv /\ EvenInv
  BY DEF DriverInv
<1>2. UNCHANGED <<inbox, steps, done, logged, logPaused, open, wpc, cur, wake, mailbox, prepared, up, queue,
                known, paused, running, shown, dpc, work, cmds, pc, mode, admitting, stop, accepted, removed,
                lost, ran, trouble, budget>>
  BY DEF BackgroundEnds, Ended, vars, log, worker, runtime, record, host, driver, rpc, ghost
<1>3. \A i \in Inputs : i # bg => sub'[i] = sub[i]
  BY <1>1 DEF BackgroundEnds, LogInv, SubsOK
<1>4. bg \notin prepared
  BY <1>1 DEF HandInv, HandsFree
<1>5. /\ QueuesOK' /\ LoggedOK' /\ RanOK' /\ WorkerOK' /\ RequestsOK' /\ RecordOK' /\ SyncOK'
      /\ CmdsOK' /\ StopsOK' /\ KnownInHand' /\ KnownLogged' /\ GateIsNew' /\ WaitsOnce'
      /\ ShownOK' /\ GateOK' /\ CalmLog' /\ CalmQueue' /\ CalmStart' /\ CalmWaits' /\ CalmEdits'
      /\ CalmPushes' /\ CalmRemoved' /\ EvenOpen'
  BY <1>1, <1>2, QueuesOKSame, LoggedOKSame, RanOKSame, WorkerOKSame, RequestsOKSame, RecordOKSame,
     SyncOKSame, CmdsOKSame, StopsOKSame, KnownInHandSame, KnownLoggedSame, GateIsNewSame,
     WaitsOnceSame, ShownOKSame, GateOKSame, CalmLogSame, CalmQueueSame, CalmStartSame, CalmWaitsSame,
     CalmEditsSame, CalmPushesSame, CalmRemovedSame, EvenOpenSame
  DEF LogInv, TaskInv, HandInv, CalmInv, EvenInv
<1>6. SubsOK'
  BY <1>1, <1>2, <1>3 DEF BackgroundEnds, Ended, SubsOK, Live, LogInv
<1>7. DriveOK'
  BY <1>1, <1>2, <1>4 DEF BackgroundEnds, DriveOK, Driving, OneDriver, TaskInv
<1>8. DownOK'
  BY <1>1, <1>2, <1>4 DEF BackgroundEnds, DownOK, Driving, TaskInv
<1>9. PreparedOpen'
  BY <1>1, <1>2, <1>3, <1>4, Kinds DEF PreparedOpen, Live, HandInv
<1>10. HandsFree'
  BY <1>1, <1>2, <1>4, Kinds DEF BackgroundEnds, HandsFree, Driving, HandInv
<1>11. EvenUp'
  BY <1>1, <1>2, <1>3, <1>4 DEF BackgroundEnds, Ended, EvenUp, Even, Attached, Coming, Live, EvenInv
<1>12. EvenRestored'
  BY <1>1, <1>2, <1>3, <1>4 DEF BackgroundEnds, Ended, EvenRestored, Even, Coming, Live, EvenInv
<1> QED
  BY <1>5, <1>6, <1>7, <1>8, <1>9, <1>10, <1>11, <1>12
  DEF DriverInv, LogInv, TaskInv, HandInv, CalmInv, EvenInv

-----------------------------------------------------------------------------
(* The runtime's worker *)

LEMMA WorkerWakesKeeps ==
    ASSUME DriverInv, WorkerWakes
    PROVE  DriverInv'
<1>1. LogInv /\ TaskInv /\ HandInv /\ CalmInv /\ EvenInv
  BY DEF DriverInv
<1>2. UNCHANGED <<inbox, steps, done, logged, logPaused, open, cur, mailbox, prepared, sub, up, queue, known,
                paused, running, shown, dpc, work, bg, cmds, pc, mode, admitting, stop, accepted, removed,
                lost, ran, trouble, budget>>
  BY DEF WorkerWakes, vars, log, worker, runtime, record, host, driver, rpc, ghost
<1>3. /\ QueuesOK' /\ LoggedOK' /\ RanOK' /\ SubsOK' /\ DriveOK' /\ RequestsOK' /\ RecordOK'
      /\ SyncOK' /\ CmdsOK' /\ StopsOK' /\ KnownInHand' /\ KnownLogged' /\ GateIsNew'
      /\ WaitsOnce' /\ PreparedOpen' /\ HandsFree' /\ ShownOK' /\ GateOK'
      /\ CalmStart' /\ CalmWaits' /\ CalmEdits' /\ CalmPushes' /\ CalmRemoved' /\ EvenUp'
  BY <1>1, <1>2, QueuesOKSame, LoggedOKSame, RanOKSame, SubsOKSame, DriveOKSame, RequestsOKSame,
     RecordOKSame, SyncOKSame, CmdsOKSame, StopsOKSame, KnownInHandSame, KnownLoggedSame, GateIsNewSame,
     WaitsOnceSame, PreparedOpenSame, HandsFreeSame, ShownOKSame, GateOKSame,
     CalmStartSame, CalmWaitsSame, CalmEditsSame, CalmPushesSame, CalmRemovedSame, EvenUpSame
  DEF LogInv, TaskInv, HandInv, CalmInv, EvenInv
<1>4. WorkerOK'
  BY <1>1, <1>2 DEF WorkerWakes, WorkerOK, Turning, Ending, LogInv
<1>5. DownOK'
  BY <1>1, <1>2 DEF WorkerWakes, DownOK, Driving, TaskInv
<1>6. CalmQueue'
  BY <1>1, <1>2 DEF WorkerWakes, CalmQueue, Calm, CalmInv
<1>7. EvenRestored'
  BY <1>1, <1>2 DEF WorkerWakes, EvenRestored, Even, Coming, Live, EvenInv
<1>8. EvenOpen'
  BY <1>1, <1>2 DEF WorkerWakes, EvenOpen, Even, Turning, EvenInv
<1>9. CalmLog'
  <2>1. wpc = "idle"
    BY DEF WorkerWakes
  <2> QED
    BY <1>1, <1>2, <2>1, CalmLogGoes DEF CalmInv
<1> QED
  BY <1>9, <1>3, <1>4, <1>5, <1>6, <1>7, <1>8 DEF DriverInv, LogInv, TaskInv, HandInv, CalmInv, EvenInv

LEMMA WorkerLoadsKeeps ==
    ASSUME DriverInv, WorkerLoads
    PROVE  DriverInv'
<1>1. LogInv /\ TaskInv /\ HandInv /\ CalmInv /\ EvenInv
  BY DEF DriverInv
<1>2. UNCHANGED <<inbox, steps, done, logged, logPaused, open, cur, mailbox, prepared, up, queue, known, paused,
                running, shown, dpc, work, bg, cmds, pc, mode, admitting, stop, accepted, removed, lost, ran,
                trouble, budget>>
  BY DEF WorkerLoads, Park, Parked, Live, vars, log, worker, runtime, record, host, driver, rpc, ghost
<1>3. wpc = "load" /\ wpc' \in {"idle", "acquire"} /\ (~logPaused => sub' = sub)
  BY DEF WorkerLoads, Park
<1>4. Even => ~logPaused
  BY <1>1 DEF TaskInv, StopsOK, Even
<1>5. /\ QueuesOK' /\ LoggedOK' /\ RanOK' /\ DriveOK' /\ RequestsOK' /\ RecordOK' /\ SyncOK'
      /\ CmdsOK' /\ StopsOK' /\ KnownInHand' /\ KnownLogged' /\ GateIsNew' /\ WaitsOnce'
      /\ HandsFree' /\ ShownOK' /\ GateOK' /\ CalmStart' /\ CalmWaits' /\ CalmEdits'
      /\ CalmPushes' /\ CalmRemoved'
  BY <1>1, <1>2, QueuesOKSame, LoggedOKSame, RanOKSame, DriveOKSame, RequestsOKSame, RecordOKSame,
     SyncOKSame, CmdsOKSame, StopsOKSame, KnownInHandSame, KnownLoggedSame, GateIsNewSame,
     WaitsOnceSame, HandsFreeSame, ShownOKSame, GateOKSame, CalmStartSame, CalmWaitsSame,
     CalmEditsSame, CalmPushesSame, CalmRemovedSame
  DEF LogInv, TaskInv, HandInv, CalmInv, EvenInv
<1>6. WorkerOK'
  BY <1>1, <1>2, <1>3, <1>4 DEF WorkerLoads, Park, Live, WorkerOK, Turning, Ending, LogInv
<1>7. SubsOK'
  BY <1>1, <1>2, <1>3, <1>4, Kinds
  DEF WorkerLoads, Park, Parked, Live, SubsOK, LoggedOK, QueuesOK, LogInv
<1>8. DownOK'
  BY <1>1, <1>2, <1>3 DEF DownOK, Driving, TaskInv
<1>9. PreparedOpen'
  BY <1>1, <1>2, <1>3, <1>4, Kinds
  DEF WorkerLoads, Park, Parked, Live, PreparedOpen, SubsOK, LoggedOK, LogInv, HandInv
<1>10. CalmQueue'
  BY <1>1, <1>2, <1>3 DEF CalmQueue, Calm, CalmInv
<1>11. EvenUp'
  BY <1>1, <1>2, <1>3, <1>4 DEF EvenUp, Even, Attached, Coming, Live, EvenInv
<1>12. EvenRestored'
  BY <1>1, <1>2, <1>3, <1>4 DEF EvenRestored, Even, Coming, Live, EvenInv
<1>13. EvenOpen'
  BY <1>1, <1>2, <1>3, <1>4 DEF EvenOpen, Even, Turning, EvenInv
<1>14. CalmLog'
  BY <1>1, <1>2, <1>3, CalmLogGoes DEF CalmInv
<1> QED
  BY <1>14, <1>5, <1>6, <1>7, <1>8, <1>9, <1>10, <1>11, <1>12, <1>13
  DEF DriverInv, LogInv, TaskInv, HandInv, CalmInv, EvenInv

LEMMA TurnStartsKeeps ==
    ASSUME DriverInv, TurnStarts
    PROVE  DriverInv'
<1>1. LogInv /\ TaskInv /\ HandInv /\ CalmInv /\ EvenInv
  BY DEF DriverInv
<1>2. UNCHANGED <<logged, logPaused, open, wake, mailbox, prepared, up, queue, known, paused, running, shown,
                dpc, work, bg, cmds, pc, mode, admitting, stop, accepted, removed, lost, trouble, budget>>
  BY DEF TurnStarts, Started, vars, log, worker, runtime, record, host, driver, rpc, ghost
<1>3. /\ wpc = "acquire" /\ open = none /\ cur = none /\ mailbox = {}
      /\ \/ /\ inbox = <<>> /\ wpc' = "idle" /\ UNCHANGED <<inbox, steps, done, cur, sub, ran>>
         \/ /\ inbox # <<>> /\ inbox' = Tail(inbox) /\ steps' = {}
            /\ done' = done \cup {Head(inbox)} \cup steps
            /\ cur' = Head(inbox) /\ wpc' = "turn" /\ sub' = Started(Head(inbox))
            /\ ran' = [j \in Inputs |-> ran[j] + (IF j \in {Head(inbox)} \cup steps THEN 1 ELSE 0)]
  BY <1>1 DEF TurnStarts, LogInv, WorkerOK, Turning, Ending
<1>4. inbox # <<>> => /\ cur' \in Inputs /\ cur' \in ToSet(inbox) /\ inbox' \in Seq(Inputs)
                      /\ ToSet(inbox) = ToSet(inbox') \cup {cur'}
                      /\ IsInjective(inbox) => IsInjective(inbox') /\ cur' \notin ToSet(inbox')
  <2>1. PICK q, h, t : q = inbox /\ h = Head(q) /\ t = Tail(q)
    OBVIOUS
  <2>2. ASSUME q # <<>>
        PROVE  /\ h \in Inputs /\ h \in ToSet(q) /\ t \in Seq(Inputs) /\ ToSet(q) = ToSet(t) \cup {h}
               /\ IsInjective(q) => IsInjective(t) /\ h \notin ToSet(t)
    <3>1. q \in Seq(Inputs)
      BY <1>1, <2>1 DEF LogInv, QueuesOK
    <3> QED
      BY <2>1, <2>2, <3>1, Taken
  <2>3. inbox # <<>> => h = cur' /\ t = inbox'
    BY <1>3, <2>1
  <2> QED
    BY <2>1, <2>2, <2>3
<1>5. inbox # <<>> => /\ steps' = {} /\ done' = done \cup {cur'} \cup steps
                      /\ wpc' = "turn" /\ cur' # none
                      /\ sub' = Started(cur')
                      /\ ran' = [j \in Inputs |-> ran[j] + (IF j \in {cur'} \cup steps THEN 1 ELSE 0)]
  BY <1>3, <1>4, Kinds
<1>6. inbox = <<>> => wpc' = "idle" /\ UNCHANGED <<inbox, steps, done, cur, sub, ran>>
  BY <1>3
<1>7. Calm' => Calm
  BY <1>2 DEF Calm
<1>8. inbox # <<>> =>
      \A j \in Inputs : sub'[j] = IF j = cur' /\ sub[j] = "open" THEN "started" ELSE sub[j]
  BY <1>1, <1>4, <1>5 DEF Started, LogInv, SubsOK
<1>9. /\ DriveOK' /\ RequestsOK' /\ RecordOK' /\ SyncOK' /\ CmdsOK' /\ StopsOK' /\ KnownInHand'
      /\ KnownLogged' /\ GateIsNew' /\ WaitsOnce' /\ HandsFree' /\ ShownOK' /\ GateOK'
      /\ CalmStart' /\ CalmPushes'
  BY <1>1, <1>2, DriveOKSame, RequestsOKSame, RecordOKSame, SyncOKSame, CmdsOKSame, StopsOKSame,
     KnownInHandSame, KnownLoggedSame, GateIsNewSame, WaitsOnceSame, HandsFreeSame, ShownOKSame,
     GateOKSame, CalmStartSame, CalmPushesSame
  DEF LogInv, TaskInv, HandInv, CalmInv, EvenInv
<1>10. QueuesOK'
  BY <1>1, <1>2, <1>3, <1>4, <1>5 DEF QueuesOK, LogInv
<1>11. LoggedOK'
  BY <1>1, <1>2, <1>3, <1>4, <1>5 DEF LoggedOK, LogInv
<1>12. RanOK'
  <2>1. CASE inbox = <<>>
    BY <1>1, <1>6, <2>1 DEF LogInv, RanOK
  <2>2. CASE inbox # <<>>
    <3>1. \A j \in Inputs : /\ ran'[j] = ran[j] + (IF j \in {cur'} \cup steps THEN 1 ELSE 0)
                           /\ ran[j] \in Nat
      BY <1>1, <1>5, <2>2 DEF LogInv, RanOK
    <3>2. ran' \in [Inputs -> Nat]
      BY <1>1, <1>5, <2>2 DEF LogInv, RanOK
    <3>3. \A j \in Inputs : ran'[j] # 0 => j \in done'
      BY <1>1, <1>5, <2>2, <3>1 DEF LogInv, RanOK
    <3> QED
      BY <3>2, <3>3 DEF RanOK
  <2> QED
    BY <2>1, <2>2
<1>13. WorkerOK'
  BY <1>1, <1>2, <1>3, <1>4, <1>5, <1>6, <1>8 DEF WorkerOK, Turning, Ending, LogInv
<1>14. SubsOK'
  BY <1>1, <1>2, <1>3, <1>5, <1>8 DEF TurnStarts, Started, SubsOK, Live, LogInv
<1>15. DownOK'
  BY <1>1, <1>2, <1>3, <1>5, <1>6 DEF DownOK, Driving, TaskInv
<1>16. PreparedOpen'
  BY <1>1, <1>2, <1>3, <1>5, <1>8, Kinds DEF PreparedOpen, Live, HandInv
<1>17. CalmLog'
  <2>1. CASE inbox = <<>>
    BY <1>1, <1>2, <1>3, <1>6, <2>1, CalmLogGoes DEF CalmInv
  <2>2. ASSUME inbox # <<>>, Calm
        PROVE  /\ ToSet(inbox') \cap done' = {} /\ steps' = {} /\ mailbox' = {}
               /\ "unreconciled" \notin trouble' => \A j \in Inputs : ran'[j] <= 1
    <3>1. ToSet(inbox) \cap done = {} /\ steps \cap ToSet(inbox) = {} /\ IsInjective(inbox)
      BY <1>1, <2>2 DEF CalmInv, CalmLog, LogInv, QueuesOK
    <3>2. ToSet(inbox') \cap done' = {} /\ steps' = {} /\ mailbox' = {}
      BY <1>2, <1>3, <1>4, <1>5, <2>2, <3>1
    <3>3. /\ \A j \in Inputs : ran[j] \in Nat /\ (ran[j] # 0 => j \in done)
          /\ "unreconciled" \notin trouble =>
               steps \cap done = {} /\ \A j \in Inputs : ran[j] <= 1
      BY <1>1, <1>3, <2>2 DEF CalmInv, CalmLog, LogInv, RanOK
    <3>4. ASSUME "unreconciled" \notin trouble, NEW j \in Inputs PROVE ran'[j] <= 1
      <4>1. j \in {cur'} \cup steps => ran[j] = 0
        BY <1>4, <2>2, <3>1, <3>3, <3>4
      <4>2. ran'[j] = ran[j] + (IF j \in {cur'} \cup steps THEN 1 ELSE 0)
        BY <1>5, <2>2
      <4> QED
        BY <3>3, <3>4, <4>1, <4>2
    <3> QED
      BY <1>2, <3>2, <3>4
  <2> QED
    BY <1>7, <2>1, <2>2 DEF CalmLog
<1>18. CalmQueue'
  BY <1>1, <1>2, <1>3, <1>4, <1>5, <1>6, <1>7 DEF CalmQueue, Calm, CalmInv
<1>19. CalmWaits'
  BY <1>1, <1>2, <1>3, <1>4, <1>5, <1>7 DEF CalmWaits, Calm, Gone, Waiting, CalmInv
<1>20. CalmEdits'
  BY <1>1, <1>2, <1>3, <1>4, <1>5, <1>7 DEF CalmEdits, Calm, Gone, CalmInv
<1>21. CalmRemoved'
  BY <1>1, <1>2, <1>3, <1>4, <1>5, <1>7 DEF CalmRemoved, Calm, Gone, CalmInv
<1>22. EvenUp'
  BY <1>1, <1>2, <1>3, <1>4, <1>5, <1>7, <1>8 DEF EvenUp, Even, Attached, Coming, Live, EvenInv
<1>23. EvenRestored'
  BY <1>1, <1>2, <1>3, <1>4, <1>5, <1>6, <1>7, <1>8 DEF EvenRestored, Even, Coming, Live, EvenInv
<1>24. EvenOpen'
  BY <1>1, <1>2, <1>3, <1>5, <1>6, <1>7 DEF EvenOpen, Even, Turning, EvenInv
<1> QED
  BY <1>9, <1>10, <1>11, <1>12, <1>13, <1>14, <1>15, <1>16, <1>17, <1>18, <1>19, <1>20, <1>21, <1>22,
     <1>23, <1>24
  DEF DriverInv, LogInv, TaskInv, HandInv, CalmInv, EvenInv

LEMMA TurnSteersKeeps ==
    ASSUME DriverInv, TurnSteers
    PROVE  DriverInv'
<1>1. LogInv /\ TaskInv /\ HandInv /\ CalmInv /\ EvenInv
  BY DEF DriverInv
<1>2. UNCHANGED <<inbox, steps, logged, logPaused, open, wpc, cur, wake, prepared, sub, up, queue, known,
                paused, running, shown, dpc, work, bg, cmds, pc, mode, admitting, stop, accepted, removed,
                lost, budget>>
  BY DEF TurnSteers, vars, log, worker, runtime, record, host, driver, rpc, ghost
<1>3. /\ wpc \in Turning \cup Ending /\ done' = done \cup mailbox /\ mailbox' = {}
      /\ ran' = [i \in Inputs |-> ran[i] + (IF i \in mailbox THEN 1 ELSE 0)]
      /\ trouble' = trouble \/ trouble' = trouble \cup {"unreconciled"}
      /\ wpc \in Recovered => "unreconciled" \in trouble'
  BY DEF TurnSteers
<1>4. mailbox \subseteq logged /\ \A i \in Inputs : ran[i] \in Nat /\ (ran[i] # 0 => i \in done)
  BY <1>1 DEF LogInv, LoggedOK, RanOK
<1>5. Calm' <=> Calm
  BY <1>3 DEF Calm
<1>6. Even' <=> Even
  BY <1>3 DEF Even
<1>7. \A what \in {"two drivers", "fault", "left out", "stopped"} : what \in trouble' <=> what \in trouble
  BY <1>3
<1>8. /\ QueuesOK' /\ SubsOK' /\ RequestsOK' /\ RecordOK' /\ SyncOK' /\ DownOK' /\ CmdsOK'
      /\ KnownInHand' /\ KnownLogged' /\ GateIsNew' /\ WaitsOnce' /\ PreparedOpen' /\ HandsFree'
      /\ ShownOK' /\ GateOK'
  BY <1>1, <1>2, QueuesOKSame, SubsOKSame, RequestsOKSame, RecordOKSame, SyncOKSame, DownOKSame,
     CmdsOKSame, KnownInHandSame, KnownLoggedSame, GateIsNewSame, WaitsOnceSame, PreparedOpenSame,
     HandsFreeSame, ShownOKSame, GateOKSame
  DEF LogInv, TaskInv, HandInv
<1>9. LoggedOK'
  BY <1>1, <1>2, <1>3, <1>4 DEF LoggedOK, LogInv
<1>10. RanOK'
  BY <1>1, <1>3, <1>4 DEF RanOK, LogInv
<1>11. WorkerOK'
  BY <1>1, <1>2, <1>3 DEF WorkerOK, Turning, Ending, LogInv
<1>12. DriveOK'
  BY <1>1, <1>2, <1>7 DEF DriveOK, Driving, OneDriver, TaskInv
<1>13. StopsOK'
  BY <1>1, <1>2, <1>7 DEF StopsOK, TaskInv
<1>14. CalmLog'
  <2>1. ASSUME Calm
        PROVE  /\ ToSet(inbox) \cap done' = {}
               /\ "unreconciled" \notin trouble' => \A i \in Inputs : ran'[i] <= 1
    <3>1. /\ ToSet(inbox) \cap done = {} /\ mailbox \subseteq steps \ done /\ steps \cap ToSet(inbox) = {}
          /\ "unreconciled" \notin trouble => \A i \in Inputs : ran[i] <= 1
      BY <1>1, <2>1 DEF CalmInv, CalmLog, LogInv, QueuesOK
    <3>2. ASSUME NEW i \in Inputs, "unreconciled" \notin trouble' PROVE ran'[i] <= 1
      <4>1. ran'[i] = ran[i] + (IF i \in mailbox THEN 1 ELSE 0)
        BY <1>3
      <4>2. ran[i] \in Nat /\ ran[i] <= 1 /\ (i \in mailbox => ran[i] = 0)
        BY <1>3, <1>4, <3>1, <3>2
      <4> QED
        BY <4>1, <4>2
    <3> QED
      BY <1>3, <3>1, <3>2
  <2>2. "unreconciled" \notin trouble' => wpc \in {"off", "turn", "turn ends"}
    BY <1>3 DEF Turning, Ending, Recovered
  <2> QED
    BY <1>2, <1>3, <1>5, <2>1, <2>2 DEF CalmLog
<1>15. Calm => mailbox \subseteq steps
  BY <1>1 DEF CalmInv, CalmLog
<1>16. \A i \in Inputs : Calm /\ Gone(i) => Gone(i)'
  BY <1>2, <1>3, <1>15 DEF Gone
<1>17. /\ CalmQueue' /\ CalmStart' /\ CalmPushes'
  BY <1>1, <1>2, <1>5 DEF CalmInv, CalmQueue, CalmStart, CalmPushes
<1>18. CalmWaits'
  BY <1>1, <1>2, <1>5, <1>16 DEF CalmInv, CalmWaits
<1>19. CalmEdits'
  BY <1>1, <1>2, <1>5, <1>16 DEF CalmInv, CalmEdits
<1>20. CalmRemoved'
  BY <1>1, <1>2, <1>5, <1>16, Kinds DEF CalmInv, CalmRemoved
<1>21. EvenUp'
  BY <1>1, <1>2, <1>6 DEF EvenInv, EvenUp, Attached, Coming
<1>22. EvenRestored'
  BY <1>1, <1>2, <1>6 DEF EvenInv, EvenRestored, Coming
<1>23. EvenOpen'
  BY <1>1, <1>2, <1>6 DEF EvenInv, EvenOpen
<1> QED
  BY <1>8, <1>9, <1>10, <1>11, <1>12, <1>13, <1>14, <1>17, <1>18, <1>19, <1>20, <1>21, <1>22, <1>23
  DEF DriverInv, LogInv, TaskInv, HandInv, CalmInv, EvenInv

LEMMA TurnFailsKeeps ==
    ASSUME DriverInv, TurnFails
    PROVE  DriverInv'
<1>1. LogInv /\ TaskInv /\ HandInv /\ CalmInv /\ EvenInv
  BY DEF DriverInv
<1>2. UNCHANGED <<inbox, steps, done, logged, logPaused, open, cur, mailbox, prepared, up, queue, known, paused,
                running, shown, dpc, work, bg, cmds, pc, mode, admitting, stop, accepted, removed, lost, ran,
                trouble, budget>>
  BY DEF TurnFails, Live, vars, log, worker, runtime, record, host, driver, rpc, ghost
<1>3. wpc = "acquire" /\ open # none /\ wpc' = "load"
  BY DEF TurnFails
<1>4. ~Even
  BY <1>1, <1>3 DEF EvenInv, EvenOpen, Turning
<1>5. /\ QueuesOK' /\ LoggedOK' /\ RanOK' /\ DriveOK' /\ RequestsOK' /\ RecordOK' /\ SyncOK'
      /\ CmdsOK' /\ StopsOK' /\ KnownInHand' /\ KnownLogged' /\ GateIsNew' /\ WaitsOnce'
      /\ HandsFree' /\ ShownOK' /\ GateOK' /\ CalmStart' /\ CalmWaits' /\ CalmEdits'
      /\ CalmPushes' /\ CalmRemoved'
  BY <1>1, <1>2, QueuesOKSame, LoggedOKSame, RanOKSame, DriveOKSame, RequestsOKSame, RecordOKSame,
     SyncOKSame, CmdsOKSame, StopsOKSame, KnownInHandSame, KnownLoggedSame, GateIsNewSame,
     WaitsOnceSame, HandsFreeSame, ShownOKSame, GateOKSame, CalmStartSame, CalmWaitsSame,
     CalmEditsSame, CalmPushesSame, CalmRemovedSame
  DEF LogInv, TaskInv, HandInv, CalmInv, EvenInv
<1>6. WorkerOK'
  BY <1>1, <1>2, <1>3 DEF TurnFails, Live, WorkerOK, Turning, Ending, LogInv
<1>7. SubsOK'
  BY <1>1, <1>2 DEF TurnFails, Live, SubsOK, LogInv
<1>8. DownOK'
  BY <1>1, <1>2, <1>3 DEF DownOK, Driving, TaskInv
<1>9. PreparedOpen'
  BY <1>1, <1>2 DEF TurnFails, Live, PreparedOpen, HandInv
<1>10. CalmQueue'
  BY <1>1, <1>2, <1>3 DEF CalmQueue, Calm, CalmInv
<1>11. EvenUp'
  BY <1>1, <1>2, <1>4 DEF EvenUp, Even, Attached, Coming, Live, EvenInv
<1>12. EvenRestored'
  BY <1>1, <1>2, <1>3, <1>4 DEF EvenRestored, Even, Coming, Live, EvenInv
<1>13. EvenOpen'
  BY <1>1, <1>2, <1>3, <1>4 DEF EvenOpen, Even, Turning, EvenInv
<1>14. CalmLog'
  BY <1>1, <1>2, <1>3, CalmLogGoes DEF CalmInv
<1> QED
  BY <1>14, <1>5, <1>6, <1>7, <1>8, <1>9, <1>10, <1>11, <1>12, <1>13
  DEF DriverInv, LogInv, TaskInv, HandInv, CalmInv, EvenInv

LEMMA AsksKeeps ==
    ASSUME DriverInv, Asks
    PROVE  DriverInv'
<1>1. LogInv /\ TaskInv /\ HandInv /\ CalmInv /\ EvenInv
  BY DEF DriverInv
<1>2. UNCHANGED <<inbox, steps, done, logged, logPaused, wpc, cur, wake, mailbox, prepared, sub, up, queue,
                known, paused, running, shown, dpc, work, bg, cmds, pc, mode, admitting, stop, accepted,
                removed, lost, ran, trouble, budget>>
  BY DEF Asks, Turning, vars, log, worker, runtime, record, host, driver, rpc, ghost
<1>3. /\ QueuesOK' /\ LoggedOK' /\ RanOK' /\ SubsOK' /\ DriveOK' /\ RequestsOK' /\ RecordOK'
      /\ SyncOK' /\ DownOK' /\ CmdsOK' /\ StopsOK' /\ KnownInHand' /\ KnownLogged' /\ GateIsNew'
      /\ WaitsOnce' /\ PreparedOpen' /\ HandsFree' /\ ShownOK' /\ GateOK' /\ CalmLog'
      /\ CalmQueue' /\ CalmStart' /\ CalmWaits' /\ CalmEdits' /\ CalmPushes' /\ CalmRemoved'
      /\ EvenUp' /\ EvenRestored'
  BY <1>1, <1>2, QueuesOKSame, LoggedOKSame, RanOKSame, SubsOKSame, DriveOKSame, RequestsOKSame,
     RecordOKSame, SyncOKSame, DownOKSame, CmdsOKSame, StopsOKSame, KnownInHandSame, KnownLoggedSame,
     GateIsNewSame, WaitsOnceSame, PreparedOpenSame, HandsFreeSame, ShownOKSame, GateOKSame,
     CalmLogSame, CalmQueueSame, CalmStartSame, CalmWaitsSame, CalmEditsSame, CalmPushesSame,
     CalmRemovedSame, EvenUpSame, EvenRestoredSame
  DEF LogInv, TaskInv, HandInv, CalmInv, EvenInv
<1>4. WorkerOK'
  BY <1>1, <1>2 DEF Asks, Turning, WorkerOK, Ending, LogInv
<1>5. EvenOpen'
  BY <1>1, <1>2 DEF Asks, Turning, EvenOpen, Even, EvenInv
<1> QED
  BY <1>3, <1>4, <1>5 DEF DriverInv, LogInv, TaskInv, HandInv, CalmInv, EvenInv

LEMMA TurnEndsKeeps ==
    ASSUME DriverInv, TurnEnds
    PROVE  DriverInv'
<1>1. LogInv /\ TaskInv /\ HandInv /\ CalmInv /\ EvenInv
  BY DEF DriverInv
<1>2. UNCHANGED <<done, logged, logPaused, open, prepared, up, queue, known, paused, running,
                shown, dpc, work, bg, cmds, pc, mode, admitting, stop, accepted, removed, lost, ran, trouble,
                budget>>
  BY
  DEF TurnEnds, Over, Reconciles, Turning, Ending, vars, log, worker, runtime, record, host, driver,
      rpc, ghost
<1>3. PICK i : i = cur
  OBVIOUS
<1>4. /\ \/ wpc \in Recovered /\ UNCHANGED <<inbox, steps>>
         \/ wpc \notin Recovered /\ inbox' = Without(inbox, done) /\ steps' = steps \ done
      /\ wpc \in Turning \cup Ending /\ mailbox' = {} /\ cur' = none /\ open = none
      /\ wpc' \in {"idle", "load"} /\ sub' = [sub EXCEPT ![i] = IF @ = "started" THEN "over" ELSE @]
  BY <1>3 DEF TurnEnds, Over, Reconciles, Unconsumed
<1>5. /\ inbox' \in Seq(Inputs) /\ ToSet(inbox') \subseteq ToSet(inbox) /\ steps' \subseteq steps
      /\ IsInjective(inbox) => IsInjective(inbox')
  BY <1>1, <1>4, Left DEF LogInv, QueuesOK
<1>6. i \in Inputs /\ i \in done /\ i = cur /\ \A j \in Inputs : j # i => sub'[j] = sub[j]
  BY <1>1, <1>3, <1>4, Kinds DEF TurnEnds, LogInv, WorkerOK, SubsOK
<1>7. \A j \in Inputs : sub'[j] # "none" => sub[j] # "none"
  BY <1>1, <1>4, <1>6 DEF LogInv, SubsOK
<1>8. up = "restoring" => ToSet(inbox') \subseteq ToSet(inbox)
  BY <1>5
<1>9. /\ RanOK' /\ DriveOK' /\ RequestsOK' /\ RecordOK' /\ SyncOK' /\ CmdsOK' /\ StopsOK'
      /\ KnownInHand' /\ KnownLogged' /\ GateIsNew' /\ WaitsOnce' /\ HandsFree' /\ ShownOK'
      /\ GateOK' /\ CalmStart' /\ CalmPushes'
  BY <1>1, <1>2, RanOKSame, DriveOKSame, RequestsOKSame, RecordOKSame, SyncOKSame, CmdsOKSame,
     StopsOKSame, KnownInHandSame, KnownLoggedSame, GateIsNewSame, WaitsOnceSame, HandsFreeSame,
     ShownOKSame, GateOKSame, CalmStartSame, CalmPushesSame
  DEF LogInv, TaskInv, HandInv, CalmInv, EvenInv
<1>10. QueuesOK'
  BY <1>1, <1>2, <1>4, <1>5, <1>8 DEF QueuesOK, LogInv
<1>11. LoggedOK'
  BY <1>1, <1>2, <1>4, <1>5, <1>8 DEF LoggedOK, LogInv
<1>12. WorkerOK'
  BY <1>1, <1>2, <1>3, <1>4 DEF Turning, Ending, WorkerOK, TurnEnds, LogInv
<1>13. SubsOK'
  BY <1>1, <1>2, <1>4, <1>6, <1>7 DEF SubsOK, Live, LogInv
<1>14. DownOK'
  BY <1>1, <1>2, <1>4 DEF TurnEnds, Turning, Ending, DownOK, Driving, TaskInv
<1>15. PreparedOpen'
  BY <1>1, <1>2, <1>4, <1>6, <1>7 DEF PreparedOpen, Live, HandInv
<1>16. CalmLog'
  <2>1. Calm' => Calm
    BY <1>2 DEF Calm
  <2>2. Calm /\ "unreconciled" \notin trouble => steps' \cap done = {}
    BY <1>1, <1>4 DEF CalmInv, CalmLog, Recovered
  <2>3. Calm => /\ ToSet(inbox') \cap done = {}
                /\ "unreconciled" \notin trouble => \A j \in Inputs : ran[j] <= 1
    BY <1>1, <1>5 DEF CalmInv, CalmLog
  <2> QED
    BY <1>2, <1>4, <2>1, <2>2, <2>3 DEF CalmLog
<1>17. CalmQueue'
  BY <1>1, <1>2, <1>4, <1>5, <1>8 DEF Turning, Ending, CalmQueue, Calm, CalmInv
<1>18. CalmWaits'
  BY <1>1, <1>2, <1>4, <1>5, <1>8 DEF CalmWaits, Calm, Gone, Waiting, CalmInv
<1>19. CalmEdits'
  BY <1>1, <1>2, <1>4, <1>5, <1>8 DEF CalmEdits, Calm, Gone, CalmInv
<1>20. CalmRemoved'
  BY <1>1, <1>2, <1>4, <1>5, <1>8 DEF CalmRemoved, Calm, Gone, CalmInv
<1>24. Even => ToSet(inbox) \cap done = {}
  BY <1>1, EvenIsCalm DEF CalmInv, CalmLog
<1>21. EvenUp'
  BY <1>24, <1>1, <1>2, <1>3, <1>4, <1>5, <1>6, <1>7, <1>8 DEF EvenUp, Even, Attached, Coming, Live, EvenInv
<1>22. EvenRestored'
  <2>1. ASSUME Even', up' = "restoring", wpc' # "off"
        PROVE  /\ ToSet(inbox') \subseteq prepared' /\ prepared' = ToSet(queue')
               /\ \A j \in Inputs : Coming(j)' => sub'[j] \in Live
               /\ \A j, n \in Inputs \ prepared' : sub'[j] # "none" /\ sub'[n] # "none" => j = n
    <3>1. Even /\ up = "restoring" /\ wpc # "off"
      BY <1>2, <2>1 DEF Even, TurnEnds, Turning, Ending
    <3>2. /\ ToSet(inbox) \subseteq prepared /\ prepared = ToSet(queue)
          /\ \A j \in Inputs : Coming(j) => sub[j] \in Live
          /\ \A j, n \in Inputs \ prepared : sub[j] # "none" /\ sub[n] # "none" => j = n
      BY <1>1, <3>1 DEF EvenInv, EvenRestored
    <3>3. \A j \in Inputs : Coming(j)' => j \in ToSet(inbox) /\ j # i
      <4>1. Calm
        BY <3>1, EvenIsCalm
      <4>2. ToSet(inbox) \cap done = {}
        BY <1>1, <4>1 DEF CalmInv, CalmLog
      <4> QED
        BY <1>4, <1>5, <1>6, <4>2 DEF Coming
    <3> QED
      BY <1>2, <1>5, <1>6, <1>7, <3>2, <3>3 DEF Coming
  <2> QED
    BY <2>1 DEF EvenRestored
<1>23. EvenOpen'
  BY <1>1, <1>2, <1>4 DEF EvenOpen, Even, Turning, EvenInv
<1> QED
  BY <1>9, <1>10, <1>11, <1>12, <1>13, <1>14, <1>15, <1>16, <1>17, <1>18, <1>19, <1>20, <1>21, <1>22,
     <1>23
  DEF DriverInv, LogInv, TaskInv, HandInv, CalmInv, EvenInv

LEMMA LagsKeeps ==
    ASSUME DriverInv, NEW i \in Inputs, Lags(i)
    PROVE  DriverInv'
<1>1. LogInv /\ TaskInv /\ HandInv /\ CalmInv /\ EvenInv
  BY DEF DriverInv
<1>2. UNCHANGED <<inbox, steps, done, logged, logPaused, open, wpc, cur, wake, mailbox, prepared, up, queue,
                known, paused, running, shown, dpc, work, bg, cmds, pc, mode, admitting, stop, accepted,
                removed, lost, ran>>
  BY DEF Lags, Upset, Turning, Live, vars, log, worker, runtime, record, host, driver, rpc, ghost
<1>3. /\ QueuesOK' /\ LoggedOK' /\ RanOK' /\ WorkerOK' /\ RequestsOK' /\ RecordOK' /\ SyncOK'
      /\ DownOK' /\ CmdsOK' /\ KnownInHand' /\ KnownLogged' /\ GateIsNew' /\ WaitsOnce'
      /\ HandsFree' /\ ShownOK' /\ GateOK'
  BY <1>1, <1>2, QueuesOKSame, LoggedOKSame, RanOKSame, WorkerOKSame, RequestsOKSame, RecordOKSame,
     SyncOKSame, DownOKSame, CmdsOKSame, KnownInHandSame, KnownLoggedSame, GateIsNewSame, WaitsOnceSame,
     HandsFreeSame, ShownOKSame, GateOKSame
  DEF LogInv, TaskInv, HandInv, CalmInv, EvenInv
<1>4. SubsOK'
  BY <1>1, <1>2 DEF Lags, Turning, Live, SubsOK, LogInv
<1>5. DriveOK'
  BY <1>1, <1>2 DEF Lags, Upset, Turning, Live, DriveOK, Driving, OneDriver, TaskInv
<1>6. StopsOK'
  BY <1>1, <1>2 DEF Lags, Upset, Turning, Live, StopsOK, TaskInv
<1>7. PreparedOpen'
  BY <1>1, <1>2 DEF Lags, Turning, Live, PreparedOpen, HandInv
<1>8. CalmLog'
  BY <1>1, <1>2 DEF Lags, Upset, Turning, Live, CalmLog, Calm, CalmInv
<1>9. CalmQueue'
  BY <1>1, <1>2 DEF Lags, Upset, Turning, Live, CalmQueue, Calm, CalmInv
<1>10. CalmStart'
  BY <1>1, <1>2 DEF Lags, Upset, Turning, Live, CalmStart, Calm, CalmInv
<1>11. CalmWaits'
  BY <1>1, <1>2 DEF Lags, Upset, Turning, Live, CalmWaits, Calm, Gone, Waiting, CalmInv
<1>12. CalmEdits'
  BY <1>1, <1>2 DEF Lags, Upset, Turning, Live, CalmEdits, Calm, Gone, CalmInv
<1>13. CalmPushes'
  BY <1>1, <1>2 DEF Lags, Upset, Turning, Live, CalmPushes, Calm, CalmInv
<1>14. CalmRemoved'
  BY <1>1, <1>2 DEF Lags, Upset, Turning, Live, CalmRemoved, Calm, Gone, CalmInv
<1>15. EvenUp'
  BY <1>1, <1>2 DEF Lags, Upset, Turning, Live, EvenUp, Even, Attached, Coming, EvenInv
<1>16. EvenRestored'
  BY <1>1, <1>2 DEF Lags, Upset, Turning, Live, EvenRestored, Even, Coming, EvenInv
<1>17. EvenOpen'
  BY <1>1, <1>2 DEF Lags, Upset, Turning, Live, EvenOpen, Even, EvenInv
<1> QED
  BY <1>3, <1>4, <1>5, <1>6, <1>7, <1>8, <1>9, <1>10, <1>11, <1>12, <1>13, <1>14, <1>15, <1>16, <1>17
  DEF DriverInv, LogInv, TaskInv, HandInv, CalmInv, EvenInv

-----------------------------------------------------------------------------
(* Crash and restoration *)

LEMMA CrashKeeps ==
    ASSUME DriverInv, Crash
    PROVE  DriverInv'
<1>1. LogInv /\ TaskInv /\ HandInv /\ CalmInv /\ EvenInv
  BY DEF DriverInv
<1>2. UNCHANGED <<inbox, steps, done, logged, logPaused, open, mode, accepted, removed, ran>>
  BY DEF Crash, Upset, vars, log, worker, runtime, record, host, driver, rpc, ghost
<1>3. /\ up = "up" /\ up' = "down" /\ trouble' = trouble \cup {"crashed"}
      /\ wpc' = "off" /\ cur' = none /\ mailbox' = {} /\ prepared' = {} /\ sub' = [i \in Inputs |-> "none"]
      /\ queue' = <<>> /\ known' = {} /\ paused' = FALSE /\ running' = FALSE
      /\ shown' = {} /\ dpc' = "off" /\ work' = none /\ bg' = none /\ cmds' = <<>>
      /\ pc' = [i \in Inputs |-> "idle"] /\ admitting' = Free /\ stop' = [s \in Stops |-> "idle"]
  BY DEF Crash, Upset
<1>4. queue' \in Seq(Inputs) /\ ToSet(queue') = {} /\ IsInjective(queue') /\ DOMAIN cmds' = {}
  BY <1>3, EmptySeq, CmdsDropped DEF ToSet, IsInjective
<1>5. CmdsOK'
  BY <1>3, CmdsDropped
<1>6. /\ QueuesOK' /\ RanOK'
  BY <1>1, <1>2, QueuesOKSame, RanOKSame DEF LogInv, TaskInv, HandInv, CalmInv, EvenInv
<1>7. LoggedOK'
  BY <1>1, <1>2, <1>3 DEF LoggedOK, LogInv
<1>8. WorkerOK'
  BY <1>1, <1>2, <1>3 DEF Crash, WorkerOK, Turning, Ending, LogInv
<1>9. SubsOK'
  BY <1>1, <1>2, <1>3 DEF SubsOK, Live, LogInv
<1>10. DriveOK'
  BY <1>1, <1>2, <1>3 DEF DriveOK, Driving, OneDriver, TaskInv
<1>11. RequestsOK'
  BY <1>1, <1>2, <1>3, Kinds DEF RequestsOK, Requesting, Waiting, TaskInv
<1>12. RecordOK'
  BY <1>1, <1>2, <1>3, <1>4 DEF RecordOK, TaskInv
<1>13. SyncOK'
  BY <1>1, <1>2, <1>3 DEF SyncOK, Driving, Requesting, Waiting, TaskInv
<1>14. DownOK'
  BY <1>1, <1>2, <1>3, <1>4 DEF DownOK, Driving, TaskInv
<1>15. CmdsOK'
  BY <1>5
<1>16. StopsOK'
  BY <1>1, <1>2, <1>3, <1>4 DEF StopsOK, TaskInv
<1>17. KnownInHand'
  BY <1>1, <1>2, <1>3, <1>4, Kinds DEF KnownInHand, HandInv
<1>18. KnownLogged'
  BY <1>1, <1>2, <1>3 DEF KnownLogged, HandInv
<1>19. GateIsNew'
  BY <1>1, <1>2, <1>3 DEF GateIsNew, HandInv
<1>20. WaitsOnce'
  BY <1>1, <1>2, <1>3, <1>4 DEF WaitsOnce, Waiting, HandInv
<1>21. PreparedOpen'
  BY <1>1, <1>2, <1>3 DEF PreparedOpen, Live, HandInv
<1>22. HandsFree'
  BY <1>1, <1>2, <1>3 DEF HandsFree, Driving, HandInv
<1>23. ShownOK'
  BY <1>1, <1>2, <1>3 DEF ShownOK, HandInv
<1>24. GateOK'
  BY <1>1, <1>2, <1>3 DEF GateOK, HandInv
<1>25. CalmLog'
  BY <1>1, <1>2, <1>3 DEF CalmLog, Calm, CalmInv
<1>26. CalmQueue'
  BY <1>1, <1>2, <1>3, <1>4 DEF CalmQueue, Calm, CalmInv
<1>27. CalmStart'
  BY <1>1, <1>2, <1>3, <1>4 DEF CalmStart, Calm, CalmInv
<1>28. CalmWaits'
  BY <1>1, <1>2, <1>3, <1>4 DEF CalmWaits, Calm, Gone, Waiting, CalmInv
<1>29. CalmEdits'
  BY <1>1, <1>2, <1>3 DEF CalmEdits, Calm, Gone, CalmInv
<1>30. CalmPushes'
  BY <1>1, <1>2, <1>3, <1>4 DEF CalmPushes, Calm, CalmInv
<1>31. CalmRemoved'
  BY <1>1, <1>2, <1>3, <1>4, Kinds DEF CalmRemoved, Calm, Gone, CalmInv
<1>32. EvenUp'
  BY <1>1, <1>2, <1>3, <1>4 DEF EvenUp, Even, Attached, Coming, Live, EvenInv
<1>33. EvenRestored'
  BY <1>1, <1>2, <1>3, <1>4 DEF EvenRestored, Even, Coming, Live, EvenInv
<1>34. EvenOpen'
  BY <1>1, <1>2, <1>3 DEF EvenOpen, Even, Turning, EvenInv
<1> QED
  BY <1>6, <1>7, <1>8, <1>9, <1>10, <1>11, <1>12, <1>13, <1>14, <1>15, <1>16, <1>17, <1>18, <1>19,
     <1>20, <1>21, <1>22, <1>23, <1>24, <1>25, <1>26, <1>27, <1>28, <1>29, <1>30, <1>31, <1>32, <1>33,
     <1>34
  DEF DriverInv, LogInv, TaskInv, HandInv, CalmInv, EvenInv

LEMMA RestoreRecordKeeps ==
    ASSUME DriverInv, RestoreRecord
    PROVE  DriverInv'
<1>1. LogInv /\ TaskInv /\ HandInv /\ CalmInv /\ EvenInv
  BY DEF DriverInv
<1>2. UNCHANGED <<inbox, steps, done, logged, logPaused, open, wpc, cur, wake, mailbox, prepared, sub, running,
                shown, dpc, work, bg, cmds, pc, mode, admitting, stop, accepted, removed, lost, ran, budget>>
  BY DEF RestoreRecord, RestoredAdmissions, vars, log, worker, runtime, record, host, driver, rpc, ghost
<1>3. /\ up = "down" /\ queue' = inbox /\ known' = logged \cap Prompts /\ paused' = logPaused
      /\ up' \in {"up", "restoring"}
      /\ up' = "up" => logPaused \/ (inbox = <<>> /\ open = none)
      /\ trouble' = IF logPaused /\ inbox # <<>> THEN trouble \cup {"left out"} ELSE trouble
  BY DEF RestoreRecord, RestoredAdmissions
<1>4. /\ dpc = "off" /\ ~running /\ cmds = <<>> /\ bg = none /\ wpc = "off" /\ prepared = {}
      /\ work = none /\ cur = none /\ \A i \in Inputs : pc[i] = "idle"
  BY <1>1, <1>3 DEF TaskInv, DownOK, DriveOK, Driving, LogInv, WorkerOK, Turning, Ending
<1>5. inbox \in Seq(Inputs) /\ IsInjective(inbox) /\ (inbox = <<>> => ToSet(inbox) = {})
  BY <1>1 DEF LogInv, QueuesOK, ToSet
<1>6. Calm' => Calm /\ (up' = "up" => inbox = <<>>)
  BY <1>3 DEF Calm
<1>7. Even' => Even /\ (up' = "up" => inbox = <<>> /\ open = none)
  BY <1>1, <1>3 DEF Even, TaskInv, StopsOK
<1>8. /\ QueuesOK' /\ LoggedOK' /\ RanOK' /\ WorkerOK' /\ SubsOK' /\ RequestsOK' /\ SyncOK'
      /\ CmdsOK' /\ GateIsNew' /\ PreparedOpen' /\ HandsFree' /\ ShownOK' /\ GateOK'
  BY <1>1, <1>2, QueuesOKSame, LoggedOKSame, RanOKSame, WorkerOKSame, SubsOKSame, RequestsOKSame,
     SyncOKSame, CmdsOKSame, GateIsNewSame, PreparedOpenSame, HandsFreeSame, ShownOKSame, GateOKSame
  DEF LogInv, TaskInv, HandInv, CalmInv, EvenInv
<1>9. DriveOK'
  BY <1>1, <1>2, <1>3, <1>4, <1>6, <1>7 DEF DriveOK, Driving, OneDriver, TaskInv
<1>10. RecordOK'
  BY <1>1, <1>2, <1>3 DEF RecordOK, QueuesOK, WorkerOK, Turning, Ending, LogInv, TaskInv
<1>11. DownOK'
  BY <1>1, <1>2, <1>3, <1>4, <1>6, <1>7 DEF DownOK, Driving, TaskInv
<1>12. StopsOK'
  BY <1>1, <1>2, <1>3, <1>4 DEF StopsOK, TaskInv
<1>13. KnownInHand'
  BY <1>1, <1>2, <1>3, <1>4, Kinds
  DEF KnownInHand, DriveOK, Driving, OneDriver, RecordOK, LoggedOK, LogInv, TaskInv, HandInv
<1>14. KnownLogged'
  BY <1>1, <1>2, <1>3, <1>4, <1>6, <1>7 DEF KnownLogged, HandInv
<1>15. WaitsOnce'
  BY <1>1, <1>2, <1>3, <1>4 DEF WaitsOnce, Waiting, HandInv
<1>16. CalmLog'
  BY <1>1, <1>2, <1>3, <1>5, <1>6 DEF CalmLog, Calm, CalmInv
<1>17. CalmQueue'
  BY <1>1, <1>2, <1>3, <1>4, <1>5, <1>6, <1>7 DEF CalmQueue, Calm, CalmInv
<1>18. CalmStart'
  BY <1>1, <1>2, <1>3, <1>4, <1>6 DEF CalmStart, Calm, CalmInv
<1>19. CalmWaits'
  BY <1>1, <1>2, <1>3, <1>4, <1>5, <1>6 DEF CalmWaits, Calm, Gone, Waiting, CalmInv
<1>20. CalmEdits'
  BY <1>1, <1>2, <1>3, <1>4, <1>5, <1>6 DEF CalmEdits, Calm, Gone, CalmInv
<1>21. CalmPushes'
  BY <1>1, <1>2, <1>3, <1>4, <1>6 DEF CalmPushes, Calm, CalmInv
<1>22. CalmRemoved'
  BY <1>1, <1>2, <1>3, <1>4, <1>5, <1>6 DEF CalmRemoved, Calm, Gone, CalmInv
<1>23. EvenUp'
  BY <1>1, <1>2, <1>3, <1>4, <1>5, <1>6, <1>7 DEF EvenUp, Even, Attached, Coming, Live, EvenInv
<1>24. EvenRestored'
  BY <1>1, <1>2, <1>3, <1>4, <1>5, <1>6, <1>7 DEF EvenRestored, Even, Coming, Live, EvenInv
<1>25. EvenOpen'
  BY <1>1, <1>2, <1>3, <1>4, <1>6, <1>7 DEF EvenOpen, Even, Turning, EvenInv
<1> QED
  BY <1>8, <1>9, <1>10, <1>11, <1>12, <1>13, <1>14, <1>15, <1>16, <1>17, <1>18, <1>19, <1>20, <1>21,
     <1>22, <1>23, <1>24, <1>25
  DEF DriverInv, LogInv, TaskInv, HandInv, CalmInv, EvenInv

LEMMA ResumeSessionKeeps ==
    ASSUME DriverInv, ResumeSession
    PROVE  DriverInv'
<1>1. LogInv /\ TaskInv /\ HandInv /\ CalmInv /\ EvenInv
  BY DEF DriverInv
<1>2. UNCHANGED <<inbox, done, logged, logPaused, open, mailbox, up, queue, known, paused, running, shown,
                dpc, work, bg, cmds, pc, mode, admitting, stop, accepted, removed, lost, ran, trouble,
                budget>>
  BY
  DEF ResumeSession, Reattached, Subscribed, vars, log, worker, runtime, record, host, driver, rpc,
      ghost
<1>3. /\ up = "restoring" /\ wpc = "off" /\ ToSet(inbox) \cap done = {}
      /\ prepared' = ToSet(inbox) /\ sub' = Subscribed /\ steps' = steps \ done
      /\ cur' = open /\ wpc' = IF open = none THEN "idle" ELSE "rerun"
  BY DEF ResumeSession, Reattached
<1>4. /\ dpc = "off" /\ work = none /\ bg = none /\ \A i \in Inputs : pc[i] = "idle"
  BY <1>1, <1>3 DEF TaskInv, DownOK, DriveOK, Driving
<1>5. \A i \in Inputs : sub'[i] = IF i \in ToSet(inbox) THEN "open"
                                ELSE IF i = open THEN "started" ELSE "none"
  BY <1>3 DEF Subscribed, Reattached
<1>6. sub' \in [Inputs -> Live \cup {"none", "over", "parked", "lagged"}]
  BY <1>3 DEF Subscribed, Reattached, Live
<1>7. Calm => queue = inbox
  BY <1>1, <1>3 DEF CalmInv, CalmQueue
<1>8. Even => Calm
  BY EvenIsCalm
<1>9. ToSet(inbox) \subseteq logged /\ (open # none => open \in logged /\ open \in done)
  BY <1>1 DEF LogInv, LoggedOK, WorkerOK
<1>10. /\ RanOK' /\ DriveOK' /\ RequestsOK' /\ RecordOK' /\ SyncOK' /\ CmdsOK'
      /\ StopsOK' /\ KnownInHand' /\ KnownLogged' /\ GateIsNew' /\ WaitsOnce' /\ ShownOK'
      /\ GateOK'
  BY <1>1, <1>2, RanOKSame, DriveOKSame, RequestsOKSame, RecordOKSame, SyncOKSame,
     CmdsOKSame, StopsOKSame, KnownInHandSame, KnownLoggedSame, GateIsNewSame, WaitsOnceSame,
     ShownOKSame, GateOKSame
  DEF LogInv, TaskInv, HandInv, CalmInv, EvenInv
<1>11. LoggedOK'
  BY <1>1, <1>2, <1>3, <1>7, <1>9 DEF LoggedOK, LogInv
<1>12. WorkerOK'
  BY <1>1, <1>2, <1>3, <1>9 DEF ResumeSession, Subscribed, WorkerOK, Turning, Ending, LogInv
<1>13. SubsOK'
  BY <1>1, <1>2, <1>3, <1>5, <1>6, <1>9 DEF SubsOK, Live, LogInv
<1>14. DownOK'
  BY <1>1, <1>2, <1>3, <1>4 DEF DownOK, Driving, TaskInv
<1>15. PreparedOpen'
  BY <1>1, <1>2, <1>3, <1>5, <1>6, Kinds DEF PreparedOpen, Live, HandInv
<1>16. HandsFree'
  BY <1>1, <1>2, <1>3, <1>4, Kinds DEF HandsFree, Driving, HandInv
<1>17. CalmQueue'
  BY <1>1, <1>2, <1>3, <1>4, <1>7, <1>8, <1>9 DEF CalmQueue, Calm, CalmInv
<1>18. CalmStart'
  BY <1>1, <1>2, <1>3, <1>4, <1>7, <1>8 DEF CalmStart, Calm, CalmInv
<1>19. CalmWaits'
  BY <1>1, <1>2, <1>3, <1>4, <1>7, <1>8, <1>9 DEF CalmWaits, Calm, Gone, Waiting, CalmInv
<1>20. CalmEdits'
  BY <1>1, <1>2, <1>3, <1>4, <1>7, <1>8, <1>9 DEF CalmEdits, Calm, Gone, CalmInv
<1>21. CalmPushes'
  BY <1>1, <1>2, <1>3, <1>4, <1>7, <1>8 DEF CalmPushes, Calm, CalmInv
<1>22. CalmRemoved'
  BY <1>1, <1>2, <1>3, <1>4, <1>7, <1>8, <1>9 DEF CalmRemoved, Calm, Gone, CalmInv
<1>23. EvenUp'
  BY <1>1, <1>2, <1>3, <1>4, <1>5, <1>6, <1>7, <1>8, <1>9
  DEF EvenUp, Even, Attached, Coming, Live, EvenInv
<1>24. EvenRestored'
  BY <1>1, <1>2, <1>3, <1>5, <1>6, <1>7, <1>8, <1>9 DEF EvenRestored, Even, Coming, Live, EvenInv
<1>25. EvenOpen'
  BY <1>1, <1>2, <1>3, <1>7, <1>8, <1>9 DEF EvenOpen, Even, Turning, EvenInv
<1>26. QueuesOK'
  BY <1>1, <1>2, <1>3 DEF QueuesOK, LogInv
<1>27. CalmLog'
  <2>1. Calm' => Calm
    BY <1>2 DEF Calm
  <2>2. mailbox = {}
    BY <1>1, <1>3 DEF LogInv, WorkerOK, Turning, Ending
  <2> QED
    BY <1>1, <1>2, <1>3, <2>1, <2>2 DEF CalmInv, CalmLog
<1> QED
  BY <1>26, <1>27, <1>10, <1>11, <1>12, <1>13, <1>14, <1>15, <1>16, <1>17, <1>18, <1>19, <1>20, <1>21, <1>22, <1>23,
     <1>24, <1>25
  DEF DriverInv, LogInv, TaskInv, HandInv, CalmInv, EvenInv

LEMMA StartsDriverKeeps ==
    ASSUME DriverInv, StartsDriver
    PROVE  DriverInv'
<1>1. LogInv /\ TaskInv /\ HandInv /\ CalmInv /\ EvenInv
  BY DEF DriverInv
<1>2. UNCHANGED <<inbox, steps, done, logged, logPaused, open, wpc, cur, wake, mailbox, prepared, sub, queue,
                known, paused, shown, bg, cmds, pc, mode, admitting, stop, accepted, removed, lost, ran,
                trouble, budget>>
  BY DEF StartsDriver, vars, log, worker, runtime, record, host, driver, rpc, ghost
<1>3. /\ up = "restoring" /\ wpc # "off" /\ up' = "up" /\ running' = TRUE
      /\ dpc = "off" /\ ~running /\ work = none /\ bg = none /\ \A i \in Inputs : pc[i] = "idle"
  BY <1>1 DEF StartsDriver, TaskInv, DownOK, DriveOK, Driving
<1>4. \/ dpc' = "follow" /\ work' \in Inputs \ prepared /\ sub[work'] # "none"
      \/ dpc' = "top" /\ work' = work /\ \A i \in Inputs \ prepared : sub[i] = "none"
  BY DEF StartsDriver
<1>5. work' \in Prompts => work' \in known
  BY <1>1, <1>3, <1>4, Kinds DEF LogInv, SubsOK, HandInv, KnownLogged
<1>6. shown \cap Prompts = {}
  BY <1>1, <1>3 DEF HandInv, ShownOK
<1>7. /\ QueuesOK' /\ LoggedOK' /\ RanOK' /\ WorkerOK' /\ SubsOK' /\ RequestsOK' /\ RecordOK'
      /\ CmdsOK' /\ StopsOK' /\ GateIsNew' /\ PreparedOpen' /\ GateOK' /\ CalmLog' /\ CalmWaits'
      /\ CalmEdits' /\ CalmRemoved'
  BY <1>1, <1>2, QueuesOKSame, LoggedOKSame, RanOKSame, WorkerOKSame, SubsOKSame, RequestsOKSame,
     RecordOKSame, CmdsOKSame, StopsOKSame, GateIsNewSame, PreparedOpenSame, GateOKSame, CalmLogSame,
     CalmWaitsSame, CalmEditsSame, CalmRemovedSame
  DEF LogInv, TaskInv, HandInv, CalmInv, EvenInv
<1>8. DriveOK'
  BY <1>1, <1>2, <1>3, <1>4, <1>5 DEF DriveOK, Driving, OneDriver, TaskInv
<1>9. SyncOK'
  BY <1>1, <1>2, <1>3, <1>4, <1>5, <1>6, Kinds
  DEF SyncOK, Driving, Requesting, Waiting, DriveOK, OneDriver, RequestsOK, TaskInv
<1>10. DownOK'
  BY <1>1, <1>2, <1>3, <1>4 DEF DownOK, Driving, TaskInv
<1>11. KnownInHand'
  BY <1>1, <1>2, <1>4, <1>5 DEF KnownInHand, HandInv
<1>12. KnownLogged'
  BY <1>1, <1>2, <1>3 DEF KnownLogged, HandInv
<1>13. WaitsOnce'
  BY <1>1, <1>2, <1>3, <1>4, <1>5, <1>6, Kinds
  DEF WaitsOnce, Waiting, RequestsOK, Requesting, KnownInHand, DriveOK, Driving, OneDriver, TaskInv,
      HandInv
<1>14. HandsFree'
  BY <1>1, <1>2, <1>4, <1>5 DEF HandsFree, Driving, HandInv
<1>15. ShownOK'
  BY <1>1, <1>2, <1>4, <1>5, <1>6 DEF ShownOK, HandInv
<1>16. CalmQueue'
  BY <1>1, <1>2, <1>3 DEF CalmQueue, Calm, CalmInv
<1>17. CalmStart'
  BY <1>1, <1>2, <1>4, <1>5 DEF CalmStart, Calm, CalmInv
<1>18. CalmPushes'
  BY <1>1, <1>2, <1>4, <1>5 DEF CalmPushes, Calm, CalmInv
<1>19. EvenUp'
  <2>1. ASSUME Even', NEW i \in Inputs, Coming(i)' PROVE sub'[i] \in Live /\ Attached(i)'
    <3>1. Even /\ Coming(i) /\ sub'[i] = sub[i] /\ queue' = queue /\ prepared' = prepared
      BY <1>2, <2>1 DEF Even, Coming
    <3>2. /\ ToSet(inbox) \subseteq prepared /\ prepared = ToSet(queue) /\ sub[i] \in Live
          /\ \A a, b \in Inputs \ prepared : sub[a] # "none" /\ sub[b] # "none" => a = b
      BY <1>1, <1>3, <3>1 DEF EvenInv, EvenRestored
    <3>3. i \in prepared \/ i = work'
      BY <1>4, <3>2 DEF Live
    <3> QED
      BY <3>1, <3>2, <3>3 DEF Attached
  <2> QED
    BY <2>1 DEF EvenUp
<1>20. EvenRestored'
  BY <1>1, <1>2, <1>3 DEF EvenRestored, Even, Coming, Live, EvenInv
<1>21. EvenOpen'
  BY <1>1, <1>2, <1>3 DEF EvenOpen, Even, Turning, EvenInv
<1> QED
  BY <1>7, <1>8, <1>9, <1>10, <1>11, <1>12, <1>13, <1>14, <1>15, <1>16, <1>17, <1>18, <1>19, <1>20,
     <1>21
  DEF DriverInv, LogInv, TaskInv, HandInv, CalmInv, EvenInv

-----------------------------------------------------------------------------
(* The theorems *)

LEMMA DriverStarts ==
    ASSUME Init PROVE DriverInv
<1>1. /\ inbox \in Seq(Inputs) /\ IsInjective(inbox) /\ ToSet(inbox) = {}
      /\ queue \in Seq(Inputs) /\ IsInjective(queue) /\ ToSet(queue) = {}
  BY EmptySeq DEF Init, IsInjective, ToSet
<1>2. LogInv
  <2>1. ran \in [Inputs -> Nat] /\ \A i \in Inputs : ran[i] = 0
    BY DEF Init
  <2> QED
    BY <1>1, <2>1 DEF Init, LogInv, QueuesOK, LoggedOK, RanOK, WorkerOK, SubsOK, Turning, Ending, Live
<1>3. TaskInv
  <2>1. CmdsOK /\ DOMAIN cmds = {}
    BY EmptySeq DEF Init, CmdsOK
  <2>2. DriveOK
    BY DEF Init, DriveOK, Driving, OneDriver
  <2>3. RequestsOK /\ RecordOK /\ SyncOK /\ DownOK
    BY <1>1 DEF Init, RequestsOK, Requesting, Waiting, RecordOK, SyncOK, DownOK, Inputs
  <2>4. StopsOK
    BY <2>1 DEF Init, StopsOK
  <2> QED
    BY <2>1, <2>2, <2>3, <2>4 DEF TaskInv
<1>4. HandInv
  BY <1>1 DEF Init, HandInv, KnownInHand, KnownLogged, GateIsNew, WaitsOnce, Waiting, PreparedOpen, HandsFree,
     ShownOK, GateOK, Inputs
<1>5. CalmInv
  <2>1. \A i \in Inputs : ran[i] <= 1
    BY DEF Init
  <2> QED
    BY <1>1, <2>1 DEF Init, CalmInv, CalmLog, CalmQueue, CalmStart, CalmWaits, CalmEdits, CalmPushes, CalmRemoved,
       Waiting
<1>6. EvenInv
  BY <1>1 DEF Init, EvenInv, EvenUp, EvenRestored, EvenOpen, Coming
<1> QED
  BY <1>2, <1>3, <1>4, <1>5, <1>6 DEF DriverInv

LEMMA DriverStutters ==
    ASSUME DriverInv, UNCHANGED vars PROVE DriverInv'
<1>1. LogInv /\ TaskInv /\ HandInv /\ CalmInv /\ EvenInv
  BY DEF DriverInv
<1>2. UNCHANGED <<inbox, steps, done, logged, logPaused, open, wpc, cur, wake, mailbox, prepared, sub, up, queue, known,
                  paused, running, shown, dpc, work, bg, cmds, pc, mode, admitting, stop, accepted, removed, lost,
                  ran, trouble, budget>>
  BY DEF vars, log, worker, runtime, record, host, driver, rpc, ghost
<1>3. LogInv'
  BY <1>1, <1>2, QueuesOKSame, LoggedOKSame, RanOKSame, WorkerOKSame, SubsOKSame DEF LogInv
<1>4. TaskInv'
  BY <1>1, <1>2, DriveOKSame, RequestsOKSame, RecordOKSame, SyncOKSame, DownOKSame, CmdsOKSame, StopsOKSame
  DEF TaskInv
<1>5. HandInv'
  BY <1>1, <1>2, KnownInHandSame, KnownLoggedSame, GateIsNewSame, WaitsOnceSame, PreparedOpenSame,
     HandsFreeSame, ShownOKSame, GateOKSame DEF HandInv
<1>6. CalmInv'
  BY <1>1, <1>2, CalmLogSame, CalmQueueSame, CalmStartSame, CalmWaitsSame, CalmEditsSame, CalmPushesSame,
     CalmRemovedSame DEF CalmInv
<1>7. EvenInv'
  BY <1>1, <1>2, EvenUpSame, EvenRestoredSame, EvenOpenSame DEF EvenInv
<1> QED
  BY <1>3, <1>4, <1>5, <1>6, <1>7 DEF DriverInv

LEMMA DriverSteps ==
    ASSUME DriverInv, Next PROVE DriverInv'
<1>0. Steerable \subseteq Prompts
  OBVIOUS
<1>1. ASSUME DriverStep PROVE DriverInv'
  <2>1. CASE DriverTop
    BY <2>1, DriverGoesKeeps DEF DriverTop, Goto
  <2>2. CASE DriverRests
    BY <2>2, DriverExitsKeeps DEF DriverRests
  <2>3. CASE DriverEmpty
    BY <2>3, DriverGoesKeeps, DriverExitsKeeps DEF DriverEmpty, Goto
  <2> QED
    BY <1>1, <2>1, <2>2, <2>3, DriverPopsKeeps, StartTurnKeeps, WakesWorkerKeeps, DriverShowsKeeps, FollowEndsKeeps,
       ForwardsStopKeeps, ForwardsAnswerKeeps, ForwardsSteerKeeps DEF DriverStep
<1>2. ASSUME BackgroundStep PROVE DriverInv'
  BY <1>2, BackgroundShowsKeeps, BackgroundEndsKeeps, BackgroundTurnKeeps DEF BackgroundStep
<1>3. ASSUME WorkerStep PROVE DriverInv'
  BY <1>3, WorkerWakesKeeps, WorkerLoadsKeeps, TurnStartsKeeps, TurnSteersKeeps, TurnFailsKeeps, TurnEndsKeeps
  DEF WorkerStep, WorkerMoves
<1>4. ASSUME RestoreStep PROVE DriverInv'
  BY <1>4, RestoreRecordKeeps, ResumeSessionKeeps, StartsDriverKeeps DEF RestoreStep
<1>5. ASSUME NEW i \in Prompts, RequestStep(i) \/ SpawnFails(i) PROVE DriverInv'
  BY <1>5, AdmissionKeeps, ResumeLogKeeps, ResumeMemoryKeeps, RouteKeeps, AdmitTurnKeeps, PushKeeps, SpawnKeeps,
     UnqueueKeeps, SpawnFailsKeeps DEF RequestStep
<1>6. ASSUME NEW i \in Prompts, Prompt(i, "queue") \/ TakeBack(i, "remove") PROVE DriverInv'
  BY <1>6, PromptKeeps, TakeBackKeeps
<1>7. ASSUME NEW i \in Steerable, Prompt(i, "steer") \/ TakeBack(i, "steer") PROVE DriverInv'
  BY <1>0, <1>7, PromptKeeps, TakeBackKeeps
<1>8. ASSUME NEW s \in Stops, StopStep(s) \/ Stop(s) PROVE DriverInv'
  BY <1>8, StopKeeps, StopLogKeeps, StopMemoryKeeps, StopSendKeeps DEF StopStep
<1>9. ASSUME NEW i \in Inputs, Lags(i) \/ Answer(i) PROVE DriverInv'
  BY <1>9, LagsKeeps, AnswerKeeps
<1> QED
  BY <1>1, <1>2, <1>3, <1>4, <1>5, <1>6, <1>7, <1>8, <1>9, DeliverKeeps, AsksKeeps, CrashKeeps DEF Next

LEMMA DriverIsInvariant == Spec => []DriverInv
<1>1. Init => DriverInv
  BY DriverStarts
<1>2. DriverInv /\ [Next]_vars => DriverInv'
  BY DriverSteps, DriverStutters
<1> QED
  BY <1>1, <1>2, PTL DEF Spec

\* Whatever prompts, edits, stops, timers, steering, failed projections and
\* restarts come, no input is run twice and none that an edit removed is run.
\* Excepted are an edit that raced with the driver that held the input or with
\* the run that had it as steering, a restart that left the inputs of a stopped
\* session without a subscription, and, for what is run twice, steering written
\* in a recovered turn.  This is driver.rs enqueue_prompt and drive_session,
\* runtime.rs prepare_turn and start_turn, restore.rs, and of the worker the
\* steering it forwards, the run's flush and reconcile_consumed.
THEOREM IdentitiesRunOnce == Spec => []RunsOnce
<1>1. ASSUME DriverInv PROVE RunsOnce
  <2>1. ASSUME Calm
        PROVE  /\ "unreconciled" \notin trouble => \A i \in Inputs : ran[i] <= 1
               /\ \A i \in removed : ran[i] = 0
    <3>1. "unreconciled" \notin trouble => \A i \in Inputs : ran[i] <= 1
      BY <1>1, <2>1 DEF DriverInv, CalmInv, CalmLog
    <3>2. \A i \in removed : i \in Inputs /\ i \notin done
      BY <1>1, <2>1, Kinds DEF DriverInv, CalmInv, CalmRemoved, Gone
    <3>3. \A i \in Inputs : ran[i] # 0 => i \in done
      BY <1>1 DEF DriverInv, LogInv, RanOK
    <3> QED
      BY <3>1, <3>2, <3>3
  <2> QED
    BY <2>1 DEF RunsOnce, Calm
<1> QED
  BY <1>1, DriverIsInvariant, PTL

\* The record of a session, its log and its tasks fit together; there is one
\* driver task, which running tells of; and the turn that runs is followed by a
\* task that read its subscription before it started, across a restart too,
\* unless a stop, an edit, an overflow or a failed projection upset the session.
\* This is driver.rs drive_session with restore.rs restore_from_store.
THEOREM TurnsAreFollowedByOne == Spec => []FollowedByOne
<1>1. ASSUME DriverInv PROVE FollowedByOne
  <2>1. HostTypeOK
    <3>1. inbox \in Seq(Inputs) /\ queue \in Seq(Inputs) /\ {logPaused, wake, paused, running} \subseteq BOOLEAN
      BY <1>1 DEF DriverInv, LogInv, QueuesOK, WorkerOK, TaskInv, RecordOK, DriveOK
    <3>2. /\ sub \in [Inputs -> Live \cup {"none", "over", "parked", "lagged"}]
          /\ {open, cur} \subseteq done \cup {none} /\ done \cup Pending \subseteq logged
      BY <1>1 DEF DriverInv, LogInv, SubsOK, WorkerOK, LoggedOK, Pending
    <3>3. (cur # none) = (wpc \in Turning \cup Ending)
      BY <1>1 DEF DriverInv, LogInv, WorkerOK
    <3>4. (admitting # Free => pc[admitting] # "idle") /\ (\A i \in prepared : sub[i] # "none") /\ shown \cap Prompts \subseteq {work}
      BY <1>1 DEF DriverInv, HandInv, GateOK, PreparedOpen, ShownOK
    <3> QED
      BY <3>1, <3>2, <3>3, <3>4 DEF HostTypeOK
  <2>2. OneDriver
    BY <1>1 DEF DriverInv, TaskInv, DriveOK
  <2>3. ASSUME Even, cur # none, up = "up" PROVE Followed(cur)
    <3>1. cur \in Inputs
      BY <1>1, <2>3, Kinds DEF DriverInv, LogInv, WorkerOK
    <3>2. sub[cur] \in Live /\ Attached(cur)
      BY <1>1, <2>3, <3>1 DEF DriverInv, EvenInv, EvenUp, Coming
    <3> QED
      BY <3>2 DEF Attached, Followed, Ended, Live
  <2>4. FollowedUnlessUpset
    BY <2>3 DEF FollowedUnlessUpset, TurnsAreFollowed, Even, Followed
  <2> QED
    BY <2>1, <2>2, <2>4 DEF FollowedByOne
<1> QED
  BY <1>1, DriverIsInvariant, PTL

HIDE InputsAssumption DEF InputsAssumption

(***************************************************************************)
(* Questions put to the user, for any questions, forms, requests, runs of  *)
(* the call and troubles: an accepted answer stands in the log, it is the  *)
(* one the model is told, and one that lasts is in AGENTS.md.              *)
(***************************************************************************)

USE QuestionAssumption DEF QuestionAssumption

Settled == Answers \union {"closed"}
Results == Answers \union {"none", "error"}
Calls == [at: {"away", "look", "request", "flush", "insert", "wait", "persist", "polled",
               "result", "stopped", "ended"},
          saw: Results, entry: 0 .. MaxAsks]
Forms == {"none"} \union UNION {{sent.says : sent \in Sends[r]} : r \in Replies}
Requests == [at: {"unsent", "first", "second", "append", "flush", "persist", "settle"}
                 \union Replied,
             of: Questions \union {"none"}, says: Forms, entry: 0 .. MaxAsks]

QuestionTypeOK ==
    /\ stands \in [Questions -> Settled \union {"none", "waits"}]
    /\ flushed \in [Questions -> Settled \union {"none", "waits"}]
    /\ told \in [Questions -> Results]
    /\ ask \in [Questions -> Calls]
    /\ asks \in [Questions -> 0 .. MaxAsks]
    /\ hub \in [Questions -> 0 .. MaxAsks]
    /\ settlement \in [Questions -> [1 .. MaxAsks -> Settled \union {"none"}]]
    /\ reply \in [Replies -> Requests]
    /\ gate \in Writers \union {Nobody}
    /\ skipped \subseteq Replies /\ upset \subseteq Questions

\* What the model may be told of a question when the log says this of it.
Truthful(q, tells, says) ==
    \/ Raced(q)
    \/ tells = "error" /\ q \in upset
    \/ says \in Settled /\ tells = ResultOf(says)

\* What is settled and flushed stays; a call goes by what the log says.
LogKept(q) == flushed[q] \in Settled => stands[q] = flushed[q]
AskKept(q) ==
    /\ ask[q].at # "away" => asks[q] > 0
    /\ ask[q].at = "wait" => ask[q].entry > 0
    /\ ask[q].at = "request" => stands[q] = "none"
    /\ ask[q].at \in {"persist", "polled"} => stands[q] = ask[q].saw /\ ask[q].saw \in Answers
    /\ ask[q].at = "result" => Truthful(q, ask[q].saw, stands[q])
    /\ told[q] # "none" => ask[q].at = "ended" /\ Truthful(q, told[q], flushed[q])

\* A request answers a question that was put, and goes on when the log says what it says.
ReplyKept(r) ==
    /\ reply[r].at # "unsent" => reply[r].of \in Questions
    /\ reply[r].at \in {"second", "append", "flush", "persist", "settle"}
          => reply[r].says \in Settled
    /\ reply[r].at = "flush" => stands[reply[r].of] = reply[r].says
    /\ reply[r].at \in {"persist", "settle", "accepted"} /\ r \notin skipped
          => reply[r].says \in Settled /\ flushed[reply[r].of] = reply[r].says
    /\ r \in skipped => reply[r].at \in {"persist", "settle"} \union Replied

\* The channel of an entry has what its request settled.
EntriesKept(q) ==
    \A e \in 1 .. MaxAsks : settlement[q][e] # "none"
        => Raced(q) \/ (flushed[q] \in Settled /\ flushed[q] = settlement[q][e])

\* Whoever holds the mutex waits for its write.
GateKept == \A w \in Writers : gate = w => WantsToWrite(w)

QuestionInv ==
    /\ QuestionTypeOK
    /\ \A q \in Questions : LogKept(q) /\ AskKept(q) /\ EntriesKept(q)
    /\ \A r \in Replies : ReplyKept(r)
    /\ GateKept

LEMMA QuestionStart == QuestionInit => QuestionInv
<1> SUFFICES ASSUME QuestionInit PROVE QuestionInv
  OBVIOUS
<1>1. QuestionTypeOK
  BY DEF QuestionInit, QuestionTypeOK, Calls, Requests, Results, Forms, Away, Unsent, Writers
<1>2. \A q \in Questions : LogKept(q) /\ AskKept(q) /\ EntriesKept(q)
  BY DEF QuestionInit, LogKept, AskKept, EntriesKept, Settled, Away
<1>3. \A r \in Replies : ReplyKept(r)
  BY DEF QuestionInit, ReplyKept, Unsent
<1>4. GateKept
  BY DEF QuestionInit, GateKept, Writers, Nobody
<1> QED
  BY <1>1, <1>2, <1>3, <1>4 DEF QuestionInv

\* A race is remembered, and what was truthful stays so.
Remembers ==
    /\ skipped \subseteq skipped' /\ upset \subseteq upset'
    /\ \A r \in skipped : reply'[r].of = reply[r].of

\* The log says more of q, and keeps what was settled.
LogGoes(q) ==
    /\ stands' \in [Questions -> Settled \union {"none", "waits"}]
    /\ flushed' \in [Questions -> Settled \union {"none", "waits"}]
    /\ stands[q] \in Settled => stands'[q] = stands[q]
    /\ flushed'[q] \in {flushed[q], stands[q]}
    /\ \A p \in Questions \ {q} : stands'[p] = stands[p] /\ flushed'[p] = flushed[p]

LEMMA TruthStays ==
    ASSUME Remembers, NEW q, NEW tells, NEW says, Truthful(q, tells, says)
    PROVE  Truthful(q, tells, says)'
  BY DEF Remembers, Truthful, Raced

\* A step of the tool call of q.
LEMMA AskMoves ==
    ASSUME QuestionInv, NEW q \in Questions, NEW new \in Calls,
           ask' = [ask EXCEPT ![q] = new],
           asks' \in [Questions -> 0 .. MaxAsks], \A p \in Questions : asks'[p] >= asks[p],
           hub' \in [Questions -> 0 .. MaxAsks],
           gate' \in {gate, Nobody},
           gate' = q => new.at \in {"persist", "polled"} /\ new.saw = ask[q].saw,
           upset \subseteq upset', upset' \subseteq Questions,
           LogGoes(q), told' \in [Questions -> Results],
           \A p \in Questions \ {q} : told'[p] = told[p],
           UNCHANGED <<settlement, reply, skipped>>,
           AskKept(q)'
    PROVE  QuestionInv'
<1> USE DEF QuestionInv, QuestionTypeOK
<1>1. QuestionTypeOK'
  BY DEF LogGoes
<1>2. Remembers
  BY DEF Remembers
<1>3. ASSUME NEW p \in Questions PROVE LogKept(p)' /\ AskKept(p)' /\ EntriesKept(p)'
  <2>1. LogKept(p)' /\ EntriesKept(p)'
    <3>1. LogKept(p)'
      BY DEF LogKept, LogGoes
    <3>2. flushed[p] \in Settled => flushed'[p] = flushed[p]
      BY DEF LogKept, LogGoes
    <3>3. EntriesKept(p)'
      BY <3>2 DEF EntriesKept, Raced
    <3> QED
      BY <3>1, <3>3
  <2>2. CASE p # q
    <3>1. /\ ask'[p] = ask[p] /\ told'[p] = told[p] /\ AskKept(p)
          /\ stands'[p] = stands[p] /\ flushed'[p] = flushed[p]
      BY <2>2 DEF LogGoes
    <3>2. ask'[p].at # "away" => asks'[p] > 0
      <4>1. asks[p] \in 0 .. MaxAsks /\ asks'[p] \in 0 .. MaxAsks
        OBVIOUS
      <4>2. asks'[p] >= asks[p]
        OBVIOUS
      <4> QED
        BY <3>1, <4>1, <4>2 DEF AskKept
    <3>3. /\ ask'[p].at = "wait" => ask'[p].entry > 0
          /\ ask'[p].at = "request" => stands'[p] = "none"
          /\ ask'[p].at \in {"persist", "polled"}
                => stands'[p] = ask'[p].saw /\ ask'[p].saw \in Answers
          /\ told'[p] # "none" => ask'[p].at = "ended"
      BY <3>1 DEF AskKept
    <3>4. /\ ask'[p].at = "result" => Truthful(p, ask[p].saw, stands[p])
          /\ told'[p] # "none" => Truthful(p, told[p], flushed[p])
      BY <3>1 DEF AskKept
    <3>5. /\ ask'[p].at = "result" => Truthful(p, ask[p].saw, stands[p])'
          /\ told'[p] # "none" => Truthful(p, told[p], flushed[p])'
      BY <3>1, <3>4 DEF Truthful, Raced
    <3> QED
      BY <2>1, <3>2, <3>3, <3>5 DEF AskKept
  <2> QED
    BY <2>1, <2>2
<1>4. ASSUME NEW r \in Replies PROVE ReplyKept(r)'
  <2>1. ReplyKept(r)
    OBVIOUS
  <2>2. ASSUME reply[r].of \in Questions
        PROVE  /\ stands[reply[r].of] \in Settled
                     => stands'[reply[r].of] = stands[reply[r].of]
               /\ flushed[reply[r].of] \in Settled
                     => flushed'[reply[r].of] = flushed[reply[r].of]
    BY <2>2 DEF LogGoes, LogKept
  <2> QED
    BY <2>1, <2>2 DEF ReplyKept, Replied
<1>5. GateKept'
  <2>1. ASSUME NEW w \in Writers, gate' = w PROVE WantsToWrite(w)'
    <3>1. gate = w /\ WantsToWrite(w)
      BY <2>1 DEF GateKept, Writers, Nobody
    <3>2. CASE w = q
      BY <2>1, <3>1, <3>2 DEF WantsToWrite, ToBeRemembered, About, Gives
    <3>3. CASE w \in Questions \ {q}
      BY <3>1, <3>3 DEF WantsToWrite, ToBeRemembered, About, Gives
    <3>4. CASE w \notin Questions
      BY <3>1, <3>4 DEF WantsToWrite, ToBeRemembered, About, Gives, ReplyAt
    <3> QED
      BY <3>2, <3>3, <3>4
  <2> QED
    BY <2>1 DEF GateKept
<1> QED
  BY <1>1, <1>3, <1>4, <1>5

\* A step of a request.
LEMMA ReplyMoves ==
    ASSUME QuestionInv, NEW r \in Replies, NEW new \in Requests, NEW q \in Questions,
           reply' = [reply EXCEPT ![r] = new],
           r \in skipped => new.of = reply[r].of,
           LogGoes(q), stands[q] = "none" => stands'[q] = "none",
           hub' \in [Questions -> 0 .. MaxAsks],
           settlement' \in [Questions -> [1 .. MaxAsks -> Settled \union {"none"}]],
           \A p \in Questions, e \in 1 .. MaxAsks : settlement'[p][e] # settlement[p][e]
              => Raced(p) \/ (flushed[p] \in Settled /\ flushed[p] = settlement'[p][e]),
           gate' \in {gate, Nobody},
           gate' = r => new.at = "persist" /\ ToBeRemembered(new.of, new.says),
           skipped \subseteq skipped', skipped' \subseteq Replies,
           skipped' \subseteq skipped \union {r},
           upset \subseteq upset', upset' \subseteq Questions,
           UNCHANGED <<told, ask, asks>>,
           ReplyKept(r)'
    PROVE  QuestionInv'
<1> USE DEF QuestionInv, QuestionTypeOK
<1>1. QuestionTypeOK'
  BY DEF LogGoes
<1>2. Remembers
  BY DEF Remembers
<1>3. ASSUME NEW p \in Questions PROVE LogKept(p)' /\ AskKept(p)' /\ EntriesKept(p)'
  <2>1. LogKept(p)'
    BY DEF LogKept, LogGoes
  <2>2. flushed[p] \in Settled => flushed'[p] = flushed[p]
    BY DEF LogKept, LogGoes
  <2>3. stands[p] \in Settled \union {"none"} => stands'[p] = stands[p]
    BY DEF LogGoes
  <2>4. Raced(p) => Raced(p)'
    BY <1>2 DEF Remembers, Raced
  <2>5. EntriesKept(p)'
    <3>1. ASSUME NEW e \in 1 .. MaxAsks, settlement'[p][e] # "none"
          PROVE  Raced(p) \/ (flushed[p] \in Settled /\ flushed[p] = settlement'[p][e])
      BY <3>1 DEF EntriesKept
    <3> QED
      BY <3>1, <2>2, <2>4 DEF EntriesKept
  <2>6. AskKept(p)'
    <3>1. AskKept(p)
      OBVIOUS
    <3>2. /\ ask[p].at = "result" => Truthful(p, ask[p].saw, stands[p])'
          /\ told[p] # "none" => Truthful(p, told[p], flushed[p])'
      BY <3>1, <2>2, <2>3, <2>4 DEF AskKept, Truthful
    <3>3. ask[p].saw \in Answers => ask[p].saw \in Settled
      BY DEF Settled
    <3>4. /\ ask[p].at = "request" => stands'[p] = "none"
          /\ ask[p].at \in {"persist", "polled"} => stands'[p] = ask[p].saw
      BY <3>1, <3>3, <2>3 DEF AskKept
    <3> QED
      BY <3>1, <3>2, <3>4 DEF AskKept
  <2> QED
    BY <2>1, <2>5, <2>6
<1>4. ASSUME NEW s \in Replies PROVE ReplyKept(s)'
  <2>1. CASE s = r
    BY <2>1
  <2>2. CASE s # r
    <3>1. ReplyKept(s) /\ reply'[s] = reply[s] /\ (s \in skipped' <=> s \in skipped)
      BY <2>2
    <3>2. ASSUME reply[s].of \in Questions
          PROVE  /\ stands[reply[s].of] \in Settled
                       => stands'[reply[s].of] = stands[reply[s].of]
                 /\ flushed[reply[s].of] \in Settled
                       => flushed'[reply[s].of] = flushed[reply[s].of]
      BY <3>2 DEF LogGoes, LogKept
    <3>3. /\ reply[s].at = "flush" => stands'[reply[s].of] = reply[s].says
          /\ reply[s].at \in {"persist", "settle", "accepted"} /\ s \notin skipped
                => reply[s].says \in Settled /\ flushed'[reply[s].of] = reply[s].says
      BY <3>1, <3>2 DEF ReplyKept
    <3> QED
      BY <3>1, <3>3 DEF ReplyKept
  <2> QED
    BY <2>1, <2>2
<1>5. GateKept'
  <2>1. ASSUME NEW w \in Writers, gate' = w PROVE WantsToWrite(w)'
    <3>1. gate = w /\ WantsToWrite(w)
      BY <2>1 DEF GateKept, Writers, Nobody
    <3>2. CASE w = r
      BY <2>1, <3>1, <3>2 DEF WantsToWrite, ToBeRemembered, About, Gives, ReplyAt
    <3>3. CASE w \in Replies \ {r}
      BY <3>1, <3>3 DEF WantsToWrite, ToBeRemembered, About, Gives, ReplyAt
    <3>4. CASE w \notin Replies
      BY <3>1, <3>4 DEF WantsToWrite, ToBeRemembered, About, Gives, Writers
    <3> QED
      BY <3>2, <3>3, <3>4
  <2> QED
    BY <2>1 DEF GateKept
<1> QED
  BY <1>1, <1>3, <1>4, <1>5

--------------------------------------------------------------------------------
(* The tool call *)

\* A step of the call that writes nothing to the log.
LEMMA AskStays ==
    ASSUME QuestionInv, NEW q \in Questions, NEW new \in Calls,
           ask' = [ask EXCEPT ![q] = new],
           hub' \in [Questions -> 0 .. MaxAsks],
           gate' \in {gate, Nobody},
           gate' = q => new.at \in {"persist", "polled"} /\ new.saw = ask[q].saw,
           upset \subseteq upset', upset' \subseteq Questions,
           UNCHANGED <<stands, flushed, told, asks, settlement, reply, skipped>>,
           AskKept(q)'
    PROVE  QuestionInv'
<1>1. LogGoes(q) /\ told' \in [Questions -> Results]
      /\ \A p \in Questions \ {q} : told'[p] = told[p]
  BY DEF LogGoes, QuestionInv, QuestionTypeOK
<1>2. asks' \in [Questions -> 0 .. MaxAsks]
  BY DEF QuestionInv, QuestionTypeOK
<1>3. ASSUME NEW p \in Questions PROVE asks'[p] >= asks[p]
  <2>1. asks[p] \in Nat /\ asks'[p] = asks[p]
    BY DEF QuestionInv, QuestionTypeOK
  <2> QED
    BY <2>1
<1> QED
  BY <1>1, <1>2, <1>3, AskMoves

\* Only a call that waits for its write holds the mutex.
LEMMA HoldersWait ==
    ASSUME QuestionInv, NEW q \in Questions, gate = q
    PROVE  ask[q].at \in {"persist", "polled"} /\ ToBeRemembered(q, ask[q].saw)
  BY DEF QuestionInv, GateKept, WantsToWrite, Writers, About, Gives

\* What AskGoes makes of a call.
LEMMA AskGoesTo ==
    ASSUME QuestionInv, NEW q \in Questions, NEW at, NEW saw, AskGoes(q, at, saw)
    PROVE  /\ ask' = [ask EXCEPT ![q] = [at |-> at, saw |-> saw, entry |-> ask[q].entry]]
           /\ ask'[q] = [at |-> at, saw |-> saw, entry |-> ask[q].entry]
           /\ ask[q].entry \in 0 .. MaxAsks
<1>1. ask \in [Questions -> Calls] /\ ask[q] \in Calls
  BY DEF QuestionInv, QuestionTypeOK
<1> QED
  BY <1>1 DEF AskGoes, Calls

LEMMA CallKeeps ==
    ASSUME QuestionInv, NEW q \in Questions, Call(q)
    PROVE  QuestionInv'
<1> DEFINE new == [at |-> "look", saw |-> "none", entry |-> ask[q].entry]
<1> USE DEF QuestionInv, QuestionTypeOK
<1>1. ask' = [ask EXCEPT ![q] = new] /\ ask'[q] = new /\ new \in Calls
  BY AskGoesTo DEF Call, Calls, Results
<1>2. gate # q
  BY HoldersWait DEF Call, AskAt
<1>3. /\ asks' = [asks EXCEPT ![q] = asks[q] + 1] /\ asks[q] < MaxAsks /\ told[q] = "none"
      /\ UNCHANGED <<stands, flushed, told, hub, settlement, reply, gate, skipped, upset>>
  BY DEF Call
<1>4. asks' \in [Questions -> 0 .. MaxAsks] /\ asks'[q] > 0
      /\ \A p \in Questions : asks'[p] >= asks[p]
  BY <1>3
<1>5. AskKept(q)'
  BY <1>1, <1>3, <1>4 DEF AskKept
<1>6. LogGoes(q) /\ told' \in [Questions -> Results] /\ hub' \in [Questions -> 0 .. MaxAsks]
      /\ upset' \subseteq Questions /\ gate' # q
  BY <1>2, <1>3 DEF LogGoes
<1> HIDE DEF QuestionInv, QuestionTypeOK, new
<1> QED
  BY <1>1, <1>3, <1>4, <1>5, <1>6, AskMoves

LEMMA LookKeeps ==
    ASSUME QuestionInv, NEW q \in Questions, Look(q)
    PROVE  QuestionInv'
<1> USE DEF QuestionInv, QuestionTypeOK
<1>1. ask[q].at = "look" /\ gate # q /\ told[q] = "none" /\ asks[q] > 0
  BY HoldersWait DEF Look, AskAt, AskKept
<1>2. State(q) = stands[q]
  BY <1>1 DEF State
<1>3. UNCHANGED <<stands, flushed, told, asks, hub, settlement, reply, gate, skipped, upset>>
  BY DEF Look
<1>4. \/ stands[q] = "none" /\ AskGoes(q, "request", "none")
      \/ stands[q] = "waits" /\ AskGoes(q, "insert", "none")
      \/ stands[q] = "closed" /\ AskGoes(q, "result", "error")
      \/ stands[q] \in Answers /\ AskGoes(q, "persist", stands[q])
  <2>1. stands[q] \in Answers \union {"none", "waits", "closed"}
    BY DEF Settled
  <2> QED
    BY <1>2, <2>1, Zenon DEF Look
<1>5. ASSUME NEW at, NEW saw, AskGoes(q, at, saw),
             \/ at \in {"request", "insert"} /\ saw = "none"
             \/ at = "result" /\ saw = "error"
             \/ at = "persist" /\ saw \in Answers,
             at = "request" => stands[q] = "none",
             at = "persist" => saw = stands[q],
             at = "result" => Truthful(q, saw, stands[q])'
      PROVE  QuestionInv'
  <2> DEFINE new == [at |-> at, saw |-> saw, entry |-> ask[q].entry]
  <2>1. ask' = [ask EXCEPT ![q] = new] /\ ask'[q] = new /\ new \in Calls
    BY <1>5, AskGoesTo DEF Calls, Results
  <2>2. AskKept(q)'
    BY <2>1, <1>1, <1>3, <1>5 DEF AskKept
  <2>3. hub' \in [Questions -> 0 .. MaxAsks] /\ upset' \subseteq Questions /\ gate' # q
    BY <1>1, <1>3
  <2> HIDE DEF QuestionInv, QuestionTypeOK, new
  <2> QED
    BY <2>1, <2>2, <2>3, <1>3, AskStays
<1>6. stands[q] = "closed" => Truthful(q, "error", stands[q])'
  BY <1>3 DEF Truthful, ResultOf, Settled
<1> QED
  BY <1>4, <1>5, <1>6

LEMMA RequestKeeps ==
    ASSUME QuestionInv, NEW q \in Questions, Request(q)
    PROVE  QuestionInv'
<1> DEFINE new == [at |-> "flush", saw |-> "none", entry |-> ask[q].entry]
<1> USE DEF QuestionInv, QuestionTypeOK
<1>1. ask' = [ask EXCEPT ![q] = new] /\ ask'[q] = new /\ new \in Calls
  BY AskGoesTo DEF Request, Calls, Results
<1>2. ask[q].at = "request" /\ gate # q /\ stands[q] = "none" /\ asks[q] > 0 /\ told[q] = "none"
  BY HoldersWait DEF Request, AskAt, AskKept
<1>3. /\ stands' = [stands EXCEPT ![q] = "waits"]
      /\ UNCHANGED <<flushed, told, asks, hub, settlement, reply, gate, skipped, upset>>
  BY DEF Request
<1>4. LogGoes(q)
  BY <1>2, <1>3 DEF LogGoes, Settled
<1>5. AskKept(q)'
  BY <1>1, <1>2, <1>3 DEF AskKept
<1>6. /\ told' \in [Questions -> Results] /\ hub' \in [Questions -> 0 .. MaxAsks]
      /\ upset' \subseteq Questions /\ gate' # q
      /\ asks' \in [Questions -> 0 .. MaxAsks]
  BY <1>2, <1>3
<1>7. ASSUME NEW p \in Questions PROVE asks'[p] >= asks[p]
  <2>1. asks[p] \in Nat /\ asks'[p] = asks[p]
    BY <1>3
  <2> QED
    BY <2>1
<1> HIDE DEF QuestionInv, QuestionTypeOK, new
<1> QED
  BY <1>1, <1>3, <1>4, <1>5, <1>6, <1>7, AskMoves

LEMMA RequestFlushedKeeps ==
    ASSUME QuestionInv, NEW q \in Questions, RequestFlushed(q)
    PROVE  QuestionInv'
<1> DEFINE new == [at |-> "insert", saw |-> "none", entry |-> ask[q].entry]
<1> USE DEF QuestionInv, QuestionTypeOK
<1>1. ask' = [ask EXCEPT ![q] = new] /\ ask'[q] = new /\ new \in Calls
  BY AskGoesTo DEF RequestFlushed, Calls, Results
<1>2. ask[q].at = "flush" /\ gate # q /\ asks[q] > 0 /\ told[q] = "none"
  BY HoldersWait DEF RequestFlushed, AskAt, AskKept
<1>3. /\ flushed' = [flushed EXCEPT ![q] = stands[q]]
      /\ UNCHANGED <<stands, told, asks, hub, settlement, reply, gate, skipped, upset>>
  BY DEF RequestFlushed, Flushed
<1>4. LogGoes(q)
  BY <1>3 DEF LogGoes
<1>5. AskKept(q)'
  BY <1>1, <1>2, <1>3 DEF AskKept
<1>6. /\ told' \in [Questions -> Results] /\ hub' \in [Questions -> 0 .. MaxAsks]
      /\ upset' \subseteq Questions /\ gate' # q
      /\ asks' \in [Questions -> 0 .. MaxAsks]
  BY <1>2, <1>3
<1>7. ASSUME NEW p \in Questions PROVE asks'[p] >= asks[p]
  <2>1. asks[p] \in Nat /\ asks'[p] = asks[p]
    BY <1>3
  <2> QED
    BY <2>1
<1> HIDE DEF QuestionInv, QuestionTypeOK, new
<1> QED
  BY <1>1, <1>3, <1>4, <1>5, <1>6, <1>7, AskMoves

LEMMA InsertKeeps ==
    ASSUME QuestionInv, NEW q \in Questions, Insert(q)
    PROVE  QuestionInv'
<1> DEFINE entry == IF hub[q] = 0 THEN asks[q] ELSE hub[q]
           new == [at |-> "wait", saw |-> "none", entry |-> entry]
<1> USE DEF QuestionInv, QuestionTypeOK
<1>1. ask[q].at = "insert" /\ gate # q /\ asks[q] > 0 /\ told[q] = "none"
  BY HoldersWait DEF Insert, AskAt, AskKept
<1>2. entry \in 0 .. MaxAsks /\ entry > 0
  BY <1>1
<1>3. /\ hub' = [hub EXCEPT ![q] = entry] /\ ask' = [ask EXCEPT ![q] = new]
      /\ UNCHANGED <<stands, flushed, told, asks, settlement, reply, gate, skipped, upset>>
  BY DEF Insert
<1> HIDE DEF entry
<1>4. new \in Calls /\ ask'[q] = new /\ hub' \in [Questions -> 0 .. MaxAsks]
  BY <1>2, <1>3 DEF Calls, Results
<1>5. AskKept(q)'
  BY <1>1, <1>2, <1>3, <1>4 DEF AskKept
<1>6. upset' \subseteq Questions /\ gate' # q
  BY <1>1, <1>3
<1> HIDE DEF QuestionInv, QuestionTypeOK, new
<1> QED
  BY <1>3, <1>4, <1>5, <1>6, AskStays

\* A call that goes on from where it is to a place where it only has to be truthful.
LEMMA AskGoesOn ==
    ASSUME QuestionInv, NEW q \in Questions, ask[q].at \notin {"away", "ended"},
           NEW at \in {"polled", "result", "away"}, NEW saw \in Results, AskGoes(q, at, saw),
           at = "polled" => saw = stands[q] /\ saw \in Answers,
           at = "result" => Truthful(q, saw, stands[q])',
           hub' \in {hub, [hub EXCEPT ![q] = 0]},
           gate' \in {gate, Nobody} \ {q},
           upset' \in {upset, upset \union {q}},
           UNCHANGED <<stands, flushed, told, asks, settlement, reply, skipped>>
    PROVE  QuestionInv'
<1> DEFINE new == [at |-> at, saw |-> saw, entry |-> ask[q].entry]
<1>1. ask' = [ask EXCEPT ![q] = new] /\ ask'[q] = new /\ new \in Calls
  BY AskGoesTo DEF Calls
<1>2. hub' \in [Questions -> 0 .. MaxAsks] /\ upset \subseteq upset' /\ upset' \subseteq Questions
  <2>1. hub \in [Questions -> 0 .. MaxAsks] /\ upset \subseteq Questions /\ 0 \in 0 .. MaxAsks
    BY DEF QuestionInv, QuestionTypeOK
  <2>2. [hub EXCEPT ![q] = 0] \in [Questions -> 0 .. MaxAsks]
    BY <2>1
  <2> QED
    BY <2>1, <2>2
<1>3. AskKept(q) /\ told[q] = "none"
  BY DEF QuestionInv, AskKept
<1>4. AskKept(q)'
  BY <1>1, <1>3 DEF AskKept
<1>5. gate' # q /\ gate' \in {gate, Nobody}
  OBVIOUS
<1> HIDE DEF new
<1> QED
  BY <1>1, <1>2, <1>4, <1>5, AskStays

LEMMA NotifiedKeeps ==
    ASSUME QuestionInv, NEW q \in Questions, Notified(q)
    PROVE  QuestionInv'
<1>0. PICK e, saw : e = ask[q].entry /\ saw = ResultOf(settlement[q][e])
  OBVIOUS
<1>1. /\ ask[q].at = "wait" /\ gate # q /\ e \in 1 .. MaxAsks /\ AskGoes(q, "result", saw)
      /\ settlement[q][e] \in Settled
      /\ UNCHANGED <<stands, flushed, told, asks, hub, settlement, reply, gate, skipped, upset>>
  <2>1. ask[q].at = "wait" /\ settlement[q][e] # "none" /\ gate # q
    BY <1>0, HoldersWait DEF Notified, AskAt
  <2>2. e \in 0 .. MaxAsks /\ e > 0
    BY <2>1, <1>0 DEF QuestionInv, QuestionTypeOK, AskKept, Calls
  <2>3. settlement[q][e] \in Settled
    BY <2>1, <2>2, <1>0 DEF QuestionInv, QuestionTypeOK
  <2> QED
    BY <2>1, <2>2, <2>3, <1>0 DEF Notified
<1>2. Raced(q) \/ (flushed[q] \in Settled /\ flushed[q] = settlement[q][e])
  BY <1>1 DEF QuestionInv, EntriesKept, Settled
<1>3. Raced(q) \/ (stands[q] \in Settled /\ saw = ResultOf(stands[q]))
  BY <1>0, <1>2 DEF QuestionInv, LogKept
<1>4. saw \in Results
  BY <1>0, <1>1 DEF ResultOf, Results, Settled
<1>5. Truthful(q, saw, stands[q])'
  BY <1>1, <1>3 DEF Truthful, Raced, ResultOf
<1> QED
  BY <1>1, <1>4, <1>5, AskGoesOn

LEMMA PollKeeps ==
    ASSUME QuestionInv, NEW q \in Questions, Poll(q)
    PROVE  QuestionInv'
<1>1. /\ ask[q].at = "wait" /\ gate # q
      /\ UNCHANGED <<stands, flushed, told, asks, settlement, reply, gate, skipped, upset>>
  BY HoldersWait DEF Poll, AskAt
<1>2. CASE stands[q] = "closed" /\ AskGoes(q, "result", "error") /\ hub' = [hub EXCEPT ![q] = 0]
  <2>1. Truthful(q, "error", stands[q])'
    BY <1>1, <1>2 DEF Truthful, Settled, ResultOf
  <2> QED
    BY <1>1, <1>2, <2>1, AskGoesOn DEF Results
<1>3. CASE stands[q] \in Answers /\ AskGoes(q, "polled", stands[q]) /\ UNCHANGED hub
  BY <1>1, <1>3, AskGoesOn DEF Results
<1> QED
  BY <1>2, <1>3 DEF Poll

\* A call that has its answer returns it.
LEMMA ReturnsKeeps ==
    ASSUME QuestionInv, NEW q \in Questions, ask[q].at \in {"persist", "polled"}, Returns(q),
           gate' \in {gate, Nobody} \ {q},
           UNCHANGED <<stands, flushed, told, asks, settlement, reply, skipped, upset>>
    PROVE  QuestionInv'
<1>1. PICK saw : saw = ask[q].saw
  OBVIOUS
<1>2. stands[q] = saw /\ saw \in Answers /\ saw \in Results
  BY <1>1 DEF QuestionInv, AskKept, Results
<1>3. hub' \in {hub, [hub EXCEPT ![q] = 0]} /\ AskGoes(q, "result", saw)
  BY <1>1 DEF Returns
<1>4. Truthful(q, saw, stands[q])'
  BY <1>2 DEF Truthful, Settled, ResultOf
<1> QED
  BY <1>2, <1>3, <1>4, AskGoesOn

LEMMA UnrememberedKeeps ==
    ASSUME QuestionInv, NEW q \in Questions, Unremembered(q)
    PROVE  QuestionInv'
<1>1. /\ ask[q].at \in {"persist", "polled"} /\ gate # q /\ Returns(q)
      /\ UNCHANGED <<stands, flushed, told, asks, settlement, reply, gate, skipped, upset>>
  BY HoldersWait DEF Unremembered
<1> QED
  BY <1>1, ReturnsKeeps

\* A call that failed says so, and is remembered to have been upset.
LEMMA UpsetKeeps ==
    ASSUME QuestionInv, NEW q \in Questions, ask[q].at \notin {"away", "ended"},
           AskGoes(q, "result", "error"), gate' \in {gate, Nobody} \ {q},
           upset' = upset \union {q},
           UNCHANGED <<stands, flushed, told, asks, hub, settlement, reply, skipped>>
    PROVE  QuestionInv'
<1>1. Truthful(q, "error", stands[q])'
  BY DEF Truthful
<1> QED
  BY <1>1, AskGoesOn DEF Results

LEMMA DetachKeeps ==
    ASSUME QuestionInv, NEW q \in Questions, Detach(q)
    PROVE  QuestionInv'
<1>1. gate' \in {gate, Nobody} \ {q}
  BY DEF Detach, Nobody
<1> QED
  BY <1>1, UpsetKeeps DEF Detach

LEMMA AskFailsKeeps ==
    ASSUME QuestionInv, NEW q \in Questions, AskFails(q)
    PROVE  QuestionInv'
<1>1. gate # q
  BY HoldersWait DEF AskFails
<1> QED
  BY <1>1, UpsetKeeps DEF AskFails

LEMMA ResumeKeeps ==
    ASSUME QuestionInv, NEW q \in Questions, Resume(q)
    PROVE  QuestionInv'
<1>1. gate # q
  BY HoldersWait DEF Resume, AskAt
<1> QED
  BY <1>1, AskGoesOn DEF Resume, AskAt, Results

\* The result that is recorded is truthful, and what it goes by is flushed with it.
LEMMA RecordKeeps ==
    ASSUME QuestionInv, NEW q \in Questions, Record(q)
    PROVE  QuestionInv'
<1> USE DEF QuestionInv, QuestionTypeOK
<1> DEFINE new == [at |-> IF stands[q] = "waits" THEN "stopped" ELSE "ended",
                   saw |-> "none", entry |-> 0]
<1>1. ask[q].at = "result" /\ gate # q /\ AskKept(q) /\ told[q] = "none" /\ asks[q] > 0
  BY HoldersWait DEF Record, AskAt, AskKept
<1>2. /\ ask' = [ask EXCEPT ![q] = new]
      /\ UNCHANGED <<stands, asks, hub, settlement, reply, gate, skipped, upset>>
  BY DEF Record
<1>3. \/ stands[q] = "waits" /\ UNCHANGED <<told, flushed>>
      \/ /\ stands[q] # "waits"
         /\ told' = [told EXCEPT ![q] = ask[q].saw] /\ flushed' = [flushed EXCEPT ![q] = stands[q]]
  BY DEF Record, Flushed
<1>4. ask[q].saw \in Results
  BY DEF Calls
<1>5. new \in Calls /\ ask'[q] = new /\ new.at \in {"stopped", "ended"}
      /\ (stands[q] # "waits" => new.at = "ended")
  BY <1>2 DEF Calls, Results
<1>6. LogGoes(q) /\ told' \in [Questions -> Results]
      /\ \A p \in Questions \ {q} : told'[p] = told[p]
  BY <1>2, <1>3, <1>4 DEF LogGoes
<1>8. AskKept(q)'
  <2>1. CASE stands[q] = "waits"
    BY <2>1, <1>1, <1>2, <1>3, <1>5 DEF AskKept
  <2>2. CASE stands[q] # "waits"
    <3>1. flushed'[q] = stands[q] /\ told'[q] = ask[q].saw /\ ask'[q].at = "ended"
      BY <2>2, <1>3, <1>5
    <3>2. Truthful(q, told[q], flushed[q])'
      <4>1. stands'[q] = stands[q]
        BY <1>2
      <4>2. Truthful(q, ask[q].saw, stands[q])
        BY <1>1 DEF AskKept
      <4> QED
        BY <3>1, <4>1, <4>2, <1>2 DEF Truthful, Raced
    <3> QED
      BY <3>1, <3>2, <1>1, <1>2 DEF AskKept
  <2> QED
    BY <2>1, <2>2
<1>9. /\ hub' \in [Questions -> 0 .. MaxAsks] /\ upset' \subseteq Questions /\ gate' # q
      /\ asks' \in [Questions -> 0 .. MaxAsks]
  BY <1>1, <1>2
<1>10. ASSUME NEW p \in Questions PROVE asks'[p] >= asks[p]
  <2>1. asks[p] \in Nat /\ asks'[p] = asks[p]
    BY <1>2
  <2> QED
    BY <2>1
<1> HIDE DEF QuestionInv, QuestionTypeOK, new
<1> QED
  BY <1>2, <1>5, <1>6, <1>8, <1>9, <1>10, AskMoves

--------------------------------------------------------------------------------
(* Requests *)

\* What ReplyGoes makes of a request.
LEMMA ReplyGoesTo ==
    ASSUME QuestionInv, NEW r \in Replies,
           NEW at \in {"first", "second", "append", "flush", "persist", "settle"} \union Replied,
           ReplyGoes(r, at)
    PROVE  /\ [reply[r] EXCEPT !.at = at] \in Requests
           /\ reply' = [reply EXCEPT ![r] = [reply[r] EXCEPT !.at = at]]
           /\ reply'[r] = [reply[r] EXCEPT !.at = at]
           /\ reply'[r].at = at /\ reply'[r].of = reply[r].of
           /\ reply'[r].says = reply[r].says /\ reply'[r].entry = reply[r].entry
<1>1. reply \in [Replies -> Requests] /\ reply[r] \in Requests
  BY DEF QuestionInv, QuestionTypeOK
<1>2. reply' = [reply EXCEPT ![r] = [reply[r] EXCEPT !.at = at]]
  BY DEF ReplyGoes
<1>3. reply'[r] = [reply[r] EXCEPT !.at = at]
  BY <1>1, <1>2
<1>4. [reply[r] EXCEPT !.at = at] \in Requests
  BY <1>1 DEF Requests
<1> QED
  BY <1>1, <1>2, <1>3, <1>4 DEF Requests

\* Only a request that waits for its write holds the mutex.
LEMMA RequestersWait ==
    ASSUME QuestionInv, NEW r \in Replies, gate = r
    PROVE  reply[r].at = "persist" /\ ToBeRemembered(reply[r].of, reply[r].says)
  BY DEF QuestionInv, GateKept, WantsToWrite, Writers, About, Gives, ReplyAt

\* A step of a request that leaves the log and the map alone.
LEMMA ReplyStays ==
    ASSUME QuestionInv, NEW r \in Replies,
           NEW at \in {"second", "append", "flush", "persist", "settle"} \union Replied,
           ReplyGoes(r, at),
           reply[r].of \in Questions,
           gate' \in {gate, Nobody} \ {r},
           skipped' \in {skipped, skipped \union {r}},
           upset' \in {upset, upset \union {reply[r].of}},
           UNCHANGED <<stands, flushed, told, ask, asks, hub, settlement>>,
           ReplyKept(r)'
    PROVE  QuestionInv'
<1> DEFINE new == [reply[r] EXCEPT !.at = at]
           q == reply[r].of
<1>1. /\ new \in Requests /\ new.of = reply[r].of
      /\ reply' = [reply EXCEPT ![r] = new]
  <2>1. reply'[r] = new /\ reply'[r].of = reply[r].of
    BY ReplyGoesTo
  <2> QED
    BY <2>1, ReplyGoesTo
<1>2. LogGoes(q)
  BY DEF QuestionInv, QuestionTypeOK, LogGoes
<1>3. /\ hub' \in [Questions -> 0 .. MaxAsks]
      /\ settlement' \in [Questions -> [1 .. MaxAsks -> Settled \union {"none"}]]
      /\ skipped \subseteq skipped' /\ skipped' \subseteq Replies
      /\ skipped' \subseteq skipped \union {r}
      /\ upset \subseteq upset' /\ upset' \subseteq Questions
  BY DEF QuestionInv, QuestionTypeOK
<1>4. gate' \in {gate, Nobody} /\ gate' # r
  OBVIOUS
<1>5. q \in Questions /\ (stands[q] = "none" => stands'[q] = "none")
  OBVIOUS
<1> HIDE DEF new, q
<1> QED
  BY <1>1, <1>2, <1>3, <1>4, <1>5, ReplyMoves

LEMMA RespondKeeps ==
    ASSUME QuestionInv, NEW r \in Replies, Respond(r)
    PROVE  QuestionInv'
<1>1. PICK sent \in Sends[r] :
        /\ hub[sent.of] # 0
        /\ reply' = [reply EXCEPT ![r] = [at |-> "first", of |-> sent.of,
                                          says |-> sent.says, entry |-> hub[sent.of]]]
  BY DEF Respond
<1> DEFINE new == [at |-> "first", of |-> sent.of, says |-> sent.says, entry |-> hub[sent.of]]
           q == sent.of
<1>2. reply[r].at = "unsent" /\ gate # r /\ r \notin skipped
  BY RequestersWait DEF Respond, ReplyAt, QuestionInv, ReplyKept, Replied
<1>3. UNCHANGED <<stands, flushed, told, ask, asks, hub, settlement, gate, skipped, upset>>
  BY DEF Respond
<1>4. q \in Questions /\ new \in Requests
  <2>1. q \in Questions /\ sent.says \in Forms
    BY DEF Forms
  <2>2. hub[q] \in 0 .. MaxAsks
    BY <2>1 DEF QuestionInv, QuestionTypeOK
  <2> QED
    BY <2>1, <2>2 DEF Requests
<1>5. reply' = [reply EXCEPT ![r] = new] /\ reply'[r] = new
  BY <1>1 DEF QuestionInv, QuestionTypeOK
<1>6. ReplyKept(r)'
  BY <1>2, <1>3, <1>4, <1>5 DEF ReplyKept
<1>7. LogGoes(q) /\ (stands[q] = "none" => stands'[q] = "none")
  BY <1>3 DEF QuestionInv, QuestionTypeOK, LogGoes
<1>8. /\ hub' \in [Questions -> 0 .. MaxAsks]
      /\ settlement' \in [Questions -> [1 .. MaxAsks -> Settled \union {"none"}]]
      /\ skipped \subseteq skipped' /\ skipped' \subseteq Replies
      /\ skipped' \subseteq skipped \union {r}
      /\ upset \subseteq upset' /\ upset' \subseteq Questions
      /\ gate' \in {gate, Nobody} /\ gate' # r
  BY <1>2, <1>3 DEF QuestionInv, QuestionTypeOK
<1> HIDE DEF new, q
<1> QED
  BY <1>2, <1>3, <1>4, <1>5, <1>6, <1>7, <1>8, ReplyMoves

LEMMA FirstReadKeeps ==
    ASSUME QuestionInv, NEW r \in Replies, FirstRead(r)
    PROVE  QuestionInv'
<1>1. /\ reply[r].at = "first" /\ reply[r].of \in Questions /\ gate # r /\ r \notin skipped
      /\ UNCHANGED <<stands, flushed, told, ask, asks, hub, settlement, gate, skipped, upset>>
  BY RequestersWait DEF FirstRead, ReplyAt, QuestionInv, ReplyKept, Replied
<1>2. PICK at \in {"second", "append", "bad", "not pending"} :
        ReplyGoes(r, at) /\ (at \in {"second", "append"} => WellFormed(reply[r].says))
  BY DEF FirstRead
<1>4. at \in {"second", "append"} => reply[r].says \in Settled
  BY <1>2 DEF WellFormed, Settled
<1>5. /\ reply'[r].at = at /\ reply'[r].of = reply[r].of
      /\ reply'[r].says = reply[r].says
  BY <1>2, ReplyGoesTo DEF Replied
<1>6. ReplyKept(r)'
  BY <1>1, <1>4, <1>5 DEF ReplyKept
<1> QED
  BY <1>1, <1>2, <1>6, ReplyStays DEF Replied, Nobody

LEMMA SecondReadKeeps ==
    ASSUME QuestionInv, NEW r \in Replies, SecondRead(r)
    PROVE  QuestionInv'
<1>1. /\ reply[r].at = "second" /\ reply[r].of \in Questions /\ reply[r].says \in Settled
      /\ gate # r /\ r \notin skipped
      /\ UNCHANGED <<stands, flushed, told, ask, asks, hub, settlement, gate, upset>>
  BY RequestersWait DEF SecondRead, ReplyAt, QuestionInv, ReplyKept, Replied
<1>2. PICK at \in {"append", "persist"} :
        /\ ReplyGoes(r, at) /\ skipped' \in {skipped, skipped \union {r}}
        /\ at = "append" => skipped' = skipped
        /\ at = "persist" => r \in skipped'
  BY DEF SecondRead
<1>3. /\ reply'[r].at = at /\ reply'[r].of = reply[r].of
      /\ reply'[r].says = reply[r].says
  BY <1>2, ReplyGoesTo DEF Replied
<1>4. ReplyKept(r)'
  BY <1>1, <1>2, <1>3 DEF ReplyKept
<1> QED
  BY <1>1, <1>2, <1>4, ReplyStays DEF Replied, Nobody

\* A step of a request that writes the log, or settles the entry it goes for.
LEMMA ReplyWrites ==
    ASSUME QuestionInv, NEW r \in Replies,
           NEW at \in {"second", "append", "flush", "persist", "settle"} \union Replied,
           ReplyGoes(r, at), reply[r].of \in Questions, gate # r,
           LogGoes(reply[r].of), stands[reply[r].of] = "none" => stands'[reply[r].of] = "none",
           hub' \in {hub, [hub EXCEPT ![reply[r].of] = 0]},
           \/ UNCHANGED settlement
           \/ /\ settlement' = [settlement EXCEPT ![reply[r].of][reply[r].entry] = reply[r].says]
              /\ reply[r].says \in Settled
              /\ Raced(reply[r].of) \/ flushed[reply[r].of] = reply[r].says,
           UNCHANGED <<told, ask, asks, gate, skipped, upset>>,
           ReplyKept(r)'
    PROVE  QuestionInv'
<1> DEFINE new == [reply[r] EXCEPT !.at = at]
<1>0. PICK q, e, says : q = reply[r].of /\ e = reply[r].entry /\ says = reply[r].says
  OBVIOUS
<1>1. /\ new \in Requests /\ new.of = reply[r].of
      /\ reply' = [reply EXCEPT ![r] = new]
  <2>1. reply'[r] = new /\ reply'[r].of = reply[r].of
    BY ReplyGoesTo
  <2> QED
    BY <2>1, ReplyGoesTo
<1>2. q \in Questions /\ LogGoes(q) /\ (stands[q] = "none" => stands'[q] = "none")
  BY <1>0
<1>3. hub' \in [Questions -> 0 .. MaxAsks]
  <2>1. hub \in [Questions -> 0 .. MaxAsks] /\ 0 \in 0 .. MaxAsks
    BY DEF QuestionInv, QuestionTypeOK
  <2>2. [hub EXCEPT ![q] = 0] \in [Questions -> 0 .. MaxAsks]
    BY <2>1
  <2> QED
    BY <2>1, <2>2, <1>0
<1>4. settlement \in [Questions -> [1 .. MaxAsks -> Settled \union {"none"}]]
  BY DEF QuestionInv, QuestionTypeOK
<1>5. /\ settlement' \in [Questions -> [1 .. MaxAsks -> Settled \union {"none"}]]
      /\ \A p \in Questions, d \in 1 .. MaxAsks : settlement'[p][d] # settlement[p][d]
            => Raced(p) \/ (flushed[p] \in Settled /\ flushed[p] = settlement'[p][d])
  <2>1. CASE UNCHANGED settlement
    BY <1>4, <2>1
  <2>2. CASE /\ settlement' = [settlement EXCEPT ![q][e] = says]
             /\ says \in Settled
             /\ Raced(q) \/ flushed[q] = says
    <3>1. \A p \in Questions \ {q} : settlement'[p] = settlement[p]
      BY <2>2, <1>4
    <3>2. settlement'[q] = [settlement[q] EXCEPT ![e] = says]
      BY <2>2, <1>4, <1>2
    <3>3. settlement[q] \in [1 .. MaxAsks -> Settled \union {"none"}]
      BY <1>4, <1>2
    <3>4. settlement'[q] \in [1 .. MaxAsks -> Settled \union {"none"}]
      <4>1. PICK f : f = settlement[q]
        OBVIOUS
      <4>2. f \in [1 .. MaxAsks -> Settled \union {"none"}] /\ says \in Settled
        BY <3>3, <4>1, <2>2
      <4>3. [f EXCEPT ![e] = says] \in [1 .. MaxAsks -> Settled \union {"none"}]
        BY <4>2
      <4> QED
        BY <3>2, <4>1, <4>3
    <3>5. \A d \in 1 .. MaxAsks : settlement'[q][d] # settlement[q][d] => settlement'[q][d] = says
      BY <3>2, <3>3
    <3>6. settlement' \in [Questions -> [1 .. MaxAsks -> Settled \union {"none"}]]
      BY <3>4, <2>2, <1>4
    <3> QED
      BY <3>1, <3>5, <3>6, <2>2
  <2> QED
    BY <2>1, <2>2, <1>0
<1>6. /\ skipped \subseteq skipped' /\ skipped' \subseteq Replies
      /\ skipped' \subseteq skipped \union {r}
      /\ upset \subseteq upset' /\ upset' \subseteq Questions
      /\ gate' \in {gate, Nobody} /\ gate' # r
  BY DEF QuestionInv, QuestionTypeOK
<1> HIDE DEF new
<1> QED
  BY <1>1, <1>2, <1>3, <1>5, <1>6, ReplyMoves

LEMMA AppendReplyKeeps ==
    ASSUME QuestionInv, NEW r \in Replies, AppendReply(r)
    PROVE  QuestionInv'
<1>0. PICK q, says : q = reply[r].of /\ says = reply[r].says
  OBVIOUS
<1>1. /\ reply[r].at = "append" /\ q \in Questions /\ says \in Settled
      /\ gate # r /\ r \notin skipped
      /\ UNCHANGED <<flushed, told, ask, asks, hub, settlement, gate, skipped, upset>>
  BY <1>0, RequestersWait DEF AppendReply, ReplyAt, QuestionInv, ReplyKept, Replied
<1>2. PICK at \in {"flush", "bad"} :
        /\ ReplyGoes(r, at)
        /\ at = "flush" => MaySettle(q, says) /\ stands' = [stands EXCEPT ![q] = says]
        /\ at = "bad" => stands' = stands
  BY <1>0 DEF AppendReply
<1>3. reply'[r].at = at /\ reply'[r].of = q /\ reply'[r].says = says
  BY <1>0, <1>2, ReplyGoesTo DEF Replied
<1>4. stands \in [Questions -> Settled \union {"none", "waits"}]
      /\ flushed \in [Questions -> Settled \union {"none", "waits"}]
  BY DEF QuestionInv, QuestionTypeOK
<1>5. ReplyKept(r)'
  BY <1>1, <1>2, <1>3, <1>4 DEF ReplyKept
<1>6. LogGoes(q) /\ (stands[q] = "none" => stands'[q] = "none")
  <2>1. "waits" \notin Settled /\ "none" \notin Settled
    BY DEF Settled
  <2> QED
    BY <2>1, <1>1, <1>2, <1>4 DEF LogGoes, MaySettle
<1> QED
  BY <1>0, <1>1, <1>2, <1>5, <1>6, ReplyWrites DEF Replied

LEMMA AppendFlushedKeeps ==
    ASSUME QuestionInv, NEW r \in Replies, AppendFlushed(r)
    PROVE  QuestionInv'
<1>0. PICK q, says : q = reply[r].of /\ says = reply[r].says
  OBVIOUS
<1>1. /\ reply[r].at = "flush" /\ q \in Questions /\ says \in Settled /\ stands[q] = says
      /\ gate # r /\ r \notin skipped /\ flushed' = [flushed EXCEPT ![q] = stands[q]]
      /\ UNCHANGED <<stands, told, ask, asks, hub, settlement, gate, skipped, upset>>
  BY <1>0, RequestersWait DEF AppendFlushed, Flushed, ReplyAt, QuestionInv, ReplyKept, Replied
<1>2. PICK at \in {"settle", "persist"} : ReplyGoes(r, at)
  BY DEF AppendFlushed
<1>3. reply'[r].at = at /\ reply'[r].of = q /\ reply'[r].says = says
  BY <1>0, <1>2, ReplyGoesTo DEF Replied
<1>4. stands \in [Questions -> Settled \union {"none", "waits"}]
      /\ flushed \in [Questions -> Settled \union {"none", "waits"}]
  BY DEF QuestionInv, QuestionTypeOK
<1>5. flushed'[q] = says
  BY <1>1, <1>4
<1>6. ReplyKept(r)'
  BY <1>1, <1>2, <1>3, <1>5 DEF ReplyKept
<1>7. LogGoes(q) /\ (stands[q] = "none" => stands'[q] = "none")
  BY <1>1, <1>4 DEF LogGoes
<1> QED
  BY <1>0, <1>1, <1>2, <1>6, <1>7, ReplyWrites DEF Replied

LEMMA NothingToRememberKeeps ==
    ASSUME QuestionInv, NEW r \in Replies, NothingToRemember(r)
    PROVE  QuestionInv'
<1>1. /\ reply[r].at = "persist" /\ reply[r].of \in Questions /\ gate # r
      /\ ReplyGoes(r, "settle") /\ ReplyKept(r)
      /\ UNCHANGED <<stands, flushed, told, ask, asks, hub, settlement, gate, skipped, upset>>
  BY RequestersWait DEF NothingToRemember, ReplyAt, QuestionInv, ReplyKept
<1>2. /\ reply'[r].at = "settle" /\ reply'[r].of = reply[r].of
      /\ reply'[r].says = reply[r].says
  BY <1>1, ReplyGoesTo DEF Replied
<1>3. ReplyKept(r)'
  BY <1>1, <1>2 DEF ReplyKept
<1> QED
  BY <1>1, <1>3, ReplyStays DEF Replied, Nobody

LEMMA SettleKeeps ==
    ASSUME QuestionInv, NEW r \in Replies, Settle(r)
    PROVE  QuestionInv'
<1>0. PICK q, says : q = reply[r].of /\ says = reply[r].says
  OBVIOUS
<1>1. /\ reply[r].at = "settle" /\ q \in Questions /\ says \in Settled /\ ReplyKept(r)
      /\ gate # r /\ ReplyGoes(r, "accepted")
      /\ UNCHANGED <<stands, flushed, told, ask, asks, gate, skipped, upset>>
  BY <1>0, RequestersWait DEF Settle, ReplyAt, QuestionInv, ReplyKept
<1>2. reply'[r].at = "accepted" /\ reply'[r].of = q /\ reply'[r].says = says
  BY <1>0, <1>1, ReplyGoesTo DEF Replied
<1>3. ReplyKept(r)'
  BY <1>0, <1>1, <1>2 DEF ReplyKept, Replied
<1>4. Raced(q) \/ flushed[q] = says
  BY <1>0, <1>1 DEF ReplyKept, Raced
<1>5. LogGoes(q) /\ (stands[q] = "none" => stands'[q] = "none")
  BY <1>1 DEF QuestionInv, QuestionTypeOK, LogGoes
<1>6. /\ hub' \in {hub, [hub EXCEPT ![reply[r].of] = 0]}
      /\ settlement' = [settlement EXCEPT ![reply[r].of][reply[r].entry] = reply[r].says]
  BY DEF Settle
<1> QED
  BY <1>0, <1>1, <1>3, <1>4, <1>5, <1>6, ReplyWrites DEF Replied

\* A request that ends without an answer being accepted.
LEMMA ReplyEnds ==
    ASSUME QuestionInv, NEW r \in Replies, reply[r].at # "unsent",
           NEW at \in {"bad", "dropped"}, ReplyGoes(r, at),
           gate' \in {gate, Nobody} \ {r},
           upset' \in {upset, upset \union {reply[r].of}},
           UNCHANGED <<stands, flushed, told, ask, asks, hub, settlement, skipped>>
    PROVE  QuestionInv'
<1>1. ReplyKept(r) /\ reply[r].of \in Questions
  BY DEF QuestionInv, ReplyKept
<1>2. reply'[r].at = at /\ reply'[r].of = reply[r].of
  BY ReplyGoesTo DEF Replied
<1>3. ReplyKept(r)'
  BY <1>1, <1>2 DEF ReplyKept, Replied
<1> QED
  BY <1>1, <1>3, ReplyStays DEF Replied

LEMMA ReplyFailsKeeps ==
    ASSUME QuestionInv, NEW r \in Replies, ReplyFails(r)
    PROVE  QuestionInv'
<1>1. gate # r
  BY RequestersWait DEF ReplyFails
<1> QED
  BY <1>1, ReplyEnds DEF ReplyFails, Nobody

LEMMA DropKeeps ==
    ASSUME QuestionInv, NEW r \in Replies, Drop(r)
    PROVE  QuestionInv'
<1>1. gate' \in {gate, Nobody} \ {r}
  BY DEF Drop, Nobody
<1> QED
  BY <1>1, ReplyEnds DEF Drop

--------------------------------------------------------------------------------
(* AGENTS.md, the user and the process *)

LEMMA StartWriteKeeps ==
    ASSUME QuestionInv, NEW w \in Writers, StartWrite(w)
    PROVE  QuestionInv'
<1>1. /\ gate' = w /\ WantsToWrite(w)
      /\ UNCHANGED <<stands, flushed, told, ask, asks, hub, settlement, reply, skipped, upset>>
  BY DEF StartWrite
<1>2. QuestionTypeOK'
  BY <1>1 DEF QuestionInv, QuestionTypeOK
<1>3. ASSUME NEW q \in Questions PROVE LogKept(q)' /\ AskKept(q)' /\ EntriesKept(q)'
  BY <1>1 DEF QuestionInv, LogKept, AskKept, EntriesKept, Truthful, Raced
<1>4. ASSUME NEW r \in Replies PROVE ReplyKept(r)'
  BY <1>1 DEF QuestionInv, ReplyKept
<1>5. GateKept'
  BY <1>1 DEF GateKept, WantsToWrite, About, Gives, ToBeRemembered, ReplyAt
<1> QED
  BY <1>2, <1>3, <1>4, <1>5 DEF QuestionInv

\* A step that only AGENTS.md sees.
LEMMA OutsideKeeps ==
    ASSUME QuestionInv,
           UNCHANGED <<stands, flushed, told, ask, asks, hub, settlement, reply, gate, skipped, upset>>
    PROVE  QuestionInv'
<1>2. QuestionTypeOK'
  BY DEF QuestionInv, QuestionTypeOK
<1>3. ASSUME NEW q \in Questions PROVE LogKept(q)' /\ AskKept(q)' /\ EntriesKept(q)'
  BY DEF QuestionInv, LogKept, AskKept, EntriesKept, Truthful, Raced
<1>4. ASSUME NEW r \in Replies PROVE ReplyKept(r)'
  BY DEF QuestionInv, ReplyKept
<1>5. GateKept'
  BY DEF QuestionInv, GateKept, WantsToWrite, About, Gives, ToBeRemembered, ReplyAt
<1> QED
  BY <1>2, <1>3, <1>4, <1>5 DEF QuestionInv

\* The request that waited for its write goes on to settle.
LEMMA WrittenKeeps ==
    ASSUME QuestionInv, NEW r \in Replies, gate = r, ReplyGoes(r, "settle"),
           gate' \in {gate, Nobody} \ {r},
           UNCHANGED <<stands, flushed, told, ask, asks, hub, settlement, skipped, upset>>
    PROVE  QuestionInv'
<1>1. reply[r].at = "persist" /\ ReplyKept(r) /\ reply[r].of \in Questions
  BY RequestersWait DEF QuestionInv, ReplyKept
<1>2. /\ reply'[r].at = "settle" /\ reply'[r].of = reply[r].of
      /\ reply'[r].says = reply[r].says
  BY ReplyGoesTo DEF Replied
<1>3. ReplyKept(r)'
  BY <1>1, <1>2 DEF ReplyKept
<1> QED
  BY <1>1, <1>3, ReplyStays

LEMMA EndWriteKeeps ==
    ASSUME QuestionInv, NEW w \in Writers, EndWrite(w)
    PROVE  QuestionInv'
<1>1. UNCHANGED <<stands, flushed, told, asks, settlement, skipped, upset>>
  BY DEF EndWrite
<1>2. CASE gate # w
  BY <1>1, <1>2, OutsideKeeps DEF EndWrite
<1>3. CASE gate = w
  <2>1. gate' = Nobody /\ WriterGoes(w, TRUE) /\ w # Nobody
    BY <1>3 DEF EndWrite, Writers, Nobody
  <2>2. gate' \in {gate, Nobody} \ {w}
    BY <2>1
  <2>3. CASE w \in Questions
    <3>1. Returns(w) /\ UNCHANGED reply
      BY <2>1, <2>3 DEF WriterGoes
    <3>2. ask[w].at \in {"persist", "polled"}
      BY <1>3, <2>3, HoldersWait
    <3> QED
      BY <1>1, <2>2, <2>3, <3>1, <3>2, ReturnsKeeps
  <2>4. CASE w \in Replies
    <3>1. ReplyGoes(w, "settle") /\ UNCHANGED <<ask, hub>>
      BY <2>1, <2>4 DEF WriterGoes
    <3> QED
      BY <1>1, <1>3, <2>2, <2>4, <3>1, WrittenKeeps
  <2> QED
    BY <2>3, <2>4 DEF Writers
<1> QED
  BY <1>2, <1>3

LEMMA WriteFailsKeeps ==
    ASSUME QuestionInv, NEW w \in Writers, WriteFails(w)
    PROVE  QuestionInv'
<1>1. UNCHANGED <<stands, flushed, told, asks, settlement, skipped>>
  BY DEF WriteFails
<1>2. gate = w /\ WriterGoes(w, FALSE) /\ upset' = upset \union {About(w)}
  BY DEF WriteFails
<1>3. gate' \in {gate, Nobody} \ {w}
  BY DEF WriteFails, Writers, Nobody
<1>4. CASE w \in Questions
  <2>1. AskGoes(w, "result", "error") /\ UNCHANGED <<hub, reply>> /\ upset' = upset \union {w}
    BY <1>2, <1>4 DEF WriterGoes, About
  <2>2. ask[w].at \in {"persist", "polled"}
    BY <1>2, <1>4, HoldersWait
  <2> QED
    BY <1>1, <1>3, <1>4, <2>1, <2>2, UpsetKeeps
<1>5. CASE w \in Replies
  <2>1. ReplyGoes(w, "bad") /\ UNCHANGED <<ask, hub>> /\ upset' = upset \union {reply[w].of}
    BY <1>2, <1>5 DEF WriterGoes, About
  <2>2. reply[w].at = "persist"
    BY <1>2, <1>5, RequestersWait
  <2> QED
    BY <1>1, <1>3, <1>5, <2>1, <2>2, ReplyEnds
<1> QED
  BY <1>4, <1>5 DEF Writers

LEMMA QuestionCrashKeeps ==
    ASSUME QuestionInv, QuestionCrash
    PROVE  QuestionInv'
<1> USE DEF QuestionInv, QuestionTypeOK
<1>1. /\ ask' = [q \in Questions |-> IF AskAt(q, "ended") THEN ask[q] ELSE Away]
      /\ hub' = [q \in Questions |-> 0]
      /\ settlement' = [q \in Questions |-> [e \in 1..MaxAsks |-> "none"]]
      /\ reply' = [r \in Replies |-> IF reply[r].at \in Replied \union {"unsent"}
                                     THEN reply[r] ELSE [reply[r] EXCEPT !.at = "dropped"]]
      /\ gate' = Nobody /\ UNCHANGED <<told, asks, skipped, upset>>
  BY DEF QuestionCrash
<1>2. /\ stands' \in [Questions -> Settled \union {"none", "waits"}] /\ flushed' = stands'
      /\ \A q \in Questions : stands'[q] \in {stands[q], flushed[q]}
  BY DEF QuestionCrash
<1>3. \A q \in Questions : flushed[q] \in Settled => flushed'[q] = flushed[q]
  BY <1>2 DEF LogKept
<1>4. ASSUME NEW r \in Replies
      PROVE  /\ reply'[r] \in Requests
             /\ reply'[r].of = reply[r].of /\ reply'[r].says = reply[r].says
             /\ \/ reply'[r].at = "dropped" /\ reply[r].at # "unsent"
                \/ reply'[r].at = reply[r].at /\ reply[r].at \in Replied \union {"unsent"}
  <2>1. reply[r] \in Requests
    OBVIOUS
  <2>2. CASE reply[r].at \in Replied \union {"unsent"}
    BY <2>1, <2>2, <1>1
  <2>3. CASE reply[r].at \notin Replied \union {"unsent"}
    <3>1. reply'[r] = [reply[r] EXCEPT !.at = "dropped"]
      BY <2>3, <1>1
    <3> QED
      BY <2>1, <2>3, <3>1 DEF Requests, Replied
  <2> QED
    BY <2>2, <2>3
<1>5. QuestionTypeOK'
  <2>1. ask' \in [Questions -> Calls]
    BY <1>1 DEF Calls, Results, Away
  <2>2. reply' \in [Replies -> Requests]
    BY <1>1, <1>4
  <2> QED
    BY <1>1, <1>2, <2>1, <2>2
<1>6. ASSUME NEW q \in Questions PROVE LogKept(q)' /\ AskKept(q)' /\ EntriesKept(q)'
  <2>1. LogKept(q)' /\ EntriesKept(q)'
    BY <1>1, <1>2 DEF LogKept, EntriesKept
  <2>2. AskKept(q) /\ (told[q] # "none" => ask'[q] = ask[q])
    BY <1>1 DEF AskKept, AskAt
  <2>3. ask'[q].at \in {"away", "ended"} /\ (ask'[q].at = "ended" => ask[q].at = "ended")
    BY <1>1 DEF AskAt, Away
  <2>4. Raced(q) => Raced(q)'
    BY <1>1, <1>4 DEF Raced
  <2>5. told[q] # "none" => Truthful(q, told[q], flushed[q])'
    BY <2>2, <2>4, <1>1, <1>3 DEF AskKept, Truthful
  <2> QED
    BY <2>1, <2>2, <2>3, <2>5, <1>1 DEF AskKept
<1>7. ASSUME NEW r \in Replies PROVE ReplyKept(r)'
  <2>1. ReplyKept(r)
    OBVIOUS
  <2> QED
    BY <2>1, <1>1, <1>3, <1>4 DEF ReplyKept, Replied
<1>8. GateKept'
  BY <1>1 DEF GateKept, Writers, Nobody
<1> QED
  BY <1>5, <1>6, <1>7, <1>8

LEMMA QuestionStep == QuestionInv /\ [QuestionNext]_questionVars => QuestionInv'
<1> SUFFICES ASSUME QuestionInv, [QuestionNext]_questionVars PROVE QuestionInv'
  OBVIOUS
<1>1. CASE \E q \in Questions : AskStep(q)
  BY <1>1, CallKeeps, LookKeeps, RequestKeeps, RequestFlushedKeeps, InsertKeeps, NotifiedKeeps,
     PollKeeps, UnrememberedKeeps, RecordKeeps DEF AskStep
<1>2. CASE \E q \in Questions : Detach(q) \/ AskFails(q) \/ Resume(q)
  BY <1>2, DetachKeeps, AskFailsKeeps, ResumeKeeps
<1>3. CASE \E r \in Replies : ReplyStep(r)
  BY <1>3, FirstReadKeeps, SecondReadKeeps, AppendReplyKeeps, AppendFlushedKeeps,
     NothingToRememberKeeps, SettleKeeps DEF ReplyStep
<1>4. CASE \E r \in Replies : Respond(r) \/ ReplyFails(r) \/ Drop(r)
  BY <1>4, RespondKeeps, ReplyFailsKeeps, DropKeeps
<1>5. CASE \E w \in Writers : WriteStep(w) \/ WriteFails(w)
  BY <1>5, StartWriteKeeps, EndWriteKeeps, WriteFailsKeeps DEF WriteStep
<1>6. CASE UserEdits
  BY <1>6, OutsideKeeps DEF UserEdits
<1>7. CASE QuestionCrash
  BY <1>7, QuestionCrashKeeps
<1>8. CASE UNCHANGED questionVars
  BY <1>8, OutsideKeeps DEF questionVars
<1> QED
  BY <1>1, <1>2, <1>3, <1>4, <1>5, <1>6, <1>7, <1>8 DEF QuestionNext

\* What the invariant says of the answers that were accepted and told.
LEMMA KeptAnswersStand == QuestionInv => AnswersStand
<1> SUFFICES ASSUME QuestionInv PROVE AcceptedStands /\ ToldStands
  BY DEF AnswersStand
<1>1. ASSUME NEW q \in Questions, NEW r \in Accepted(q) \ skipped
      PROVE  flushed[q] = reply[r].says
  BY <1>1 DEF QuestionInv, ReplyKept, Accepted, ReplyAt
<1>2. ASSUME NEW q \in Questions, told[q] # "none", ~Raced(q)
      PROVE  told[q] = ResultOf(stands[q]) \/ (told[q] = "error" /\ q \in upset)
  <2>1. Truthful(q, told[q], flushed[q]) /\ LogKept(q)
    BY <1>2 DEF QuestionInv, AskKept
  <2> QED
    BY <1>2, <2>1 DEF Truthful, LogKept
<1> QED
  BY <1>1, <1>2 DEF AcceptedStands, ToldStands

\* Whatever stops, fails, crashes or is asked again: the answer of a request that appended
\* its settlement and was accepted is the one that is flushed, and the model is told the
\* answer that stands, or an error when the call was stopped or something failed under it
\* (DurableQuestionHub::ask and respond).
THEOREM AnswersAreKept == QuestionSpec => []AnswersStand
<1>1. QuestionSpec => []QuestionInv
  BY QuestionStart, QuestionStep, PTL DEF QuestionSpec
<1> QED
  BY <1>1, KeptAnswersStand, PTL

-----------------------------------------------------------------------------
(* What is remembered.  Nothing raced and nothing was stopped or dropped: no write goes on *)
(* without the mutex, and whoever has an answer that lasts to pass on finds it in          *)
(* AGENTS.md.                                                                              *)

Quiet == (\A q \in Questions : ~Raced(q)) /\ spent.drop + spent.stop = 0

Files == [entries : [Questions -> Answers \union {"none"}], own : Nat]
MemoryTypeOK ==
    /\ memory \in Files
    /\ writing \in [Writers -> [base : Files, of : Questions \union {"none"},
                                says : Answers \union {"none"}]]
    /\ spent \in [crash : Nat, fault : Nat, stop : Nat, drop : Nat, edit : Nat]

\* A write holds the mutex, and the file has no entry its writer has not read.
WriteKept(w) ==
    writing[w] # Unread =>
        /\ gate = w
        /\ writing[w].of = About(w) /\ writing[w].says = Gives(w)
        /\ writing[w].base.entries = memory.entries

\* This answer of q is told, about to be told, or settled in the channel of an entry.
Passed(q, says) ==
    \/ told[q] = says
    \/ ask[q].at = "result" /\ ask[q].saw = says
    \/ \E e \in 1 .. MaxAsks : settlement[q][e] = says
    \/ \E r \in Replies : reply[r].at = "settle" /\ reply[r].of = q /\ reply[r].says = says

MemoryKept ==
    \A q \in Questions, says \in Answers :
        ToBeRemembered(q, says) /\ Passed(q, says) => memory.entries[q] = says

MemoryInv ==
    /\ QuestionInv /\ MemoryTypeOK
    /\ Quiet => MemoryKept /\ \A w \in Writers : WriteKept(w)

LEMMA MemoryStart == QuestionInit => MemoryInv
<1> SUFFICES ASSUME QuestionInit PROVE MemoryInv
  OBVIOUS
<1>1. MemoryTypeOK
  BY DEF QuestionInit, MemoryTypeOK, Files, Blank, Unread
<1>2. MemoryKept /\ \A w \in Writers : WriteKept(w)
  BY DEF QuestionInit, MemoryKept, Passed, ToBeRemembered, WriteKept, Away, Unsent
<1> QED
  BY <1>1, <1>2, QuestionStart DEF MemoryInv

\* Who passes an answer on, and who writes it, has it from the log.
LEMMA PassedStands ==
    ASSUME QuestionInv, Quiet, NEW q \in Questions, NEW says \in Answers, Passed(q, says)
    PROVE  stands[q] = says
<1>1. LogKept(q) /\ AskKept(q) /\ EntriesKept(q) /\ ~Raced(q)
  BY DEF QuestionInv, Quiet
<1>2. says \in Settled /\ says \notin {"none", "error"} /\ (\A s : ResultOf(s) = says => s = says)
  BY DEF Settled, ResultOf
<1>3. CASE told[q] = says
  BY <1>1, <1>2, <1>3 DEF AskKept, Truthful, LogKept
<1>4. CASE ask[q].at = "result" /\ ask[q].saw = says
  BY <1>1, <1>2, <1>4 DEF AskKept, Truthful
<1>5. CASE \E e \in 1 .. MaxAsks : settlement[q][e] = says
  BY <1>1, <1>2, <1>5 DEF EntriesKept, LogKept
<1>6. ASSUME NEW r \in Replies, reply[r].at = "settle", reply[r].of = q, reply[r].says = says
      PROVE  stands[q] = says
  BY <1>1, <1>2, <1>6 DEF QuestionInv, ReplyKept, Raced, LogKept
<1> QED
  BY <1>3, <1>4, <1>5, <1>6 DEF Passed

LEMMA WriterStands ==
    ASSUME QuestionInv, Quiet, NEW w \in Writers, WantsToWrite(w)
    PROVE  /\ About(w) \in Questions /\ Gives(w) \in Answers
           /\ stands[About(w)] = Gives(w)
<1>1. Gives(w) \in Answers
  BY DEF WantsToWrite, ToBeRemembered
<1>2. CASE w \in Questions
  BY <1>1, <1>2 DEF WantsToWrite, About, Gives, QuestionInv, AskKept
<1>3. CASE w \in Replies
  <2>1. /\ w \notin Questions /\ About(w) = reply[w].of /\ Gives(w) = reply[w].says
        /\ reply[w].at = "persist"
    BY <1>3 DEF WantsToWrite, About, Gives, ReplyAt
  <2>2. reply[w].of \in Questions /\ ReplyKept(w)
    BY <1>3, <2>1 DEF QuestionInv, ReplyKept
  <2>3. ~Raced(reply[w].of) /\ LogKept(reply[w].of)
    BY <2>2 DEF Quiet, QuestionInv
  <2> QED
    BY <1>1, <1>3, <2>1, <2>2, <2>3 DEF ReplyKept, Raced, LogKept
<1> QED
  BY <1>2, <1>3 DEF Writers

\* A step after which nothing raced and nothing was stopped or dropped found it so.
LEMMA QuietBefore ==
    ASSUME QuestionInv, MemoryTypeOK, Quiet',
           skipped \subseteq skipped', \A r \in skipped : reply'[r].of = reply[r].of,
           spent' = spent \/ \E what \in DOMAIN spent : Spend(what)
    PROVE  Quiet
<1>1. \A q \in Questions : ~Raced(q)
  BY DEF Quiet, Raced
<1>2. spent.drop \in Nat /\ spent.stop \in Nat
  BY DEF MemoryTypeOK
<1>3. spent'.drop >= spent.drop /\ spent'.stop >= spent.stop
  <2>1. CASE spent' = spent
    BY <2>1, <1>2
  <2>2. ASSUME NEW what \in {"crash", "fault", "stop", "drop", "edit"}, Spend(what)
        PROVE  spent'.drop >= spent.drop /\ spent'.stop >= spent.stop
    BY <2>2, <1>2 DEF Spend, MemoryTypeOK
  <2> QED
    BY <2>1, <2>2 DEF MemoryTypeOK
<1>4. spent'.drop + spent'.stop = 0
  BY DEF Quiet
<1>5. spent'.drop \in Nat /\ spent'.stop \in Nat
  <2>1. CASE spent' = spent
    BY <2>1, <1>2
  <2>2. ASSUME NEW what \in {"crash", "fault", "stop", "drop", "edit"}, Spend(what)
        PROVE  spent'.drop \in Nat /\ spent'.stop \in Nat
    BY <2>2, <1>2 DEF Spend, MemoryTypeOK
  <2> QED
    BY <2>1, <2>2 DEF MemoryTypeOK
<1> QED
  BY <1>1, <1>2, <1>3, <1>4, <1>5 DEF Quiet

LEMMA SpendCounts ==
    ASSUME MemoryTypeOK, NEW what \in {"stop", "drop"}, Spend(what)
    PROVE  ~Quiet'
<1>1. spent.drop \in Nat /\ spent.stop \in Nat
  BY DEF MemoryTypeOK
<1>2. spent'.drop + spent'.stop > 0
  BY <1>1 DEF Spend, MemoryTypeOK
<1> QED
  BY <1>2 DEF Quiet

LEMMA SpentStays ==
    ASSUME MemoryTypeOK, spent' = spent \/ \E what \in DOMAIN spent : Spend(what)
    PROVE  spent' \in [crash : Nat, fault : Nat, stop : Nat, drop : Nat, edit : Nat]
<1>1. ASSUME NEW what \in {"crash", "fault", "stop", "drop", "edit"}, Spend(what)
      PROVE  spent' \in [crash : Nat, fault : Nat, stop : Nat, drop : Nat, edit : Nat]
  BY <1>1 DEF Spend, MemoryTypeOK
<1> QED
  BY <1>1 DEF MemoryTypeOK

\* A step that neither writes the file nor begins to.
LEMMA MemoryStays ==
    ASSUME MemoryInv, QuestionInv', UNCHANGED <<writing, gate>>,
           memory' \in Files, memory'.entries = memory.entries,
           skipped \subseteq skipped', \A r \in skipped : reply'[r].of = reply[r].of,
           spent' = spent \/ \E what \in DOMAIN spent : Spend(what),
           \A w \in Writers : gate = w => About(w)' = About(w) /\ Gives(w)' = Gives(w),
           \A q \in Questions, says \in Answers :
               ToBeRemembered(q, says) /\ Passed(q, says)' => Passed(q, says)
    PROVE  MemoryInv'
<1>1. QuestionInv /\ MemoryTypeOK
  BY DEF MemoryInv
<1>2. MemoryTypeOK'
  BY <1>1, SpentStays DEF MemoryTypeOK
<1>3. ASSUME Quiet' PROVE MemoryKept' /\ \A w \in Writers : WriteKept(w)'
  <2>1. Quiet
    BY <1>1, <1>3, QuietBefore
  <2>2. MemoryKept /\ \A w \in Writers : WriteKept(w)
    BY <2>1 DEF MemoryInv
  <2>3. MemoryKept'
    BY <2>2 DEF MemoryKept, ToBeRemembered
  <2>4. ASSUME NEW w \in Writers PROVE WriteKept(w)'
    BY <2>2 DEF WriteKept
  <2> QED
    BY <2>3, <2>4
<1> QED
  BY <1>2, <1>3 DEF MemoryInv

\* A step of the tool call of q that waits for no write.
LEMMA AskPasses ==
    ASSUME MemoryInv, QuestionInv', NEW q \in Questions, NEW new,
           ask' = [ask EXCEPT ![q] = new], ~WantsToWrite(q),
           UNCHANGED <<settlement, reply, memory, gate, writing, skipped>>,
           spent' = spent \/ \E what \in DOMAIN spent : Spend(what),
           new.at = "result" /\ ToBeRemembered(q, new.saw) => Passed(q, new.saw),
           \A p \in Questions \ {q} : told'[p] = told[p],
           told'[q] \in Answers => Passed(q, told'[q])
    PROVE  MemoryInv'
<1>1. QuestionInv /\ MemoryTypeOK /\ gate # q /\ ask \in [Questions -> Calls]
  BY DEF MemoryInv, QuestionInv, QuestionTypeOK, GateKept, Writers
<1>2. memory' \in Files
  BY <1>1 DEF MemoryTypeOK
<1>3. ASSUME NEW w \in Writers, gate = w PROVE About(w)' = About(w) /\ Gives(w)' = Gives(w)
  BY <1>1, <1>3 DEF About, Gives
<1>4. ASSUME NEW p \in Questions, NEW says \in Answers, ToBeRemembered(p, says), Passed(p, says)'
      PROVE  Passed(p, says)
  <2>1. CASE p # q
    BY <1>1, <1>4, <2>1 DEF Passed
  <2>2. CASE p = q
    <3>1. ask'[q] = new
      BY <1>1
    <3> QED
      BY <1>4, <2>2, <3>1 DEF Passed
  <2> QED
    BY <2>1, <2>2
<1> QED
  BY <1>1, <1>2, <1>3, <1>4, MemoryStays

\* A step of a request that waits for no write.
LEMMA ReplyPasses ==
    ASSUME MemoryInv, QuestionInv', NEW r \in Replies, NEW new,
           reply' = [reply EXCEPT ![r] = new], ~WantsToWrite(r),
           UNCHANGED <<told, ask, memory, gate, writing>>,
           skipped \subseteq skipped', r \in skipped => new.of = reply[r].of,
           spent' = spent \/ \E what \in DOMAIN spent : Spend(what),
           new.at = "settle" => ~ToBeRemembered(new.of, new.says),
           \A q \in Questions, e \in 1 .. MaxAsks :
               settlement'[q][e] \in Answers => Passed(q, settlement'[q][e])
    PROVE  MemoryInv'
<1>1. QuestionInv /\ MemoryTypeOK /\ gate # r /\ reply \in [Replies -> Requests]
  BY DEF MemoryInv, QuestionInv, QuestionTypeOK, GateKept, Writers
<1>2. memory' \in Files
  BY <1>1 DEF MemoryTypeOK
<1>3. \A s \in Replies : s # r => reply'[s] = reply[s]
  BY <1>1
<1>4. reply'[r] = new
  BY <1>1
<1>5. ASSUME NEW w \in Writers, gate = w PROVE About(w)' = About(w) /\ Gives(w)' = Gives(w)
  BY <1>1, <1>3, <1>5 DEF About, Gives, Writers
<1>6. ASSUME NEW q \in Questions, NEW says \in Answers, ToBeRemembered(q, says), Passed(q, says)'
      PROVE  Passed(q, says)
  <2>1. CASE told'[q] = says \/ (ask'[q].at = "result" /\ ask'[q].saw = says)
    BY <2>1 DEF Passed
  <2>2. ASSUME NEW e \in 1 .. MaxAsks, settlement'[q][e] = says PROVE Passed(q, says)
    BY <2>2
  <2>3. ASSUME NEW s \in Replies, reply'[s].at = "settle", reply'[s].of = q,
               reply'[s].says = says
        PROVE  Passed(q, says)
    <3>1. s # r
      BY <1>4, <1>6, <2>3
    <3> QED
      BY <1>3, <2>3, <3>1 DEF Passed
  <2> QED
    BY <1>6, <2>1, <2>2, <2>3 DEF Passed
<1>7. \A s \in skipped : reply'[s].of = reply[s].of
  BY <1>1, <1>3, <1>4 DEF QuestionInv, QuestionTypeOK
<1> QED
  BY <1>1, <1>2, <1>5, <1>6, <1>7, MemoryStays

LEMMA AskStepRemembers ==
    ASSUME MemoryInv, QuestionInv', NEW q \in Questions, AskStep(q) \/ AskFails(q) \/ Resume(q)
    PROVE  MemoryInv'
<1>1. QuestionInv /\ AskKept(q) /\ ask \in [Questions -> Calls] /\ told \in [Questions -> Results]
  BY DEF MemoryInv, QuestionInv, QuestionTypeOK
<1>2. q \in Writers /\ (WantsToWrite(q) => ask[q].at \in {"persist", "polled"})
  BY DEF WantsToWrite, Writers
<1>3. \A says : says \in {"none", "error"} => ~ToBeRemembered(q, says)
  BY DEF ToBeRemembered
<1>4. told[q] \in Answers => Passed(q, told[q])
  BY DEF Passed
<1>5. ASSUME NEW at, NEW saw, AskGoes(q, at, saw), ~WantsToWrite(q),
             UNCHANGED <<told, settlement, reply, memory, gate, writing, skipped>>,
             spent' = spent \/ \E what \in DOMAIN spent : Spend(what),
             at = "result" /\ ToBeRemembered(q, saw) => Passed(q, saw)
      PROVE  MemoryInv'
  <2> DEFINE new == [at |-> at, saw |-> saw, entry |-> ask[q].entry]
  <2>1. ask' = [ask EXCEPT ![q] = new]
    BY <1>1, <1>5, AskGoesTo
  <2>2. new.at = at /\ new.saw = saw
    OBVIOUS
  <2> HIDE DEF new
  <2> QED
    BY <1>4, <1>5, <2>1, <2>2, AskPasses
<1>6. CASE Call(q) \/ Request(q) \/ RequestFlushed(q) \/ Resume(q)
  BY <1>2, <1>5, <1>6 DEF Call, Request, RequestFlushed, Resume, AskAt
<1>7. CASE Look(q)
  <2>1. PICK at \in {"request", "insert", "result", "persist"} :
            \E saw : AskGoes(q, at, saw) /\ (at = "result" => saw = "error")
    <3>1. CASE State(q) = "none"
      BY <1>7, <3>1 DEF Look
    <3>2. CASE State(q) = "waits"
      BY <1>7, <3>2 DEF Look
    <3>3. CASE State(q) = "closed"
      BY <1>7, <3>3 DEF Look
    <3>4. CASE State(q) \notin {"none", "waits", "closed"}
      BY <1>7, <3>4 DEF Look
    <3> QED
      BY <3>1, <3>2, <3>3, <3>4
  <2> QED
    BY <1>2, <1>3, <1>5, <1>7, <2>1 DEF Look, AskAt
<1>8. CASE Insert(q)
  <2> DEFINE entry == IF hub[q] = 0 THEN asks[q] ELSE hub[q]
             new == [at |-> "wait", saw |-> "none", entry |-> entry]
  <2>1. ask' = [ask EXCEPT ![q] = new]
    BY <1>8 DEF Insert
  <2>2. new.at = "wait"
    OBVIOUS
  <2> HIDE DEF new
  <2> QED
    BY <1>2, <1>4, <1>8, <2>1, <2>2, AskPasses DEF Insert, AskAt
<1>9. CASE Notified(q)
  <2> DEFINE says == settlement[q][ask[q].entry]
  <2>1. ask[q].at = "wait" /\ ask[q].entry \in 1 .. MaxAsks
    BY <1>1, <1>9 DEF Notified, AskAt, AskKept, Calls
  <2>2. ToBeRemembered(q, ResultOf(says)) => Passed(q, ResultOf(says))
    BY <1>3, <2>1 DEF ResultOf, Passed
  <2>3. AskGoes(q, "result", ResultOf(says))
    BY <1>9 DEF Notified
  <2> QED
    BY <1>2, <1>5, <1>9, <2>1, <2>2, <2>3 DEF Notified
<1>10. CASE Poll(q)
  <2>1. PICK at \in {"result", "polled"} :
            \E saw : AskGoes(q, at, saw) /\ (at = "result" => saw = "error")
    BY <1>10 DEF Poll
  <2> QED
    BY <1>2, <1>3, <1>5, <1>10, <2>1 DEF Poll, AskAt
<1>11. CASE Unremembered(q)
  <2>1. ~ToBeRemembered(q, ask[q].saw) /\ AskGoes(q, "result", ask[q].saw)
    BY <1>11 DEF Unremembered, Returns
  <2>2. ~WantsToWrite(q)
    BY <2>1 DEF WantsToWrite, About, Gives
  <2> QED
    BY <1>5, <1>11, <2>1, <2>2 DEF Unremembered
<1>12. CASE Record(q)
  <2> DEFINE at == IF stands[q] = "waits" THEN "stopped" ELSE "ended"
             new == [at |-> at, saw |-> "none", entry |-> 0]
  <2>1. ask' = [ask EXCEPT ![q] = new] /\ ask[q].at = "result"
    BY <1>12 DEF Record, AskAt
  <2>2. new.at # "result"
    OBVIOUS
  <2>3. told' = told \/ told' = [told EXCEPT ![q] = ask[q].saw]
    BY <1>12 DEF Record
  <2>4. told'[q] \in Answers => Passed(q, told'[q])
    BY <1>1, <1>4, <2>1, <2>3 DEF Passed
  <2>5. \A p \in Questions \ {q} : told'[p] = told[p]
    BY <1>1, <2>3
  <2>6. ~WantsToWrite(q)
    BY <1>2, <2>1
  <2>7. UNCHANGED <<settlement, reply, memory, gate, writing, skipped, spent>>
    BY <1>12 DEF Record
  <2> HIDE DEF new
  <2> QED
    BY <2>1, <2>2, <2>4, <2>5, <2>6, <2>7, AskPasses
<1>13. CASE AskFails(q)
  <2>1. spent' = spent \/ \E what \in DOMAIN spent : Spend(what)
    BY <1>13 DEF AskFails, MemoryInv, MemoryTypeOK
  <2> QED
    BY <1>2, <1>3, <1>5, <1>13, <2>1 DEF AskFails
<1> QED
  BY <1>6, <1>7, <1>8, <1>9, <1>10, <1>11, <1>12, <1>13 DEF AskStep

LEMMA ReplyStepRemembers ==
    ASSUME MemoryInv, QuestionInv', NEW r \in Replies,
           ReplyStep(r) \/ Respond(r) \/ ReplyFails(r)
    PROVE  MemoryInv'
<1>1. QuestionInv /\ MemoryTypeOK /\ ReplyKept(r) /\ reply[r] \in Requests
  BY DEF MemoryInv, QuestionInv, QuestionTypeOK
<1>2. WantsToWrite(r) => r \notin Questions
                         /\ reply[r].at = "persist" /\ ToBeRemembered(reply[r].of, reply[r].says)
  BY DEF WantsToWrite, ReplyAt, About, Gives
<1>3. \A q \in Questions, e \in 1 .. MaxAsks : Passed(q, settlement[q][e])
  BY DEF Passed
<1>4. ASSUME NEW at \in {"first", "second", "append", "flush", "persist", "settle"} \union Replied,
             ReplyGoes(r, at), ~WantsToWrite(r),
             UNCHANGED <<told, ask, settlement, memory, gate, writing>>,
             skipped \subseteq skipped',
             spent' = spent \/ \E what \in DOMAIN spent : Spend(what),
             at = "settle" => ~ToBeRemembered(reply[r].of, reply[r].says)
      PROVE  MemoryInv'
  <2> DEFINE new == [reply[r] EXCEPT !.at = at]
  <2>1. reply' = [reply EXCEPT ![r] = new]
    BY <1>4 DEF ReplyGoes
  <2>2. new.at = at /\ new.of = reply[r].of /\ new.says = reply[r].says
    BY <1>1 DEF Requests
  <2> HIDE DEF new
  <2> QED
    BY <1>3, <1>4, <2>1, <2>2, ReplyPasses
<1>5. CASE FirstRead(r)
  <2> DEFINE says == reply[r].says
             state == State(reply[r].of)
             at == IF ~WellFormed(says) THEN "bad"
                   ELSE IF state = "waits" THEN IF says = "closed" THEN "append" ELSE "second"
                   ELSE IF state \notin Answers \/ says = "closed" THEN "not pending"
                   ELSE IF says = state THEN "second" ELSE "bad"
  <2>1. ReplyGoes(r, at) /\ ReplyAt(r, "first")
    BY <1>5 DEF FirstRead
  <2>2. at \in {"bad", "append", "second", "not pending"}
    OBVIOUS
  <2> HIDE DEF at
  <2> QED
    BY <1>2, <1>4, <1>5, <2>1, <2>2 DEF FirstRead, ReplyAt, Replied
<1>6. CASE SecondRead(r)
  BY <1>2, <1>4, <1>6 DEF SecondRead, ReplyAt, Replied
<1>7. CASE AppendReply(r)
  BY <1>2, <1>4, <1>7 DEF AppendReply, ReplyAt, Replied
<1>8. CASE AppendFlushed(r)
  <2>1. reply[r].says = "closed" => ~ToBeRemembered(reply[r].of, reply[r].says)
    BY DEF ToBeRemembered
  <2> DEFINE at == IF reply[r].says = "closed" THEN "settle" ELSE "persist"
  <2>2. ReplyGoes(r, at) /\ at \in {"settle", "persist"}
        /\ (at = "settle" => reply[r].says = "closed")
    BY <1>8 DEF AppendFlushed
  <2> HIDE DEF at
  <2> QED
    BY <1>2, <1>4, <1>8, <2>1, <2>2 DEF AppendFlushed, ReplyAt
<1>9. CASE NothingToRemember(r)
  BY <1>2, <1>4, <1>9 DEF NothingToRemember
<1>10. CASE Settle(r)
  <2> DEFINE new == [reply[r] EXCEPT !.at = "accepted"]
             q == reply[r].of
  <2>1. reply' = [reply EXCEPT ![r] = new] /\ reply[r].at = "settle" /\ q \in Questions
    BY <1>1, <1>10 DEF Settle, ReplyGoes, ReplyAt, ReplyKept
  <2>2. new.at = "accepted" /\ new.of = q
    BY <1>1 DEF Requests
  <2>3. settlement' = [settlement EXCEPT ![q][reply[r].entry] = reply[r].says]
    BY <1>10 DEF Settle
  <2>4. ASSUME NEW p \in Questions, NEW e \in 1 .. MaxAsks PROVE Passed(p, settlement'[p][e])
    <3>1. settlement[p] \in [1 .. MaxAsks -> Settled \union {"none"}]
          /\ settlement \in [Questions -> [1 .. MaxAsks -> Settled \union {"none"}]]
      BY <1>1 DEF QuestionInv, QuestionTypeOK
    <3>2. CASE p = q /\ e = reply[r].entry
      BY <2>1, <2>3, <3>1, <3>2 DEF Passed
    <3>3. CASE ~(p = q /\ e = reply[r].entry)
      BY <1>3, <2>3, <3>1, <3>3
    <3> QED
      BY <3>2, <3>3
  <2>5. ~WantsToWrite(r)
    BY <1>2, <2>1
  <2>6. UNCHANGED <<told, ask, memory, gate, writing, skipped, spent>>
    BY <1>10 DEF Settle
  <2> HIDE DEF new, q
  <2> QED
    BY <2>1, <2>2, <2>4, <2>5, <2>6, ReplyPasses DEF q
<1>11. CASE Respond(r)
  <2>1. PICK sent \in Sends[r] :
            reply' = [reply EXCEPT ![r] = [at |-> "first", of |-> sent.of, says |-> sent.says,
                                           entry |-> hub[sent.of]]]
    BY <1>11 DEF Respond
  <2> DEFINE new == [at |-> "first", of |-> sent.of, says |-> sent.says, entry |-> hub[sent.of]]
  <2>2. new.at = "first" /\ reply[r].at = "unsent"
    BY <1>11 DEF Respond, ReplyAt
  <2>3. ~WantsToWrite(r) /\ r \notin skipped
    BY <1>1, <1>2, <2>2 DEF ReplyKept, Replied
  <2>4. UNCHANGED <<told, ask, settlement, memory, gate, writing, skipped, spent>>
    BY <1>11 DEF Respond
  <2> HIDE DEF new
  <2> QED
    BY <1>3, <2>1, <2>2, <2>3, <2>4, ReplyPasses DEF new
<1>12. CASE ReplyFails(r)
  <2>1. spent' = spent \/ \E what \in DOMAIN spent : Spend(what)
    BY <1>1, <1>12 DEF ReplyFails, MemoryTypeOK
  <2> QED
    BY <1>2, <1>4, <1>12, <2>1 DEF ReplyFails, Replied
<1> QED
  BY <1>5, <1>6, <1>7, <1>8, <1>9, <1>10, <1>11, <1>12 DEF ReplyStep

\* A call that is stopped or a request that is dropped is counted.
LEMMA StopRemembers ==
    ASSUME MemoryInv, QuestionInv',
           (\E q \in Questions : Detach(q)) \/ (\E r \in Replies : Drop(r))
    PROVE  MemoryInv'
<1>1. PICK what \in {"stop", "drop"} : Spend(what) /\ UNCHANGED <<memory, writing>>
  BY DEF Detach, Drop
<1>2. MemoryTypeOK /\ what \in DOMAIN spent
  BY DEF MemoryInv, MemoryTypeOK
<1>3. MemoryTypeOK'
  BY <1>1, <1>2, SpentStays DEF MemoryTypeOK
<1> QED
  BY <1>1, <1>2, <1>3, SpendCounts DEF MemoryInv

LEMMA StartWriteRemembers ==
    ASSUME MemoryInv, QuestionInv', NEW w \in Writers, StartWrite(w)
    PROVE  MemoryInv'
<1> DEFINE job == [base |-> memory, of |-> About(w), says |-> Gives(w)]
<1>1. QuestionInv /\ MemoryTypeOK
  BY DEF MemoryInv
<1>2. /\ WantsToWrite(w) /\ gate = Nobody /\ gate' = w
      /\ writing' = [writing EXCEPT ![w] = job]
      /\ UNCHANGED <<told, ask, settlement, reply, memory, skipped, spent>>
  BY DEF StartWrite
<1>3. About(w) \in Questions /\ Gives(w) \in Answers
  <2>1. Gives(w) \in Answers
    BY <1>2 DEF WantsToWrite, ToBeRemembered
  <2>2. CASE w \in Questions
    BY <2>1, <2>2 DEF About
  <2>3. CASE w \in Replies
    BY <1>1, <1>2, <2>1, <2>3 DEF WantsToWrite, About, ReplyAt, QuestionInv, ReplyKept
  <2> QED
    BY <2>1, <2>2, <2>3 DEF Writers
<1>4. MemoryTypeOK'
  BY <1>1, <1>2, <1>3 DEF MemoryTypeOK
<1>5. ASSUME Quiet' PROVE MemoryKept' /\ \A v \in Writers : WriteKept(v)'
  <2>1. Quiet
    BY <1>2, <1>5 DEF Quiet, Raced
  <2>2. MemoryKept /\ \A v \in Writers : WriteKept(v)
    BY <2>1 DEF MemoryInv
  <2>3. MemoryKept'
    BY <1>2, <2>2 DEF MemoryKept, Passed, ToBeRemembered
  <2>4. ASSUME NEW v \in Writers PROVE WriteKept(v)'
    <3>1. CASE v = w
      <4>1. writing'[w] = job
        BY <1>1, <1>2 DEF MemoryTypeOK
      <4>2. About(w)' = About(w) /\ Gives(w)' = Gives(w)
        BY <1>2 DEF About, Gives
      <4> QED
        BY <1>2, <3>1, <4>1, <4>2 DEF WriteKept
    <3>2. CASE v # w
      <4>1. v # Nobody
        BY DEF Writers, Nobody
      <4>2. writing[v] = Unread
        BY <1>2, <2>2, <4>1 DEF WriteKept
      <4>3. writing'[v] = Unread'
        BY <1>1, <1>2, <3>2, <4>2 DEF MemoryTypeOK, Unread, Blank
      <4> QED
        BY <4>3 DEF WriteKept
    <3> QED
      BY <3>1, <3>2
  <2> QED
    BY <2>3, <2>4
<1> QED
  BY <1>4, <1>5 DEF MemoryInv

LEMMA JobsAreWellFormed ==
    ASSUME MemoryTypeOK, NEW w \in Writers, writing[w] # Unread,
           writing' = [writing EXCEPT ![w] = Unread],
           memory' \in {memory, Rewritten(writing[w])},
           spent' = spent \/ \E what \in DOMAIN spent : Spend(what),
           writing[w].of \in Questions
    PROVE  /\ MemoryTypeOK'
           /\ Rewritten(writing[w]).entries
                 = [writing[w].base.entries EXCEPT ![writing[w].of] = writing[w].says]
<1>1. /\ writing[w].base \in Files /\ writing[w].says \in Answers \union {"none"}
      /\ writing[w].base.entries \in [Questions -> Answers \union {"none"}]
  BY DEF MemoryTypeOK, Files
<1>2. Rewritten(writing[w]) \in Files
  BY <1>1 DEF Rewritten, Files
<1>3. Rewritten(writing[w]).entries
          = [writing[w].base.entries EXCEPT ![writing[w].of] = writing[w].says]
  BY <1>1 DEF Rewritten, Files
<1>4. memory' \in Files
  BY <1>2 DEF MemoryTypeOK
<1>5. Unread \in [base : Files, of : Questions \union {"none"}, says : Answers \union {"none"}]
  BY DEF Unread, Blank, Files
<1> QED
  BY <1>3, <1>4, <1>5, SpentStays DEF MemoryTypeOK

\* A write ends, well or not: the file has what its writer gives, and it gives what stands.
LEMMA WriteEnds ==
    ASSUME MemoryInv, Quiet, NEW w \in Writers, writing[w] # Unread,
           gate' = Nobody, writing' = [writing EXCEPT ![w] = Unread],
           memory' \in {memory, Rewritten(writing[w])},
           spent' = spent \/ \E what \in DOMAIN spent : Spend(what),
           \A q \in Questions, says \in Answers :
               ToBeRemembered(q, says) /\ Passed(q, says)'
               => \/ Passed(q, says)
                  \/ memory' = Rewritten(writing[w]) /\ q = About(w) /\ says = Gives(w)
    PROVE  MemoryKept' /\ \A v \in Writers : WriteKept(v)'
<1>1. /\ QuestionInv /\ MemoryTypeOK /\ MemoryKept
      /\ \A v \in Writers : WriteKept(v)
  BY DEF MemoryInv
<1>2. /\ gate = w /\ writing[w].of = About(w) /\ writing[w].says = Gives(w)
      /\ writing[w].base.entries = memory.entries
  BY <1>1 DEF WriteKept
<1>3. WantsToWrite(w)
  BY <1>1, <1>2 DEF QuestionInv, GateKept
<1>4. About(w) \in Questions /\ Gives(w) \in Answers /\ stands[About(w)] = Gives(w)
  BY <1>1, <1>3, WriterStands
<1>5. Rewritten(writing[w]).entries = [memory.entries EXCEPT ![About(w)] = Gives(w)]
  BY <1>1, <1>2, <1>4, JobsAreWellFormed
<1>6. memory.entries \in [Questions -> Answers \union {"none"}]
  BY <1>1 DEF MemoryTypeOK, Files
<1>7. ASSUME NEW q \in Questions, NEW says \in Answers, ToBeRemembered(q, says), Passed(q, says)'
      PROVE  memory'.entries[q] = says
  <2>1. CASE Passed(q, says)
    <3>1. memory.entries[q] = says /\ stands[q] = says
      BY <1>1, <1>7, <2>1, PassedStands DEF MemoryKept
    <3> QED
      BY <1>4, <1>5, <1>6, <3>1
  <2>2. CASE memory' = Rewritten(writing[w]) /\ q = About(w) /\ says = Gives(w)
    BY <1>5, <1>6, <2>2
  <2> QED
    BY <1>7, <2>1, <2>2
<1>8. ASSUME NEW v \in Writers PROVE WriteKept(v)'
  <2>1. v # w => writing[v] = Unread
    BY <1>1, <1>2 DEF WriteKept
  <2>2. writing'[v] = Unread
    BY <1>1, <2>1 DEF MemoryTypeOK
  <2> QED
    BY <2>2 DEF WriteKept, Unread, Blank
<1> QED
  BY <1>7, <1>8 DEF MemoryKept, ToBeRemembered

LEMMA WriterPasses ==
    ASSUME QuestionInv, NEW w \in Writers, gate = w, NEW ok \in BOOLEAN, WriterGoes(w, ok),
           UNCHANGED <<told, settlement>>,
           NEW q \in Questions, NEW says \in Answers, Passed(q, says)'
    PROVE  Passed(q, says) \/ (ok /\ q = About(w) /\ says = Gives(w))
<1>1. CASE w \in Questions
  <2>1. PICK saw : AskGoes(w, "result", saw) /\ saw = (IF ok THEN ask[w].saw ELSE "error")
    BY <1>1 DEF WriterGoes, Returns
  <2>2. /\ ask' = [ask EXCEPT ![w] = [at |-> "result", saw |-> saw, entry |-> ask[w].entry]]
        /\ ask'[w] = [at |-> "result", saw |-> saw, entry |-> ask[w].entry]
    BY <1>1, <2>1, AskGoesTo
  <2>3. ask \in [Questions -> Calls] /\ reply' = reply
    BY <1>1 DEF QuestionInv, QuestionTypeOK, WriterGoes
  <2>4. \A p \in Questions \ {w} : ask'[p] = ask[p]
    BY <2>2, <2>3
  <2>5. CASE q = w
    BY <1>1, <2>1, <2>2, <2>3, <2>5 DEF Passed, About, Gives
  <2>6. CASE q # w
    BY <2>3, <2>4, <2>6 DEF Passed
  <2> QED
    BY <2>5, <2>6
<1>2. CASE w \in Replies
  <2>1. w \notin Questions /\ ask' = ask
    BY <1>2 DEF WriterGoes
  <2>2. ReplyGoes(w, IF ok THEN "settle" ELSE "bad")
    BY <2>1 DEF WriterGoes
  <2>3. /\ reply'[w].at = (IF ok THEN "settle" ELSE "bad")
        /\ reply'[w].of = reply[w].of /\ reply'[w].says = reply[w].says
        /\ reply' = [reply EXCEPT ![w] = [reply[w] EXCEPT !.at = IF ok THEN "settle" ELSE "bad"]]
    BY <1>2, <2>2, ReplyGoesTo DEF Replied
  <2>4. \A s \in Replies \ {w} : reply'[s] = reply[s]
    BY <2>3 DEF QuestionInv, QuestionTypeOK
  <2> QED
    BY <1>2, <2>1, <2>3, <2>4 DEF Passed, About, Gives
<1> QED
  BY <1>1, <1>2 DEF Writers

LEMMA WriteRemembers ==
    ASSUME MemoryInv, QuestionInv', NEW w \in Writers, EndWrite(w) \/ WriteFails(w)
    PROVE  MemoryInv'
<1>1. QuestionInv /\ MemoryTypeOK
  BY DEF MemoryInv
<1>2. /\ writing[w] # Unread /\ writing' = [writing EXCEPT ![w] = Unread]
      /\ memory' \in {memory, Rewritten(writing[w])}
      /\ UNCHANGED <<told, settlement, skipped>>
      /\ spent' = spent \/ \E what \in DOMAIN spent : Spend(what)
  BY <1>1 DEF EndWrite, WriteFails, MemoryTypeOK
<1>3. MemoryTypeOK'
  <2>1. CASE writing[w].of \in Questions
    BY <1>1, <1>2, <2>1, JobsAreWellFormed
  <2>2. CASE writing[w].of \notin Questions
    <3>1. Rewritten(writing[w]) \in Files
      BY <1>1, <2>2 DEF Rewritten, MemoryTypeOK, Files
    <3>2. Unread \in [base : Files, of : Questions \union {"none"},
                      says : Answers \union {"none"}]
      BY DEF Unread, Blank, Files
    <3> QED
      BY <1>1, <1>2, <3>1, <3>2, SpentStays DEF MemoryTypeOK
  <2> QED
    BY <2>1, <2>2
<1>4. ASSUME Quiet' PROVE MemoryKept' /\ \A v \in Writers : WriteKept(v)'
  <2>1. \A r \in skipped : reply'[r].of = reply[r].of
    <3>1. CASE reply' = reply
      BY <3>1
    <3>2. ASSUME w \in Replies, NEW at \in {"settle", "bad"}, ReplyGoes(w, at)
          PROVE  \A r \in skipped : reply'[r].of = reply[r].of
      <4>1. /\ reply' = [reply EXCEPT ![w] = [reply[w] EXCEPT !.at = at]]
            /\ reply'[w].of = reply[w].of
        BY <1>1, <3>2, ReplyGoesTo DEF Replied
      <4> QED
        BY <1>1, <4>1 DEF QuestionInv, QuestionTypeOK
    <3> QED
      BY <3>1, <3>2 DEF EndWrite, WriteFails, WriterGoes, Writers
  <2>2. Quiet
    BY <1>1, <1>2, <1>4, <2>1, QuietBefore
  <2>3. gate = w
    BY <1>2, <2>2 DEF MemoryInv, WriteKept
  <2>4. PICK ok \in BOOLEAN : /\ WriterGoes(w, ok) /\ gate' = Nobody
                              /\ ok => memory' = Rewritten(writing[w])
    BY <2>3 DEF EndWrite, WriteFails
  <2> QED
    BY <1>1, <1>2, <2>2, <2>3, <2>4, WriterPasses, WriteEnds
<1> QED
  BY <1>3, <1>4 DEF MemoryInv

LEMMA EditRemembers ==
    ASSUME MemoryInv, QuestionInv', UserEdits
    PROVE  MemoryInv'
<1>1. MemoryTypeOK /\ memory \in Files
  BY DEF MemoryInv, MemoryTypeOK
<1>2. memory' = [memory EXCEPT !.own = memory.own + 1]
  BY DEF UserEdits
<1>3. memory' \in Files /\ memory'.entries = memory.entries
  BY <1>1, <1>2 DEF Files
<1>4. UNCHANGED <<told, ask, settlement, reply, gate, writing, skipped>>
  BY DEF UserEdits
<1>5. \E what \in DOMAIN spent : Spend(what)
  BY <1>1 DEF UserEdits, MemoryTypeOK
<1>6. \A w \in Writers : About(w)' = About(w) /\ Gives(w)' = Gives(w)
  BY <1>4 DEF About, Gives
<1>7. \A q \in Questions, says \in Answers : Passed(q, says)' => Passed(q, says)
  BY <1>4 DEF Passed
<1> QED
  BY <1>3, <1>4, <1>5, <1>6, <1>7, MemoryStays

LEMMA CrashRemembers ==
    ASSUME MemoryInv, QuestionInv', QuestionCrash
    PROVE  MemoryInv'
<1>1. QuestionInv /\ MemoryTypeOK
  BY DEF MemoryInv
<1>2. /\ ask' = [q \in Questions |-> IF AskAt(q, "ended") THEN ask[q] ELSE Away]
      /\ settlement' = [q \in Questions |-> [e \in 1..MaxAsks |-> "none"]]
      /\ reply' = [r \in Replies |-> IF reply[r].at \in Replied \union {"unsent"}
                                     THEN reply[r] ELSE [reply[r] EXCEPT !.at = "dropped"]]
      /\ writing' = [w \in Writers |-> Unread]
      /\ Spend("crash") /\ UNCHANGED <<told, memory, skipped>>
  BY DEF QuestionCrash
<1>3. \E what \in DOMAIN spent : Spend(what)
  BY <1>1, <1>2 DEF MemoryTypeOK
<1>4. MemoryTypeOK'
  <2>1. Unread \in [base : Files, of : Questions \union {"none"}, says : Answers \union {"none"}]
    BY DEF Unread, Blank, Files
  <2> QED
    BY <1>1, <1>2, <1>3, <2>1, SpentStays DEF MemoryTypeOK
<1>5. ASSUME NEW r \in Replies
      PROVE  reply'[r].of = reply[r].of /\ reply'[r].at # "settle"
  <2>1. reply[r] \in Requests
    BY <1>1 DEF QuestionInv, QuestionTypeOK
  <2> QED
    BY <1>2, <2>1 DEF Requests, Replied
<1>6. ASSUME Quiet' PROVE MemoryKept' /\ \A w \in Writers : WriteKept(w)'
  <2>1. Quiet
    BY <1>1, <1>2, <1>3, <1>5, <1>6, QuietBefore DEF QuestionInv, QuestionTypeOK
  <2>2. \A q \in Questions : ask'[q].at # "result"
    BY <1>2 DEF AskAt, Away
  <2>3. \A q \in Questions, says \in Answers : Passed(q, says)' => Passed(q, says)
    BY <1>2, <1>5, <2>2 DEF Passed
  <2>4. MemoryKept'
    BY <1>2, <2>1, <2>3 DEF MemoryInv, MemoryKept, ToBeRemembered
  <2>5. \A w \in Writers : WriteKept(w)'
    BY <1>2 DEF WriteKept, Unread, Blank
  <2> QED
    BY <2>4, <2>5
<1> QED
  BY <1>4, <1>6 DEF MemoryInv

LEMMA MemoryStep == MemoryInv /\ [QuestionNext]_questionVars => MemoryInv'
<1> SUFFICES ASSUME MemoryInv, [QuestionNext]_questionVars PROVE MemoryInv'
  OBVIOUS
<1>1. QuestionInv'
  BY QuestionStep DEF MemoryInv
<1>2. CASE \E q \in Questions : AskStep(q) \/ Detach(q) \/ AskFails(q) \/ Resume(q)
  BY <1>1, <1>2, AskStepRemembers, StopRemembers
<1>3. CASE \E r \in Replies : Respond(r) \/ ReplyStep(r) \/ ReplyFails(r) \/ Drop(r)
  BY <1>1, <1>3, ReplyStepRemembers, StopRemembers
<1>4. CASE \E w \in Writers : WriteStep(w) \/ WriteFails(w)
  BY <1>1, <1>4, StartWriteRemembers, WriteRemembers DEF WriteStep
<1>5. CASE UserEdits
  BY <1>1, <1>5, EditRemembers
<1>6. CASE QuestionCrash
  BY <1>1, <1>6, CrashRemembers
<1>7. CASE UNCHANGED questionVars
  BY <1>7 DEF questionVars, MemoryInv, QuestionInv, QuestionTypeOK, LogKept, AskKept, EntriesKept,
     ReplyKept, GateKept, WantsToWrite, About, Gives, ToBeRemembered, ReplyAt, Truthful, Raced,
     MemoryTypeOK, Quiet, MemoryKept, Passed, WriteKept
<1> QED
  BY <1>2, <1>3, <1>4, <1>5, <1>6, <1>7 DEF QuestionNext

\* An answer with a lasting destination that the model was told is in AGENTS.md, whoever
\* wrote it there, whatever other questions of the workspace write, and whatever crashes or
\* faults come between, unless a request skipped its append or somebody was stopped or
\* dropped (DurableQuestionHub::persist_agent_markdown).
THEOREM LastingAnswersAreKept == QuestionSpec => []Remembered
<1>1. MemoryInv => Remembered
  BY DEF MemoryInv, Remembered, Quiet, MemoryKept, Passed, ToBeRemembered
<1>2. QuestionSpec => []MemoryInv
  BY MemoryStart, MemoryStep, PTL DEF QuestionSpec
<1> QED
  BY <1>1, <1>2, PTL

===============================================================================
