-------------------------- MODULE DelegationProofs --------------------------
(***************************************************************************)
(* Delegation, for any children, forks, messages, limits and events: a     *)
(* settlement is told before it is marked and once, and a start runs its   *)
(* task once and within the limit.                                         *)
(***************************************************************************)
EXTENDS Delegation, FiniteSetTheorems, SequenceTheorems, WellFoundedInduction, TLAPS

USE DelegationAssumption DEF DelegationAssumption

Facts == [k : {"in", "turn", "end", "fail", "told", "failtold"}, m : Messages]
            \union [k : {"created", "delegated", "pause", "resume"}, m : {none}]

HostTypeOK ==
    /\ task \in [Sessions -> Sessions] /\ wait \subseteq Notices
    /\ op \in [Children -> {"idle", "describe", "deliver"}]
    /\ delegated \subseteq Sessions /\ running \subseteq Sessions
    /\ live \subseteq Sessions /\ follow \subseteq live
    /\ known \in [Sessions -> SUBSET Messages]
    /\ cursor \in [Sessions -> Nat]
    /\ batch \in Seq(Sessions \X Nat)
    /\ at \in Sessions \union {none} /\ todo \in Seq(Notices) /\ sent \in BOOLEAN
    /\ woken \subseteq Sessions /\ ran \in [Children -> Nat]
DelegationTypeOK ==
    /\ log \in [Sessions -> Seq(Facts)]
    /\ told \in [Notices -> Nat]
    /\ unsure \subseteq Notices \union Inputs /\ faulted \in [Notices \union Inputs -> Nat]
    /\ HostTypeOK

\* The turn a worker has in hand is one that the log leaves open.
LiveIsOpen == \A c \in live : Open(c) # none
\* What is about to be marked was told; between two visits nothing is.
Telling ==
    /\ sent => todo # <<>> /\ told[Head(todo)] > 0
    /\ at = none => todo = <<>>

NoticeInv ==
    /\ DelegationTypeOK /\ LiveIsOpen /\ Telling
    /\ MarkedWereTold /\ ToldOnce
    /\ \A n \in Notices : ~Told(n) => told[n] <= faulted[n]

\* Facts that start or end no turn and mark nothing, and a step that logs only such.
Plain == {f \in Facts : f.k \notin {"turn", "end", "told", "failtold"}}
Quiet == log' = log \/ \E c \in Sessions, s \in Seq(Plain) : Log(c, s)

\* Who runs because it was started, and the start under way.
Started == (running \intersect delegated) \ woken
StartInv ==
    /\ \A c, d \in Children : op[c] # "idle" /\ op[d] # "idle" => c = d
    /\ StartsFit
    /\ \A c \in Children \ woken : op[c] # "idle" => Cardinality(Started \ {c}) < RunLimit

\* How often a task was given to a child, and run by it: every time but the one
\* that the host knows of, its admission failed.
Asked(c) == Count(c, Fact("in", initial))
Begun(c) == Count(c, Fact("turn", initial))
Given(c) == IF Known(c, initial) THEN 1 ELSE 0
TaskInv ==
    /\ task = [c \in Sessions |-> c]
    /\ \A c \in Children : /\ ran[c] = Begun(c) /\ Begun(c) <= Asked(c)
                           /\ Asked(c) <= faulted[Input(c, initial)] + Given(c)

--------------------------------------------------------------------------------
(* Logs *)

LEMMA LeastOf ==
    ASSUME NEW S \in SUBSET Nat, S # {}
    PROVE  \E m \in S : \A n \in S : m <= n
<1>1. PICK m \in S : \A n \in S : ~ (<<n, m>> \in OpToRel(<, Nat))
  BY NatLessThanWellFounded, WFMin
<1>2. \A n \in S : ~ (n < m)
  BY <1>1 DEF OpToRel
<1> QED
  BY <1>2

LEMMA FactsOf ==
    /\ \A m \in Messages : Fact("in", m) \in Plain /\ Fact("fail", m) \in Plain
                           /\ Fact("turn", m) \in Facts /\ Fact("end", m) \in Facts
                           /\ Fact("told", m) \in Facts /\ Fact("failtold", m) \in Facts
    /\ Fact("created", none) \in Plain /\ Fact("delegated", none) \in Plain
    /\ Fact("pause", none) \in Plain /\ Fact("resume", none) \in Plain
    /\ \A f \in Facts : f.k \in {"in", "turn", "end", "fail", "told", "failtold"} => f.m \in Messages
BY DEF Facts, Plain, Fact

LEMMA Logged ==
    ASSUME log \in [Sessions -> Seq(Facts)], NEW c \in Sessions, NEW s \in Seq(Facts), Log(c, s)
    PROVE  /\ log' \in [Sessions -> Seq(Facts)]
           /\ log'[c] = log[c] \o s
           /\ \A d \in Sessions : d # c => log'[d] = log[d]
           /\ Len(log'[c]) = Len(log[c]) + Len(s)
           /\ \A i \in 1..Len(log[c]) : log'[c][i] = log[c][i]
           /\ \A i \in 1..Len(s) : log'[c][Len(log[c]) + i] = s[i]
<1>1. log[c] \in Seq(Facts)
  OBVIOUS
<1>2. log' = [log EXCEPT ![c] = log[c] \o s]
  BY DEF Log
<1>3. log[c] \o s \in Seq(Facts) /\ Len(log[c] \o s) = Len(log[c]) + Len(s)
  BY <1>1, ConcatProperties
<1>4. \A i \in 1..Len(log[c]) : (log[c] \o s)[i] = log[c][i]
  BY <1>1, ConcatProperties
<1>5. \A i \in 1..Len(s) : (log[c] \o s)[Len(log[c]) + i] = s[i]
  <2>1. ASSUME NEW i \in 1..Len(s) PROVE (log[c] \o s)[Len(log[c]) + i] = s[i]
    <3>1. Len(log[c]) \in Nat /\ Len(s) \in Nat
      BY <1>1
    <3>2. Len(log[c]) + i \in 1..(Len(log[c]) + Len(s)) /\ ~(Len(log[c]) + i <= Len(log[c]))
      BY <3>1
    <3>3. (log[c] \o s)[Len(log[c]) + i] = s[(Len(log[c]) + i) - Len(log[c])]
      BY <1>1, <3>2, ConcatProperties
    <3> QED
      BY <3>1, <3>3
  <2> QED
    BY <2>1
<1> QED
  BY <1>2, <1>3, <1>4, <1>5

\* The turn a list of facts leaves open.
OpenAt(l)  == {i \in DOMAIN l : l[i].k = "turn" /\ \A j \in (i + 1)..Len(l) : l[j].k \notin {"turn", "end"}}
OpenIn(l)  == IF OpenAt(l) = {} THEN none ELSE l[CHOOSE i \in OpenAt(l) : TRUE].m

LEMMA OpenIsIn ==
    ASSUME NEW c \in Sessions
    PROVE  Open(c) = OpenIn(log[c]) /\ Open(c)' = OpenIn(log'[c])
BY DEF Open, Rests, OpenIn, OpenAt

LEMMA OpenTyped ==
    ASSUME NEW l \in Seq(Facts)
    PROVE  /\ OpenIn(l) \in Messages \union {none}
           /\ OpenIn(l) # none <=>
                \E i \in 1..Len(l) : l[i].k = "turn" /\ \A j \in (i + 1)..Len(l) : l[j].k \notin {"turn", "end"}
<1>1. CASE OpenAt(l) = {}
  BY <1>1 DEF OpenIn, OpenAt
<1>2. CASE OpenAt(l) # {}
  <2>1. PICK i : i = CHOOSE o \in OpenAt(l) : TRUE
    OBVIOUS
  <2>2. i \in OpenAt(l)
    BY <1>2, <2>1
  <2>3. i \in 1..Len(l) /\ l[i].k = "turn" /\ OpenIn(l) = l[i].m
    BY <1>2, <2>1, <2>2 DEF OpenIn, OpenAt
  <2>4. l[i].m \in Messages
    BY <2>3, FactsOf
  <2> QED
    BY <2>2, <2>3, <2>4 DEF OpenAt
<1> QED
  BY <1>1, <1>2

\* What a log leaves open stays open when plain facts are appended.
LEMMA OpensStay ==
    ASSUME log \in [Sessions -> Seq(Facts)], Quiet, NEW d \in Sessions, Open(d) # none
    PROVE  log' \in [Sessions -> Seq(Facts)] /\ Open(d)' # none
<1>1. CASE log' = log
  BY <1>1, OpenIsIn
<1>2. CASE \E c \in Sessions, s \in Seq(Plain) : Log(c, s)
  <2>1. PICK c \in Sessions, s \in Seq(Plain) : Log(c, s)
    BY <1>2
  <2>2. s \in Seq(Facts) /\ \A i \in 1..Len(s) : s[i].k \notin {"turn", "end"}
    BY DEF Plain
  <2>3. PICK i \in 1..Len(log[d]) :
            log[d][i].k = "turn" /\ \A j \in (i + 1)..Len(log[d]) : log[d][j].k \notin {"turn", "end"}
    BY OpenTyped, OpenIsIn
  <2>4. log[d] \in Seq(Facts) /\ Len(log[d]) \in Nat /\ log[c] \in Seq(Facts) /\ Len(log[c]) \in Nat /\ Len(s) \in Nat
    BY <2>2
  <2>5. log' \in [Sessions -> Seq(Facts)]
    BY <2>1, <2>2, Logged
  <2>6. CASE d # c
    <3>1. log'[d] = log[d]
      BY <2>1, <2>2, <2>6, Logged
    <3> QED
      BY <2>5, <3>1, OpenIsIn
  <2>7. CASE d = c
    <3>1. /\ Len(log'[d]) = Len(log[d]) + Len(s)
          /\ \A j \in 1..Len(log[d]) : log'[d][j] = log[d][j]
          /\ \A j \in 1..Len(s) : log'[d][Len(log[d]) + j] = s[j]
      BY <2>1, <2>2, <2>7, Logged
    <3>2. ASSUME NEW j \in (i + 1)..Len(log'[d]) PROVE log'[d][j].k \notin {"turn", "end"}
      <4>1. CASE j <= Len(log[d])
        <5>1. j \in (i + 1)..Len(log[d]) /\ j \in 1..Len(log[d])
          BY <2>4, <3>1, <4>1
        <5> QED
          BY <2>3, <3>1, <5>1
      <4>2. CASE ~(j <= Len(log[d]))
        <5>1. j - Len(log[d]) \in 1..Len(s) /\ Len(log[d]) + (j - Len(log[d])) = j
          BY <2>4, <3>1, <4>2
        <5> QED
          BY <2>2, <3>1, <5>1
      <4> QED
        BY <4>1, <4>2
    <3>3. i \in 1..Len(log'[d]) /\ log'[d][i].k = "turn"
      BY <2>3, <2>4, <3>1
    <3>4. Open(d)' # none
      BY <2>5, <3>2, <3>3, OpenTyped, OpenIsIn
    <3> QED
      BY <2>5, <3>4
  <2> QED
    BY <2>6, <2>7
<1> QED
  BY <1>1, <1>2 DEF Quiet

\* The facts of a log that grew are its old ones and the ones appended.
LEMMA FactsLogged ==
    ASSUME log \in [Sessions -> Seq(Facts)], NEW c \in Sessions, NEW s \in Seq(Facts), Log(c, s)
    PROVE  /\ ToSet(log'[c]) = ToSet(log[c]) \union ToSet(s)
           /\ \A d \in Sessions : d # c => log'[d] = log[d]
<1>1. /\ log[c] \in Seq(Facts) /\ log'[c] \in Seq(Facts)
      /\ Len(log'[c]) = Len(log[c]) + Len(s)
      /\ \A i \in 1..Len(log[c]) : log'[c][i] = log[c][i]
      /\ \A i \in 1..Len(s) : log'[c][Len(log[c]) + i] = s[i]
      /\ \A d \in Sessions : d # c => log'[d] = log[d]
  BY Logged
<1>2. Len(log[c]) \in Nat /\ Len(s) \in Nat
      /\ DOMAIN log'[c] = 1..Len(log'[c]) /\ DOMAIN log[c] = 1..Len(log[c]) /\ DOMAIN s = 1..Len(s)
  BY <1>1
<1>3. ASSUME NEW f \in ToSet(log'[c]) PROVE f \in ToSet(log[c]) \union ToSet(s)
  <2>1. PICK i \in 1..Len(log'[c]) : f = log'[c][i]
    BY <1>2 DEF ToSet
  <2>2. CASE i <= Len(log[c])
    <3>1. i \in 1..Len(log[c])
      BY <1>2, <2>1, <2>2
    <3>2. f = log[c][i]
      BY <1>1, <2>1, <3>1
    <3> QED
      BY <1>2, <3>1, <3>2 DEF ToSet
  <2>3. CASE ~(i <= Len(log[c]))
    <3>1. i - Len(log[c]) \in 1..Len(s) /\ Len(log[c]) + (i - Len(log[c])) = i
      BY <1>1, <1>2, <2>3
    <3>2. f = s[i - Len(log[c])]
      BY <1>1, <2>1, <3>1
    <3> QED
      BY <1>2, <3>1, <3>2 DEF ToSet
  <2> QED
    BY <2>2, <2>3
<1>4. ASSUME NEW f \in ToSet(log[c]) PROVE f \in ToSet(log'[c])
  <2>1. PICK i \in 1..Len(log[c]) : f = log[c][i]
    BY <1>2 DEF ToSet
  <2>2. i \in 1..Len(log'[c]) /\ f = log'[c][i]
    BY <1>1, <1>2, <2>1
  <2> QED
    BY <1>2, <2>2 DEF ToSet
<1>5. ASSUME NEW f \in ToSet(s) PROVE f \in ToSet(log'[c])
  <2>1. PICK i \in 1..Len(s) : f = s[i]
    BY <1>2 DEF ToSet
  <2>2. Len(log[c]) + i \in 1..Len(log'[c]) /\ f = log'[c][Len(log[c]) + i]
    BY <1>1, <1>2, <2>1
  <2> QED
    BY <1>2, <2>2 DEF ToSet
<1> QED
  BY <1>1, <1>3, <1>4, <1>5

\* What is marked as told was told, whatever plain facts are appended.
LEMMA MarksStay ==
    ASSUME log \in [Sessions -> Seq(Facts)], Quiet, told' = told, MarkedWereTold
    PROVE  MarkedWereTold'
<1>1. CASE log' = log
  BY <1>1 DEF MarkedWereTold, Logs
<1>2. CASE \E c \in Sessions, s \in Seq(Plain) : Log(c, s)
  <2>1. PICK c \in Sessions, s \in Seq(Plain) : Log(c, s)
    BY <1>2
  <2>2. s \in Seq(Facts) /\ \A f \in ToSet(s) : f.k \notin {"told", "failtold"}
    BY DEF Plain, ToSet
  <2>3. ASSUME NEW d \in Children, NEW f \in ToSet(log'[d]), f.k \in {"told", "failtold"}
        PROVE  f \in ToSet(log[d])
    BY <2>1, <2>2, <2>3, FactsLogged DEF Sessions
  <2> QED
    BY <2>3 DEF MarkedWereTold, Logs, Fact
<1> QED
  BY <1>1, <1>2 DEF Quiet

LEMMA CountsAre ==
    ASSUME log \in [Sessions -> Seq(Facts)], NEW c \in Sessions, NEW f
    PROVE  /\ IsFiniteSet({i \in DOMAIN log[c] : log[c][i] = f})
           /\ Count(c, f) \in Nat
           /\ Count(c, f) > 0 => \E i \in 1..Len(log[c]) : log[c][i] = f
<1> DEFINE S == {i \in DOMAIN log[c] : log[c][i] = f}
<1>1. DOMAIN log[c] = 1..Len(log[c]) /\ Len(log[c]) \in Nat
  OBVIOUS
<1>2. IsFiniteSet(1..Len(log[c])) /\ S \subseteq 1..Len(log[c])
  BY <1>1, FS_Interval
<1>3. IsFiniteSet(S)
  BY <1>2, FS_Subset
<1>4. Cardinality(S) \in Nat /\ (Cardinality(S) # 0 => S # {})
  BY <1>3, FS_CardinalityType, FS_EmptySet
<1>5. Count(c, f) = Cardinality(S)
  BY DEF Count
<1> HIDE DEF S
<1>6. Count(c, f) > 0 => S # {}
  BY <1>4, <1>5
<1> QED
  BY <1>1, <1>3, <1>4, <1>5, <1>6 DEF S

\* The input a worker or a driver takes next is one that waits.
LEMMA NextWaits ==
    ASSUME log \in [Sessions -> Seq(Facts)], NEW c \in Sessions, NEW W \in SUBSET Pending(c), W # {}
    PROVE  First(c, W) \in W /\ First(c, W) \in Messages
<1> DEFINE waits(i) == log[c][i].k = "in" /\ log[c][i].m \in W
           P(i) == waits(i) /\ \A j \in 1..(i - 1) : ~waits(j)
           S == {i \in DOMAIN log[c] : waits(i)}
<1>1. DOMAIN log[c] = 1..Len(log[c]) /\ Len(log[c]) \in Nat
  OBVIOUS
<1>2. PICK m \in Messages : m \in W /\ Count(c, Fact("in", m)) > Count(c, Fact("turn", m))
  BY DEF Pending
<1>3. Count(c, Fact("in", m)) \in Nat /\ Count(c, Fact("turn", m)) \in Nat
  BY CountsAre
<1>4. Count(c, Fact("in", m)) > 0
  BY <1>2, <1>3
<1>5. PICK i \in 1..Len(log[c]) : log[c][i] = Fact("in", m)
  BY <1>4, CountsAre
<1>6. waits(i)
  BY <1>2, <1>5 DEF Fact
<1>7. S # {} /\ S \in SUBSET Nat
  BY <1>1, <1>5, <1>6
<1>8. PICK l \in S : \A n \in S : l <= n
  <2> HIDE DEF S
  <2> QED
    BY <1>7, LeastOf
<1>9. l \in DOMAIN log[c] /\ P(l)
  <2>1. l \in 1..Len(log[c]) /\ waits(l)
    BY <1>1, <1>8
  <2>2. ASSUME NEW j \in 1..(l - 1) PROVE ~waits(j)
    <3>1. j \in 1..Len(log[c]) /\ ~(l <= j)
      BY <1>1, <2>1
    <3>2. j \notin S
      BY <1>8, <3>1
    <3> QED
      BY <1>1, <3>1, <3>2
  <2> QED
    BY <1>1, <2>1, <2>2
<1> DEFINE k == CHOOSE o \in DOMAIN log[c] : P(o)
<1>10. P(k)
  BY <1>9
<1>11. First(c, W) = log[c][k].m
  BY DEF First
<1> HIDE DEF k
<1> QED
  BY <1>10, <1>11 DEF Pending

--------------------------------------------------------------------------------
(* What a visit finds, and the children of a tick *)

\* u lists, for every length up to n, the settlements of kind k found unmarked.
Found(u, c, k, n) ==
    u = [i \in 0..n |-> IF i = 0 THEN <<>>
            ELSE IF log[c][i].k = k /\ ~Logs(c, Marker(Notice(c, k, none)), log[c][i].m)
            THEN Append(u[i - 1], Notice(c, k, log[c][i].m)) ELSE u[i - 1]]

LEMMA FoundExists ==
    ASSUME log \in [Sessions -> Seq(Facts)], NEW c \in Sessions, NEW k, NEW n \in Nat
    PROVE  \E u : Found(u, c, k, n)
<1> DEFINE S == {p \in Nat : ~ \E u : Found(u, c, k, p)}
<1>1. ASSUME S # {} PROVE FALSE
  <2>1. PICK p \in S : \A q \in S : p <= q
    <3>1. S \in SUBSET Nat
      OBVIOUS
    <3> HIDE DEF S
    <3> QED
      BY <1>1, <3>1, LeastOf
  <2>2. CASE p = 0
    <3>1. Found([i \in 0..0 |-> <<>>], c, k, 0)
      BY DEF Found
    <3> QED
      BY <2>1, <2>2, <3>1
  <2>3. CASE p # 0
    <3>1. p - 1 \in Nat /\ p - 1 \notin S
      <4>1. p \in Nat
        BY <2>1
      <4> HIDE DEF S
      <4> QED
        BY <2>1, <2>3, <4>1
    <3>2. PICK u : Found(u, c, k, p - 1)
      BY <3>1
    <3> DEFINE due(i) == log[c][i].k = k /\ ~Logs(c, Marker(Notice(c, k, none)), log[c][i].m)
               last == IF due(p) THEN Append(u[p - 1], Notice(c, k, log[c][p].m)) ELSE u[p - 1]
               w == [i \in 0..p |-> IF i = p THEN last ELSE u[i]]
    <3>3. p \in Nat /\ \A i \in 0..p : w[i] = IF i = p THEN last ELSE u[i]
      BY <2>1
    <3>4. \A i \in 0..(p - 1) : u[i] = IF i = 0 THEN <<>>
                   ELSE IF due(i) THEN Append(u[i - 1], Notice(c, k, log[c][i].m)) ELSE u[i - 1]
      BY <3>2 DEF Found
    <3>5. DOMAIN w = 0..p /\ w = [i \in 0..p |-> w[i]]
      OBVIOUS
    <3> HIDE DEF last, w, due
    <3>6. ASSUME NEW i \in 0..p
          PROVE  w[i] = IF i = 0 THEN <<>>
                        ELSE IF due(i) THEN Append(w[i - 1], Notice(c, k, log[c][i].m)) ELSE w[i - 1]
      <4>1. CASE i # p
        <5>1. i \in 0..(p - 1) /\ (i # 0 => i - 1 \in 0..p /\ i - 1 # p)
          BY <3>3, <4>1
        <5> QED
          BY <3>3, <3>4, <4>1, <5>1
      <4>2. CASE i = p
        <5>1. p \in 0..p /\ p - 1 \in 0..p /\ p - 1 # p
          BY <2>3, <3>3
        <5>2. w[p] = last /\ w[p - 1] = u[p - 1]
          BY <3>3, <5>1
        <5> QED
          BY <2>3, <4>2, <5>2 DEF last
      <4> QED
        BY <4>1, <4>2
    <3>7. w = [i \in 0..p |-> IF i = 0 THEN <<>>
                  ELSE IF due(i) THEN Append(w[i - 1], Notice(c, k, log[c][i].m)) ELSE w[i - 1]]
      BY <3>5, <3>6, Zenon
    <3>8. Found(w, c, k, p)
      BY <3>7 DEF Found, due
    <3> QED
      BY <2>1, <3>8
  <2> QED
    BY <2>2, <2>3
<1>2. n \notin S
  BY <1>1
<1> QED
  BY <1>2

LEMMA FoundTyped ==
    ASSUME log \in [Sessions -> Seq(Facts)], NEW c \in Sessions, NEW k \in {"end", "fail"},
           NEW u, Found(u, c, k, Len(log[c]))
    PROVE  u[Len(log[c])] \in Seq(Notices)
<1>0. log[c] \in Seq(Facts) /\ Len(log[c]) \in Nat
  OBVIOUS
<1> DEFINE S == {p \in 0..Len(log[c]) : u[p] \notin Seq(Notices)}
           due(i) == log[c][i].k = k /\ ~Logs(c, Marker(Notice(c, k, none)), log[c][i].m)
<1>1. ASSUME S # {} PROVE FALSE
  <2>1. PICK p \in S : \A q \in S : p <= q
    <3>1. S \in SUBSET Nat
      BY <1>0
    <3> HIDE DEF S
    <3> QED
      BY <1>1, <3>1, LeastOf
  <2>2. \A i \in 0..Len(log[c]) : u[i] = IF i = 0 THEN <<>>
                   ELSE IF due(i) THEN Append(u[i - 1], Notice(c, k, log[c][i].m)) ELSE u[i - 1]
    BY DEF Found
  <2>3. p # 0
    <3>1. u[0] = <<>> /\ <<>> \in Seq(Notices)
      BY <1>0, <2>2, EmptySeq
    <3> QED
      BY <2>1, <3>1
  <2>4. p \in 1..Len(log[c]) /\ u[p - 1] \in Seq(Notices)
    BY <1>0, <2>1, <2>3
  <2>5. due(p) => Notice(c, k, log[c][p].m) \in Notices
    <3>1. log[c][p] \in Facts
      BY <1>0, <2>4
    <3>2. log[c][p].k = k => log[c][p].m \in Messages
      BY <3>1, FactsOf
    <3> QED
      BY <3>2 DEF Notice, Notices
  <2>6. u[p] = IF due(p) THEN Append(u[p - 1], Notice(c, k, log[c][p].m)) ELSE u[p - 1]
    BY <1>0, <2>2, <2>4
  <2> HIDE DEF due
  <2>7. u[p] \in Seq(Notices)
    BY <2>4, <2>5, <2>6
  <2> QED
    BY <2>1, <2>7
<1> QED
  BY <1>0, <1>1

LEMMA UnmarkedTyped ==
    ASSUME log \in [Sessions -> Seq(Facts)], NEW c \in Sessions
    PROVE  Unmarked(c) \in Seq(Notices)
<1> DEFINE upto(k) == CHOOSE u : u =
                [i \in 0..Len(log[c]) |-> IF i = 0 THEN <<>>
                    ELSE IF log[c][i].k = k /\ ~Logs(c, Marker(Notice(c, k, none)), log[c][i].m)
                    THEN Append(u[i - 1], Notice(c, k, log[c][i].m)) ELSE u[i - 1]]
<1>1. Len(log[c]) \in Nat
  OBVIOUS
<1>2. ASSUME NEW k \in {"end", "fail"} PROVE upto(k)[Len(log[c])] \in Seq(Notices)
  <2>1. PICK u : Found(u, c, k, Len(log[c]))
    BY <1>1, FoundExists
  <2>2. Found(upto(k), c, k, Len(log[c]))
    BY <2>1 DEF Found
  <2> HIDE DEF upto
  <2> QED
    BY <2>2, FoundTyped
<1>3. Unmarked(c) = upto("end")[Len(log[c])] \o upto("fail")[Len(log[c])]
  BY DEF Unmarked
<1> HIDE DEF upto
<1> QED
  BY <1>2, <1>3, ConcatProperties

LEMMA BatchTyped ==
    ASSUME cursor \in [Sessions -> Nat]
    PROVE  SetToSeq({<<c, cursor[c]>> : c \in {d \in Sessions : Changed(d)}}) \in Seq(Sessions \X Nat)
<1> DEFINE D == {d \in Sessions : Changed(d)}
           S == {<<c, cursor[c]>> : c \in D}
<1>1. IsFiniteSet(D)
  BY FS_Subset
<1>2. IsFiniteSet(S)
  <2> DEFINE F == [c \in D |-> <<c, cursor[c]>>]
  <2>1. F \in Surjection(D, S)
    BY DEF Surjection
  <2> QED
    BY <1>1, <2>1, FS_Surjection
<1>3. S \subseteq Sessions \X Nat
  BY DEF Changed
<1> HIDE DEF S
<1>4. PICK n \in Nat : ExistsBijection(1..n, S)
  BY <1>2, FS_NatBijection
<1>5. Cardinality(S) = n
  BY <1>4, FS_CountingElements
<1>6. PICK f \in [1..Cardinality(S) -> S] : IsInjective(f)
  BY <1>4, <1>5 DEF ExistsBijection, Bijection, Injection
<1>7. SetToSeq(S) \in [1..Cardinality(S) -> S]
  BY <1>6 DEF SetToSeq
<1>8. SetToSeq(S) \in Seq(S)
  BY <1>4, <1>5, <1>7
<1>9. SetToSeq(S) \in Seq(Sessions \X Nat)
  BY <1>3, <1>8
<1> QED
  BY <1>9 DEF S

--------------------------------------------------------------------------------
(* A settlement is told once and then marked *)

\* A step by which no admission of a notice fails.
Spared ==
    /\ faulted' \in [Notices \union Inputs -> Nat] /\ unsure' \subseteq Notices \union Inputs
    /\ \A n \in Notices : faulted'[n] = faulted[n] /\ (n \in unsure' => n \in unsure)

LEMMA Spares ==
    ASSUME NoticeInv, faulted' = faulted, unsure' \subseteq unsure
    PROVE  Spared
BY DEF Spared, NoticeInv, DelegationTypeOK

\* A step that tells nothing, starts or ends no turn and marks nothing.
LEMMA Quietly ==
    ASSUME NoticeInv, Quiet, HostTypeOK', Telling', told' = told, Spared,
           \A d \in live' : d \in Sessions /\ Open(d) # none
    PROVE  NoticeInv'
<1>1. log' \in [Sessions -> Seq(Facts)]
  <2>1. CASE log' = log
    BY <2>1 DEF NoticeInv, DelegationTypeOK
  <2>2. CASE \E c \in Sessions, s \in Seq(Plain) : Log(c, s)
    <3>1. PICK c \in Sessions, s \in Seq(Plain) : Log(c, s)
      BY <2>2
    <3>2. s \in Seq(Facts)
      BY DEF Plain
    <3> QED
      BY <3>1, <3>2, Logged DEF NoticeInv, DelegationTypeOK
  <2> QED
    BY <2>1, <2>2 DEF Quiet
<1>2. DelegationTypeOK'
  BY <1>1 DEF NoticeInv, DelegationTypeOK, Spared
<1>3. \A d \in live' : Open(d)' # none
  BY OpensStay DEF NoticeInv, DelegationTypeOK
<1>4. MarkedWereTold'
  BY MarksStay DEF NoticeInv, DelegationTypeOK
<1>5. ToldOnce' /\ \A n \in Notices : ~Told(n)' => told'[n] <= faulted'[n]
  BY DEF NoticeInv, ToldOnce, Told, Spared
<1> QED
  BY <1>2, <1>3, <1>4, <1>5 DEF NoticeInv, LiveIsOpen

LEMMA OneFact ==
    /\ \A f \in Plain : <<f>> \in Seq(Plain)
    /\ \A f, g \in Plain : <<f, g>> \in Seq(Plain)
    /\ \A f \in Facts : <<f>> \in Seq(Facts) /\ Len(<<f>>) = 1 /\ <<f>>[1] = f
OBVIOUS

\* A commit of plain facts.
LEMMA Commits ==
    ASSUME NoticeInv, NEW c \in Sessions, NEW s \in Seq(Plain), Commit(c, s)
    PROVE  Quiet /\ cursor' \in [Sessions -> Nat]
<1>1. Len(log[c]) + Len(s) \in Nat
  BY DEF NoticeInv, DelegationTypeOK
<1>2. cursor' = [cursor EXCEPT ![c] = Len(log[c]) + Len(s)] /\ cursor \in [Sessions -> Nat]
  BY DEF Commit, NoticeInv, DelegationTypeOK, HostTypeOK
<1>3. cursor' \in [Sessions -> Nat]
  BY <1>1, <1>2
<1> QED
  BY <1>3 DEF Commit, Quiet

LEMMA InputsAre ==
    ASSUME NEW c \in Sessions, NEW m \in Messages
    PROVE  /\ Input(c, m) \in Inputs /\ Input(c, m) \notin Notices
           /\ \A d \in Sessions, x \in Messages : Input(c, m) = Input(d, x) => c = d /\ m = x
BY DEF Input, Notice, Inputs, Notices

LEMMA LearnsAre ==
    ASSUME NoticeInv, NEW c \in Sessions, NEW m \in Messages, Learns(c, m), faulted' = faulted
    PROVE  /\ known' \in [Sessions -> SUBSET Messages] /\ Spared
           /\ \A d \in Sessions : known[d] \subseteq known'[d]
           /\ m \in known'[c] /\ unsure' = unsure \ {Input(c, m)}
<1>1. known \in [Sessions -> SUBSET Messages]
  BY DEF NoticeInv, DelegationTypeOK, HostTypeOK
<1>2. known' = [known EXCEPT ![c] = @ \union {m}] /\ unsure' = unsure \ {Input(c, m)}
  BY DEF Learns
<1> QED
  BY <1>1, <1>2, Spares

\* What a session may do when it receives an input.
LEMMA Receives ==
    ASSUME NoticeInv, NEW c \in Sessions, NEW m \in Messages, Receive(c, m), faulted' = faulted
    PROVE  /\ Quiet /\ cursor' \in [Sessions -> Nat]
           /\ known' \in [Sessions -> SUBSET Messages] /\ Spared
           /\ running' \subseteq running \union {c}
           /\ Known(c, m) => running' = running
<1>1. CASE Known(c, m)
  BY <1>1, Spares DEF Receive, Quiet, NoticeInv, DelegationTypeOK, HostTypeOK
<1>2. CASE ~Known(c, m)
  <2>1. Commit(c, <<Fact("in", m)>>) /\ <<Fact("in", m)>> \in Seq(Plain)
    BY <1>2, FactsOf, OneFact DEF Receive
  <2>2. Quiet /\ cursor' \in [Sessions -> Nat]
    BY <2>1, Commits
  <2>3. Learns(c, m) /\ running' = IF Paused(c) THEN running ELSE running \union {c}
    BY <1>2 DEF Receive
  <2> QED
    BY <1>2, <2>2, <2>3, LearnsAre
<1> QED
  BY <1>1, <1>2

\* What its inbox is given by an admission that fails.
LEMMA SlipsAre ==
    ASSUME NoticeInv, NEW c \in Sessions, NEW m \in Messages, Slips(c, m)
    PROVE  /\ known' \in [Sessions -> SUBSET Messages] /\ Spared /\ running' = running
           /\ \A d \in Sessions : known[d] \subseteq known'[d]
           /\ ~Known(c, m) /\ unsure' = unsure \union {Input(c, m)}
           /\ faulted' = [faulted EXCEPT ![Input(c, m)] = @ + 1]
<1>1. known \in [Sessions -> SUBSET Messages] /\ faulted \in [Notices \union Inputs -> Nat]
      /\ unsure \subseteq Notices \union Inputs
  BY DEF NoticeInv, DelegationTypeOK, HostTypeOK
<1>2. /\ known' = [known EXCEPT ![c] = @ \union {m}] /\ unsure' = unsure \union {Input(c, m)}
      /\ faulted' = [faulted EXCEPT ![Input(c, m)] = @ + 1] /\ running' = running /\ ~Known(c, m)
  BY DEF Slips
<1>3. PICK i : i = Input(c, m)
  OBVIOUS
<1>4. i \in Inputs /\ i \notin Notices
  BY <1>3, InputsAre
<1>5. Spared
  BY <1>1, <1>2, <1>3, <1>4 DEF Spared
<1> QED
  BY <1>1, <1>2, <1>5

LEMMA Writes ==
    ASSUME NoticeInv, NEW c \in Sessions, NEW s \in Seq(Plain), Log(c, s)
    PROVE  Quiet
BY DEF Quiet

LEMMA NoticeStarts ==
    ASSUME NoticeInv, NEW c \in Children, Start(c) \/ Describe(c) \/ Deliver(c)
    PROVE  NoticeInv'
<1>0. c \in Sessions
  BY DEF Sessions
<1>1. CASE Start(c)
  <2>1. Quiet /\ cursor' \in [Sessions -> Nat]
    <3>1. CASE log' = log /\ cursor' = cursor
      BY <3>1 DEF Quiet, NoticeInv, DelegationTypeOK, HostTypeOK
    <3>2. CASE Commit(c, <<Fact("created", none)>>)
      <4>1. <<Fact("created", none)>> \in Seq(Plain)
        BY FactsOf, OneFact
      <4> QED
        BY <1>0, <3>2, <4>1, Commits
    <3> QED
      BY <1>1, <3>1, <3>2 DEF Start
  <2>2. HostTypeOK' /\ Telling' /\ live' = live /\ told' = told /\ faulted' = faulted /\ unsure' = unsure
    BY <1>1, <2>1 DEF Start, parent, listener, NoticeInv, DelegationTypeOK, HostTypeOK, Telling, Sessions
  <2> QED
    BY <2>1, <2>2, Spares, Quietly DEF NoticeInv, LiveIsOpen, DelegationTypeOK, HostTypeOK
<1>2. CASE Describe(c)
  <2>1. Commit(c, <<Fact("delegated", none)>>) /\ <<Fact("delegated", none)>> \in Seq(Plain)
    BY <1>2, FactsOf, OneFact DEF Describe
  <2>2. Quiet /\ cursor' \in [Sessions -> Nat]
    BY <1>0, <2>1, Commits
  <2>3. HostTypeOK' /\ Telling' /\ live' = live /\ told' = told /\ faulted' = faulted /\ unsure' = unsure
    BY <1>0, <1>2, <2>2 DEF Describe, parent, listener, ghosts, NoticeInv, DelegationTypeOK, HostTypeOK, Telling
  <2> QED
    BY <2>2, <2>3, Spares, Quietly DEF NoticeInv, LiveIsOpen, DelegationTypeOK, HostTypeOK
<1>3. CASE Deliver(c)
  <2>0. initial \in Messages
    BY DEF Messages
  <2>1. /\ Quiet /\ cursor' \in [Sessions -> Nat] /\ known' \in [Sessions -> SUBSET Messages]
        /\ running' \subseteq Sessions /\ Spared
    <3>1. CASE Receive(c, initial) /\ faulted' = faulted
      BY <1>0, <2>0, <3>1, Receives DEF NoticeInv, DelegationTypeOK, HostTypeOK
    <3>2. CASE UNCHANGED <<log, cursor, known, unsure, running, faulted>>
      BY <3>2, Spares DEF Quiet, NoticeInv, DelegationTypeOK, HostTypeOK
    <3>3. CASE Slips(c, initial) /\ Log(c, <<Fact("in", initial)>>) /\ cursor' = cursor
      <4>1. <<Fact("in", initial)>> \in Seq(Plain)
        BY <2>0, FactsOf, OneFact
      <4>2. Quiet
        BY <1>0, <3>3, <4>1, Writes
      <4> QED
        BY <1>0, <2>0, <3>3, <4>2, SlipsAre DEF NoticeInv, DelegationTypeOK, HostTypeOK
    <3> QED
      BY <1>3, <3>1, <3>2, <3>3 DEF Deliver
  <2>2. HostTypeOK' /\ Telling' /\ live' = live /\ told' = told
    BY <1>3, <2>1 DEF Deliver, parent, listener, NoticeInv, DelegationTypeOK, HostTypeOK, Telling
  <2> QED
    BY <2>1, <2>2, Quietly DEF NoticeInv, LiveIsOpen, DelegationTypeOK, HostTypeOK
<1> QED
  BY <1>1, <1>2, <1>3

LEMMA NoticeSends ==
    ASSUME NoticeInv, NEW c \in Sessions, NEW m \in Sends, Send(c, m) \/ Prompt(c, m)
    PROVE  NoticeInv'
<1>1. m \in Messages
  BY DEF Messages
<1>2. CASE Send(c, m)
  <2>1. /\ Quiet /\ cursor' \in [Sessions -> Nat] /\ known' \in [Sessions -> SUBSET Messages]
        /\ running' \subseteq Sessions /\ woken' \subseteq Sessions /\ Spared
    <3>1. CASE Receive(c, m) /\ woken' = woken \union {c} /\ faulted' = faulted
      BY <1>1, <3>1, Receives DEF NoticeInv, DelegationTypeOK, HostTypeOK
    <3>2. CASE Learns(c, m) /\ UNCHANGED <<log, cursor, running, woken, faulted>>
      BY <1>1, <3>2, LearnsAre DEF Quiet, NoticeInv, DelegationTypeOK, HostTypeOK
    <3>3. CASE Slips(c, m) /\ Log(c, <<Fact("in", m)>>) /\ UNCHANGED <<cursor, woken>>
      <4>1. <<Fact("in", m)>> \in Seq(Plain)
        BY <1>1, FactsOf, OneFact
      <4>2. Quiet
        BY <3>3, <4>1, Writes
      <4> QED
        BY <1>1, <3>3, <4>2, SlipsAre DEF NoticeInv, DelegationTypeOK, HostTypeOK
    <3> QED
      BY <1>2, <3>1, <3>2, <3>3 DEF Send
  <2>2. HostTypeOK' /\ Telling' /\ live' = live /\ told' = told
    BY <1>2, <2>1 DEF Send, parent, listener, NoticeInv, DelegationTypeOK, HostTypeOK, Telling
  <2> QED
    BY <2>1, <2>2, Quietly DEF NoticeInv, LiveIsOpen, DelegationTypeOK, HostTypeOK
<1>3. CASE Prompt(c, m)
  <2>1. /\ <<Fact("resume", none), Fact("in", m)>> \in Seq(Plain)
        /\ Len(log[c]) + 1 \in Nat
    BY <1>1, FactsOf, OneFact DEF NoticeInv, DelegationTypeOK
  <2>2. /\ Quiet /\ cursor' \in [Sessions -> Nat] /\ known' \in [Sessions -> SUBSET Messages]
        /\ running' \subseteq Sessions /\ woken' \subseteq Sessions /\ Spared
    <3>1. CASE /\ Commit(c, <<Fact("resume", none), Fact("in", m)>>) /\ Learns(c, m)
               /\ running' = running \union {c} /\ woken' = woken \union {c} /\ faulted' = faulted
      BY <1>1, <2>1, <3>1, Commits, LearnsAre DEF NoticeInv, DelegationTypeOK, HostTypeOK
    <3>2. CASE /\ Slips(c, m) /\ Log(c, <<Fact("resume", none), Fact("in", m)>>)
               /\ cursor' = [cursor EXCEPT ![c] = Len(log[c]) + 1] /\ woken' = woken
      <4>1. Quiet
        BY <2>1, <3>2, Writes
      <4>2. cursor' \in [Sessions -> Nat]
        BY <2>1, <3>2 DEF NoticeInv, DelegationTypeOK, HostTypeOK
      <4> QED
        BY <1>1, <3>2, <4>1, <4>2, SlipsAre DEF NoticeInv, DelegationTypeOK, HostTypeOK
    <3> QED
      BY <1>3, <3>1, <3>2 DEF Prompt
  <2>3. HostTypeOK' /\ Telling' /\ live' = live /\ told' = told
    BY <1>3, <2>2 DEF Prompt, parent, listener, NoticeInv, DelegationTypeOK, HostTypeOK, Telling
  <2> QED
    BY <2>2, <2>3, Quietly DEF NoticeInv, LiveIsOpen, DelegationTypeOK, HostTypeOK
<1> QED
  BY <1>2, <1>3

LEMMA NoticePauses ==
    ASSUME NoticeInv, NEW c \in Sessions, Stop(c) \/ TurnFails(c) \/ PauseAfter(c) \/ Rest(c)
    PROVE  NoticeInv'
<1>1. CASE Stop(c) \/ PauseAfter(c)
  <2>1. Quiet /\ cursor' \in [Sessions -> Nat]
    <3>1. CASE log' = log /\ cursor' = cursor
      BY <3>1 DEF Quiet, NoticeInv, DelegationTypeOK, HostTypeOK
    <3>2. CASE Commit(c, <<Fact("pause", none)>>)
      <4>1. <<Fact("pause", none)>> \in Seq(Plain)
        BY FactsOf, OneFact
      <4> QED
        BY <3>2, <4>1, Commits
    <3> QED
      BY <1>1, <3>1, <3>2 DEF Stop, PauseAfter
  <2>2. /\ UNCHANGED <<task, wait, op, delegated, running, live, follow, known, batch, at, todo, sent, woken, ran>>
        /\ UNCHANGED <<told, faulted, unsure>>
    <3>1. CASE Stop(c)
      BY <3>1 DEF Stop, parent, listener
    <3>2. CASE PauseAfter(c)
      BY <3>2 DEF PauseAfter, parent, listener, ghosts
    <3> QED
      BY <1>1, <3>1, <3>2
  <2>3. HostTypeOK' /\ Telling'
    BY <2>1, <2>2 DEF NoticeInv, DelegationTypeOK, HostTypeOK, Telling
  <2> QED
    BY <2>1, <2>2, <2>3, Spares, Quietly DEF NoticeInv, LiveIsOpen, DelegationTypeOK, HostTypeOK
<1>2. CASE Rest(c)
  <2>1. HostTypeOK' /\ Telling' /\ live' = live /\ told' = told /\ faulted' = faulted /\ unsure' = unsure /\ log' = log
    BY <1>2 DEF Rest, parent, listener, NoticeInv, DelegationTypeOK, HostTypeOK, Telling
  <2> QED
    BY <2>1, Spares, Quietly DEF Quiet, NoticeInv, LiveIsOpen, DelegationTypeOK, HostTypeOK
<1>3. CASE TurnFails(c)
  <2>1. PICK m \in Messages : Fails(c, m) /\ follow' \subseteq follow
    <3>1. CASE Queued(c) # {} /\ Fails(c, First(c, Queued(c))) /\ UNCHANGED follow
      <4>1. Queued(c) \in SUBSET Pending(c)
        BY DEF Queued
      <4> QED
        BY <3>1, <4>1, NextWaits DEF NoticeInv, DelegationTypeOK
    <3>2. CASE c \in follow /\ Fails(c, Open(c)) /\ follow' = follow \ {c}
      <4>1. Open(c) # none /\ log[c] \in Seq(Facts)
        BY <3>2 DEF NoticeInv, LiveIsOpen, DelegationTypeOK, HostTypeOK
      <4>2. Open(c) \in Messages
        BY <4>1, OpenTyped, OpenIsIn
      <4> QED
        BY <3>2, <4>2
    <3> QED
      BY <1>3, <3>1, <3>2 DEF TurnFails
  <2>2. Quiet /\ cursor' \in [Sessions -> Nat]
    <3>1. CASE log' = log /\ cursor' = cursor
      BY <3>1 DEF Quiet, NoticeInv, DelegationTypeOK, HostTypeOK
    <3>2. CASE Commit(c, <<Fact("fail", m)>>)
      <4>1. <<Fact("fail", m)>> \in Seq(Plain)
        BY FactsOf, OneFact
      <4> QED
        BY <3>2, <4>1, Commits
    <3> QED
      BY <2>1, <3>1, <3>2 DEF Fails
  <2>3. HostTypeOK' /\ Telling' /\ live' = live /\ told' = told /\ faulted' = faulted /\ unsure' = unsure
    BY <1>3, <2>1, <2>2 DEF TurnFails, parent, listener, NoticeInv, DelegationTypeOK, HostTypeOK, Telling
  <2> QED
    BY <2>1, <2>2, <2>3, Spares, Quietly DEF NoticeInv, LiveIsOpen, DelegationTypeOK, HostTypeOK
<1> QED
  BY <1>1, <1>2, <1>3

\* What a turn's start or end writes.
LEMMA TurnsMark ==
    ASSUME NoticeInv, NEW c \in Sessions, NEW s \in Seq(Facts), Log(c, s), told' = told,
           \A i \in 1..Len(s) : s[i].k \in {"turn", "end"}
    PROVE  /\ log' \in [Sessions -> Seq(Facts)] /\ MarkedWereTold'
           /\ \A d \in Sessions : d # c => Open(d)' = Open(d)
           /\ (Len(s) > 0 /\ s[Len(s)].k = "turn") => Open(c)' # none
<1>1. log \in [Sessions -> Seq(Facts)] /\ MarkedWereTold /\ Len(s) \in Nat
  BY DEF NoticeInv, DelegationTypeOK
<1>2. \A f \in ToSet(s) : f.k \in {"turn", "end"}
  BY DEF ToSet
<1>5. /\ ToSet(log'[c]) = ToSet(log[c]) \union ToSet(s)
      /\ \A d \in Sessions : d # c => log'[d] = log[d]
  BY <1>1, FactsLogged
<1>6. MarkedWereTold'
  <2>1. ASSUME NEW d \in Children, NEW f \in ToSet(log'[d]), f.k \in {"told", "failtold"}
        PROVE  f \in ToSet(log[d])
    BY <1>2, <1>5, <2>1 DEF Sessions
  <2> QED
    BY <1>1, <2>1 DEF MarkedWereTold, Logs, Fact
<1>7. /\ log' \in [Sessions -> Seq(Facts)] /\ Len(log'[c]) = Len(log[c]) + Len(s)
      /\ \A i \in 1..Len(s) : log'[c][Len(log[c]) + i] = s[i]
  BY <1>1, Logged
<1>8. (Len(s) > 0 /\ s[Len(s)].k = "turn") => Open(c)' # none
  <2>1. Len(log[c]) \in Nat /\ log'[c] \in Seq(Facts)
    BY <1>1, <1>7
  <2>2. SUFFICES ASSUME Len(s) > 0, s[Len(s)].k = "turn"
                 PROVE  \E i \in 1..Len(log'[c]) : log'[c][i].k = "turn"
                            /\ \A j \in (i + 1)..Len(log'[c]) : log'[c][j].k \notin {"turn", "end"}
    BY <2>1, OpenTyped, OpenIsIn
  <2>3. Len(log'[c]) \in 1..Len(log'[c]) /\ log'[c][Len(log'[c])] = s[Len(s)]
    <3>1. Len(s) \in 1..Len(s)
      BY <1>1, <2>2
    <3> QED
      BY <1>1, <1>7, <2>1, <3>1
  <2>4. (Len(log'[c]) + 1)..Len(log'[c]) = {}
    BY <2>1
  <2> QED
    BY <2>2, <2>3, <2>4
<1> QED
  BY <1>5, <1>6, <1>7, <1>8, OpenIsIn

\* What the start of a turn writes: the end of a turn that was cut off, and the turn.
LEMMA TurnBegins ==
    ASSUME NoticeInv, NEW c \in Sessions, BeginTurn(c)
    PROVE  \E m \in Pending(c), s \in Seq(Facts) :
              /\ Log(c, s) /\ Len(s) \in 1..2 /\ s[Len(s)] = Fact("turn", m)
              /\ \A i \in 1..Len(s) : i # Len(s) => \E x \in Messages : s[i] = Fact("end", x)
              /\ cursor' = cursor \/ cursor' = [cursor EXCEPT ![c] = Len(log[c]) + Len(s)]
              /\ ran' = IF m = initial THEN [ran EXCEPT ![task[c]] = @ + 1] ELSE ran
<1>0. log \in [Sessions -> Seq(Facts)] /\ log[c] \in Seq(Facts)
  BY DEF NoticeInv, DelegationTypeOK
<1>1. PICK m : m = First(c, Pending(c))
  OBVIOUS
<1>2. Pending(c) # {} /\ Pending(c) \in SUBSET Pending(c)
  BY DEF BeginTurn
<1>3. m \in Pending(c) /\ m \in Messages
  BY <1>0, <1>1, <1>2, NextWaits
<1>4. PICK t \in Facts : t = Fact("turn", m)
  BY <1>3, FactsOf
<1>5. PICK s : s = IF Open(c) = none THEN <<Fact("turn", m)>> ELSE <<Fact("end", Open(c)), Fact("turn", m)>>
  OBVIOUS
<1>6. /\ Log(c, s) /\ (cursor' = cursor \/ cursor' = [cursor EXCEPT ![c] = Len(log[c]) + Len(s)])
      /\ ran' = IF m = initial THEN [ran EXCEPT ![task[c]] = @ + 1] ELSE ran
  BY <1>1, <1>5 DEF BeginTurn, Commit
<1>7. CASE Open(c) = none
  <2>1. s = <<t>>
    BY <1>4, <1>5, <1>7
  <2>2. s \in Seq(Facts) /\ Len(s) = 1 /\ s[1] = t
    BY <2>1
  <2>3. Len(s) \in 1..2 /\ \A i \in 1..Len(s) : i = Len(s)
    BY <2>2
  <2> QED
    BY <1>3, <1>4, <1>6, <2>2, <2>3
<1>8. CASE Open(c) # none
  <2>1. Open(c) \in Messages
    BY <1>0, <1>8, OpenTyped, OpenIsIn
  <2>2. PICK e \in Facts : e = Fact("end", Open(c))
    BY <2>1, FactsOf
  <2>3. s = <<e, t>>
    BY <1>4, <1>5, <1>8, <2>2
  <2>4. s \in Seq(Facts) /\ Len(s) = 2 /\ s[1] = e /\ s[2] = t
    BY <2>3
  <2>5. Len(s) \in 1..2 /\ \A i \in 1..Len(s) : i # Len(s) => i = 1
    BY <2>4
  <2> QED
    BY <1>3, <1>4, <1>6, <2>1, <2>2, <2>4, <2>5
<1> QED
  BY <1>7, <1>8

LEMMA NoticeTurns ==
    ASSUME NoticeInv, NEW c \in Sessions, BeginTurn(c) \/ EndTurn(c)
    PROVE  NoticeInv'
<1>0. log \in [Sessions -> Seq(Facts)] /\ Len(log[c]) + 1 \in Nat /\ cursor \in [Sessions -> Nat]
      /\ ran \in [Children -> Nat]
  BY DEF NoticeInv, DelegationTypeOK, HostTypeOK
<1>1. CASE BeginTurn(c)
  <2>1. PICK m \in Pending(c), s \in Seq(Facts) :
              /\ Log(c, s) /\ Len(s) \in 1..2 /\ s[Len(s)] = Fact("turn", m)
              /\ \A i \in 1..Len(s) : i # Len(s) => \E x \in Messages : s[i] = Fact("end", x)
              /\ cursor' = cursor \/ cursor' = [cursor EXCEPT ![c] = Len(log[c]) + Len(s)]
              /\ ran' = IF m = initial THEN [ran EXCEPT ![task[c]] = @ + 1] ELSE ran
    BY <1>1, TurnBegins
  <2>2. told' = told
    BY <1>1 DEF BeginTurn, parent
  <2>a. \A x : Fact("turn", x).k = "turn" /\ Fact("end", x).k = "end"
    BY DEF Fact
  <2>3. ASSUME NEW i \in 1..Len(s) PROVE s[i].k \in {"turn", "end"}
    <3>1. CASE i = Len(s)
      BY <2>1, <2>a, <3>1
    <3>2. CASE i # Len(s)
      <4>1. PICK x \in Messages : s[i] = Fact("end", x)
        BY <2>1, <3>2
      <4> QED
        BY <2>a, <4>1
    <3> QED
      BY <3>1, <3>2
  <2>4. Len(s) > 0 /\ s[Len(s)].k = "turn"
    <3>1. Len(s) \in 1..2
      BY <2>1
    <3>2. \A n \in 1..2 : n > 0
      OBVIOUS
    <3>3. Len(s) > 0
      BY ONLY <3>1, <3>2, Zenon
    <3> QED
      BY <2>1, <2>a, <3>3
  <2>5. /\ log' \in [Sessions -> Seq(Facts)] /\ MarkedWereTold' /\ Open(c)' # none
        /\ \A d \in Sessions : d # c => Open(d)' = Open(d)
    BY <2>1, <2>2, <2>3, <2>4, TurnsMark
  <2>6. cursor' \in [Sessions -> Nat] /\ ran' \in [Children -> Nat]
    <3>1. Len(log[c]) + Len(s) \in Nat
      BY <1>0
    <3>2. cursor' \in [Sessions -> Nat]
      BY <1>0, <2>1, <3>1
    <3>3. ran' = ran \/ ran' = [ran EXCEPT ![task[c]] = @ + 1]
      BY <2>1
    <3>4. ran' \in [Children -> Nat]
      BY <1>0, <3>3
    <3> QED
      BY <3>2, <3>4
  <2>7. /\ faulted' = faulted /\ unsure' = unsure /\ live' = live \union {c}
        /\ follow' \subseteq follow \union {c}
    BY <1>1 DEF BeginTurn
  <2>8. HostTypeOK' /\ Telling'
    BY <1>1, <2>2, <2>6, <2>7 DEF BeginTurn, parent, listener, NoticeInv, DelegationTypeOK, HostTypeOK, Telling
  <2>9. LiveIsOpen'
    BY <2>5, <2>7 DEF NoticeInv, LiveIsOpen, DelegationTypeOK, HostTypeOK
  <2> QED
    BY <2>2, <2>5, <2>7, <2>8, <2>9 DEF NoticeInv, DelegationTypeOK, ToldOnce, Told
<1>2. CASE EndTurn(c)
  <2>1. Open(c) # none
    BY <1>2 DEF EndTurn, NoticeInv, LiveIsOpen
  <2>2. Open(c) \in Messages /\ Log(c, <<Fact("end", Open(c))>>) /\ told' = told
    BY <1>0, <1>2, <2>1, OpenTyped, OpenIsIn DEF EndTurn, parent
  <2>3. PICK s \in Seq(Facts) : s = <<Fact("end", Open(c))>> /\ \A i \in 1..Len(s) : s[i].k \in {"turn", "end"}
    <3>1. PICK f \in Facts : f = Fact("end", Open(c)) /\ f.k = "end"
      BY <2>2, FactsOf DEF Fact
    <3>2. PICK t \in Seq(Facts) : t = <<f>> /\ Len(t) = 1 /\ t[1] = f
      BY OneFact
    <3>3. ASSUME NEW i \in 1..Len(t) PROVE t[i].k \in {"turn", "end"}
      <4>1. i = 1
        BY <3>2
      <4> QED
        BY <3>1, <3>2, <4>1
    <3> QED
      BY <3>1, <3>2, <3>3
  <2>4. /\ log' \in [Sessions -> Seq(Facts)] /\ MarkedWereTold'
        /\ \A d \in Sessions : d # c => Open(d)' = Open(d)
    <3>1. Log(c, s)
      BY <2>2, <2>3
    <3> QED
      BY <2>2, <2>3, <3>1, TurnsMark
  <2>5. cursor' \in [Sessions -> Nat]
    BY <1>0, <1>2 DEF EndTurn
  <2>6. /\ faulted' = faulted /\ unsure' = unsure /\ live' = live \ {c} /\ follow' = follow \ {c}
    BY <1>2 DEF EndTurn, ghosts
  <2>7. HostTypeOK' /\ Telling'
    BY <1>2, <2>2, <2>5, <2>6 DEF EndTurn, parent, listener, ghosts, NoticeInv, DelegationTypeOK, HostTypeOK, Telling
  <2>8. LiveIsOpen'
    BY <2>4, <2>6 DEF NoticeInv, LiveIsOpen, DelegationTypeOK, HostTypeOK
  <2> QED
    BY <2>2, <2>4, <2>6, <2>7, <2>8 DEF NoticeInv, DelegationTypeOK, ToldOnce, Told
<1> QED
  BY <1>1, <1>2

LEMMA NoticeVisits ==
    ASSUME NoticeInv, Tick \/ Visit \/ Leave
    PROVE  NoticeInv'
<1>0. log \in [Sessions -> Seq(Facts)] /\ cursor \in [Sessions -> Nat] /\ batch \in Seq(Sessions \X Nat)
  BY DEF NoticeInv, DelegationTypeOK, HostTypeOK
<1>1. CASE Tick
  <2>1. batch' \in Seq(Sessions \X Nat)
    BY <1>0, <1>1, BatchTyped DEF Tick
  <2>2. HostTypeOK' /\ Telling' /\ log' = log /\ told' = told /\ faulted' = faulted /\ unsure' = unsure /\ live' = live
    BY <1>1, <2>1 DEF Tick, parent, record, ghosts, NoticeInv, DelegationTypeOK, HostTypeOK, Telling
  <2> QED
    BY <2>2, Spares, Quietly DEF Quiet, NoticeInv, LiveIsOpen, DelegationTypeOK, HostTypeOK
<1>2. CASE Leave
  <2>1. batch' = Tail(batch)
    BY <1>2 DEF Leave, GiveUp
  <2>2. batch' \in Seq(Sessions \X Nat)
    <3>1. CASE batch = <<>>
      <4>1. Tail(<<>>) = <<>>
        OBVIOUS
      <4> QED
        BY <2>1, <3>1, <4>1
    <3>2. CASE batch # <<>>
      BY <1>0, <2>1, <3>2, HeadTailProperties
    <3> QED
      BY <3>1, <3>2
  <2>3. HostTypeOK' /\ Telling' /\ log' = log /\ told' = told /\ faulted' = faulted /\ unsure' = unsure /\ live' = live
    BY <1>2, <2>2 DEF Leave, GiveUp, parent, record, ghosts, NoticeInv, DelegationTypeOK, HostTypeOK, Telling
  <2> QED
    BY <2>3, Spares, Quietly DEF Quiet, NoticeInv, LiveIsOpen, DelegationTypeOK, HostTypeOK
<1>3. CASE Visit
  <2>1. PICK c : c = Head(batch)[1]
    OBVIOUS
  <2>2. c \in Sessions /\ Tail(batch) \in Seq(Sessions \X Nat)
    <3>1. Head(batch) \in Sessions \X Nat /\ Tail(batch) \in Seq(Sessions \X Nat)
      BY <1>0, <1>3, HeadTailProperties DEF Visit
    <3> QED
      BY <2>1, <3>1
  <2>3. /\ sent' = sent /\ told' = told /\ live' = live /\ follow' = follow /\ sent = FALSE
        /\ UNCHANGED <<task, wait, op, delegated, ran>> /\ initial \in Messages
    BY <1>3 DEF Visit, parent, Telling, NoticeInv, DelegationTypeOK, HostTypeOK, Messages
  <2>4. CASE /\ at' = c /\ todo' = Unmarked(c) /\ Receive(c, initial) /\ batch' = batch
             /\ woken' = IF Known(c, initial) THEN woken ELSE woken \union {c}
             /\ faulted' = faulted
    <3>1. /\ Quiet /\ cursor' \in [Sessions -> Nat] /\ known' \in [Sessions -> SUBSET Messages]
          /\ running' \subseteq Sessions /\ Spared
      BY <2>2, <2>3, <2>4, Receives DEF NoticeInv, DelegationTypeOK, HostTypeOK
    <3>2. todo' \in Seq(Notices)
      BY <1>0, <2>2, <2>4, UnmarkedTyped
    <3>3. HostTypeOK'
      BY <2>2, <2>3, <2>4, <3>1, <3>2 DEF NoticeInv, DelegationTypeOK, HostTypeOK
    <3>4. Telling'
      BY <2>2, <2>3, <2>4 DEF Telling
    <3> QED
      BY <2>3, <3>1, <3>3, <3>4, Quietly DEF NoticeInv, LiveIsOpen, DelegationTypeOK, HostTypeOK
  <2>5. CASE batch' = Tail(batch) /\ UNCHANGED <<log, cursor, known, unsure, running, at, todo, woken, faulted>>
    <3>1. HostTypeOK' /\ Telling' /\ Spared
      BY <2>2, <2>3, <2>5, Spares DEF NoticeInv, DelegationTypeOK, HostTypeOK, Telling
    <3> QED
      BY <2>3, <2>5, <3>1, Quietly DEF Quiet, NoticeInv, LiveIsOpen, DelegationTypeOK, HostTypeOK
  <2>6. CASE /\ Slips(c, initial) /\ Log(c, <<Fact("in", initial)>>)
             /\ batch' = Tail(batch) /\ UNCHANGED <<cursor, at, todo, woken>>
    <3>1. <<Fact("in", initial)>> \in Seq(Plain)
      BY <2>3, FactsOf, OneFact
    <3>2. Quiet
      BY <2>2, <2>6, <3>1, Writes
    <3>3. Spared /\ known' \in [Sessions -> SUBSET Messages] /\ running' = running
      BY <2>2, <2>3, <2>6, SlipsAre
    <3>4. HostTypeOK' /\ Telling'
      BY <2>2, <2>3, <2>6, <3>3 DEF NoticeInv, DelegationTypeOK, HostTypeOK, Telling
    <3> QED
      BY <2>3, <3>2, <3>3, <3>4, Quietly DEF NoticeInv, LiveIsOpen, DelegationTypeOK, HostTypeOK
  <2> QED
    BY <1>3, <2>1, <2>4, <2>5, <2>6 DEF Visit
<1> QED
  BY <1>1, <1>2, <1>3

\* The notice at the head of a visit is put into the parent's inbox.
LEMMA NoticeTells ==
    ASSUME NoticeInv, Tell \/ TellFails
    PROVE  NoticeInv'
<1>0. /\ log \in [Sessions -> Seq(Facts)] /\ batch \in Seq(Sessions \X Nat) /\ todo \in Seq(Notices)
      /\ told \in [Notices -> Nat] /\ faulted \in [Notices \union Inputs -> Nat]
      /\ unsure \subseteq Notices \union Inputs /\ wait \subseteq Notices
  BY DEF NoticeInv, DelegationTypeOK, HostTypeOK
<1>1. PICK n : n = Head(todo)
  OBVIOUS
<1>2. n \in Notices /\ todo # <<>> /\ sent = FALSE
  BY <1>0, <1>1, HeadTailProperties DEF Tell, TellFails, NoticeInv, DelegationTypeOK, HostTypeOK
<1>3. UNCHANGED <<log, task, op, delegated, running, known, cursor, live, follow, woken, ran>>
  BY DEF Tell, TellFails, ghosts
<1>4. GiveUp => batch' \in Seq(Sessions \X Nat) /\ at' = none /\ todo' = <<>>
  <2>1. CASE batch = <<>>
    <3>1. Tail(<<>>) = <<>>
      OBVIOUS
    <3> QED
      BY <2>1, <3>1 DEF GiveUp
  <2>2. CASE batch # <<>>
    BY <1>0, <2>2, HeadTailProperties DEF GiveUp
  <2> QED
    BY <2>1, <2>2
<1>5. LiveIsOpen'
  <2>1. ASSUME NEW d \in live PROVE Open(d)' # none
    BY <1>3, <2>1, OpensStay DEF Quiet, NoticeInv, LiveIsOpen, DelegationTypeOK, HostTypeOK
  <2> QED
    BY <1>3, <2>1 DEF LiveIsOpen
<1>6. ASSUME /\ told' = told \/ (~Told(n) /\ told' = [told EXCEPT ![n] = @ + 1])
             /\ faulted' = faulted \/ faulted' = [faulted EXCEPT ![n] = @ + 1]
             /\ told' = told => faulted' = faulted /\ unsure' = unsure
             /\ (told' # told /\ faulted' = faulted) => n \notin unsure'
             /\ unsure' \subseteq unsure \union {n} /\ unsure \subseteq unsure' \union {n} /\ wait' \subseteq Notices
             /\ batch' \in Seq(Sessions \X Nat) /\ at' \in Sessions \union {none} /\ todo' \in Seq(Notices)
             /\ sent' \in BOOLEAN /\ Telling'
      PROVE  NoticeInv'
  <2>1. told' \in [Notices -> Nat] /\ \A x \in Notices : told'[x] >= told[x] /\ (x # n => told'[x] = told[x])
                                   /\ (told' # told => told'[n] = told[n] + 1)
    <3>1. CASE told' = told
      BY <1>0, <3>1
    <3>2. CASE told' = [told EXCEPT ![n] = @ + 1]
      <4>1. /\ told' \in [Notices -> Nat] /\ told'[n] = told[n] + 1
            /\ \A x \in Notices : x # n => told'[x] = told[x]
        BY <1>0, <1>2, <3>2
      <4>2. \A x \in Notices : told[x] \in Nat
        BY <1>0
      <4>3. \A x \in Notices : told'[x] >= told[x]
        BY <1>2, <4>1, <4>2
      <4> QED
        BY <4>1, <4>3
    <3> QED
      BY <1>6, <3>1, <3>2
  <2>2. /\ faulted' \in [Notices \union Inputs -> Nat]
        /\ \A x \in Notices : x # n => faulted'[x] = faulted[x]
        /\ faulted'[n] = faulted[n] \/ faulted'[n] = faulted[n] + 1
        /\ faulted' # faulted => faulted'[n] = faulted[n] + 1
    <3>1. CASE faulted' = faulted
      BY <1>0, <3>1
    <3>2. CASE faulted' = [faulted EXCEPT ![n] = @ + 1]
      BY <1>0, <1>2, <3>2
    <3> QED
      BY <1>6, <3>1, <3>2
  <2>3. DelegationTypeOK'
    BY <1>0, <1>2, <1>3, <1>6, <2>1, <2>2 DEF NoticeInv, DelegationTypeOK, HostTypeOK
  <2>4. MarkedWereTold'
    <3>1. ASSUME NEW c \in Children, NEW k \in {"end", "fail"}, NEW m \in Messages, told[Notice(c, k, m)] > 0
          PROVE  told'[Notice(c, k, m)] > 0
      <4>1. Notice(c, k, m) \in Notices
        BY DEF Notice, Notices, Sessions
      <4> HIDE DEF Notice
      <4> QED
        BY <1>0, <2>1, <3>1, <4>1
    <3> QED
      BY <1>3, <3>1 DEF NoticeInv, MarkedWereTold, Logs
  <2>5. /\ told[n] \in Nat /\ faulted[n] \in Nat /\ told[n] <= 1 + faulted[n]
        /\ ~Told(n) => told[n] <= faulted[n]
    BY <1>0, <1>2 DEF NoticeInv, ToldOnce
  <2>6. /\ told'[n] <= 1 + faulted'[n]
        /\ ~(told'[n] > 0 /\ n \notin unsure') => told'[n] <= faulted'[n]
    <3>1. CASE told' = told
      BY <1>6, <2>5, <3>1 DEF Told
    <3>2. CASE told' # told /\ faulted' = faulted
      <4>1. ~Told(n)
        BY <1>6, <3>2
      <4>2. told'[n] = told[n] + 1
        BY <1>2, <2>1, <3>2
      <4>3. faulted'[n] = faulted[n] /\ n \notin unsure'
        BY <1>6, <3>2
      <4> QED
        BY <2>5, <4>1, <4>2, <4>3
    <3>3. CASE told' # told /\ faulted' # faulted
      <4>1. ~Told(n)
        BY <1>6, <3>3
      <4>2. told'[n] = told[n] + 1
        BY <1>2, <2>1, <3>3
      <4>3. faulted'[n] = faulted[n] + 1
        BY <2>2, <3>3
      <4> QED
        BY <2>5, <4>1, <4>2, <4>3
    <3> QED
      BY <3>1, <3>2, <3>3
  <2>7. ToldOnce' /\ \A x \in Notices : ~Told(x)' => told'[x] <= faulted'[x]
    <3>1. ASSUME NEW x \in Notices
          PROVE  told'[x] <= 1 + faulted'[x] /\ (~Told(x)' => told'[x] <= faulted'[x])
      <4>1. CASE x = n
        BY <2>6, <4>1 DEF Told
      <4>2. CASE x # n
        <5>1. told'[x] = told[x] /\ faulted'[x] = faulted[x] /\ (x \in unsure <=> x \in unsure')
          BY <1>6, <2>1, <2>2, <4>2
        <5> QED
          BY <5>1 DEF NoticeInv, ToldOnce, Told
      <4> QED
        BY <4>1, <4>2
    <3> QED
      BY <3>1 DEF ToldOnce
  <2> QED
    BY <1>5, <1>6, <2>3, <2>4, <2>7 DEF NoticeInv
<1>7. CASE Tell
  <2>1. faulted' = faulted
    BY <1>7 DEF Tell, ghosts
  <2>2. CASE Told(n) /\ sent' = TRUE /\ UNCHANGED <<told, wait, unsure, batch, at, todo>>
    <3>1. Telling'
      BY <1>0, <1>1, <1>2, <2>2 DEF Telling, NoticeInv, Told
    <3> QED
      BY <1>0, <1>6, <2>1, <2>2, <3>1 DEF NoticeInv, DelegationTypeOK, HostTypeOK
  <2>3. CASE /\ ~Told(n) /\ told' = [told EXCEPT ![n] = @ + 1] /\ wait' = wait \union {n}
             /\ unsure' = unsure \ {n} /\ sent' = TRUE /\ UNCHANGED <<batch, at, todo>>
    <3>1. told'[n] > 0 /\ told' # told
      <4>1. told'[n] = told[n] + 1 /\ told[n] \in Nat
        BY <1>0, <1>2, <2>3
      <4> QED
        BY <4>1
    <3>2. Telling'
      BY <1>1, <1>2, <2>3, <3>1 DEF Telling, NoticeInv
    <3> QED
      BY <1>0, <1>2, <1>6, <2>1, <2>3, <3>1, <3>2 DEF NoticeInv, DelegationTypeOK, HostTypeOK
  <2>4. CASE GiveUp /\ UNCHANGED <<told, wait, unsure, sent>>
    <3>1. Telling' /\ todo' \in Seq(Notices)
      BY <1>2, <1>4, <2>4, EmptySeq DEF Telling
    <3> QED
      BY <1>0, <1>2, <1>4, <1>6, <2>1, <2>4, <3>1
  <2> QED
    BY <1>1, <1>7, <2>2, <2>3, <2>4 DEF Tell
<1>8. CASE TellFails
  <2>1. /\ ~Told(n) /\ told' = [told EXCEPT ![n] = @ + 1] /\ wait' = wait \union {n}
        /\ unsure' = unsure \union {n} /\ faulted' = [faulted EXCEPT ![n] = @ + 1] /\ GiveUp /\ sent' = sent
    BY <1>1, <1>8 DEF TellFails
  <2>2. Telling' /\ todo' \in Seq(Notices)
    BY <1>2, <1>4, <2>1, EmptySeq DEF Telling
  <2>3. told' # told /\ faulted' # faulted
    <3>1. told'[n] = told[n] + 1 /\ told[n] \in Nat
      BY <1>0, <1>2, <2>1
    <3>2. faulted'[n] = faulted[n] + 1 /\ faulted[n] \in Nat
      BY <1>0, <1>2, <2>1
    <3> QED
      BY <3>1, <3>2
  <2> QED
    BY <1>0, <1>2, <1>4, <1>6, <2>1, <2>2, <2>3
<1> QED
  BY <1>7, <1>8

\* The marker follows the telling.
LEMMA NoticeMarks ==
    ASSUME NoticeInv, Mark
    PROVE  NoticeInv'
<1>0. /\ log \in [Sessions -> Seq(Facts)] /\ todo \in Seq(Notices) /\ todo # <<>>
      /\ told[Head(todo)] > 0 /\ cursor \in [Sessions -> Nat]
  BY DEF Mark, Telling, NoticeInv, DelegationTypeOK, HostTypeOK
<1>1. PICK n : n = Head(todo)
  OBVIOUS
<1>2. n \in Notices /\ Tail(todo) \in Seq(Notices)
  BY <1>0, <1>1, HeadTailProperties
<1>3. n.child \in Sessions /\ n.kind \in {"end", "fail"} /\ n.m \in Messages
      /\ n = Notice(n.child, n.kind, n.m)
  BY <1>2 DEF Notices, Notice
<1>4. PICK f \in Facts : f = Fact(Marker(n), n.m)
  BY <1>3, FactsOf DEF Marker
<1>5. PICK s \in Seq(Facts) : s = <<f>> /\ ToSet(s) = {f} /\ Len(s) = 1 /\ s[1] = f
  <2>1. PICK s \in Seq(Facts) : s = <<f>> /\ Len(s) = 1 /\ s[1] = f
    BY OneFact
  <2>2. ToSet(s) = {f}
    BY <2>1 DEF ToSet
  <2> QED
    BY <2>1, <2>2
<1>6. Log(n.child, s) /\ cursor' = [cursor EXCEPT ![n.child] = Len(log[n.child]) + Len(s)]
  BY <1>1, <1>4, <1>5 DEF Mark, Commit
<1>7. /\ log' \in [Sessions -> Seq(Facts)]
      /\ ToSet(log'[n.child]) = ToSet(log[n.child]) \union {f}
      /\ \A d \in Sessions : d # n.child => log'[d] = log[d]
  BY <1>0, <1>3, <1>5, <1>6, Logged, FactsLogged
<1>8. UNCHANGED <<told, wait, task, op, delegated, running, known, live, follow, unsure, batch, at, ran, woken, faulted>>
      /\ sent' = FALSE /\ todo' = Tail(todo)
  BY DEF Mark, parent, ghosts
<1>9. MarkedWereTold'
  <2>1. ASSUME NEW d \in Children, NEW m \in Messages
        PROVE  /\ Logs(d, "told", m)' => told[Notice(d, "end", m)] > 0
               /\ Logs(d, "failtold", m)' => told[Notice(d, "fail", m)] > 0
    <3>1. CASE d = n.child
      <4>1. Fact("told", m) = f => n = Notice(d, "end", m)
        BY <1>3, <1>4, <3>1 DEF Fact, Marker, Notice
      <4>2. Fact("failtold", m) = f => n = Notice(d, "fail", m)
        BY <1>3, <1>4, <3>1 DEF Fact, Marker, Notice
      <4> QED
        BY <1>0, <1>1, <1>7, <3>1, <4>1, <4>2 DEF Logs, NoticeInv, MarkedWereTold
    <3>2. CASE d # n.child
      BY <1>7, <3>2 DEF Logs, NoticeInv, MarkedWereTold, Sessions
    <3> QED
      BY <3>1, <3>2
  <2> QED
    BY <1>8, <2>1 DEF MarkedWereTold, Logs
<1>10. LiveIsOpen'
  <2>1. ASSUME NEW d \in live PROVE Open(d)' # none
    <3>1. d \in Sessions /\ Open(d) # none
      BY DEF NoticeInv, LiveIsOpen, DelegationTypeOK, HostTypeOK
    <3>2. CASE d # n.child
      BY <1>7, <3>1, <3>2, OpenIsIn
    <3>3. CASE d = n.child
      <4>1. f.k \notin {"turn", "end"}
        BY <1>4 DEF Fact, Marker
      <4>2. /\ Len(log'[d]) = Len(log[d]) + 1 /\ log'[d][Len(log[d]) + 1] = f
            /\ \A j \in 1..Len(log[d]) : log'[d][j] = log[d][j]
        <5>1. 1 \in 1..Len(s)
          BY <1>5
        <5>2. Log(d, s)
          BY <1>6, <3>3
        <5>3. /\ Len(log'[d]) = Len(log[d]) + Len(s)
              /\ \A j \in 1..Len(log[d]) : log'[d][j] = log[d][j]
              /\ \A j \in 1..Len(s) : log'[d][Len(log[d]) + j] = s[j]
          BY <1>0, <3>1, <5>2, Logged
        <5> QED
          BY <1>5, <5>1, <5>3
      <4>3. log[d] \in Seq(Facts) /\ log'[d] \in Seq(Facts) /\ Len(log[d]) \in Nat
        BY <1>0, <1>7, <3>1
      <4>4. PICK i \in 1..Len(log[d]) :
              log[d][i].k = "turn" /\ \A j \in (i + 1)..Len(log[d]) : log[d][j].k \notin {"turn", "end"}
        BY <3>1, <4>3, OpenTyped, OpenIsIn
      <4>5. ASSUME NEW j \in (i + 1)..Len(log'[d]) PROVE log'[d][j].k \notin {"turn", "end"}
        <5>1. CASE j = Len(log[d]) + 1
          BY <4>1, <4>2, <5>1
        <5>2. CASE j # Len(log[d]) + 1
          <6>1. j \in (i + 1)..Len(log[d]) /\ j \in 1..Len(log[d])
            BY <4>2, <4>3, <5>2
          <6> QED
            BY <4>2, <4>4, <6>1
        <5> QED
          BY <5>1, <5>2
      <4>6. i \in 1..Len(log'[d]) /\ log'[d][i].k = "turn"
        BY <4>2, <4>3, <4>4
      <4> QED
        BY <3>1, <4>3, <4>5, <4>6, OpenTyped, OpenIsIn
    <3> QED
      BY <3>2, <3>3
  <2> QED
    BY <1>8, <2>1 DEF LiveIsOpen
<1>11. cursor' \in [Sessions -> Nat]
  <2>1. Len(log[n.child]) + Len(s) \in Nat
    BY <1>0, <1>3, <1>5
  <2> QED
    BY <1>0, <1>6, <2>1
<1>12. DelegationTypeOK'
  <2>1. HostTypeOK'
    BY <1>2, <1>8, <1>11 DEF NoticeInv, DelegationTypeOK, HostTypeOK
  <2> QED
    BY <1>7, <1>8, <2>1 DEF NoticeInv, DelegationTypeOK
<1>13. Telling'
  BY <1>0, <1>8 DEF NoticeInv, Telling
<1> QED
  BY <1>8, <1>9, <1>10, <1>12, <1>13 DEF NoticeInv, ToldOnce, Told

\* The parent reads and stops, a client forks, the process dies and comes back.
LEMMA NoticeRest ==
    ASSUME NoticeInv, ParentReads \/ ParentStops \/ ParentResumes \/ Crash \/ Restart
    PROVE  NoticeInv'
<1>0. log' = log /\ told' = told /\ faulted' = faulted
  BY DEF ParentReads, ParentStops, ParentResumes, Crash, Restart, ghosts, parent
<1>1. CASE ParentReads \/ ParentStops \/ ParentResumes
  <2>1. /\ UNCHANGED <<task, delegated, running, live, follow, known, cursor, batch, at, todo, sent, woken, ran>>
        /\ wait' \subseteq wait /\ unsure' = unsure /\ op' \in {op, [d \in Children |-> "idle"]}
    <3>1. CASE ParentReads
      BY <3>1 DEF ParentReads, record, listener, ghosts
    <3>2. CASE ParentStops
      BY <3>2 DEF ParentStops, listener
    <3>3. CASE ParentResumes
      BY <3>3 DEF ParentResumes, record, listener, ghosts
    <3> QED
      BY <1>1, <3>1, <3>2, <3>3
  <2>2. op' \in [Children -> {"idle", "describe", "deliver"}]
    BY <2>1 DEF NoticeInv, DelegationTypeOK, HostTypeOK
  <2>3. HostTypeOK' /\ Telling'
    BY <1>0, <2>1, <2>2 DEF NoticeInv, DelegationTypeOK, HostTypeOK, Telling
  <2> QED
    BY <1>0, <2>1, <2>3, Spares, Quietly DEF Quiet, NoticeInv, LiveIsOpen, DelegationTypeOK, HostTypeOK
<1>2. CASE Crash
  <2>1. cursor' \in [Sessions -> Nat] /\ op' \in [Children -> {"idle", "describe", "deliver"}]
    BY <1>2 DEF Crash
  <2>2. /\ running' = {} /\ live' = {} /\ follow' = {} /\ unsure' = {} /\ woken' = {} /\ batch' = <<>>
        /\ at' = none /\ todo' = <<>> /\ sent' = FALSE /\ delegated' = {}
        /\ UNCHANGED <<task, wait, known, ran>>
    BY <1>2 DEF Crash, parent
  <2>3. HostTypeOK' /\ Telling'
    BY <2>1, <2>2, EmptySeq DEF NoticeInv, DelegationTypeOK, HostTypeOK, Telling
  <2> QED
    BY <1>0, <2>2, <2>3, Spares, Quietly DEF Quiet
<1>3. CASE Restart
  <2>1. cursor' \in [Sessions -> Nat]
    BY <1>3 DEF Restart, NoticeInv, DelegationTypeOK
  <2>2. /\ delegated' \subseteq Sessions /\ running' \subseteq Sessions /\ woken' = running'
        /\ live' \subseteq {c \in Sessions : Open(c) # none} /\ follow' = live' /\ unsure' = unsure
        /\ UNCHANGED <<task, wait, known, ran, op, batch, at, todo, sent>>
    BY <1>3 DEF Restart, parent, listener
  <2>3. live' \subseteq Sessions /\ \A d \in live' : Open(d) # none
    BY <2>2
  <2>4. HostTypeOK'
    BY <2>1, <2>2, <2>3 DEF NoticeInv, DelegationTypeOK, HostTypeOK
  <2>5. Telling'
    BY <1>0, <2>2 DEF NoticeInv, Telling
  <2> QED
    BY <1>0, <2>2, <2>3, <2>4, <2>5, Spares, Quietly DEF Quiet
<1> QED
  BY <1>1, <1>2, <1>3

LEMMA NoticeForks ==
    ASSUME NoticeInv, NEW f \in Forks, NEW c \in Children, Fork(f, c)
    PROVE  NoticeInv'
<1>0. f \in Sessions /\ c \in Sessions /\ f \notin Children
  BY DEF Sessions
<1>1. log \in [Sessions -> Seq(Facts)] /\ cursor \in [Sessions -> Nat] /\ task \in [Sessions -> Sessions]
  BY DEF NoticeInv, DelegationTypeOK, HostTypeOK
<1>2. PICK k \in 1..Len(log[c]) : /\ log' = [log EXCEPT ![f] = SubSeq(log[c], 1, k)]
                                  /\ cursor' = [cursor EXCEPT ![f] = k]
  BY DEF Fork
<1>3. SubSeq(log[c], 1, k) \in Seq(Facts) /\ k \in Nat
  <2>1. log[c] \in Seq(Facts) /\ Len(log[c]) \in Nat
    BY <1>0, <1>1
  <2>2. k <= Len(log[c]) /\ k \in Nat
    BY <2>1
  <2> QED
    BY <2>1, <2>2
<1>4. /\ log' \in [Sessions -> Seq(Facts)] /\ cursor' \in [Sessions -> Nat]
      /\ \A d \in Sessions : d # f => log'[d] = log[d]
  BY <1>0, <1>1, <1>2, <1>3
<1>5. task' \in [Sessions -> Sessions]
  BY <1>0, <1>1 DEF Fork
<1>6. /\ UNCHANGED <<told, wait, op, delegated, running, known, live, follow, unsure, batch, at, todo, sent>>
      /\ UNCHANGED <<ran, woken, faulted>>
  BY DEF Fork, parent, listener
<1>7. HostTypeOK' /\ Telling'
  BY <1>4, <1>5, <1>6 DEF NoticeInv, DelegationTypeOK, HostTypeOK, Telling
<1>8. DelegationTypeOK'
  BY <1>4, <1>6, <1>7 DEF NoticeInv, DelegationTypeOK
<1>9. LiveIsOpen'
  <2>1. Open(f) = none
    BY <1>0 DEF Fork, Open
  <2>2. ASSUME NEW d \in live PROVE Open(d)' # none
    <3>1. d \in Sessions /\ Open(d) # none
      BY DEF NoticeInv, LiveIsOpen, DelegationTypeOK, HostTypeOK
    <3>2. log'[d] = log[d]
      BY <1>4, <2>1, <3>1
    <3> QED
      BY <3>1, <3>2, OpenIsIn
  <2> QED
    BY <1>6, <2>2 DEF LiveIsOpen
<1>10. MarkedWereTold'
  <2>1. \A d \in Children : log'[d] = log[d]
    BY <1>0, <1>4 DEF Sessions
  <2> QED
    BY <1>6, <2>1 DEF NoticeInv, MarkedWereTold, Logs
<1> QED
  BY <1>6, <1>7, <1>8, <1>9, <1>10 DEF NoticeInv, ToldOnce, Told

LEMMA NoticeStart ==
    ASSUME Init
    PROVE  NoticeInv
<1>1. <<>> \in Seq(Facts) /\ <<>> \in Seq(Sessions \X Nat) /\ <<>> \in Seq(Notices)
  BY EmptySeq
<1>2. log \in [Sessions -> Seq(Facts)] /\ told \in [Notices -> Nat] /\ cursor \in [Sessions -> Nat]
      /\ task \in [Sessions -> Sessions] /\ known \in [Sessions -> SUBSET Messages]
      /\ op \in [Children -> {"idle", "describe", "deliver"}] /\ ran \in [Children -> Nat]
      /\ faulted \in [Notices \union Inputs -> Nat]
  BY <1>1 DEF Init
<1>3. DelegationTypeOK
  BY <1>1, <1>2 DEF Init, DelegationTypeOK, HostTypeOK
<1>4. LiveIsOpen /\ Telling /\ ToldOnce /\ \A n \in Notices : told[n] <= faulted[n]
  BY DEF Init, LiveIsOpen, Telling, ToldOnce
<1>5. MarkedWereTold
  <2>1. \A c \in Children : ToSet(log[c]) = {}
    BY DEF Init, ToSet, Sessions
  <2> QED
    BY <2>1 DEF MarkedWereTold, Logs
<1> QED
  BY <1>3, <1>4, <1>5 DEF NoticeInv

LEMMA NoticeStep ==
    ASSUME NoticeInv, [Next]_vars
    PROVE  NoticeInv'
<1>1. CASE UNCHANGED vars
  <2>1. HostTypeOK' /\ Telling' /\ log' = log /\ told' = told /\ faulted' = faulted /\ unsure' = unsure
        /\ live' = live
    BY <1>1 DEF vars, parent, record, listener, ghosts, NoticeInv, DelegationTypeOK, HostTypeOK, Telling
  <2> QED
    BY <2>1, Spares, Quietly DEF Quiet, NoticeInv, LiveIsOpen, DelegationTypeOK, HostTypeOK
<1>2. CASE ToolStep
  BY <1>2, NoticeStarts DEF ToolStep
<1>3. CASE ListenerStep \/ TellFails
  BY <1>3, NoticeVisits, NoticeTells, NoticeMarks DEF ListenerStep
<1>4. CASE \E c \in Sessions : ChildMoves(c) \/ EndTurn(c) \/ TurnFails(c) \/ Stop(c)
  BY <1>4, NoticeTurns, NoticePauses DEF ChildMoves
<1>5. CASE \E c \in Sessions, m \in Sends : Send(c, m) \/ Prompt(c, m)
  BY <1>5, NoticeSends
<1>6. CASE \E f \in Forks, c \in Children : Fork(f, c)
  BY <1>6, NoticeForks
<1>7. CASE ParentReads \/ ParentStops \/ ParentResumes \/ Crash \/ Restart
  BY <1>7, NoticeRest
<1> QED
  BY <1>1, <1>2, <1>3, <1>4, <1>5, <1>6, <1>7 DEF Next

LEMMA NoticeAlways == Spec => []NoticeInv
BY NoticeStart, NoticeStep, PTL DEF Spec

\* Whatever ends or fails in a child, however often the listener retries and
\* whenever the process dies between the parent's receipt and the marker in the
\* child's log: a settlement is marked only when it is in the parent's inbox, and
\* is there once, and once more for each time its admission failed after the append.
THEOREM SettlementsAreToldOnce == Spec => []NoticesAreTold
<1>1. NoticeInv => NoticesAreTold
  BY DEF NoticeInv, NoticesAreTold
<1> QED
  BY <1>1, NoticeAlways, PTL

--------------------------------------------------------------------------------
(* Concurrent starts *)

LEMMA StartedFinite ==
    ASSUME NoticeInv, NEW S \in SUBSET Sessions, NEW T \in SUBSET S
    PROVE  /\ IsFiniteSet(S) /\ IsFiniteSet(T)
           /\ Cardinality(S) \in Nat /\ Cardinality(T) \in Nat /\ Cardinality(T) <= Cardinality(S)
<1>1. IsFiniteSet(S)
  BY FS_Subset
<1> QED
  BY <1>1, FS_Subset, FS_CardinalityType

\* A step by which no other child starts to run.
LEMMA StartShrinks ==
    ASSUME NoticeInv, StartInv, Started' \subseteq Started,
           \A c \in Children : op'[c] # "idle" => op[c] # "idle" /\ (c \notin woken' => c \notin woken)
    PROVE  StartInv'
<1>1. Started \in SUBSET Sessions
  BY DEF Started, NoticeInv, DelegationTypeOK, HostTypeOK
<1>2. Cardinality(Started) <= RunLimit /\ Cardinality(Started) \in Nat
  BY <1>1, StartedFinite DEF StartInv, StartsFit, Started
<1>3. Cardinality(Started') \in Nat /\ Cardinality(Started') <= Cardinality(Started)
  BY <1>1, StartedFinite
<1>4. StartsFit'
  BY <1>2, <1>3 DEF StartsFit, Started
<1>5. ASSUME NEW c \in Children, c \notin woken', op'[c] # "idle" PROVE Cardinality(Started' \ {c}) < RunLimit
  <2>1. Cardinality(Started \ {c}) < RunLimit
    BY <1>5 DEF StartInv
  <2>2. /\ Cardinality(Started \ {c}) \in Nat /\ Cardinality(Started' \ {c}) \in Nat
        /\ Cardinality(Started' \ {c}) <= Cardinality(Started \ {c})
    <3>1. Started \ {c} \in SUBSET Sessions /\ Started' \ {c} \in SUBSET (Started \ {c})
      BY <1>1
    <3> QED
      BY <3>1, StartedFinite
  <2> QED
    BY <2>1, <2>2
<1> QED
  BY <1>4, <1>5 DEF StartInv, Started

\* The start under way, once its child may run.
LEMMA StartRuns ==
    ASSUME NoticeInv, StartInv, NEW c \in Children, op[c] # "idle", woken' = woken,
           Started' \subseteq Started \union {c}, c \in woken => Started' \subseteq Started,
           \A d \in Children : op'[d] # "idle" => d = c
    PROVE  StartInv'
<1>1. CASE c \in woken
  BY <1>1, StartShrinks
<1>2. CASE c \notin woken
  <2>1. Started \in SUBSET Sessions /\ Cardinality(Started \ {c}) < RunLimit /\ c \in Sessions
    BY <1>2 DEF Started, StartInv, NoticeInv, DelegationTypeOK, HostTypeOK, Sessions
  <2>2. /\ IsFiniteSet(Started \ {c}) /\ Cardinality(Started \ {c}) \in Nat
    BY <2>1, StartedFinite
  <2>3. Cardinality((Started \ {c}) \union {c}) = Cardinality(Started \ {c}) + 1
    BY <2>2, FS_AddElement
  <2>4. Started' \in SUBSET ((Started \ {c}) \union {c}) /\ (Started \ {c}) \union {c} \in SUBSET Sessions
    BY <2>1
  <2>5. Cardinality(Started') \in Nat /\ Cardinality(Started') <= Cardinality(Started \ {c}) + 1
    BY <2>3, <2>4, StartedFinite
  <2>6. Started' \ {c} \in SUBSET (Started \ {c})
    BY <2>4
  <2>7. Cardinality(Started' \ {c}) \in Nat /\ Cardinality(Started' \ {c}) <= Cardinality(Started \ {c})
    BY <2>1, <2>6, StartedFinite
  <2>8. Cardinality(Started') <= RunLimit /\ Cardinality(Started' \ {c}) < RunLimit
    BY <2>1, <2>2, <2>5, <2>7
  <2> QED
    BY <2>8 DEF StartInv, StartsFit, Started
<1> QED
  BY <1>1, <1>2

LEMMA StartStarts ==
    ASSUME NoticeInv, StartInv, NEW c \in Children, Start(c) \/ Describe(c) \/ Deliver(c)
    PROVE  StartInv'
<1>0. c \in Sessions /\ op \in [Children -> {"idle", "describe", "deliver"}]
  BY DEF Sessions, NoticeInv, DelegationTypeOK, HostTypeOK
<1>1. CASE Start(c)
  <2>1. /\ running' = running /\ delegated' = delegated /\ \A d \in Children : op[d] = "idle"
    BY <1>1 DEF Start, Fenced
  <2>2. CASE c \in delegated
    <3>1. woken' = woken \union {c} /\ op' = [op EXCEPT ![c] = "deliver"]
      BY <1>1, <2>2 DEF Start
    <3>2. \A d \in Children : op'[d] # "idle" => d = c
      BY <1>0, <2>1, <3>1
    <3>3. Started' \in SUBSET Started /\ Started \in SUBSET Sessions
      BY <2>1, <3>1 DEF Started, NoticeInv, DelegationTypeOK, HostTypeOK
    <3>4. Cardinality(Started') \in Nat /\ Cardinality(Started) \in Nat /\ Cardinality(Started') <= Cardinality(Started)
      BY <3>3, StartedFinite
    <3>5. Cardinality(Started) <= RunLimit
      BY DEF StartInv, StartsFit, Started
    <3>6. StartsFit'
      BY <3>4, <3>5 DEF StartsFit, Started
    <3> QED
      BY <3>1, <3>2, <3>6 DEF StartInv
  <2>3. CASE c \notin delegated
    <3>1. Room /\ woken' = woken /\ op' = [op EXCEPT ![c] = "describe"]
      BY <1>1, <2>3 DEF Start
    <3>2. \A d \in Children : op'[d] # "idle" => d = c
      BY <1>0, <2>1, <3>1
    <3>3. Started' = Started
      BY <2>1, <3>1 DEF Started
    <3>4. StartsFit'
      BY <2>1, <3>1 DEF StartInv, StartsFit
    <3>5. Started \ {c} \in SUBSET (running \intersect delegated) /\ running \intersect delegated \in SUBSET Sessions
      BY DEF Started, NoticeInv, DelegationTypeOK, HostTypeOK
    <3>6. /\ Cardinality(Started \ {c}) \in Nat /\ Cardinality(running \intersect delegated) \in Nat
          /\ Cardinality(Started \ {c}) <= Cardinality(running \intersect delegated)
      BY <3>5, StartedFinite
    <3>7. Cardinality(Started \ {c}) < RunLimit
      BY <3>1, <3>6 DEF Room
    <3> QED
      BY <3>2, <3>3, <3>4, <3>7 DEF StartInv
  <2> QED
    BY <2>2, <2>3
<1>2. CASE Describe(c) \/ Deliver(c)
  <2>1. op[c] # "idle" /\ woken' = woken /\ (op' = [op EXCEPT ![c] = "deliver"] \/ op' = [op EXCEPT ![c] = "idle"])
    BY <1>2 DEF Describe, Deliver, ghosts
  <2>2. \A d \in Children : d # c => op[d] = "idle"
    BY <2>1 DEF StartInv
  <2>3. \A d \in Children : op'[d] # "idle" => d = c
    BY <1>0, <2>1, <2>2
  <2>4. delegated' \subseteq delegated \union {c} /\ running' \subseteq running \union {c}
    <3>1. CASE Describe(c)
      BY <3>1 DEF Describe
    <3>2. CASE Deliver(c)
      <4>1. CASE Receive(c, initial) /\ faulted' = faulted
        BY <1>0, <3>2, <4>1, Receives DEF Deliver, Messages
      <4>2. CASE running' = running
        BY <3>2, <4>2 DEF Deliver
      <4> QED
        BY <3>2, <4>1, <4>2 DEF Deliver, Slips
    <3> QED
      BY <1>2, <3>1, <3>2
  <2>5. Started' \subseteq Started \union {c} /\ (c \in woken => Started' \subseteq Started)
    BY <2>1, <2>4 DEF Started
  <2> QED
    BY <2>1, <2>3, <2>5, StartRuns
<1> QED
  BY <1>1, <1>2

LEMMA StartOthers ==
    ASSUME NoticeInv, StartInv, NEW c \in Sessions,
           \/ ChildMoves(c) \/ EndTurn(c) \/ TurnFails(c) \/ Stop(c)
           \/ \E m \in Sends : Send(c, m) \/ Prompt(c, m)
    PROVE  StartInv'
<1>1. CASE BeginTurn(c) \/ EndTurn(c) \/ PauseAfter(c) \/ TurnFails(c) \/ Stop(c)
  <2>1. UNCHANGED <<op, running, delegated, woken>>
    BY <1>1 DEF BeginTurn, EndTurn, PauseAfter, TurnFails, Stop, ghosts
  <2> QED
    BY <2>1, StartShrinks DEF Started
<1>2. CASE Rest(c)
  <2>1. /\ op' = op /\ delegated' = delegated /\ running' = running \ {c}
        /\ woken' = IF c \in Children /\ op[c] = "idle" THEN woken \ {c} ELSE woken
    BY <1>2 DEF Rest
  <2>2. Started' \subseteq Started
    BY <2>1 DEF Started
  <2> QED
    BY <2>1, <2>2, StartShrinks
<1>3. CASE \E m \in Sends : Send(c, m) \/ Prompt(c, m)
  <2>1. PICK m \in Sends : Send(c, m) \/ Prompt(c, m)
    BY <1>3
  <2>2. /\ op' = op /\ delegated' = delegated
        /\ \/ running' = running /\ woken' = woken
           \/ running' \subseteq running \union {c} /\ woken' = woken \union {c}
    <3>1. CASE Receive(c, m) /\ faulted' = faulted /\ woken' = woken \union {c}
      BY <2>1, <3>1, Receives DEF Send, Prompt, Messages
    <3>2. CASE ~(Receive(c, m) /\ faulted' = faulted /\ woken' = woken \union {c})
      BY <2>1, <3>2 DEF Send, Prompt, Slips
    <3> QED
      BY <3>1, <3>2
  <2>3. Started' \subseteq Started
    BY <2>2 DEF Started
  <2> QED
    BY <2>2, <2>3, StartShrinks
<1> QED
  BY <1>1, <1>2, <1>3 DEF ChildMoves

LEMMA StartListens ==
    ASSUME NoticeInv, StartInv, ListenerStep \/ TellFails
    PROVE  StartInv'
<1>1. CASE Tick \/ Leave \/ Tell \/ TellFails \/ Mark
  <2>1. UNCHANGED <<op, running, delegated, woken>>
    BY <1>1 DEF Tick, Leave, Tell, TellFails, Mark, record, ghosts
  <2> QED
    BY <2>1, StartShrinks DEF Started
<1>2. CASE Visit
  <2>1. PICK c : c = Head(batch)[1]
    OBVIOUS
  <2>2. c \in Sessions
    <3>1. Head(batch) \in Sessions \X Nat
      BY <1>2, HeadTailProperties DEF Visit, NoticeInv, DelegationTypeOK, HostTypeOK
    <3> QED
      BY <2>1, <3>1
  <2>3. op' = op /\ delegated' = delegated
    BY <1>2 DEF Visit
  <2>4. CASE /\ Receive(c, initial) /\ faulted' = faulted
             /\ woken' = IF Known(c, initial) THEN woken ELSE woken \union {c}
    <3>1. /\ running' \subseteq running \union {c}
          /\ Known(c, initial) => running' = running
      BY <2>2, <2>4, Receives DEF Messages
    <3>2. Started' \subseteq Started /\ woken \subseteq woken'
      BY <2>3, <2>4, <3>1 DEF Started
    <3> QED
      BY <2>3, <3>2, StartShrinks
  <2>5. CASE running' = running /\ woken' = woken
    BY <2>3, <2>5, StartShrinks DEF Started
  <2> QED
    BY <1>2, <2>1, <2>4, <2>5 DEF Visit, Slips
<1> QED
  BY <1>1, <1>2 DEF ListenerStep

LEMMA StartRests ==
    ASSUME NoticeInv, StartInv,
           \/ ParentReads \/ ParentStops \/ ParentResumes \/ Crash \/ Restart
           \/ \E f \in Forks, c \in Children : Fork(f, c)
    PROVE  StartInv'
<1>1. CASE ParentReads \/ ParentStops \/ ParentResumes \/ \E f \in Forks, c \in Children : Fork(f, c)
  <2>1. UNCHANGED <<running, delegated, woken>> /\ \A c \in Children : op'[c] # "idle" => op[c] # "idle"
    BY <1>1 DEF ParentReads, ParentStops, ParentResumes, Fork, record, ghosts
  <2> QED
    BY <2>1, StartShrinks DEF Started
<1>2. CASE Crash
  <2>1. running' = {} /\ \A d \in Children : op'[d] = "idle"
    BY <1>2 DEF Crash
  <2>2. Started' = {}
    BY <2>1 DEF Started
  <2> QED
    BY <2>1, <2>2, StartShrinks
<1>3. CASE Restart
  <2>1. op' = op /\ woken' = running'
    BY <1>3 DEF Restart
  <2>2. Started' = {}
    BY <2>1 DEF Started
  <2>3. Cardinality(Started') = 0 /\ \A c : Started' \ {c} = {}
    BY <2>2, FS_EmptySet
  <2>4. StartsFit'
    BY <2>3 DEF StartsFit, Started
  <2>5. \A c : Cardinality(Started' \ {c}) < RunLimit
    BY <2>3, FS_EmptySet
  <2> QED
    BY <2>1, <2>4, <2>5 DEF StartInv
<1> QED
  BY <1>1, <1>2, <1>3

LEMMA StartStep ==
    ASSUME NoticeInv, StartInv, [Next]_vars
    PROVE  StartInv'
<1>1. CASE UNCHANGED vars
  <2>1. UNCHANGED <<op, running, delegated, woken>>
    BY <1>1 DEF vars, record, ghosts
  <2> QED
    BY <2>1, StartShrinks DEF Started
<1>2. CASE ToolStep
  BY <1>2, StartStarts DEF ToolStep
<1>3. CASE ListenerStep \/ TellFails
  BY <1>3, StartListens
<1>4. CASE \/ \E c \in Sessions : ChildMoves(c) \/ EndTurn(c) \/ TurnFails(c) \/ Stop(c)
           \/ \E c \in Sessions, m \in Sends : Send(c, m) \/ Prompt(c, m)
  BY <1>4, StartOthers
<1>5. CASE \/ ParentReads \/ ParentStops \/ ParentResumes \/ Crash \/ Restart
           \/ \E f \in Forks, c \in Children : Fork(f, c)
  BY <1>5, StartRests
<1> QED
  BY <1>1, <1>2, <1>3, <1>4, <1>5 DEF Next

LEMMA StartFirst ==
    ASSUME Init
    PROVE  StartInv
<1>1. Started = {} /\ \A c \in Children : op[c] = "idle"
  BY DEF Init, Started
<1>2. StartsFit
  BY <1>1, FS_EmptySet DEF StartsFit, Started
<1> QED
  BY <1>1, <1>2 DEF StartInv

LEMMA StartAlways == Spec => []StartInv
<1>1. NoticeInv /\ StartInv /\ [Next]_vars => StartInv'
  BY StartStep
<1> QED
  BY <1>1, NoticeAlways, StartFirst, PTL DEF Spec

\* The creation lock makes one start wait for another, so a start sees every child
\* that an earlier one set to run: however many start at once, and whatever else
\* the children do, the ones that run because they were started are within the
\* limit.
THEOREM StartsAreLimited == Spec => []StartsFit
<1>1. StartInv => StartsFit
  BY DEF StartInv
<1> QED
  BY <1>1, StartAlways, PTL

--------------------------------------------------------------------------------
(* A task is run once *)

\* Appending one fact adds it to the number of such facts, and no other.
LEMMA CountMoves ==
    ASSUME log \in [Sessions -> Seq(Facts)], NEW c \in Sessions, NEW s \in Seq(Facts), Log(c, s), NEW f
    PROVE  /\ \A d \in Sessions : d # c => Count(d, f)' = Count(d, f)
           /\ (\A i \in 1..Len(s) : s[i] # f) => Count(c, f)' = Count(c, f)
           /\ (Len(s) > 0 /\ \A i \in 1..Len(s) : s[i] = f <=> i = Len(s)) => Count(c, f)' = Count(c, f) + 1
<1>1. /\ log' \in [Sessions -> Seq(Facts)] /\ Len(log'[c]) = Len(log[c]) + Len(s)
      /\ \A d \in Sessions : d # c => log'[d] = log[d]
      /\ \A i \in 1..Len(log[c]) : log'[c][i] = log[c][i]
      /\ \A i \in 1..Len(s) : log'[c][Len(log[c]) + i] = s[i]
  BY Logged
<1>2. /\ DOMAIN log[c] = 1..Len(log[c]) /\ Len(log[c]) \in Nat /\ Len(s) \in Nat
      /\ DOMAIN log'[c] = 1..Len(log'[c])
  BY <1>1
<1> DEFINE S == {i \in DOMAIN log[c] : log[c][i] = f}
           T == {i \in DOMAIN log'[c] : log'[c][i] = f}
<1>3. Count(c, f) = Cardinality(S) /\ Count(c, f)' = Cardinality(T) /\ IsFiniteSet(S)
  BY CountsAre DEF Count
<1>4. ASSUME \A i \in 1..Len(s) : s[i] # f PROVE T = S
  <2>1. ASSUME NEW i \in T PROVE i \in S
    <3>1. CASE i <= Len(log[c])
      <4>1. i \in 1..Len(log[c])
        BY <1>2, <2>1, <3>1
      <4> QED
        BY <1>1, <1>2, <2>1, <4>1
    <3>2. CASE ~(i <= Len(log[c]))
      <4>1. i \in 1..Len(log'[c]) /\ log'[c][i] = f
        BY <1>2, <2>1
      <4>2. i - Len(log[c]) \in 1..Len(s) /\ Len(log[c]) + (i - Len(log[c])) = i
        BY <1>1, <1>2, <3>2, <4>1
      <4>3. log'[c][i] = s[i - Len(log[c])]
        BY <1>1, <4>2
      <4> QED
        BY <1>4, <4>1, <4>2, <4>3
    <3> QED
      BY <3>1, <3>2
  <2>2. ASSUME NEW i \in S PROVE i \in T
    BY <1>1, <1>2, <2>2
  <2> QED
    BY <2>1, <2>2
<1>5. ASSUME Len(s) > 0, \A i \in 1..Len(s) : s[i] = f <=> i = Len(s)
      PROVE  T = S \union {Len(log[c]) + Len(s)} /\ Len(log[c]) + Len(s) \notin S
  <2>1. Len(s) \in 1..Len(s) /\ Len(log[c]) + Len(s) \in 1..Len(log'[c])
    BY <1>1, <1>2, <1>5
  <2>2. log'[c][Len(log[c]) + Len(s)] = f
    BY <1>1, <1>5, <2>1
  <2>3. ASSUME NEW i \in T PROVE i \in S \union {Len(log[c]) + Len(s)}
    <3>1. i \in 1..(Len(log[c]) + Len(s)) /\ log'[c][i] = f
      BY <1>1, <1>2, <2>3
    <3>2. CASE i <= Len(log[c])
      <4>1. i \in 1..Len(log[c])
        BY <1>2, <3>1, <3>2
      <4> QED
        BY <1>1, <1>2, <3>1, <4>1
    <3>3. CASE ~(i <= Len(log[c]))
      <4>1. i - Len(log[c]) \in 1..Len(s) /\ Len(log[c]) + (i - Len(log[c])) = i
        BY <1>2, <3>1, <3>3
      <4>2. s[i - Len(log[c])] = f
        BY <1>1, <3>1, <4>1
      <4>3. i - Len(log[c]) = Len(s)
        BY <1>5, <4>1, <4>2
      <4> QED
        BY <1>2, <4>1, <4>3
    <3> QED
      BY <3>2, <3>3
  <2>4. ASSUME NEW i \in S PROVE i \in T
    BY <1>1, <1>2, <2>4
  <2>5. Len(log[c]) + Len(s) \in T
    BY <1>2, <2>1, <2>2
  <2>6. Len(log[c]) + Len(s) \notin 1..Len(log[c])
    BY <1>2, <1>5
  <2> QED
    BY <1>2, <2>3, <2>4, <2>5, <2>6
<1> HIDE DEF S, T
<1>6. (Len(s) > 0 /\ \A i \in 1..Len(s) : s[i] = f <=> i = Len(s)) => Cardinality(T) = Cardinality(S) + 1
  BY <1>3, <1>5, FS_AddElement
<1> QED
  BY <1>1, <1>3, <1>4, <1>6 DEF Count

\* A step that gives no child its task and begins no turn of it.
Aside ==
    \/ log' = log
    \/ \E c \in Sessions, s \in Seq(Facts) :
          Log(c, s) /\ \A i \in 1..Len(s) : s[i] # Fact("in", initial) /\ s[i] # Fact("turn", initial)

\* The host forgets no task it knows of, and no admission of a task fails.
Recalls == \A c \in Sessions : /\ faulted'[Input(c, initial)] = faulted[Input(c, initial)]
                               /\ Known(c, initial) => Known(c, initial)'

LEMMA Recall ==
    ASSUME faulted' = faulted, \A c \in Sessions : known[c] \subseteq known'[c],
           \A n \in Inputs : n \in unsure' => n \in unsure
    PROVE  Recalls
<1>1. \A c \in Sessions : Input(c, initial) \in Inputs
  BY InputsAre DEF Messages
<1> QED
  BY <1>1 DEF Recalls, Known

LEMMA TaskStays ==
    ASSUME NoticeInv, TaskInv, Aside, ran' = ran, task' = task, Recalls
    PROVE  TaskInv'
<1>1. log \in [Sessions -> Seq(Facts)] /\ faulted \in [Notices \union Inputs -> Nat]
  BY DEF NoticeInv, DelegationTypeOK
<1>2. \A c \in Sessions : Asked(c)' = Asked(c) /\ Begun(c)' = Begun(c)
  <2>1. CASE log' = log
    BY <2>1 DEF Asked, Begun, Count
  <2>2. CASE \E c \in Sessions, s \in Seq(Facts) :
               Log(c, s) /\ \A i \in 1..Len(s) : s[i] # Fact("in", initial) /\ s[i] # Fact("turn", initial)
    <3>1. PICK c \in Sessions, s \in Seq(Facts) :
               Log(c, s) /\ \A i \in 1..Len(s) : s[i] # Fact("in", initial) /\ s[i] # Fact("turn", initial)
      BY <2>2
    <3>2. ASSUME NEW f \in {Fact("in", initial), Fact("turn", initial)}, NEW d \in Sessions
          PROVE  Count(d, f)' = Count(d, f)
      BY <1>1, <3>1, CountMoves
    <3> QED
      BY <3>2 DEF Asked, Begun
  <2> QED
    BY <2>1, <2>2 DEF Aside
<1>3. ASSUME NEW c \in Children
      PROVE  /\ ran'[c] = Begun(c)' /\ Begun(c)' <= Asked(c)'
             /\ Asked(c)' <= faulted'[Input(c, initial)] + Given(c)'
  <2>1. c \in Sessions /\ Input(c, initial) \in Inputs
    BY InputsAre DEF Sessions, Messages
  <2>2. faulted[Input(c, initial)] \in Nat /\ Asked(c) \in Nat
    BY <1>1, <2>1, CountsAre DEF Asked
  <2>3. faulted'[Input(c, initial)] = faulted[Input(c, initial)] /\ Given(c)' \in {0, 1}
        /\ (Given(c) = 1 => Given(c)' = 1) /\ Given(c) \in {0, 1}
    BY <2>1 DEF Recalls, Given
  <2>4. ran[c] = Begun(c) /\ Begun(c) <= Asked(c) /\ Asked(c) <= faulted[Input(c, initial)] + Given(c)
    BY DEF TaskInv
  <2>5. faulted[Input(c, initial)] + Given(c) <= faulted'[Input(c, initial)] + Given(c)'
    BY <2>2, <2>3
  <2> QED
    BY <1>2, <2>1, <2>2, <2>3, <2>4, <2>5
<1> QED
  BY <1>3 DEF TaskInv

LEMMA AsideFacts ==
    ASSUME NoticeInv, NEW c \in Sessions
    PROVE  /\ \A m \in Messages : \A k \in {"end", "fail", "told", "failtold"} : Log(c, <<Fact(k, m)>>) => Aside
           /\ \A m \in Sends : \A k \in {"in", "turn"} : Log(c, <<Fact(k, m)>>) => Aside
           /\ \A k \in {"created", "delegated", "pause"} : Log(c, <<Fact(k, none)>>) => Aside
           /\ \A m \in Sends : Log(c, <<Fact("resume", none), Fact("in", m)>>) => Aside
<1>1. ASSUME NEW f \in Facts, f # Fact("in", initial), f # Fact("turn", initial), Log(c, <<f>>)
      PROVE  Aside
  <2>1. <<f>> \in Seq(Facts) /\ \A i \in 1..Len(<<f>>) : <<f>>[i] = f
    OBVIOUS
  <2> QED
    BY <1>1, <2>1 DEF Aside
<1>2. ASSUME NEW m \in Messages, NEW k \in {"end", "fail", "told", "failtold"}, Log(c, <<Fact(k, m)>>)
      PROVE  Aside
  <2>1. Fact(k, m) \in Facts
    BY FactsOf DEF Plain
  <2>2. Fact(k, m) # Fact("in", initial) /\ Fact(k, m) # Fact("turn", initial)
    BY DEF Fact
  <2> QED
    BY <1>1, <1>2, <2>1, <2>2
<1>3. ASSUME NEW m \in Sends, NEW k \in {"in", "turn"}, Log(c, <<Fact(k, m)>>)
      PROVE  Aside
  <2>1. Fact(k, m) \in Facts
    BY FactsOf DEF Plain, Messages
  <2>2. Fact(k, m) # Fact("in", initial) /\ Fact(k, m) # Fact("turn", initial)
    BY DEF Fact
  <2> QED
    BY <1>1, <1>3, <2>1, <2>2
<1>4. ASSUME NEW k \in {"created", "delegated", "pause"}, Log(c, <<Fact(k, none)>>)
      PROVE  Aside
  <2>1. Fact(k, none) \in Facts
    BY FactsOf DEF Plain
  <2>2. Fact(k, none) # Fact("in", initial) /\ Fact(k, none) # Fact("turn", initial)
    BY DEF Fact
  <2> QED
    BY <1>1, <1>4, <2>1, <2>2
<1>5. ASSUME NEW m \in Sends, Log(c, <<Fact("resume", none), Fact("in", m)>>)
      PROVE  Aside
  <2>1. PICK f \in Facts, g \in Facts : f = Fact("resume", none) /\ g = Fact("in", m)
    BY FactsOf DEF Plain, Messages
  <2>2. <<f, g>> \in Seq(Facts) /\ \A i \in 1..Len(<<f, g>>) : <<f, g>>[i] = f \/ <<f, g>>[i] = g
    OBVIOUS
  <2>3. /\ f # Fact("in", initial) /\ f # Fact("turn", initial)
        /\ g # Fact("in", initial) /\ g # Fact("turn", initial)
    BY <2>1 DEF Fact
  <2> QED
    BY <1>5, <2>1, <2>2, <2>3 DEF Aside
<1> QED
  BY <1>2, <1>3, <1>4, <1>5

\* A child's inbox is given the task, and the count of those that failed goes up or
\* the host knows of it from then on.
LEMMA TaskGiven ==
    ASSUME NoticeInv, TaskInv, NEW c \in Sessions, Log(c, <<Fact("in", initial)>>), ran' = ran, task' = task,
           ~Known(c, initial), \A d \in Sessions : d # c => /\ Known(d, initial) => Known(d, initial)'
                                                            /\ faulted'[Input(d, initial)] = faulted[Input(d, initial)],
           \/ faulted'[Input(c, initial)] = faulted[Input(c, initial)] /\ Known(c, initial)'
           \/ faulted'[Input(c, initial)] = faulted[Input(c, initial)] + 1
    PROVE  TaskInv'
<1>0. log \in [Sessions -> Seq(Facts)] /\ faulted \in [Notices \union Inputs -> Nat]
  BY DEF NoticeInv, DelegationTypeOK
<1>1. PICK s \in Seq(Facts) : /\ s = <<Fact("in", initial)>> /\ Len(s) = 1 /\ s[1] = Fact("in", initial)
                              /\ Fact("in", initial) # Fact("turn", initial)
  <2>1. Fact("in", initial) \in Facts
    BY FactsOf DEF Plain, Messages
  <2> QED
    BY <2>1, OneFact DEF Fact
<1>2. Log(c, s) /\ \A i \in 1..Len(s) : i = Len(s) /\ s[i] # Fact("turn", initial) /\ s[i] = Fact("in", initial)
  BY <1>1
<1>3. /\ \A d \in Sessions : d # c => Asked(d)' = Asked(d) /\ Begun(d)' = Begun(d)
      /\ Asked(c)' = Asked(c) + 1 /\ Begun(c)' = Begun(c)
  <2>1. (\A i \in 1..Len(s) : s[i] # Fact("turn", initial)) /\ Len(s) > 0
        /\ \A i \in 1..Len(s) : s[i] = Fact("in", initial) <=> i = Len(s)
    BY <1>1, <1>2
  <2>2. /\ \A d \in Sessions : d # c => Asked(d)' = Asked(d)
        /\ Asked(c)' = Asked(c) + 1
    BY <1>0, <1>2, <2>1, CountMoves DEF Asked
  <2>3. /\ \A d \in Sessions : d # c => Begun(d)' = Begun(d)
        /\ Begun(c)' = Begun(c)
    BY <1>0, <1>2, <2>1, CountMoves DEF Begun
  <2> QED
    BY <2>2, <2>3
<1>4. ASSUME NEW d \in Children
      PROVE  /\ ran'[d] = Begun(d)' /\ Begun(d)' <= Asked(d)'
             /\ Asked(d)' <= faulted'[Input(d, initial)] + Given(d)'
  <2>1. d \in Sessions /\ Input(d, initial) \in Inputs
    BY InputsAre DEF Sessions, Messages
  <2>2. /\ faulted[Input(d, initial)] \in Nat /\ Asked(d) \in Nat /\ Begun(d) \in Nat
        /\ Given(d) \in {0, 1} /\ Given(d)' \in {0, 1}
    BY <1>0, <2>1, CountsAre DEF Asked, Begun, Given
  <2>3. ran[d] = Begun(d) /\ Begun(d) <= Asked(d) /\ Asked(d) <= faulted[Input(d, initial)] + Given(d)
    BY DEF TaskInv
  <2>4. CASE d = c
    <3>1. Given(d) = 0
      BY <2>4 DEF Given
    <3>2. faulted'[Input(d, initial)] + Given(d)' >= faulted[Input(d, initial)] + 1
      BY <2>2, <2>4 DEF Given
    <3> QED
      BY <1>3, <2>2, <2>3, <2>4, <3>1, <3>2
  <2>5. CASE d # c
    <3>1. faulted'[Input(d, initial)] = faulted[Input(d, initial)] /\ (Given(d) = 1 => Given(d)' = 1)
      BY <2>1, <2>5 DEF Given
    <3>2. faulted[Input(d, initial)] + Given(d) <= faulted'[Input(d, initial)] + Given(d)'
      BY <2>2, <3>1
    <3> QED
      BY <1>3, <2>1, <2>2, <2>3, <2>5, <3>1, <3>2
  <2> QED
    BY <2>4, <2>5
<1> QED
  BY <1>4 DEF TaskInv

LEMMA TaskReceived ==
    ASSUME NoticeInv, TaskInv, NEW c \in Sessions, ran' = ran, task' = task,
           \/ Receive(c, initial) /\ faulted' = faulted
           \/ Slips(c, initial) /\ Log(c, <<Fact("in", initial)>>)
    PROVE  TaskInv'
<1>0. known \in [Sessions -> SUBSET Messages] /\ initial \in Messages
      /\ faulted \in [Notices \union Inputs -> Nat]
  BY DEF NoticeInv, DelegationTypeOK, HostTypeOK, Messages
<1>i. PICK i : i = Input(c, initial)
  OBVIOUS
<1>j. i \in Inputs /\ \A d \in Sessions : d # c => Input(d, initial) # i /\ Input(d, initial) \in Inputs
  BY <1>0, <1>i, InputsAre
<1>1. CASE Receive(c, initial) /\ faulted' = faulted /\ Known(c, initial)
  <2>1. log' = log /\ known' = known /\ unsure' = unsure
    BY <1>1 DEF Receive
  <2>2. Recalls
    BY <1>1, <2>1, Recall
  <2> QED
    BY <2>1, <2>2, TaskStays DEF Aside
<1>2. CASE Receive(c, initial) /\ faulted' = faulted /\ ~Known(c, initial)
  <2>1. Log(c, <<Fact("in", initial)>>) /\ Learns(c, initial)
    BY <1>2 DEF Receive, Commit
  <2>2. /\ \A d \in Sessions : known[d] \subseteq known'[d]
        /\ initial \in known'[c] /\ unsure' = unsure \ {Input(c, initial)}
    BY <1>0, <1>2, <2>1, LearnsAre
  <2>3. Known(c, initial)' /\ \A d \in Sessions : Known(d, initial) => Known(d, initial)'
    BY <2>2 DEF Known
  <2> QED
    BY <1>2, <2>1, <2>3, TaskGiven
<1>3. CASE Slips(c, initial) /\ Log(c, <<Fact("in", initial)>>)
  <2>1. /\ \A d \in Sessions : known[d] \subseteq known'[d]
        /\ ~Known(c, initial) /\ unsure' = unsure \union {i}
        /\ faulted' = [faulted EXCEPT ![i] = @ + 1]
    BY <1>0, <1>3, <1>i, SlipsAre
  <2>2. faulted'[i] = faulted[i] + 1
    BY <1>0, <1>j, <2>1
  <2>3. \A d \in Sessions : d # c => /\ Known(d, initial) => Known(d, initial)'
                                     /\ faulted'[Input(d, initial)] = faulted[Input(d, initial)]
    BY <1>0, <1>j, <2>1 DEF Known
  <2> QED
    BY <1>3, <1>i, <2>1, <2>2, <2>3, TaskGiven
<1> QED
  BY <1>1, <1>2, <1>3

\* A turn of the task takes an input that no turn has taken.
LEMMA TaskBegins ==
    ASSUME NoticeInv, TaskInv, NEW c \in Children, BeginTurn(c)
    PROVE  TaskInv'
<1>0. /\ c \in Sessions /\ log \in [Sessions -> Seq(Facts)] /\ ran \in [Children -> Nat]
      /\ task' = task /\ task[c] = c
  BY DEF NoticeInv, DelegationTypeOK, HostTypeOK, BeginTurn, TaskInv, Sessions
<1>r. faulted' = faulted /\ known' = known /\ unsure' = unsure
  BY DEF BeginTurn
<1>1. PICK m \in Pending(c), s \in Seq(Facts) :
              /\ Log(c, s) /\ Len(s) \in 1..2 /\ s[Len(s)] = Fact("turn", m)
              /\ \A i \in 1..Len(s) : i # Len(s) => \E x \in Messages : s[i] = Fact("end", x)
              /\ (cursor' = cursor \/ cursor' = [cursor EXCEPT ![c] = Len(log[c]) + Len(s)])
              /\ ran' = IF m = initial THEN [ran EXCEPT ![task[c]] = @ + 1] ELSE ran
  BY <1>0, TurnBegins
<1>2. \A i \in 1..Len(s) : s[i] # Fact("in", initial) /\ (i # Len(s) => s[i] # Fact("turn", initial))
  <2>1. \A x, y : Fact("turn", x) # Fact("in", y) /\ Fact("end", x) # Fact("in", y) /\ Fact("end", x) # Fact("turn", y)
    BY DEF Fact
  <2>2. ASSUME NEW i \in 1..Len(s)
        PROVE  s[i] # Fact("in", initial) /\ (i # Len(s) => s[i] # Fact("turn", initial))
    <3>1. CASE i = Len(s)
      BY <1>1, <2>1, <3>1
    <3>2. CASE i # Len(s)
      <4>1. PICK x \in Messages : s[i] = Fact("end", x)
        BY <1>1, <3>2
      <4> QED
        BY <2>1, <4>1
    <3> QED
      BY <3>1, <3>2
  <2> QED
    BY <2>2
<1>3. CASE m # initial
  <2>1. \A i \in 1..Len(s) : s[i] # Fact("in", initial) /\ s[i] # Fact("turn", initial)
    BY <1>1, <1>2, <1>3 DEF Fact
  <2>2. Aside
    BY <1>0, <1>1, <2>1 DEF Aside
  <2>3. Recalls
    BY <1>r, Recall
  <2> QED
    BY <1>0, <1>1, <1>3, <2>2, <2>3, TaskStays
<1>4. CASE m = initial
  <2>1. Asked(c) > Begun(c) /\ Asked(c) \in Nat /\ Begun(c) \in Nat
    BY <1>0, <1>1, <1>4, CountsAre DEF Asked, Begun, Pending
  <2>2. Len(s) > 0 /\ \A i \in 1..Len(s) : s[i] = Fact("turn", initial) <=> i = Len(s)
    <3>1. s[Len(s)] = Fact("turn", initial)
      BY <1>1, <1>4, Zenon
    <3>2. Len(s) \in 1..2
      BY <1>1, Zenon
    <3>3. Len(s) > 0
      BY ONLY <3>2
    <3> QED
      BY <1>2, <3>1, <3>3
  <2>3. \A d \in Sessions : d # c => Asked(d)' = Asked(d) /\ Begun(d)' = Begun(d)
    BY <1>0, <1>1, CountMoves DEF Asked, Begun
  <2>4. Begun(c)' = Begun(c) + 1
    BY <1>0, <1>1, <2>2, CountMoves DEF Begun
  <2>5. Asked(c)' = Asked(c)
    BY <1>0, <1>1, <1>2, CountMoves DEF Asked
  <2>6. ran'[c] = ran[c] + 1 /\ \A d \in Children : d # c => ran'[d] = ran[d]
    BY <1>0, <1>1, <1>4
  <2>7. \A d \in Children : Given(d)' = Given(d)
    BY <1>r DEF Given, Known
  <2>8. ASSUME NEW d \in Children
        PROVE  /\ ran'[d] = Begun(d)' /\ Begun(d)' <= Asked(d)'
               /\ Asked(d)' <= faulted'[Input(d, initial)] + Given(d)'
    <3>1. /\ ran[d] = Begun(d) /\ Begun(d) <= Asked(d) /\ d \in Sessions
          /\ Asked(d) <= faulted[Input(d, initial)] + Given(d)
      BY DEF TaskInv, Sessions
    <3>2. CASE d = c
      BY <1>r, <2>1, <2>4, <2>5, <2>6, <2>7, <3>1, <3>2
    <3>3. CASE d # c
      BY <1>r, <2>3, <2>6, <2>7, <3>1, <3>3
    <3> QED
      BY <3>2, <3>3
  <2> QED
    BY <1>0, <2>8 DEF TaskInv
<1> QED
  BY <1>3, <1>4

\* The other steps of the host's tool and of a child.
LEMMA TaskOthers ==
    ASSUME NoticeInv, TaskInv, NEW c \in Sessions,
           \/ c \in Children /\ (Start(c) \/ Describe(c))
           \/ EndTurn(c) \/ PauseAfter(c) \/ Rest(c) \/ TurnFails(c) \/ Stop(c)
           \/ \E m \in Sends : Send(c, m) \/ Prompt(c, m)
    PROVE  TaskInv'
<1>0. log \in [Sessions -> Seq(Facts)] /\ faulted \in [Notices \union Inputs -> Nat]
  BY DEF NoticeInv, DelegationTypeOK
<1>1. ran' = ran /\ task' = task
  BY DEF Start, Describe, EndTurn, PauseAfter, Rest, TurnFails, Stop, Send, Prompt, ghosts
<1>2. CASE \/ c \in Children /\ (Start(c) \/ Describe(c))
           \/ EndTurn(c) \/ PauseAfter(c) \/ Rest(c) \/ TurnFails(c) \/ Stop(c)
  <2>1. Recalls
    <3>1. known' = known /\ unsure' = unsure /\ faulted' = faulted
      BY <1>2 DEF Start, Describe, EndTurn, PauseAfter, Rest, TurnFails, Stop, ghosts
    <3> QED
      BY <3>1, Recall
  <2>2. Aside
    <3>1. CASE Start(c) \/ Describe(c) \/ Stop(c) \/ PauseAfter(c) \/ Rest(c)
      <4>1. log' = log \/ \E k \in {"created", "delegated", "pause"} : Log(c, <<Fact(k, none)>>)
        BY <3>1 DEF Start, Describe, Stop, PauseAfter, Rest, Commit
      <4> QED
        BY <4>1, AsideFacts DEF Aside
    <3>2. CASE EndTurn(c)
      <4>0. Open(c) # none
        BY <3>2 DEF EndTurn, NoticeInv, LiveIsOpen
      <4>1. Open(c) \in Messages /\ Log(c, <<Fact("end", Open(c))>>)
        BY <1>0, <3>2, <4>0, OpenTyped, OpenIsIn DEF EndTurn
      <4> QED
        BY <4>1, AsideFacts
    <3>3. CASE TurnFails(c)
      <4>1. PICK m \in Messages : Fails(c, m)
        <5>1. CASE Queued(c) # {} /\ Fails(c, First(c, Queued(c)))
          <6>1. Queued(c) \in SUBSET Pending(c)
            BY DEF Queued
          <6> QED
            BY <1>0, <5>1, <6>1, NextWaits
        <5>2. CASE c \in follow /\ Fails(c, Open(c))
          <6>1. Open(c) # none
            BY <5>2 DEF NoticeInv, LiveIsOpen, DelegationTypeOK, HostTypeOK
          <6>2. Open(c) \in Messages
            BY <1>0, <6>1, OpenTyped, OpenIsIn
          <6> QED
            BY <5>2, <6>2
        <5> QED
          BY <3>3, <5>1, <5>2 DEF TurnFails
      <4>2. log' = log \/ Log(c, <<Fact("fail", m)>>)
        BY <4>1 DEF Fails, Commit
      <4> QED
        BY <4>2, AsideFacts DEF Aside
    <3> QED
      BY <1>2, <3>1, <3>2, <3>3
  <2> QED
    BY <1>1, <2>1, <2>2, TaskStays
<1>3. CASE \E m \in Sends : Send(c, m) \/ Prompt(c, m)
  <2>1. PICK m \in Sends : Send(c, m) \/ Prompt(c, m)
    BY <1>3
  <2>2. PICK i : i = Input(c, m)
    OBVIOUS
  <2>3. m \in Messages /\ m # initial /\ initial \in Messages
    BY DEF Messages
  <2>4. i \in Inputs /\ \A d \in Sessions : Input(d, initial) # i /\ Input(d, initial) \in Inputs
    BY <2>2, <2>3, InputsAre
  <2>5. /\ \A d \in Sessions : known[d] \subseteq known'[d]
        /\ unsure' \subseteq unsure \union {i}
        /\ faulted' = faulted \/ faulted' = [faulted EXCEPT ![i] = @ + 1]
    <3>1. CASE faulted' = faulted /\ (Learns(c, m) \/ UNCHANGED <<known, unsure>>)
      BY <2>2, <2>3, <3>1, LearnsAre
    <3>2. CASE Slips(c, m)
      BY <2>2, <2>3, <3>2, SlipsAre
    <3> QED
      BY <2>1, <3>1, <3>2 DEF Send, Prompt, Receive
  <2>6. Recalls
    BY <1>0, <2>4, <2>5 DEF Recalls, Known
  <2>7. \/ log' = log \/ Log(c, <<Fact("in", m)>>)
        \/ Log(c, <<Fact("resume", none), Fact("in", m)>>)
    BY <2>1 DEF Send, Prompt, Receive, Commit
  <2>8. Aside
    BY <2>7, AsideFacts DEF Aside
  <2> QED
    BY <1>1, <2>6, <2>8, TaskStays
<1> QED
  BY <1>2, <1>3

LEMMA TaskListens ==
    ASSUME NoticeInv, TaskInv, ListenerStep \/ TellFails
    PROVE  TaskInv'
<1>1. ran' = ran /\ task' = task
  BY DEF ListenerStep, Tick, Visit, Tell, TellFails, Mark, Leave, ghosts
<1>2. CASE Tick \/ Tell \/ TellFails \/ Leave
  <2>1. log' = log
    BY <1>2 DEF Tick, Tell, TellFails, Leave, record
  <2>2. Recalls
    <3>1. CASE Tick \/ Leave
      <4>1. known' = known /\ unsure' = unsure /\ faulted' = faulted
        BY <3>1 DEF Tick, Leave, record, ghosts
      <4> QED
        BY <4>1, Recall
    <3>2. CASE Tell \/ TellFails
      <4>1. PICK n : n = Head(todo)
        OBVIOUS
      <4>2. n \in Notices
        BY <3>2, <4>1, HeadTailProperties DEF Tell, TellFails, NoticeInv, DelegationTypeOK, HostTypeOK
      <4>3. \A c \in Sessions : Input(c, initial) \in Inputs /\ Input(c, initial) # n
        BY <4>2, InputsAre DEF Messages
      <4>4. /\ known' = known /\ unsure' \subseteq unsure \union {n}
            /\ faulted' = faulted \/ faulted' = [faulted EXCEPT ![n] = @ + 1]
        BY <3>2, <4>1 DEF Tell, TellFails, ghosts
      <4>5. faulted \in [Notices \union Inputs -> Nat]
        BY DEF NoticeInv, DelegationTypeOK
      <4> QED
        BY <4>3, <4>4, <4>5 DEF Recalls, Known
    <3> QED
      BY <1>2, <3>1, <3>2
  <2> QED
    BY <1>1, <2>1, <2>2, TaskStays DEF Aside
<1>3. CASE Visit
  <2>1. PICK c : c = Head(batch)[1]
    OBVIOUS
  <2>2. c \in Sessions
    <3>1. Head(batch) \in Sessions \X Nat
      BY <1>3, HeadTailProperties DEF Visit, NoticeInv, DelegationTypeOK, HostTypeOK
    <3> QED
      BY <2>1, <3>1
  <2>3. \/ Receive(c, initial) /\ faulted' = faulted
        \/ Slips(c, initial) /\ Log(c, <<Fact("in", initial)>>)
        \/ UNCHANGED <<log, known, unsure, faulted>>
    BY <1>3, <2>1 DEF Visit
  <2>4. CASE \/ Receive(c, initial) /\ faulted' = faulted
             \/ Slips(c, initial) /\ Log(c, <<Fact("in", initial)>>)
    BY <1>1, <2>2, <2>4, TaskReceived
  <2>5. CASE UNCHANGED <<log, known, unsure, faulted>>
    BY <1>1, <2>5, Recall, TaskStays DEF Aside
  <2> QED
    BY <2>3, <2>4, <2>5
<1>4. CASE Mark
  <2>1. Recalls
    <3>1. known' = known /\ unsure' = unsure /\ faulted' = faulted
      BY <1>4 DEF Mark, ghosts
    <3> QED
      BY <3>1, Recall
  <2>2. PICK n : n = Head(todo)
    OBVIOUS
  <2>3. n \in Notices
    BY <1>4, <2>2, HeadTailProperties DEF Mark, NoticeInv, Telling, DelegationTypeOK, HostTypeOK
  <2>4. n.child \in Sessions /\ n.m \in Messages /\ Marker(n) \in {"told", "failtold"}
        /\ Log(n.child, <<Fact(Marker(n), n.m)>>)
    BY <1>4, <2>2, <2>3 DEF Mark, Commit, Notices, Marker
  <2>5. Aside
    BY <2>4, AsideFacts
  <2> QED
    BY <1>1, <2>1, <2>5, TaskStays
<1> QED
  BY <1>2, <1>3, <1>4 DEF ListenerStep

LEMMA TaskRests ==
    ASSUME NoticeInv, TaskInv,
           ParentReads \/ ParentStops \/ ParentResumes \/ Crash \/ Restart \/ UNCHANGED vars
    PROVE  TaskInv'
<1>1. /\ ran' = ran /\ task' = task /\ log' = log /\ known' = known /\ faulted' = faulted
      /\ unsure' \subseteq unsure
  BY DEF ParentReads, ParentStops, ParentResumes, Crash, Restart, vars, record, ghosts
<1>2. Recalls
  BY <1>1, Recall
<1> QED
  BY <1>1, <1>2, TaskStays DEF Aside

LEMMA TaskStep ==
    ASSUME Forks = {}, NoticeInv, TaskInv, [Next]_vars
    PROVE  TaskInv'
<1>0. Sessions = Children
  BY DEF Sessions
<1>1. CASE ToolStep
  <2>1. PICK c \in Children : Start(c) \/ Describe(c) \/ Deliver(c)
    BY <1>1 DEF ToolStep
  <2>2. CASE Start(c) \/ Describe(c)
    BY <1>0, <2>2, TaskOthers
  <2>3. CASE Deliver(c)
    <3>1. ran' = ran /\ task' = task
          /\ \/ Receive(c, initial) /\ faulted' = faulted
             \/ Slips(c, initial) /\ Log(c, <<Fact("in", initial)>>)
             \/ UNCHANGED <<log, known, unsure, faulted>>
      BY <2>3 DEF Deliver
    <3>2. CASE \/ Receive(c, initial) /\ faulted' = faulted
               \/ Slips(c, initial) /\ Log(c, <<Fact("in", initial)>>)
      BY <1>0, <3>1, <3>2, TaskReceived
    <3>3. CASE UNCHANGED <<log, known, unsure, faulted>>
      BY <3>1, <3>3, Recall, TaskStays DEF Aside
    <3> QED
      BY <3>1, <3>2, <3>3
  <2> QED
    BY <2>1, <2>2, <2>3
<1>2. CASE ListenerStep \/ TellFails
  BY <1>2, TaskListens
<1>3. CASE \/ \E c \in Sessions : ChildMoves(c) \/ EndTurn(c) \/ TurnFails(c) \/ Stop(c)
           \/ \E c \in Sessions, m \in Sends : Send(c, m) \/ Prompt(c, m)
  BY <1>0, <1>3, TaskOthers, TaskBegins DEF ChildMoves
<1>4. CASE ParentReads \/ ParentStops \/ ParentResumes \/ Crash \/ Restart \/ UNCHANGED vars
  BY <1>4, TaskRests
<1> QED
  BY <1>1, <1>2, <1>3, <1>4 DEF Next

LEMMA TaskFirst ==
    ASSUME Init
    PROVE  TaskInv
<1>1. \A c \in Children : log[c] = <<>> /\ ran[c] = 0
  BY DEF Init, Sessions
<1>2. \A c \in Children : Asked(c) = 0 /\ Begun(c) = 0
  <2>1. ASSUME NEW c \in Children, NEW f PROVE Count(c, f) = 0
    <3>1. {i \in DOMAIN log[c] : log[c][i] = f} = {}
      BY <1>1
    <3> QED
      BY <3>1, FS_EmptySet DEF Count
  <2> QED
    BY <2>1 DEF Asked, Begun
<1>3. \A c \in Children : faulted[Input(c, initial)] = 0 /\ Given(c) \in {0, 1}
  <2>1. \A c \in Children : Input(c, initial) \in Inputs
    BY InputsAre DEF Sessions, Messages
  <2> QED
    BY <2>1 DEF Init, Given
<1> QED
  BY <1>1, <1>2, <1>3 DEF TaskInv, Init

\* However often a start is retried, redelivered by the listener or cut off by a
\* crash, its task is run once -- and once more for each time its admission failed
\* after the append, when the host does not know that the child has it -- and no
\* start exceeds the limit, as long as no client forks a child (a fork has admitted
\* nothing and runs the task again).
THEOREM StartsAreKept == ASSUME Forks = {} PROVE Spec => []StartsKept
<1>1. NoticeInv /\ TaskInv /\ [Next]_vars => TaskInv'
  BY TaskStep
<1>2. NoticeInv /\ TaskInv => TaskRunsOnce
  <2>1. ASSUME NoticeInv, TaskInv, NEW c \in Children PROVE ran[c] <= 1 + faulted[Input(c, initial)]
    <3>1. c \in Sessions /\ Input(c, initial) \in Inputs
      BY InputsAre DEF Sessions, Messages
    <3>2. ran[c] = Begun(c) /\ Begun(c) <= Asked(c) /\ Asked(c) <= faulted[Input(c, initial)] + Given(c)
      BY <2>1 DEF TaskInv
    <3>3. Asked(c) \in Nat /\ Begun(c) \in Nat /\ faulted[Input(c, initial)] \in Nat /\ Given(c) \in {0, 1}
      BY <2>1, <3>1, CountsAre DEF Asked, Begun, Given, NoticeInv, DelegationTypeOK
    <3> QED
      BY <3>2, <3>3
  <2> QED
    BY <2>1 DEF TaskRunsOnce
<1>3. Init => TaskInv
  BY TaskFirst
<1>4. Spec => []TaskRunsOnce
  BY <1>1, <1>2, <1>3, NoticeAlways, PTL DEF Spec
<1> QED
  BY <1>4, StartsAreLimited, PTL DEF StartsKept

================================================================================
