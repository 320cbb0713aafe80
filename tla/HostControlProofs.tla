-------------------------- MODULE HostControlProofs --------------------------
(***************************************************************************)
(* The workspace control log under any hosts, directories, restored        *)
(* sessions, requests, payloads, dropped handlers, write errors, crashes   *)
(* and power failures: what a client was told is committed stays, and what *)
(* was validated against memory is valid where it lands, unless memory     *)
(* holds a workspace the log does not have under a path the log has given  *)
(* to another.                                                             *)
(***************************************************************************)
EXTENDS HostControl, SequenceTheorems, WellFoundedInduction, TLAPS

\* An order lists workspaces, each once.
Order(s) == s \in Seq(Workspaces) /\ IsInjective(s)

\* Memory after the projection p was applied to it: what the log has it has
\* too, and only a workspace of the host's own making besides.
Agrees(q, p) ==
  /\ \A w \in Requests : q.path[w] = p.path[w]
  /\ \A w \in Workspaces : p.path[w] # NONE => q.path[w] = p.path[w]
  /\ q.settings = p.settings
  /\ Order(q.order) /\ \A w \in ToSet(q.order) : q.path[w] # NONE

\* A batch is what its request makes of such a memory.
MadeFor(p, b) ==
  \E q : /\ Agrees(q, p) /\ ~Handles(q, b.rpc, b.payload).refuses
         /\ b.events = Handles(q, b.rpc, b.payload).events

\* A mutation made for a log's first n batches, and one they accept.
Fits(f, b, n) ==
  /\ b.rpc \in Requests /\ b.payload \in Payloads[b.rpc]
  /\ \A i \in 1..n : f[i].rpc # b.rpc
  /\ MadeFor(ProjectionAt(f, n), b)
Accepted(f, b, n) == \A e \in b.events : Accepts(ProjectionAt(f, n), e)

\* A log that is a list, each batch made for and accepted by the ones before.
Derived(f) ==
  /\ f \in Seq({f[i] : i \in DOMAIN f})
  /\ \A i \in 1..Len(f) : Fits(f, f[i], i - 1) /\ Accepted(f, f[i], i - 1)

\* A mutation that holds the gate, and how far it has come.
Working(c) ==
  /\ c = [step |-> c.step, rpc |-> c.rpc, expected |-> c.expected, batch |-> c.batch]
  /\ c.step \in {"append", "flush", "reload", "reread"}
  /\ c.expected \in Nat /\ c.batch.rpc = c.rpc /\ c.rpc \in Requests
Comes(c) ==
  /\ c.step = "append" => c.expected <= Len(file) /\ Fits(file, c.batch, c.expected)
  /\ c.step \in {"flush", "reload"} => c.expected + 1 <= Len(file) /\ file[c.expected + 1].rpc = c.rpc
  /\ c.step = "reload" => c.expected + 1 <= synced

StoreOK ==
  /\ Derived(file) /\ synced \in 0..Len(file)
  /\ head \in {"none", "torn", "written"} /\ (head # "written" => file = <<>>)
HostsOK ==
  /\ up \subseteq Hosts /\ faults \in 0..MaxFaults
  /\ DOMAIN revision = Hosts /\ \A h \in up : revision[h] \in 0..Len(file)
MemoryOK ==
  /\ DOMAIN memory = Hosts
  /\ \A h \in up : Agrees(memory[h], ProjectionAt(file, revision[h]))
CallsOK ==
  /\ call = [h \in Hosts |-> call[h]]
  /\ \A h \in Hosts : call[h] # Idle => h \in up /\ Working(call[h]) /\ Comes(call[h])
AnswersOK ==
  \A a \in answers : /\ a.how \in {"committed", "replayed", "conflict", "refused"}
                     /\ a.how = "committed" => a.at \in 1..synced /\ file[a.at].rpc = a.rpc
ControlInv == StoreOK /\ HostsOK /\ MemoryOK /\ CallsOK /\ AnswersOK

-----------------------------------------------------------------------------
(* The projection of a prefix *)

LEMMA FirstOne ==
  ASSUME NEW S \in SUBSET Nat, S # {}
  PROVE  \E m \in S : \A n \in S : m <= n
<1>1. PICK m \in S : \A n \in S : ~ (<<n, m>> \in OpToRel(<, Nat))
  BY NatLessThanWellFounded, WFMin
<1>2. \A n \in S : ~ (n < m)
  BY <1>1 DEF OpToRel
<1> QED
  BY <1>2

\* p is the fold of the first n batches, batch by batch.
Folds(p, f, n) ==
  p = [i \in 0..n |-> IF i = 0 THEN Nothing ELSE Folded(p[i - 1], f[i].events)]

LEMMA FoldsExist ==
  ASSUME NEW f, NEW n \in Nat
  PROVE  \E p : Folds(p, f, n)
<1> DEFINE S == {k \in Nat : ~ \E p : Folds(p, f, k)}
<1>1. ASSUME S # {} PROVE FALSE
  <2>1. PICK k \in S : \A q \in S : k <= q
    <3>1. S \in SUBSET Nat
      OBVIOUS
    <3> HIDE DEF S
    <3> QED
      BY <1>1, <3>1, FirstOne
  <2>2. k \in Nat /\ ~ \E p : Folds(p, f, k)
    BY <2>1
  <2>3. CASE k = 0
    <3>1. Folds([i \in 0..0 |-> Nothing], f, 0)
      BY DEF Folds
    <3> QED
      BY <2>2, <2>3, <3>1
  <2>4. CASE k # 0
    <3>1. k - 1 \in Nat /\ k - 1 \notin S
      <4>1. k \in Nat
        BY <2>1
      <4> HIDE DEF S
      <4> QED
        BY <2>1, <2>4, <4>1
    <3>2. PICK p : Folds(p, f, k - 1)
      BY <3>1
    <3> DEFINE last == Folded(p[k - 1], f[k].events)
               q == [i \in 0..k |-> IF i = k THEN last ELSE p[i]]
    <3>3. \A i \in 0..k : q[i] = IF i = k THEN last ELSE p[i]
      OBVIOUS
    <3>4. q = [i \in 0..k |-> q[i]]
      OBVIOUS
    <3>5. \A i \in 0..(k - 1) : p[i] = IF i = 0 THEN Nothing ELSE Folded(p[i - 1], f[i].events)
      BY <3>2 DEF Folds
    <3> HIDE DEF q, last
    <3>6. ASSUME NEW i \in 0..k
          PROVE  q[i] = IF i = 0 THEN Nothing ELSE Folded(q[i - 1], f[i].events)
      <4>1. CASE i # k
        <5>1. i \in 0..(k - 1) /\ (i # 0 => i - 1 \in 0..k /\ i - 1 # k)
          BY <2>2, <4>1
        <5> QED
          BY <3>3, <3>5, <4>1, <5>1
      <4>2. CASE i = k
        <5>1. k \in 0..k /\ k - 1 \in 0..k /\ k - 1 # k
          BY <2>2, <2>4
        <5>2. q[k] = last /\ q[k - 1] = p[k - 1]
          BY <3>3, <5>1
        <5> QED
          BY <2>4, <4>2, <5>2 DEF last
      <4> QED
        BY <4>1, <4>2
    <3>7. q = [i \in 0..k |-> IF i = 0 THEN Nothing ELSE Folded(q[i - 1], f[i].events)]
      BY <3>4, <3>6, Zenon
    <3> QED
      BY <2>2, <3>7 DEF Folds
  <2> QED
    BY <2>3, <2>4
<1>2. n \notin S
  BY <1>1
<1> QED
  BY <1>2

\* Two folds agree as far as their lists do.
Alike(f, g, k) == \A i \in 1..k : f[i] = g[i]
LEMMA FoldsAgree ==
  ASSUME NEW f, NEW g, NEW n \in Nat, NEW m \in Nat, NEW p, NEW q, Folds(p, f, n), Folds(q, g, m),
         NEW k \in Nat, k <= n, k <= m, Alike(f, g, k)
  PROVE  p[k] = q[k]
<1> DEFINE S == {i \in 0..k : p[i] # q[i]}
<1>1. ASSUME S # {} PROVE FALSE
  <2>1. PICK i \in S : \A j \in S : i <= j
    <3>1. S \in SUBSET Nat
      OBVIOUS
    <3> HIDE DEF S
    <3> QED
      BY <1>1, <3>1, FirstOne
  <2>2. i \in 0..n /\ i \in 0..m /\ p[i] # q[i] /\ i \in Nat /\ i <= k
    BY <2>1
  <2>3. /\ p[i] = IF i = 0 THEN Nothing ELSE Folded(p[i - 1], f[i].events)
        /\ q[i] = IF i = 0 THEN Nothing ELSE Folded(q[i - 1], g[i].events)
    BY <2>2 DEF Folds
  <2>4. i # 0
    BY <2>2, <2>3
  <2>5. i - 1 \in 0..k /\ ~(i <= i - 1)
    BY <2>2, <2>4
  <2>6. i - 1 \notin S
    <3> HIDE DEF S
    <3> QED
      BY <2>1, <2>5
  <2>7. p[i - 1] = q[i - 1] /\ f[i] = g[i]
    BY <2>2, <2>4, <2>5, <2>6 DEF Alike
  <2> QED
    BY <2>2, <2>3, <2>7
<1>2. k \notin S /\ k \in 0..k
  BY <1>1
<1> QED
  BY <1>2

LEMMA ProjectionFolds ==
  ASSUME NEW f, NEW n \in Nat
  PROVE  \E p : Folds(p, f, n) /\ ProjectionAt(f, n) = p[n]
<1> DEFINE p == CHOOSE p : p = [i \in 0..n |-> IF i = 0 THEN Nothing ELSE Folded(p[i - 1], f[i].events)]
<1>1. PICK q : Folds(q, f, n)
  BY FoldsExist
<1>2. Folds(p, f, n)
  BY <1>1 DEF Folds
<1>3. ProjectionAt(f, n) = p[n]
  BY DEF ProjectionAt
<1> HIDE DEF p
<1> QED
  BY <1>2, <1>3

LEMMA FoldOfLess ==
  ASSUME NEW f, NEW n \in Nat, NEW k \in Nat, k <= n, NEW p, NEW q, Folds(p, f, n), Folds(q, f, k)
  PROVE  p[k] = q[k]
<1>1. Alike(f, f, k) /\ k <= k
  BY DEF Alike
<1> QED
  BY <1>1, FoldsAgree

\* What a fold depends on, and how it goes on.
LEMMA SamePrefix ==
  ASSUME NEW f, NEW g, NEW n \in Nat, \A i \in 1..n : f[i] = g[i]
  PROVE  ProjectionAt(f, n) = ProjectionAt(g, n)
<1>1. PICK p : Folds(p, f, n) /\ ProjectionAt(f, n) = p[n]
  BY ProjectionFolds
<1>2. PICK q : Folds(q, g, n) /\ ProjectionAt(g, n) = q[n]
  BY ProjectionFolds
<1>3. p[n] = q[n]
  <2>1. Alike(f, g, n) /\ n <= n
    BY DEF Alike
  <2> QED
    BY <1>1, <1>2, <2>1, FoldsAgree
<1> QED
  BY <1>1, <1>2, <1>3

LEMMA ProjectionGoesOn ==
  ASSUME NEW f, NEW n \in Nat
  PROVE  /\ ProjectionAt(f, 0) = Nothing
         /\ n # 0 => ProjectionAt(f, n) = Folded(ProjectionAt(f, n - 1), f[n].events)
<1>1. ProjectionAt(f, 0) = Nothing
  <2>1. PICK p : Folds(p, f, 0) /\ ProjectionAt(f, 0) = p[0]
    BY ProjectionFolds
  <2>2. p[0] = Nothing
    BY <2>1 DEF Folds
  <2> QED
    BY <2>1, <2>2
<1>2. ASSUME n # 0 PROVE ProjectionAt(f, n) = Folded(ProjectionAt(f, n - 1), f[n].events)
  <2>1. PICK k \in Nat : k = n - 1 /\ k <= n
    BY <1>2
  <2>2. PICK p : Folds(p, f, n) /\ ProjectionAt(f, n) = p[n]
    BY ProjectionFolds
  <2>3. PICK q : Folds(q, f, k) /\ ProjectionAt(f, k) = q[k]
    BY ProjectionFolds
  <2>4. p[k] = q[k]
    BY <2>1, <2>2, <2>3, FoldOfLess
  <2>5. p[n] = Folded(p[n - 1], f[n].events)
    BY <1>2, <2>2 DEF Folds
  <2> QED
    BY <2>1, <2>2, <2>3, <2>4, <2>5
<1> QED
  BY <1>1, <1>2

-----------------------------------------------------------------------------
(* The order of the workspaces *)

LEMMA OrderAppended ==
  ASSUME NEW s, Order(s), NEW w \in Workspaces, w \notin ToSet(s)
  PROVE  Order(Append(s, w)) /\ ToSet(Append(s, w)) = ToSet(s) \cup {w}
<1>1. s \in Seq(Workspaces) /\ Len(s) \in Nat /\ DOMAIN s = 1..Len(s)
  BY DEF Order
<1>2. PICK t : t = Append(s, w)
  OBVIOUS
<1>3. /\ t \in Seq(Workspaces) /\ DOMAIN t = 1..(Len(s) + 1) /\ t[Len(s) + 1] = w
      /\ \A i \in 1..Len(s) : t[i] = s[i]
  BY <1>1, <1>2
<1>4. ASSUME NEW i \in DOMAIN t PROVE i \in 1..Len(s) \/ i = Len(s) + 1
  BY <1>1, <1>3
<1>5. \A i \in 1..Len(s) : s[i] # w
  BY <1>1 DEF ToSet
<1>6. IsInjective(t)
  BY <1>1, <1>3, <1>4, <1>5 DEF IsInjective, Order
<1>7. ToSet(t) = ToSet(s) \cup {w}
  <2>1. \A i \in 1..Len(s) : i \in DOMAIN t
    BY <1>1, <1>3
  <2>2. Len(s) + 1 \in DOMAIN t
    BY <1>1, <1>3
  <2> QED
    BY <1>1, <1>3, <1>4, <2>1, <2>2 DEF ToSet
<1> QED
  BY <1>2, <1>3, <1>6, <1>7 DEF Order

\* What is listed of the first entries of a list.
New(s, i) == \A j \in 1..(i - 1) : s[j] # s[i]
ListOf(k, s, S, n) ==
  k = [i \in 0..n |-> IF i = 0 THEN <<>>
                      ELSE IF s[i] \in S /\ New(s, i) THEN Append(k[i - 1], s[i]) ELSE k[i - 1]]

LEMMA ListOfExists ==
  ASSUME NEW s, NEW S, NEW n \in Nat
  PROVE  \E k : ListOf(k, s, S, n)
<1> DEFINE U == {m \in Nat : ~ \E k : ListOf(k, s, S, m)}
<1>1. ASSUME U # {} PROVE FALSE
  <2>1. PICK m \in U : \A q \in U : m <= q
    <3>1. U \in SUBSET Nat
      OBVIOUS
    <3> HIDE DEF U
    <3> QED
      BY <1>1, <3>1, FirstOne
  <2>2. m \in Nat /\ ~ \E k : ListOf(k, s, S, m)
    BY <2>1
  <2>3. CASE m = 0
    <3>1. ListOf([i \in 0..0 |-> <<>>], s, S, 0)
      BY DEF ListOf
    <3> QED
      BY <2>2, <2>3, <3>1
  <2>4. CASE m # 0
    <3>1. m - 1 \in Nat /\ m - 1 \notin U
      <4>1. m \in Nat
        BY <2>1
      <4> HIDE DEF U
      <4> QED
        BY <2>1, <2>4, <4>1
    <3>2. PICK k : ListOf(k, s, S, m - 1)
      BY <3>1
    <3> DEFINE last == IF s[m] \in S /\ New(s, m) THEN Append(k[m - 1], s[m]) ELSE k[m - 1]
               q == [i \in 0..m |-> IF i = m THEN last ELSE k[i]]
    <3>3. \A i \in 0..m : q[i] = IF i = m THEN last ELSE k[i]
      OBVIOUS
    <3>4. q = [i \in 0..m |-> q[i]]
      OBVIOUS
    <3>5. \A i \in 0..(m - 1) : k[i] = IF i = 0 THEN <<>>
                                       ELSE IF s[i] \in S /\ New(s, i) THEN Append(k[i - 1], s[i]) ELSE k[i - 1]
      BY <3>2 DEF ListOf
    <3> HIDE DEF q, last
    <3>6. ASSUME NEW i \in 0..m
          PROVE  q[i] = IF i = 0 THEN <<>> ELSE IF s[i] \in S /\ New(s, i) THEN Append(q[i - 1], s[i]) ELSE q[i - 1]
      <4>1. CASE i # m
        <5>1. i \in 0..(m - 1) /\ (i # 0 => i - 1 \in 0..m /\ i - 1 # m)
          BY <2>2, <4>1
        <5> QED
          BY <3>3, <3>5, <4>1, <5>1
      <4>2. CASE i = m
        <5>1. m \in 0..m /\ m - 1 \in 0..m /\ m - 1 # m
          BY <2>2, <2>4
        <5>2. q[m] = last /\ q[m - 1] = k[m - 1]
          BY <3>3, <5>1
        <5> QED
          BY <2>4, <4>2, <5>2 DEF last
      <4> QED
        BY <4>1, <4>2
    <3>7. q = [i \in 0..m |-> IF i = 0 THEN <<>> ELSE IF s[i] \in S /\ New(s, i) THEN Append(q[i - 1], s[i]) ELSE q[i - 1]]
      BY <3>4, <3>6, Zenon
    <3> QED
      BY <2>2, <3>7 DEF ListOf
  <2> QED
    BY <2>3, <2>4
<1>2. n \notin U
  BY <1>1
<1> QED
  BY <1>2

\* A list's members, each once.
LEMMA ListedIs ==
  ASSUME NEW s \in Seq(Workspaces), NEW S
  PROVE  Order(Listed(s, S)) /\ ToSet(Listed(s, S)) = ToSet(s) \cap S
<1>1. Len(s) \in Nat /\ DOMAIN s = 1..Len(s) /\ \A i \in 1..Len(s) : s[i] \in Workspaces
  OBVIOUS
<1> DEFINE k == CHOOSE k : k = [i \in 0..Len(s) |->
                   IF i = 0 THEN <<>>
                   ELSE IF s[i] \in S /\ \A j \in 1..(i - 1) : s[j] # s[i]
                          THEN Append(k[i - 1], s[i]) ELSE k[i - 1]]
<1>2. ListOf(k, s, S, Len(s))
  <2>1. PICK q : ListOf(q, s, S, Len(s))
    BY <1>1, ListOfExists
  <2> QED
    BY <2>1 DEF ListOf, New
<1>3. Listed(s, S) = k[Len(s)]
  BY DEF Listed
<1> HIDE DEF k
<1>4. \A i \in 0..Len(s) : k[i] = IF i = 0 THEN <<>>
                                  ELSE IF s[i] \in S /\ New(s, i) THEN Append(k[i - 1], s[i]) ELSE k[i - 1]
  BY <1>2 DEF ListOf
<1> DEFINE Good(i) == Order(k[i]) /\ ToSet(k[i]) = {s[j] : j \in 1..i} \cap S
           U == {i \in 0..Len(s) : ~Good(i)}
<1>5. ASSUME U # {} PROVE FALSE
  <2>1. PICK i \in U : \A q \in U : i <= q
    <3>1. U \in SUBSET Nat
      BY <1>1
    <3> HIDE DEF U
    <3> QED
      BY <1>5, <3>1, FirstOne
  <2>2. i \in 0..Len(s) /\ ~Good(i) /\ i \in Nat
    BY <1>1, <2>1
  <2>3. i # 0
    <3>1. k[0] = <<>> /\ 1..0 = {}
      BY <1>1, <1>4
    <3>2. Order(<<>>) /\ ToSet(<<>>) = {}
      BY EmptySeq DEF Order, IsInjective, ToSet
    <3>3. Good(0)
      BY <3>1, <3>2
    <3> QED
      BY <2>2, <3>3
  <2>4. PICK j \in 0..Len(s) : j = i - 1 /\ i = j + 1
    BY <1>1, <2>2, <2>3
  <2>5. Good(j)
    <3>1. ~(i <= j)
      BY <1>1, <2>4
    <3>2. j \notin U
      <4> HIDE DEF U
      <4> QED
        BY <2>1, <3>1
    <3> QED
      BY <3>2
  <2>6. k[i] = IF s[i] \in S /\ New(s, i) THEN Append(k[j], s[i]) ELSE k[j]
    BY <1>4, <2>2, <2>3, <2>4
  <2>7. PICK A, B : A = {s[x] : x \in 1..j} /\ B = {s[x] : x \in 1..i}
    OBVIOUS
  <2>8. B = A \cup {s[i]} /\ s[i] \in Workspaces /\ (New(s, i) <=> s[i] \notin A)
    <3>1. 1..i = (1..j) \cup {i} /\ i \in 1..Len(s) /\ i - 1 = j
      BY <1>1, <2>2, <2>3, <2>4
    <3>2. {s[x] : x \in 1..i} = {s[x] : x \in 1..j} \cup {s[i]}
      BY <3>1, Zenon
    <3>3. New(s, i) <=> s[i] \notin A
      BY <2>7, <3>1 DEF New
    <3> QED
      BY <1>1, <2>7, <3>1, <3>2, <3>3
  <2>9. Order(k[j]) /\ ToSet(k[j]) = A \cap S
    BY <2>5, <2>7
  <2>10. Order(k[i]) /\ ToSet(k[i]) = B \cap S
    <3>1. CASE s[i] \in S /\ New(s, i)
      <4>1. k[i] = Append(k[j], s[i]) /\ s[i] \notin ToSet(k[j])
        BY <2>6, <2>8, <2>9, <3>1
      <4>2. Order(k[i]) /\ ToSet(k[i]) = ToSet(k[j]) \cup {s[i]}
        BY <2>8, <2>9, <4>1, OrderAppended
      <4> QED
        BY <2>8, <2>9, <3>1, <4>2
    <3>2. CASE ~(s[i] \in S /\ New(s, i))
      <4>1. k[i] = k[j]
        BY <2>6, <3>2
      <4> QED
        BY <2>8, <2>9, <3>2, <4>1
    <3> QED
      BY <3>1, <3>2
  <2> QED
    BY <2>2, <2>7, <2>10
<1>6. Good(Len(s))
  <2> HIDE DEF Good
  <2>1. Len(s) \in 0..Len(s)
    BY <1>1
  <2>2. U = {}
    <3> HIDE DEF U
    <3> QED
      BY <1>5
  <2> QED
    BY <2>1, <2>2
<1>7. ToSet(s) = {s[j] : j \in 1..Len(s)}
  BY <1>1 DEF ToSet
<1> QED
  BY <1>3, <1>6, <1>7

LEMMA OrderInserted ==
  ASSUME NEW s, Order(s), NEW w \in Workspaces, w \notin ToSet(s), NEW n \in DOMAIN s
  PROVE  Order(InsertAt(s, n, w)) /\ ToSet(InsertAt(s, n, w)) = ToSet(s) \cup {w}
<1>1. s \in Seq(Workspaces) /\ Len(s) \in Nat /\ DOMAIN s = 1..Len(s) /\ n \in 1..Len(s)
  BY DEF Order
<1>2. PICK t : t = InsertAt(s, n, w)
  OBVIOUS
<1>3. PICK a, b, c \in Seq(Workspaces) :
         /\ a = SubSeq(s, 1, n - 1) /\ b = <<w>> /\ c = SubSeq(s, n, Len(s))
         /\ Len(a) = n - 1 /\ Len(b) = 1 /\ Len(c) = Len(s) - n + 1
         /\ \A i \in 1..(n - 1) : a[i] = s[i]
         /\ \A i \in 1..(Len(s) - n + 1) : c[i] = s[n + i - 1]
  <2>1. <<w>> \in Seq(Workspaces) /\ Len(<<w>>) = 1
    OBVIOUS
  <2>2. /\ SubSeq(s, 1, n - 1) \in Seq(Workspaces) /\ Len(SubSeq(s, 1, n - 1)) = n - 1
        /\ \A i \in 1..(n - 1) : SubSeq(s, 1, n - 1)[i] = s[i]
    BY <1>1, SubSeqProperties
  <2>3. /\ SubSeq(s, n, Len(s)) \in Seq(Workspaces) /\ Len(SubSeq(s, n, Len(s))) = Len(s) - n + 1
        /\ \A i \in 1..(Len(s) - n + 1) : SubSeq(s, n, Len(s))[i] = s[n + i - 1]
    BY <1>1, SubSeqProperties
  <2> QED
    BY <2>1, <2>2, <2>3
<1>4. /\ t \in Seq(Workspaces) /\ DOMAIN t = 1..(Len(s) + 1)
      /\ \A i \in 1..(Len(s) + 1) : t[i] = IF i < n THEN s[i] ELSE IF i = n THEN w ELSE s[i - 1]
  <2>0. n \in Nat /\ n >= 1 /\ n <= Len(s)
    BY <1>1
  <2>1. PICK d : d = a \o b
    OBVIOUS
  <2>2. /\ d \in Seq(Workspaces) /\ Len(d) = Len(a) + Len(b)
        /\ \A i \in 1..(Len(a) + Len(b)) : d[i] = IF i <= Len(a) THEN a[i] ELSE b[i - Len(a)]
    BY <2>1, ConcatProperties
  <2>3. Len(d) = n /\ b[1] = w
    BY <1>3, <2>0, <2>2
  <2>4. t = d \o c
    BY <1>2, <1>3, <2>1 DEF InsertAt
  <2>5. /\ t \in Seq(Workspaces) /\ Len(t) = Len(d) + Len(c)
        /\ \A i \in 1..(Len(d) + Len(c)) : t[i] = IF i <= Len(d) THEN d[i] ELSE c[i - Len(d)]
    BY <2>2, <2>4, ConcatProperties
  <2>6. Len(d) + Len(c) = Len(s) + 1 /\ Len(a) + Len(b) = n
    BY <1>1, <1>3, <2>0, <2>3
  <2>7. ASSUME NEW i \in 1..(Len(s) + 1)
        PROVE  t[i] = IF i < n THEN s[i] ELSE IF i = n THEN w ELSE s[i - 1]
    <3>0. i \in Nat /\ i >= 1 /\ i <= Len(s) + 1
      BY <1>1
    <3>1. CASE i <= n
      <4>1. i \in 1..(Len(a) + Len(b)) /\ i \in 1..(Len(d) + Len(c))
        BY <2>6, <3>0, <3>1, <2>0
      <4>2. t[i] = d[i]
        BY <2>3, <2>5, <3>1, <4>1
      <4>3. CASE i < n
        <5>1. i \in 1..(n - 1) /\ i <= Len(a)
          BY <1>3, <2>0, <3>0, <4>3
        <5> QED
          BY <1>3, <2>2, <4>1, <4>2, <4>3, <5>1
      <4>4. CASE i = n
        <5>1. ~(i <= Len(a)) /\ i - Len(a) = 1
          BY <1>3, <2>0, <4>4
        <5> QED
          BY <2>2, <2>3, <4>1, <4>2, <4>4, <5>1
      <4> QED
        BY <2>0, <3>0, <3>1, <4>3, <4>4
    <3>2. CASE ~(i <= n)
      <4>1. i \in 1..(Len(d) + Len(c)) /\ ~(i <= Len(d))
        BY <2>3, <2>6, <3>2
      <4>2. t[i] = c[i - n]
        BY <2>3, <2>5, <4>1
      <4>3. i - n \in 1..(Len(s) - n + 1) /\ n + (i - n) - 1 = i - 1
        BY <1>1, <2>0, <3>0, <3>2
      <4>4. c[i - n] = s[i - 1]
        BY <1>3, <4>3
      <4> QED
        BY <2>0, <3>0, <3>2, <4>2, <4>4
    <3> QED
      BY <3>1, <3>2
  <2>8. DOMAIN t = 1..(Len(s) + 1)
    BY <2>5, <2>6
  <2> QED
    BY <2>5, <2>7, <2>8
<1>5. \A i \in 1..Len(s) : s[i] # w
  BY <1>1 DEF ToSet
<1>6. IsInjective(t)
  <2>1. ASSUME NEW i \in 1..(Len(s) + 1), i # n
        PROVE  \E j \in 1..Len(s) : t[i] = s[j] /\ j = IF i < n THEN i ELSE i - 1
    <3>1. CASE i < n
      BY <1>1, <1>4, <3>1
    <3>2. CASE ~(i < n)
      <4>1. i - 1 \in 1..Len(s)
        BY <1>1, <2>1, <3>2
      <4> QED
        BY <1>4, <2>1, <3>2, <4>1
    <3> QED
      BY <3>1, <3>2
  <2>2. ASSUME NEW i \in 1..(Len(s) + 1), NEW j \in 1..(Len(s) + 1), t[i] = t[j] PROVE i = j
    <3>1. CASE i = n \/ j = n
      <4>1. t[n] = w /\ \A x \in 1..(Len(s) + 1) : x # n => t[x] # w
        BY <1>1, <1>4, <1>5, <2>1
      <4> QED
        BY <2>2, <3>1, <4>1
    <3>2. CASE i # n /\ j # n
      <4>1. PICK x \in 1..Len(s) : t[i] = s[x] /\ x = IF i < n THEN i ELSE i - 1
        BY <2>1, <3>2
      <4>2. PICK y \in 1..Len(s) : t[j] = s[y] /\ y = IF j < n THEN j ELSE j - 1
        BY <2>1, <3>2
      <4>3. x = y
        BY <1>1, <2>2, <4>1, <4>2 DEF Order, IsInjective
      <4> QED
        BY <1>1, <3>2, <4>1, <4>2, <4>3
    <3> QED
      BY <3>1, <3>2
  <2> QED
    BY <1>4, <2>2 DEF IsInjective
<1>7. ToSet(t) = ToSet(s) \cup {w}
  <2>1. ASSUME NEW x \in ToSet(t) PROVE x \in ToSet(s) \cup {w}
    <3>1. PICK i \in 1..(Len(s) + 1) : x = t[i]
      BY <1>4 DEF ToSet
    <3>2. i < n => i \in 1..Len(s)
      BY <1>1, <3>1
    <3>3. i > n => i - 1 \in 1..Len(s)
      BY <1>1, <3>1
    <3>4. i \in Nat /\ (i < n \/ i = n \/ i > n)
      BY <1>1
    <3> QED
      BY <1>1, <1>4, <3>1, <3>2, <3>3, <3>4 DEF ToSet
  <2>2. ASSUME NEW x \in ToSet(s) PROVE x \in ToSet(t)
    <3>1. PICK i \in 1..Len(s) : x = s[i]
      BY <1>1 DEF ToSet
    <3>2. CASE i < n
      <4>1. i \in 1..(Len(s) + 1) /\ t[i] = x
        BY <1>1, <1>4, <3>1, <3>2
      <4> QED
        BY <1>4, <4>1 DEF ToSet
    <3>3. CASE ~(i < n)
      <4>1. i + 1 \in 1..(Len(s) + 1) /\ ~(i + 1 < n) /\ i + 1 # n /\ (i + 1) - 1 = i
        BY <1>1, <3>1, <3>3
      <4>2. t[i + 1] = s[i]
        BY <1>4, <4>1
      <4> QED
        BY <1>4, <3>1, <4>1, <4>2 DEF ToSet
    <3> QED
      BY <3>2, <3>3
  <2>3. w \in ToSet(t)
    <3>1. n \in 1..(Len(s) + 1) /\ t[n] = w
      BY <1>1, <1>4
    <3> QED
      BY <1>4, <3>1 DEF ToSet
  <2> QED
    BY <2>1, <2>2, <2>3
<1> QED
  BY <1>2, <1>4, <1>6, <1>7 DEF Order

-----------------------------------------------------------------------------
(* A projection that a validated batch goes on from *)

\* No two workspaces have one path, the order lists each once, and a workspace
\* that a request created was created by one the log has.
Sound(p, used) ==
  /\ p.path = [w \in Workspaces |-> p.path[w]]
  /\ \A v, w \in Workspaces : p.path[v] # NONE /\ p.path[v] = p.path[w] => v = w
  /\ \A w \in Requests : p.path[w] # NONE => w \in used
  /\ Order(p.order)

\* What a projection says about a workspace, that it is or that it was removed.
Known(p) == {w \in Workspaces : p.path[w] # NONE \/ w \in p.removed}

\* The state events one request makes.
Plain(E, p, r) ==
  /\ \A e, f \in E : e.type = f.type => e = f
  /\ \A e, f \in E : ~(e.type = "defined" /\ f.type = "removed")
  /\ \A e \in E :
       /\ e.type = "defined" => /\ e.ws \in Workspaces /\ e.path # NONE
                                /\ e.ws \in Requests => e.ws = r \/ p.path[e.ws] # NONE
       /\ e.type = "removed" => e.ws \in Workspaces
       /\ e.type = "order" => Order(e.ids)

LEMMA AcceptsDefined ==
  ASSUME NEW p, NEW e, e.type = "defined"
  PROVE  Accepts(p, e) <=> /\ p.path[e.ws] \in {NONE, e.path}
                           /\ \A w \in Workspaces \ {e.ws} : p.path[w] # e.path
  BY Zenon DEF Accepts
LEMMA AcceptsOrder ==
  ASSUME NEW p, NEW e, e.type = "order"
  PROVE  Accepts(p, e) <=> IsInjective(e.ids)
  BY Zenon DEF Accepts
LEMMA AcceptsSettings ==
  ASSUME NEW p, NEW e, e.type = "settings"
  PROVE  Accepts(p, e) <=> e.revision = p.settings + 1
  BY Zenon DEF Accepts
LEMMA AcceptsOther ==
  ASSUME NEW p, NEW e, e.type \in {"removed", "archived"}
  PROVE  Accepts(p, e)
<1>1. CASE e.type = "removed"
  BY <1>1, Zenon DEF Accepts
<1>2. CASE e.type = "archived"
  BY <1>2, Zenon DEF Accepts
<1> QED
  BY <1>1, <1>2

LEMMA HandlesCreate ==
  ASSUME NEW p, NEW r, NEW m, m.op = "create" PROVE Handles(p, r, m) = WorkspaceCreate(p, r, m)
  BY Zenon DEF Handles
LEMMA HandlesRename ==
  ASSUME NEW p, NEW r, NEW m, m.op = "rename" PROVE Handles(p, r, m) = WorkspaceRename(p, m)
  BY Zenon DEF Handles
LEMMA HandlesDelete ==
  ASSUME NEW p, NEW r, NEW m, m.op = "delete" PROVE Handles(p, r, m) = WorkspaceDelete(p, m)
  BY Zenon DEF Handles
LEMMA HandlesMove ==
  ASSUME NEW p, NEW r, NEW m, m.op = "move" PROVE Handles(p, r, m) = WorkspaceInsertBefore(p, m)
  BY Zenon DEF Handles
LEMMA HandlesPlace ==
  ASSUME NEW p, NEW r, NEW m, m.op = "place" PROVE Handles(p, r, m) = WorkspaceRename(p, m)
  BY Zenon DEF Handles, WorkspaceInsertSessionBefore
LEMMA HandlesArchive ==
  ASSUME NEW p, NEW r, NEW m, m.op = "archive" PROVE Handles(p, r, m) = WorkspaceArchiveSession(p, m)
  BY Zenon DEF Handles
LEMMA HandlesUpdate ==
  ASSUME NEW p, NEW r, NEW m, m.op = "update" PROVE Handles(p, r, m) = SettingsUpdate(p, m)
  BY Zenon DEF Handles
LEMMA HandlesReplace ==
  ASSUME NEW p, NEW r, NEW m, m.op = "replace" PROVE Handles(p, r, m) = SettingsUpdate(p, m)
  BY Zenon DEF Handles, SettingsReplace

LEMMA FoldedIs ==
  ASSUME NEW p, NEW E, NEW r, Plain(E, p, r)
  PROVE  /\ \A e \in E : e.type = "defined" => Folded(p, E).path = [p.path EXCEPT ![e.ws] = e.path]
         /\ \A e \in E : e.type = "removed" => Folded(p, E).path = [p.path EXCEPT ![e.ws] = NONE]
         /\ (\A e \in E : e.type \notin {"defined", "removed"}) => Folded(p, E).path = p.path
         /\ \A e \in E : e.type = "order" => Folded(p, E).order = e.ids
         /\ (\A e \in E : e.type # "order") => Folded(p, E).order = p.order
         /\ Folded(p, E).removed =
              {w \in Workspaces : \/ \E e \in E : e.type = "removed" /\ e.ws = w
                                  \/ /\ w \in p.removed
                                     /\ \A e \in E : ~(e.type = "defined" /\ e.ws = w)}
<1>1. ASSUME NEW e \in E PROVE (CHOOSE f \in E : f.type = e.type) = e
  BY DEF Plain
<1>2. ASSUME NEW e \in E, e.type = "defined" PROVE (CHOOSE f \in E : f.type = "defined") = e
  BY <1>1, <1>2
<1>3. ASSUME NEW e \in E, e.type = "removed" PROVE (CHOOSE f \in E : f.type = "removed") = e
  BY <1>1, <1>3
<1>4. ASSUME NEW e \in E, e.type = "order" PROVE (CHOOSE f \in E : f.type = "order") = e
  BY <1>1, <1>4
<1>5. PICK q : q = Folded(p, E)
  OBVIOUS
<1>6. /\ q.path = IF \E e \in E : e.type = "defined"
                    THEN [p.path EXCEPT ![(CHOOSE e \in E : e.type = "defined").ws] =
                                          (CHOOSE e \in E : e.type = "defined").path]
                  ELSE IF \E e \in E : e.type = "removed"
                    THEN [p.path EXCEPT ![(CHOOSE e \in E : e.type = "removed").ws] = NONE]
                  ELSE p.path
      /\ q.order = IF \E e \in E : e.type = "order"
                     THEN (CHOOSE e \in E : e.type = "order").ids ELSE p.order
      /\ q.removed = {w \in Workspaces : \/ \E e \in E : e.type = "removed" /\ e.ws = w
                                         \/ /\ w \in p.removed
                                            /\ \A e \in E : ~(e.type = "defined" /\ e.ws = w)}
  BY <1>5 DEF Folded
<1>7. \A e \in E : e.type = "defined" => q.path = [p.path EXCEPT ![e.ws] = e.path]
  BY <1>2, <1>6
<1>8. \A e \in E : e.type = "removed" => q.path = [p.path EXCEPT ![e.ws] = NONE]
  BY <1>3, <1>6 DEF Plain
<1>9. (\A e \in E : e.type \notin {"defined", "removed"}) => q.path = p.path
  BY <1>6
<1>10. \A e \in E : e.type = "order" => q.order = e.ids
  BY <1>4, <1>6
<1>11. (\A e \in E : e.type # "order") => q.order = p.order
  BY <1>6
<1> QED
  BY <1>5, <1>6, <1>7, <1>8, <1>9, <1>10, <1>11

\* Accepted events leave a sound projection that forgets no workspace.
LEMMA AcceptedFollow ==
  ASSUME NEW p, NEW used, NEW r, NEW E, Sound(p, used), Plain(E, p, r), \A e \in E : Accepts(p, e)
  PROVE  Sound(Folded(p, E), used \cup {r}) /\ Known(p) \subseteq Known(Folded(p, E))
<1>1. PICK q : q = Folded(p, E)
  OBVIOUS
<1>2. /\ \A e \in E : e.type = "defined" => q.path = [p.path EXCEPT ![e.ws] = e.path]
      /\ \A e \in E : e.type = "removed" => q.path = [p.path EXCEPT ![e.ws] = NONE]
      /\ (\A e \in E : e.type \notin {"defined", "removed"}) => q.path = p.path
      /\ \A e \in E : e.type = "order" => q.order = e.ids
      /\ (\A e \in E : e.type # "order") => q.order = p.order
      /\ q.removed = {w \in Workspaces : \/ \E e \in E : e.type = "removed" /\ e.ws = w
                                         \/ /\ w \in p.removed
                                            /\ \A e \in E : ~(e.type = "defined" /\ e.ws = w)}
  BY <1>1, FoldedIs
<1>3. Order(q.order)
  BY <1>2 DEF Sound, Plain
<1>4. p.path = [w \in Workspaces |-> p.path[w]]
  BY DEF Sound
<1>5. CASE \E e \in E : e.type = "defined"
  <2>1. PICK d \in E : d.type = "defined"
    BY <1>5
  <2>2. /\ d.ws \in Workspaces /\ d.path # NONE
        /\ d.ws \in Requests => d.ws = r \/ p.path[d.ws] # NONE
        /\ \A e \in E : e.type = "defined" => e = d
    BY <2>1 DEF Plain
  <2>3. p.path[d.ws] \in {NONE, d.path} /\ \A w \in Workspaces \ {d.ws} : p.path[w] # d.path
    BY <2>1, AcceptsDefined
  <2>4. /\ q.path = [w \in Workspaces |-> q.path[w]]
        /\ \A w \in Workspaces : q.path[w] = IF w = d.ws THEN d.path ELSE p.path[w]
    BY <1>2, <1>4, <2>1, <2>2
  <2>5. \A v, w \in Workspaces : q.path[v] # NONE /\ q.path[v] = q.path[w] => v = w
    BY <2>3, <2>4 DEF Sound
  <2>6. \A w \in Requests : q.path[w] # NONE => w \in used \cup {r}
    BY <2>2, <2>4 DEF Sound, Workspaces
  <2>7. Known(p) \subseteq Known(q)
    BY <1>2, <2>2, <2>4 DEF Known
  <2> QED
    BY <1>1, <1>3, <2>4, <2>5, <2>6, <2>7 DEF Sound
<1>6. CASE \E e \in E : e.type = "removed"
  <2>1. PICK d \in E : d.type = "removed"
    BY <1>6
  <2>2. d.ws \in Workspaces /\ \A e \in E : e.type # "defined"
    BY <2>1 DEF Plain
  <2>3. /\ q.path = [w \in Workspaces |-> q.path[w]]
        /\ \A w \in Workspaces : q.path[w] = IF w = d.ws THEN NONE ELSE p.path[w]
    BY <1>2, <1>4, <2>1, <2>2
  <2>4. \A v, w \in Workspaces : q.path[v] # NONE /\ q.path[v] = q.path[w] => v = w
    BY <2>3 DEF Sound
  <2>5. \A w \in Requests : q.path[w] # NONE => w \in used \cup {r}
    BY <2>3 DEF Sound, Workspaces
  <2>6. Known(p) \subseteq Known(q)
    BY <1>2, <2>1, <2>2, <2>3 DEF Known
  <2> QED
    BY <1>1, <1>3, <2>3, <2>4, <2>5, <2>6 DEF Sound
<1>7. CASE \A e \in E : e.type \notin {"defined", "removed"}
  <2>1. q.path = p.path
    BY <1>2, <1>7
  <2>2. Known(p) \subseteq Known(q)
    BY <1>2, <1>7, <2>1 DEF Known
  <2> QED
    BY <1>1, <1>3, <2>1, <2>2 DEF Sound
<1> QED
  BY <1>5, <1>6, <1>7

\* What a request makes of a memory that agrees with a sound projection: the
\* projection accepts it, but for a workspace of the host's own making.
Made(p, r, E) == Plain(E, p, r) /\ ((\A e \in E : Accepts(p, e)) \/ Clashes(p, E))

LEMMA CreateMade ==
  ASSUME NEW p, NEW q, NEW used, NEW r \in Requests, NEW m, m.path # NONE, Sound(p, used),
         Agrees(q, p), r \notin used
  PROVE  Made(p, r, WorkspaceCreate(q, r, m).events)
<1>1. PICK E : E = WorkspaceCreate(q, r, m).events
  OBVIOUS
<1>2. CASE \E w \in Workspaces : q.path[w] = m.path
  <2>1. E = {}
    BY <1>1, <1>2 DEF WorkspaceCreate
  <2> QED
    BY <1>1, <2>1 DEF Made, Plain
<1>3. CASE ~ \E w \in Workspaces : q.path[w] = m.path
  <2>1. PICK d, o : d = Defined(r, m.path) /\ o = Ordered(Append(q.order, r))
    OBVIOUS
  <2>2. E = {d, o}
    BY <1>1, <1>3, <2>1 DEF WorkspaceCreate
  <2>3. d.type = "defined" /\ d.ws = r /\ d.path = m.path /\ o.type = "order" /\ o.ids = Append(q.order, r)
    BY <2>1 DEF Defined, Ordered
  <2>4. p.path[r] = NONE /\ q.path[r] = NONE /\ r \in Workspaces
    BY DEF Sound, Agrees, Workspaces
  <2>5. Order(o.ids)
    BY <2>3, <2>4, OrderAppended DEF Agrees
  <2>6. Accepts(p, d)
    <3>1. \A w \in Workspaces : p.path[w] # m.path
      BY <1>3 DEF Agrees
    <3> QED
      BY <2>3, <2>4, <3>1, AcceptsDefined
  <2>7. Accepts(p, o)
    BY <2>3, <2>5, AcceptsOrder DEF Order
  <2>8. Plain(E, p, r)
    BY <2>2, <2>3, <2>4, <2>5 DEF Plain
  <2> QED
    BY <1>1, <2>2, <2>6, <2>7, <2>8 DEF Made
<1> QED
  BY <1>2, <1>3

LEMMA RenameMade ==
  ASSUME NEW p, NEW q, NEW used, NEW r, NEW m, m.ws \in Workspaces, Sound(p, used),
         Agrees(q, p), ~WorkspaceRename(q, m).refuses
  PROVE  Made(p, r, WorkspaceRename(q, m).events)
<1>1. PICK E, d : E = WorkspaceRename(q, m).events /\ d = Defined(m.ws, q.path[m.ws])
  OBVIOUS
<1>2. E = {d} /\ q.path[m.ws] # NONE
  BY <1>1 DEF WorkspaceRename, Exists
<1>3. d.type = "defined" /\ d.ws = m.ws /\ d.path = q.path[m.ws]
  BY <1>1 DEF Defined
<1>4. m.ws \in Requests => p.path[m.ws] # NONE
  BY <1>2 DEF Agrees
<1>5. Plain(E, p, r)
  BY <1>2, <1>3, <1>4 DEF Plain
<1>6. CASE p.path[m.ws] # NONE
  <2>1. p.path[m.ws] = d.path /\ \A w \in Workspaces \ {m.ws} : p.path[w] # d.path
    BY <1>3, <1>6 DEF Agrees, Sound
  <2>2. Accepts(p, d)
    BY <1>3, <2>1, AcceptsDefined
  <2> QED
    BY <1>1, <1>2, <1>5, <2>2 DEF Made
<1>7. CASE p.path[m.ws] = NONE /\ \E w \in Workspaces : p.path[w] = d.path
  <2>1. m.ws \in ToSet(Own)
    BY <1>4, <1>7 DEF Workspaces
  <2>2. Clashes(p, E)
    BY <1>2, <1>3, <1>7, <2>1 DEF Clashes
  <2> QED
    BY <1>1, <1>5, <2>2 DEF Made
<1>8. CASE p.path[m.ws] = NONE /\ ~ \E w \in Workspaces : p.path[w] = d.path
  <2>1. Accepts(p, d)
    BY <1>3, <1>8, AcceptsDefined
  <2> QED
    BY <1>1, <1>2, <1>5, <2>1 DEF Made
<1> QED
  BY <1>6, <1>7, <1>8

LEMMA DeleteMade ==
  ASSUME NEW p, NEW q, NEW r, NEW m, m.ws \in Workspaces, Agrees(q, p)
  PROVE  Made(p, r, WorkspaceDelete(q, m).events)
<1>1. PICK E, d, o : /\ E = WorkspaceDelete(q, m).events
                     /\ d = [type |-> "removed", ws |-> m.ws] /\ o = Ordered(Without(q.order, m.ws))
  OBVIOUS
<1>2. E = {d, o}
  BY <1>1 DEF WorkspaceDelete
<1>3. d.type = "removed" /\ d.ws = m.ws /\ o.type = "order" /\ o.ids = Without(q.order, m.ws)
  BY <1>1 DEF Ordered
<1>4. Order(o.ids)
  BY <1>3, ListedIs DEF Without, Agrees, Order
<1>5. Accepts(p, d) /\ Accepts(p, o)
  BY <1>3, <1>4, AcceptsOther, AcceptsOrder DEF Order
<1>6. Plain(E, p, r)
  BY <1>2, <1>3, <1>4 DEF Plain
<1> QED
  BY <1>1, <1>2, <1>5, <1>6 DEF Made

LEMMA MoveMade ==
  ASSUME NEW p, NEW q, NEW r, NEW m, m.ws \in Workspaces, Agrees(q, p), ~WorkspaceInsertBefore(q, m).refuses
  PROVE  Made(p, r, WorkspaceInsertBefore(q, m).events)
<1>1. PICK E, o, rest : /\ E = WorkspaceInsertBefore(q, m).events
                        /\ o = Ordered(Before(q.order, m.ws, m.before)) /\ rest = Without(q.order, m.ws)
  OBVIOUS
<1>2. E = {o}
  BY <1>1 DEF WorkspaceInsertBefore
<1>3. o.type = "order" /\ o.ids = Before(q.order, m.ws, m.before)
  BY <1>1 DEF Ordered
<1>4. Order(rest) /\ m.ws \notin ToSet(rest)
  BY <1>1, ListedIs DEF Without, Agrees, Order
<1>5. Order(o.ids)
  <2>1. CASE m.before \notin ToSet(rest)
    <3>1. o.ids = Append(rest, m.ws)
      BY <1>1, <1>3, <2>1 DEF Before
    <3> QED
      BY <1>4, <3>1, OrderAppended
  <2>2. CASE m.before \in ToSet(rest)
    <3>1. PICK n : n = CHOOSE i \in DOMAIN rest : rest[i] = m.before
      OBVIOUS
    <3>2. \E i \in DOMAIN rest : rest[i] = m.before
      BY <2>2 DEF ToSet
    <3>3. n \in DOMAIN rest
      BY <3>1, <3>2
    <3>4. o.ids = InsertAt(rest, n, m.ws)
      BY <1>1, <1>3, <2>2, <3>1 DEF Before
    <3> QED
      BY <1>4, <3>3, <3>4, OrderInserted
  <2> QED
    BY <2>1, <2>2
<1>6. Accepts(p, o)
  BY <1>3, <1>5, AcceptsOrder DEF Order
<1>7. Plain(E, p, r)
  BY <1>2, <1>3, <1>5 DEF Plain
<1> QED
  BY <1>1, <1>2, <1>6, <1>7 DEF Made

LEMMA ArchiveMade ==
  ASSUME NEW p, NEW q, NEW r, NEW m
  PROVE  Made(p, r, WorkspaceArchiveSession(q, m).events)
<1>1. PICK E, d : /\ E = WorkspaceArchiveSession(q, m).events
                  /\ d = [type |-> "archived", ids |-> q.archived \cup {m.session}]
  OBVIOUS
<1>2. E = {d} /\ d.type = "archived"
  BY <1>1 DEF WorkspaceArchiveSession
<1>3. Accepts(p, d)
  BY <1>2, AcceptsOther
<1>4. Plain(E, p, r)
  BY <1>2 DEF Plain
<1> QED
  BY <1>1, <1>2, <1>3, <1>4 DEF Made

LEMMA SettingsMade ==
  ASSUME NEW p, NEW q, NEW r, NEW m, Agrees(q, p)
  PROVE  Made(p, r, SettingsUpdate(q, m).events)
<1>1. PICK E, d : /\ E = SettingsUpdate(q, m).events
                  /\ d = [type |-> "settings", revision |-> q.settings + 1]
  OBVIOUS
<1>2. E = {d} /\ d.type = "settings" /\ d.revision = p.settings + 1
  BY <1>1 DEF SettingsUpdate, Agrees
<1>3. Accepts(p, d)
  BY <1>2, AcceptsSettings
<1>4. Plain(E, p, r)
  BY <1>2 DEF Plain
<1> QED
  BY <1>1, <1>2, <1>3, <1>4 DEF Made

LEMMA HandledMade ==
  ASSUME NEW p, NEW q, NEW used, NEW r \in Requests, NEW m \in Payloads[r], Sound(p, used),
         Agrees(q, p), r \notin used, ~Handles(q, r, m).refuses
  PROVE  Made(p, r, Handles(q, r, m).events)
<1>1. /\ m.op \in {"create", "rename", "delete", "move", "place", "archive", "update", "replace"}
      /\ m.op = "create" => m.path # NONE
      /\ m.op \in {"rename", "delete", "move", "place"} => m.ws \in Workspaces
  BY HostControlAssumption DEF HostControlAssumption
<1>2. CASE m.op = "create"
  BY <1>1, <1>2, HandlesCreate, CreateMade
<1>3. CASE m.op \in {"rename", "place"}
  <2>1. Handles(q, r, m) = WorkspaceRename(q, m)
    BY <1>3, HandlesRename, HandlesPlace
  <2>2. m.ws \in Workspaces /\ ~WorkspaceRename(q, m).refuses
    BY <1>1, <1>3, <2>1
  <2>3. Made(p, r, WorkspaceRename(q, m).events)
    BY <2>2, RenameMade
  <2> QED
    BY <2>1, <2>3
<1>4. CASE m.op = "delete"
  BY <1>1, <1>4, HandlesDelete, DeleteMade
<1>5. CASE m.op = "move"
  <2>1. Handles(q, r, m) = WorkspaceInsertBefore(q, m)
    BY <1>5, HandlesMove
  <2>2. m.ws \in Workspaces /\ ~WorkspaceInsertBefore(q, m).refuses
    BY <1>1, <1>5, <2>1
  <2>3. Made(p, r, WorkspaceInsertBefore(q, m).events)
    BY <2>2, MoveMade
  <2> QED
    BY <2>1, <2>3
<1>6. CASE m.op = "archive"
  BY <1>6, HandlesArchive, ArchiveMade
<1>7. CASE m.op \in {"update", "replace"}
  <2>1. Handles(q, r, m) = SettingsUpdate(q, m)
    BY <1>7, HandlesUpdate, HandlesReplace
  <2> QED
    BY <2>1, SettingsMade
<1> QED
  BY <1>1, <1>2, <1>3, <1>4, <1>5, <1>6, <1>7

\* The requests of the first n batches.
UsedBy(f, n) == {f[i].rpc : i \in 1..n}

LEMMA NothingIsSound == Sound(Nothing, {})
<1>1. /\ Nothing.order = <<>> /\ Nothing.path = [w \in Workspaces |-> NONE]
      /\ \A w \in Workspaces : Nothing.path[w] = NONE
  BY DEF Nothing
<1>2. Order(<<>>)
  BY EmptySeq DEF Order, IsInjective
<1> QED
  BY <1>1, <1>2 DEF Sound, Workspaces

LEMMA FittingIsMade ==
  ASSUME NEW f, NEW n \in Nat, NEW b, Fits(f, b, n), Sound(ProjectionAt(f, n), UsedBy(f, n))
  PROVE  Made(ProjectionAt(f, n), b.rpc, b.events)
<1>1. PICK p, r, m, used : p = ProjectionAt(f, n) /\ r = b.rpc /\ m = b.payload /\ used = UsedBy(f, n)
  OBVIOUS
<1>2. PICK q : Agrees(q, p) /\ ~Handles(q, r, m).refuses /\ b.events = Handles(q, r, m).events
  BY <1>1 DEF Fits, MadeFor
<1>3. r \in Requests /\ m \in Payloads[r] /\ r \notin used
  BY <1>1 DEF Fits, UsedBy
<1>4. Made(p, r, Handles(q, r, m).events)
  BY <1>1, <1>2, <1>3, HandledMade
<1> QED
  BY <1>1, <1>2, <1>4

LEMMA PrefixGoesOn ==
  ASSUME NEW f, Derived(f), Len(f) \in Nat, NEW k \in 0..Len(f), k + 1 <= Len(f),
         Sound(ProjectionAt(f, k), UsedBy(f, k))
  PROVE  /\ Sound(ProjectionAt(f, k + 1), UsedBy(f, k + 1))
         /\ Known(ProjectionAt(f, k)) \subseteq Known(ProjectionAt(f, k + 1))
<1>1. PICK n : n = k + 1
  OBVIOUS
<1>2. n \in 1..Len(f) /\ n \in Nat /\ n # 0 /\ n - 1 = k /\ k \in Nat
  BY <1>1
<1>3. PICK p, b, E, r : p = ProjectionAt(f, k) /\ b = f[n] /\ E = b.events /\ r = b.rpc
  OBVIOUS
<1>4. Fits(f, b, k) /\ \A e \in E : Accepts(p, e)
  BY <1>2, <1>3 DEF Derived, Accepted
<1>5. Plain(E, p, r)
  BY <1>2, <1>3, <1>4, FittingIsMade DEF Made
<1>6. ProjectionAt(f, n) = Folded(p, E)
  BY <1>2, <1>3, ProjectionGoesOn
<1>7. UsedBy(f, n) = UsedBy(f, k) \cup {r}
  <2>1. 1..n = (1..k) \cup {n}
    BY <1>1, <1>2
  <2> QED
    BY <1>3, <2>1, Zenon DEF UsedBy
<1>8. Sound(Folded(p, E), UsedBy(f, k) \cup {r}) /\ Known(p) \subseteq Known(Folded(p, E))
  BY <1>3, <1>4, <1>5, AcceptedFollow
<1> QED
  BY <1>1, <1>3, <1>6, <1>7, <1>8

LEMMA PrefixesAreSound ==
  ASSUME NEW f, Derived(f), Len(f) \in Nat
  PROVE  \A n \in 0..Len(f) : Sound(ProjectionAt(f, n), UsedBy(f, n))
<1> DEFINE S == {n \in 0..Len(f) : ~Sound(ProjectionAt(f, n), UsedBy(f, n))}
<1>1. ASSUME S # {} PROVE FALSE
  <2>1. PICK n \in S : \A q \in S : n <= q
    <3>1. S \in SUBSET Nat
      OBVIOUS
    <3> HIDE DEF S
    <3> QED
      BY <1>1, <3>1, FirstOne
  <2>2. n \in 0..Len(f) /\ n \in Nat /\ ~Sound(ProjectionAt(f, n), UsedBy(f, n))
    BY <2>1
  <2>3. n # 0
    <3>1. ProjectionAt(f, 0) = Nothing
      BY ProjectionGoesOn
    <3>2. UsedBy(f, 0) = {}
      BY DEF UsedBy
    <3> QED
      BY <2>2, <3>1, <3>2, NothingIsSound
  <2>4. PICK k \in 0..Len(f) : n = k + 1 /\ k + 1 <= Len(f)
    BY <2>2, <2>3
  <2>5. Sound(ProjectionAt(f, k), UsedBy(f, k))
    <3>1. ~(n <= k)
      BY <2>2, <2>4
    <3>2. k \notin S
      <4> HIDE DEF S
      <4> QED
        BY <2>1, <3>1
    <3> QED
      BY <3>2
  <2> QED
    BY <2>2, <2>4, <2>5, PrefixGoesOn
<1> QED
  BY <1>1

\* A workspace the log knows of it knows of ever after.
LEMMA KnownGrows ==
  ASSUME NEW f, Derived(f), Len(f) \in Nat, NEW n \in 0..Len(f)
  PROVE  Known(ProjectionAt(f, n)) \subseteq Known(ProjectionAt(f, Len(f)))
<1> DEFINE S == {m \in n..Len(f) : ~(Known(ProjectionAt(f, n)) \subseteq Known(ProjectionAt(f, m)))}
<1>1. ASSUME S # {} PROVE FALSE
  <2>1. PICK m \in S : \A q \in S : m <= q
    <3>1. S \in SUBSET Nat
      OBVIOUS
    <3> HIDE DEF S
    <3> QED
      BY <1>1, <3>1, FirstOne
  <2>2. m \in n..Len(f) /\ ~(Known(ProjectionAt(f, n)) \subseteq Known(ProjectionAt(f, m)))
    BY <2>1
  <2>3. m # n
    BY <2>2
  <2>4. PICK k \in n..Len(f) : m = k + 1 /\ k + 1 <= Len(f) /\ k \in 0..Len(f)
    BY <2>2, <2>3
  <2>5. Known(ProjectionAt(f, n)) \subseteq Known(ProjectionAt(f, k))
    <3>1. ~(m <= k)
      BY <2>2, <2>4
    <3>2. k \notin S
      <4> HIDE DEF S
      <4> QED
        BY <2>1, <3>1
    <3> QED
      BY <3>2
  <2>6. Known(ProjectionAt(f, k)) \subseteq Known(ProjectionAt(f, m))
    BY <2>4, PrefixesAreSound, PrefixGoesOn
  <2> QED
    BY <2>2, <2>5, <2>6
<1>2. Len(f) \in n..Len(f) /\ Len(f) \notin S
  BY <1>1
<1> QED
  BY <1>2

\* The compare and swap suffices: a mutation that fits the whole log is valid
\* as its next batch, or clashes.
LEMMA FittingIsValid ==
  ASSUME NEW f, Derived(f), Len(f) \in Nat, NEW b, Fits(f, b, Len(f))
  PROVE  ValidNext(f, b) \/ Clashes(Projection(f), b.events)
<1>1. Sound(ProjectionAt(f, Len(f)), UsedBy(f, Len(f)))
  <2>1. Len(f) \in 0..Len(f)
    OBVIOUS
  <2> QED
    BY <2>1, PrefixesAreSound
<1>2. Made(ProjectionAt(f, Len(f)), b.rpc, b.events)
  BY <1>1, FittingIsMade
<1>3. (\A e \in b.events : Accepts(Projection(f), e)) \/ Clashes(Projection(f), b.events)
  BY <1>2 DEF Made, Projection
<1>4. DOMAIN f = 1..Len(f)
  BY DEF Derived
<1> QED
  BY <1>3, <1>4 DEF ValidNext, Fits

-----------------------------------------------------------------------------
(* What a host holds *)

LEMMA MergedAgrees ==
  ASSUME NEW p, NEW used, NEW q, Sound(p, used), q.order \in Seq(Workspaces),
         \A w \in Requests : w \notin Known(p) => q.path[w] = NONE
  PROVE  Agrees(Merged(p, q), p)
<1>1. PICK s, path, S : /\ path = [w \in Workspaces |-> IF p.path[w] # NONE \/ w \in p.removed
                                                        THEN p.path[w] ELSE q.path[w]]
                        /\ s = p.order \o q.order \o Own /\ S = {w \in Workspaces : path[w] # NONE}
  OBVIOUS
<1>2. PICK t : t = Merged(p, q)
  OBVIOUS
<1>3. t.path = path /\ t.settings = p.settings /\ t.order = Listed(s, S)
  BY <1>1, <1>2 DEF Merged
<1>4. s \in Seq(Workspaces)
  <2>1. Own \in Seq(Workspaces)
    <3>1. ToSet(Own) \subseteq Workspaces /\ Own \in Seq(ToSet(Own))
      BY HostControlAssumption DEF Workspaces, HostControlAssumption
    <3>2. PICK T : T = ToSet(Own)
      OBVIOUS
    <3> QED
      BY <3>1, <3>2
  <2>2. p.order \in Seq(Workspaces)
    BY DEF Sound, Order
  <2> QED
    BY <1>1, <2>1, <2>2
<1>5. Order(t.order) /\ ToSet(t.order) \subseteq S
  BY <1>3, <1>4, ListedIs
<1>6. \A w \in Workspaces : t.path[w] = IF p.path[w] # NONE \/ w \in p.removed
                                         THEN p.path[w] ELSE q.path[w]
  BY <1>1, <1>3
<1>7. \A w \in Requests : t.path[w] = p.path[w]
  BY <1>6 DEF Workspaces, Known
<1>8. \A w \in Workspaces : p.path[w] # NONE => t.path[w] = p.path[w]
  BY <1>6
<1>9. \A w \in ToSet(t.order) : t.path[w] # NONE
  BY <1>1, <1>3, <1>5
<1> QED
  BY <1>2, <1>3, <1>5, <1>7, <1>8, <1>9 DEF Agrees

LEMMA BootedAgrees ==
  ASSUME NEW p, NEW used, NEW h, Sound(p, used), NEW t \in Booted(h, p)
  PROVE  Agrees(t, p)
<1>1. PICK q : q \in Attached(Merged(p, Fresh(h))) /\ t = Merged(p, q)
  BY DEF Booted
<1>2. PICK a, v : a = Fresh(h) /\ v = Merged(p, a)
  OBVIOUS
<1>3. a.order \in Seq(Workspaces) /\ \A w \in Requests : a.path[w] = NONE
  <2>1. a.order = <<>> /\ \A w \in Workspaces : a.path[w] = IF w = Default THEN Cwd[h] ELSE NONE
    BY <1>2 DEF Fresh
  <2>2. \A w \in Requests : w \in Workspaces /\ w # Default
    BY HostControlAssumption DEF Workspaces, HostControlAssumption
  <2> QED
    BY <2>1, <2>2, EmptySeq
<1>4. Agrees(v, p)
  BY <1>2, <1>3, MergedAgrees
<1>5. PICK new : /\ q = [v EXCEPT !.path = [w \in Workspaces |->
                                           IF w \in DOMAIN new THEN new[w] ELSE v.path[w]]]
                 /\ DOMAIN new \subseteq ToSet(Own)
  BY <1>1, <1>2 DEF Attached
<1>6. v = [path |-> v.path, archived |-> v.archived, settings |-> v.settings, order |-> v.order]
  BY <1>2 DEF Merged
<1>7. /\ q.order = v.order
      /\ \A w \in Workspaces : q.path[w] = IF w \in DOMAIN new THEN new[w] ELSE v.path[w]
  BY <1>5, <1>6
<1>8. \A w \in Requests : q.path[w] = p.path[w]
  BY <1>4, <1>5, <1>7, HostControlAssumption DEF Agrees, Workspaces, HostControlAssumption
<1>9. q.order \in Seq(Workspaces) /\ \A w \in Requests : w \notin Known(p) => q.path[w] = NONE
  BY <1>4, <1>7, <1>8 DEF Agrees, Order, Known, Workspaces
<1> QED
  BY <1>1, <1>9, MergedAgrees

-----------------------------------------------------------------------------
(* Logs that begin alike *)

\* What fits a log's first n batches fits every log that begins with them.
LEMMA FitsStays ==
  ASSUME NEW f, NEW g, NEW n \in Nat, \A i \in 1..n : f[i] = g[i], NEW b, Fits(f, b, n)
  PROVE  Fits(g, b, n) /\ (Accepted(f, b, n) => Accepted(g, b, n))
<1>1. ProjectionAt(f, n) = ProjectionAt(g, n)
  BY SamePrefix
<1> QED
  BY <1>1 DEF Fits, Accepted

LEMMA DerivedAppended ==
  ASSUME NEW f, Derived(f), NEW b, Fits(f, b, Len(f)), Accepted(f, b, Len(f))
  PROVE  /\ Derived(Append(f, b)) /\ Len(f) \in Nat /\ Len(Append(f, b)) = Len(f) + 1
         /\ Append(f, b)[Len(f) + 1] = b
         /\ \A i \in 1..Len(f) : Append(f, b)[i] = f[i]
<1>1. PICK T : T = {f[i] : i \in DOMAIN f} /\ f \in Seq(T)
  BY DEF Derived
<1>2. f \in Seq(T \cup {b}) /\ b \in T \cup {b} /\ Len(f) \in Nat /\ DOMAIN f = 1..Len(f)
  <2>1. f \in Seq(T)
    BY <1>1
  <2> QED
    BY <2>1
<1>3. PICK g : g = Append(f, b)
  OBVIOUS
<1>4. /\ g \in Seq(T \cup {b}) /\ Len(g) = Len(f) + 1 /\ g[Len(f) + 1] = b
      /\ \A i \in 1..Len(f) : g[i] = f[i]
  BY <1>2, <1>3
<1>5. g \in Seq({g[i] : i \in DOMAIN g})
  <2>1. DOMAIN g = 1..Len(g) /\ Len(g) \in Nat
    BY <1>4
  <2> QED
    BY <1>4, <2>1
<1>6. ASSUME NEW i \in 1..Len(g) PROVE Fits(g, g[i], i - 1) /\ Accepted(g, g[i], i - 1)
  <2>1. i \in Nat /\ i - 1 \in Nat
    BY <1>2, <1>4
  <2>2. \A j \in 1..(i - 1) : f[j] = g[j]
    BY <1>2, <1>4
  <2>3. CASE i = Len(f) + 1
    <3>1. g[i] = b /\ i - 1 = Len(f)
      BY <1>2, <1>4, <2>3
    <3>2. Fits(f, g[i], i - 1) /\ Accepted(f, g[i], i - 1)
      BY <3>1
    <3> QED
      BY <2>1, <2>2, <3>2, FitsStays
  <2>4. CASE i # Len(f) + 1
    <3>1. i \in 1..Len(f)
      BY <1>2, <1>4, <2>4
    <3>2. Fits(f, g[i], i - 1) /\ Accepted(f, g[i], i - 1)
      BY <1>4, <3>1 DEF Derived
    <3> QED
      BY <2>1, <2>2, <3>2, FitsStays
  <2> QED
    BY <2>3, <2>4
<1> QED
  BY <1>2, <1>3, <1>4, <1>5, <1>6 DEF Derived

LEMMA DerivedCut ==
  ASSUME NEW f, Derived(f), NEW k \in 0..Len(f)
  PROVE  /\ Derived(SubSeq(f, 1, k)) /\ Len(SubSeq(f, 1, k)) = k
         /\ \A i \in 1..k : SubSeq(f, 1, k)[i] = f[i]
<1>1. PICK T : T = {f[i] : i \in DOMAIN f} /\ f \in Seq(T) /\ Len(f) \in Nat /\ DOMAIN f = 1..Len(f)
  BY DEF Derived
<1>2. PICK g : g = SubSeq(f, 1, k)
  OBVIOUS
<1>3. k \in Nat /\ g \in Seq(T) /\ Len(g) = k /\ \A i \in 1..k : g[i] = f[i]
  <2>1. k \in Nat /\ k <= Len(f)
    BY <1>1
  <2>2. /\ SubSeq(f, 1, k) \in Seq(T)
        /\ Len(SubSeq(f, 1, k)) = IF 1 <= k THEN k - 1 + 1 ELSE 0
        /\ \A i \in 1..(k - 1 + 1) : SubSeq(f, 1, k)[i] = f[1 + i - 1]
    BY <1>1, <2>1, SubSeqProperties
  <2>3. \A i \in 1..k : i \in 1..(k - 1 + 1) /\ 1 + i - 1 = i
    BY <2>1
  <2>4. Len(g) = k
    BY <1>2, <2>1, <2>2
  <2> QED
    BY <1>2, <2>1, <2>2, <2>3, <2>4
<1>4. g \in Seq({g[i] : i \in DOMAIN g})
  <2>1. DOMAIN g = 1..Len(g) /\ Len(g) \in Nat
    BY <1>3
  <2> QED
    BY <1>3, <2>1
<1>5. ASSUME NEW i \in 1..Len(g) PROVE Fits(g, g[i], i - 1) /\ Accepted(g, g[i], i - 1)
  <2>1. i - 1 \in Nat /\ i \in 1..Len(f) /\ \A j \in 1..(i - 1) : f[j] = g[j]
    BY <1>1, <1>3
  <2>2. Fits(f, g[i], i - 1) /\ Accepted(f, g[i], i - 1)
    BY <1>3, <2>1 DEF Derived
  <2> QED
    BY <2>1, <2>2, FitsStays
<1> QED
  BY <1>2, <1>3, <1>4, <1>5 DEF Derived

-----------------------------------------------------------------------------
(* Steps that leave what the log has *)

LEMMA StoreTypes ==
  ASSUME StoreOK
  PROVE  Len(file) \in Nat /\ DOMAIN file = 1..Len(file) /\ synced \in Nat /\ synced <= Len(file)
<1>1. PICK T : file \in Seq(T)
  BY DEF StoreOK, Derived
<1>2. Len(file) \in Nat /\ DOMAIN file = 1..Len(file)
  BY <1>1
<1> QED
  BY <1>2 DEF StoreOK

Grown ==
  /\ Len(file)' \in Nat /\ Len(file) <= Len(file)' /\ synced <= synced'
  /\ \A i \in 1..Len(file) : file'[i] = file[i]

LEMMA SameIsGrown ==
  ASSUME StoreOK, UNCHANGED storeVars
  PROVE  StoreOK' /\ Grown
  BY StoreTypes DEF storeVars, StoreOK, Grown

LEMMA WriteGrows ==
  ASSUME StoreOK, NEW b, Fits(file, b, Len(file)), Accepted(file, b, Len(file)), Write(b)
  PROVE  /\ StoreOK' /\ Grown
         /\ Len(file)' = Len(file) + 1 /\ file'[Len(file) + 1] = b
<1>1. file' = Append(file, b) /\ head' = "written" /\ synced' = synced
  BY DEF Write
<1>2. Derived(file)
  BY DEF StoreOK
<1>3. /\ Derived(file') /\ Len(file') = Len(file) + 1 /\ file'[Len(file) + 1] = b
      /\ \A i \in 1..Len(file) : file'[i] = file[i]
  BY <1>1, <1>2, DerivedAppended
<1>4. synced' \in 0..Len(file')
  BY <1>1, <1>3, StoreTypes
<1>5. StoreOK'
  BY <1>1, <1>3, <1>4 DEF StoreOK
<1> QED
  BY <1>1, <1>3, <1>5, StoreTypes DEF Grown

LEMMA PartialGrows ==
  ASSUME StoreOK, NEW b, Fits(file, b, Len(file)), Accepted(file, b, Len(file)), Partial(b)
  PROVE  StoreOK' /\ Grown
<1>1. CASE Write(b)
  BY <1>1, WriteGrows
<1>2. CASE head' = "written" /\ UNCHANGED <<file, synced>>
  BY <1>2, StoreTypes DEF StoreOK, Grown
<1> QED
  BY <1>1, <1>2 DEF Partial

LEMMA CutGrows ==
  ASSUME StoreOK, HeaderCut
  PROVE  StoreOK' /\ Grown
  BY StoreTypes DEF StoreOK, Grown, HeaderCut

LEMMA SyncGrows ==
  ASSUME StoreOK, Sync
  PROVE  StoreOK' /\ Grown /\ synced' = Len(file) /\ file' = file
<1>1. synced' = Len(file) /\ file' = file /\ head' = head
  BY DEF Sync
<1>2. synced' \in 0..Len(file')
  BY <1>1, StoreTypes
<1>3. StoreOK'
  BY <1>1, <1>2 DEF StoreOK
<1> QED
  BY <1>1, <1>3, StoreTypes DEF Grown

LEMMA ComesStays ==
  ASSUME StoreOK, StoreOK', Grown, NEW CONSTANT c, Working(c), Comes(c)
  PROVE  Comes(c)'
<1>1. synced \in Nat /\ synced' \in Nat /\ synced <= synced'
  BY StoreTypes DEF Grown, StoreOK
<1>2. c.expected \in Nat /\ Len(file) \in Nat /\ Len(file') \in Nat /\ Len(file) <= Len(file')
  BY StoreTypes DEF Working, Grown
<1>3. ASSUME c.step = "append" PROVE c.expected <= Len(file') /\ Fits(file', c.batch, c.expected)
  <2>1. c.expected <= Len(file) /\ Fits(file, c.batch, c.expected)
    BY <1>3 DEF Comes
  <2>2. PICK f, g, n, b : f = file /\ g = file' /\ n = c.expected /\ b = c.batch
    OBVIOUS
  <2>3. n \in Nat /\ \A i \in 1..n : f[i] = g[i]
    BY <1>2, <2>1, <2>2 DEF Grown
  <2>4. Fits(g, b, n)
    BY <2>1, <2>2, <2>3, FitsStays
  <2> QED
    BY <2>1, <1>2, <2>2, <2>4
<1>4. ASSUME c.step \in {"flush", "reload"}
      PROVE  c.expected + 1 <= Len(file') /\ file'[c.expected + 1].rpc = c.rpc
  <2>1. c.expected + 1 <= Len(file) /\ file[c.expected + 1].rpc = c.rpc
    BY <1>4 DEF Comes
  <2>2. file'[c.expected + 1] = file[c.expected + 1]
    BY <1>2, <2>1 DEF Grown
  <2> QED
    BY <1>2, <2>1, <2>2
<1>5. c.step = "reload" => c.expected + 1 <= synced'
  BY <1>1, <1>2 DEF Comes
<1> QED
  BY <1>3, <1>4, <1>5 DEF Comes

\* One host's call and the answers, when the log only grows.
LEMMA CallsStep ==
  ASSUME CallsOK, StoreOK, StoreOK', Grown, up \subseteq up', NEW h \in Hosts, NEW CONSTANT c,
         call' = [call EXCEPT ![h] = c], c # Idle => h \in up' /\ Working(c) /\ Comes(c)'
  PROVE  CallsOK'
<1>1. call = [g \in Hosts |-> call[g]]
  BY DEF CallsOK
<1>2. DOMAIN call = Hosts
  BY <1>1
<1>3. \A g \in Hosts : call'[g] = IF g = h THEN c ELSE call[g]
  BY <1>2
<1>4. call' = [g \in Hosts |-> call'[g]]
  BY <1>2
<1>5. ASSUME NEW g \in Hosts, call'[g] # Idle
      PROVE  g \in up' /\ Working(call'[g]) /\ Comes(call[g])'
  <2>1. PICK d : d = call'[g]
    OBVIOUS
  <2>2. g \in up' /\ Working(d) /\ Comes(d)'
    <3>1. CASE g = h
      BY <1>3, <1>5, <2>1, <3>1
    <3>2. CASE g # h
      <4>1. d = call[g] /\ g \in up /\ Working(d) /\ Comes(d)
        BY <1>3, <1>5, <2>1, <3>2 DEF CallsOK
      <4> QED
        BY <4>1, ComesStays
    <3> QED
      BY <3>1, <3>2
  <2> QED
    BY <2>1, <2>2 DEF Comes
<1> QED
  BY <1>4, <1>5 DEF CallsOK

LEMMA CallsStay ==
  ASSUME CallsOK, StoreOK, StoreOK', Grown, up \subseteq up', UNCHANGED call
  PROVE  CallsOK'
<1>1. ASSUME NEW g \in Hosts, call[g] # Idle
      PROVE  g \in up' /\ Working(call[g]) /\ Comes(call[g])'
  <2>1. PICK d : d = call[g]
    OBVIOUS
  <2>2. g \in up /\ Working(d) /\ Comes(d)
    BY <1>1, <2>1 DEF CallsOK
  <2>3. Comes(d)'
    BY <2>2, ComesStays
  <2> QED
    BY <2>1, <2>2, <2>3 DEF Comes
<1> QED
  BY <1>1 DEF CallsOK

LEMMA AnswersStay ==
  ASSUME AnswersOK, StoreOK, StoreOK', Grown, UNCHANGED answers
  PROVE  AnswersOK'
<1>1. synced \in Nat /\ synced' \in Nat /\ synced <= synced' /\ synced <= Len(file) /\ Len(file) \in Nat
  BY StoreTypes DEF Grown, StoreOK
<1>2. ASSUME NEW a \in answers, a.how = "committed" PROVE a.at \in 1..synced' /\ file'[a.at].rpc = a.rpc
  <2>1. a.at \in 1..synced /\ file[a.at].rpc = a.rpc
    BY <1>2 DEF AnswersOK
  <2>2. a.at \in 1..synced' /\ a.at \in 1..Len(file)
    BY <1>1, <2>1
  <2> QED
    BY <2>1, <2>2 DEF Grown
<1> QED
  BY <1>2 DEF AnswersOK

LEMMA AnswersGrow ==
  ASSUME AnswersOK, StoreOK, UNCHANGED storeVars, NEW CONSTANT r, NEW CONSTANT how, NEW CONSTANT at,
         Answered(r, how, at), how \in {"committed", "replayed", "conflict", "refused"},
         how = "committed" => at \in 1..synced /\ file[at].rpc = r
  PROVE  AnswersOK'
<1>0. PICK a : a = [rpc |-> r, how |-> how, at |-> at]
  OBVIOUS
<1>1. a = [rpc |-> r, how |-> how, at |-> at] /\ a.rpc = r /\ a.how = how /\ a.at = at
  BY <1>0
<1>2. answers' = answers \cup {a} /\ synced' = synced /\ file' = file
  BY <1>1 DEF Answered, storeVars
<1> QED
  BY <1>1, <1>2 DEF AnswersOK

\* The hosts' own state, when the log only grows.
LEMMA HostsStay ==
  ASSUME HostsOK, StoreOK, Grown, UNCHANGED revision, up' \subseteq up, faults' \in 0..MaxFaults
  PROVE  HostsOK'
<1>1. \A n \in 0..Len(file) : n \in 0..Len(file')
  BY StoreTypes DEF Grown
<1> QED
  BY <1>1 DEF HostsOK

LEMMA HostsReread ==
  ASSUME HostsOK, StoreOK, UNCHANGED <<file, faults>>, NEW h \in Hosts,
         revision' = [revision EXCEPT ![h] = Len(file)], up' \subseteq up \cup {h}
  PROVE  HostsOK'
<1>1. DOMAIN revision = Hosts
  BY DEF HostsOK
<1>2. /\ DOMAIN revision' = Hosts
      /\ \A g \in Hosts : revision'[g] = IF g = h THEN Len(file) ELSE revision[g]
  BY <1>1
<1>3. Len(file) \in 0..Len(file)
  BY StoreTypes
<1> QED
  BY <1>2, <1>3 DEF HostsOK

\* What the hosts hold, when the log only grows and when one applies it again.
LEMMA MemoryStay ==
  ASSUME MemoryOK, HostsOK, StoreOK, Grown, UNCHANGED <<revision, memory>>, up' \subseteq up
  PROVE  MemoryOK'
<1>1. ASSUME NEW h \in up' PROVE Agrees(memory[h], ProjectionAt(file', revision[h]))
  <2>1. PICK f, g, n : f = file /\ g = file' /\ n = revision[h]
    OBVIOUS
  <2>2. n \in Nat /\ \A i \in 1..n : f[i] = g[i]
    <3>1. n \in 0..Len(file) /\ Len(file) \in Nat
      BY <2>1, StoreTypes DEF HostsOK
    <3> QED
      BY <2>1, <3>1 DEF Grown
  <2>3. ProjectionAt(f, n) = ProjectionAt(g, n)
    BY <2>2, SamePrefix
  <2>4. Agrees(memory[h], ProjectionAt(f, n))
    BY <2>1 DEF MemoryOK
  <2> QED
    BY <2>1, <2>3, <2>4
<1> QED
  BY <1>1 DEF MemoryOK

LEMMA MemoryApplied ==
  ASSUME MemoryOK, HostsOK, StoreOK, UNCHANGED file, NEW h \in Hosts, up' \subseteq up \cup {h},
         revision' = [revision EXCEPT ![h] = Len(file)],
         NEW CONSTANT t, memory' = [memory EXCEPT ![h] = t], Agrees(t, Projection(file))
  PROVE  MemoryOK'
<1>1. /\ DOMAIN memory' = Hosts /\ memory'[h] = t /\ revision'[h] = Len(file)
      /\ \A g \in Hosts : g # h => memory'[g] = memory[g] /\ revision'[g] = revision[g]
  BY DEF MemoryOK, HostsOK
<1>2. ASSUME NEW g \in up' PROVE Agrees(memory'[g], ProjectionAt(file', revision'[g]))
  <2>1. CASE g = h
    BY <1>1, <2>1 DEF Projection
  <2>2. CASE g # h
    BY <1>1, <2>2 DEF MemoryOK, HostsOK
  <2> QED
    BY <2>1, <2>2
<1> QED
  BY <1>1, <1>2 DEF MemoryOK

LEMMA MemoryReread ==
  ASSUME MemoryOK, HostsOK, StoreOK, UNCHANGED file, NEW h \in Hosts, h \in up, up' \subseteq up,
         Rereads(h)
  PROVE  MemoryOK'
<1>1. PICK p, q, f, n : p = Projection(file) /\ q = memory[h] /\ f = file /\ n = revision[h]
  OBVIOUS
<1>2. PICK t : t = Merged(p, q)
  OBVIOUS
<1>3. memory' = [memory EXCEPT ![h] = t] /\ revision' = [revision EXCEPT ![h] = Len(file)]
  BY <1>1, <1>2 DEF Rereads
<1>4. Derived(f) /\ Len(f) \in Nat /\ n \in 0..Len(f) /\ Len(f) \in 0..Len(f)
  BY <1>1, StoreTypes DEF StoreOK, HostsOK
<1>5. Agrees(q, ProjectionAt(f, n))
  BY <1>1 DEF MemoryOK
<1>6. Sound(p, UsedBy(f, Len(f))) /\ Known(ProjectionAt(f, n)) \subseteq Known(p)
  BY <1>1, <1>4, PrefixesAreSound, KnownGrows DEF Projection
<1>7. q.order \in Seq(Workspaces) /\ \A w \in Requests : w \notin Known(p) => q.path[w] = NONE
  BY <1>5, <1>6 DEF Agrees, Order, Known, Workspaces
<1>8. Agrees(t, p)
  BY <1>2, <1>6, <1>7, MergedAgrees
<1>9. Agrees(t, Projection(file)) /\ up' \subseteq up \cup {h} /\ file' = file
  BY <1>1, <1>8
<1> QED
  BY <1>3, <1>9, MemoryApplied

LEMMA FaultsStay ==
  ASSUME HostsOK, Fault PROVE faults' \in 0..MaxFaults
  BY HostControlAssumption DEF HostsOK, Fault, HostControlAssumption

-----------------------------------------------------------------------------
(* The steps *)

\* A host's mutation under way, and what it becomes at its next step.
LEMMA AtWork ==
  ASSUME CallsOK, NEW h \in Hosts, call[h] # Idle
  PROVE  h \in up /\ Working(call[h]) /\ Comes(call[h])
  BY DEF CallsOK

LEMMA NotIdle ==
  ASSUME NEW h, NEW s, At(h, s), s # "idle"
  PROVE  call[h] # Idle
  BY DEF At, Idle

LEMMA GoesTo ==
  ASSUME CallsOK, NEW h \in Hosts, call[h] # Idle, NEW CONSTANT s \in {"append", "flush", "reload", "reread"},
         Goes(h, s)
  PROVE  \E c : /\ call' = [call EXCEPT ![h] = c] /\ Working(c)
                /\ c.step = s /\ c.rpc = call[h].rpc /\ c.expected = call[h].expected
                /\ c.batch = call[h].batch
<1>1. PICK d : d = call[h]
  OBVIOUS
<1>2. Working(d)
  BY <1>1, AtWork
<1>3. d = [step |-> d.step, rpc |-> d.rpc, expected |-> d.expected, batch |-> d.batch]
  BY <1>2 DEF Working
<1>4. PICK c : c = [d EXCEPT !.step = s]
  OBVIOUS
<1>5. c = [step |-> s, rpc |-> d.rpc, expected |-> d.expected, batch |-> d.batch]
  BY <1>3, <1>4
<1>6. c.step = s /\ c.rpc = d.rpc /\ c.expected = d.expected /\ c.batch = d.batch
  BY <1>5
<1>7. c = [step |-> c.step, rpc |-> c.rpc, expected |-> c.expected, batch |-> c.batch]
  BY <1>5, <1>6
<1>8. Working(c)
  BY <1>2, <1>6, <1>7, Zenon DEF Working
<1>9. call' = [call EXCEPT ![h] = c]
  BY <1>1, <1>4 DEF Goes
<1> QED
  BY <1>1, <1>6, <1>8, <1>9

LEMMA Releasing ==
  ASSUME CallsOK, StoreOK, StoreOK', Grown, up \subseteq up', NEW h \in Hosts, Releases(h)
  PROVE  CallsOK'
<1>1. PICK c : c = Idle /\ call' = [call EXCEPT ![h] = c]
  BY DEF Releases
<1> QED
  BY <1>1, CallsStep

LEMMA HostsFrame ==
  ASSUME HostsOK, StoreOK, Grown, UNCHANGED <<up, revision, faults>>
  PROVE  HostsOK'
<1>1. faults' \in 0..MaxFaults
  BY DEF HostsOK
<1> QED
  BY <1>1, HostsStay

LEMMA MemoryFrame ==
  ASSUME MemoryOK, HostsOK, StoreOK, Grown, UNCHANGED <<up, revision, memory>>
  PROVE  MemoryOK'
  BY MemoryStay

LEMMA ControlReplay ==
  ASSUME ControlInv, NEW h \in Hosts, NEW r \in Requests, NEW m, Replay(h, r, m)
  PROVE  ControlInv'
<1>1. StoreOK /\ HostsOK /\ MemoryOK /\ CallsOK /\ AnswersOK /\ UNCHANGED <<storeVars, up, revision, memory, router, faults, call>>
  BY DEF ControlInv, Replay, Arrives
<1>2. StoreOK' /\ Grown
  BY <1>1, SameIsGrown
<1>3. PICK i : Answered(r, IF file[i].payload = m THEN "replayed" ELSE "conflict", i)
  BY DEF Replay
<1>4. PICK how, n : Answered(r, how, n) /\ how \in {"replayed", "conflict"}
  BY <1>3
<1>5. AnswersOK'
  BY <1>1, <1>4, AnswersGrow
<1> QED
  BY <1>1, <1>2, <1>5, HostsFrame, MemoryFrame, CallsStay DEF ControlInv

LEMMA ControlRefuse ==
  ASSUME ControlInv, NEW h \in Hosts, NEW r \in Requests, NEW m, Refuse(h, r, m)
  PROVE  ControlInv'
<1>1. StoreOK /\ HostsOK /\ MemoryOK /\ CallsOK /\ AnswersOK /\ UNCHANGED <<storeVars, up, revision, memory, router, faults, call>>
  BY DEF ControlInv, Refuse, Arrives
<1>2. StoreOK' /\ Grown
  BY <1>1, SameIsGrown
<1>3. PICK how, n : Answered(r, how, n) /\ how = "refused"
  BY DEF Refuse
<1>4. AnswersOK'
  BY <1>1, <1>3, AnswersGrow
<1> QED
  BY <1>1, <1>2, <1>4, HostsFrame, MemoryFrame, CallsStay DEF ControlInv

LEMMA ControlPrepare ==
  ASSUME ControlInv, NEW h \in Hosts, NEW r \in Requests, NEW m, Prepare(h, r, m)
  PROVE  ControlInv'
<1>1. /\ StoreOK /\ HostsOK /\ MemoryOK /\ CallsOK /\ AnswersOK
      /\ UNCHANGED <<storeVars, up, revision, memory, router, faults, answers>>
      /\ h \in up /\ m \in Payloads[r]
  BY DEF ControlInv, Prepare, Arrives
<1>2. StoreOK' /\ Grown
  BY <1>1, SameIsGrown
<1>3. PICK b, n, c :
         /\ n = revision[h]
         /\ b = [rpc |-> r, payload |-> m, events |-> Handles(memory[h], r, m).events]
         /\ c = [step |-> "append", rpc |-> r, expected |-> n, batch |-> b]
  OBVIOUS
<1>4. call' = [call EXCEPT ![h] = c]
  BY <1>3 DEF Prepare
<1>5. b.rpc = r /\ b.payload = m /\ b.events = Handles(memory[h], r, m).events
  BY <1>3
<1>6. c.step = "append" /\ c.rpc = r /\ c.expected = n /\ c.batch = b
  BY <1>3
<1>7. n \in 0..Len(file) /\ n \in Nat /\ n <= Len(file)
  BY <1>1, <1>3, StoreTypes DEF HostsOK
<1>8. Fits(file, b, n)
  <2>1. PICK q : q = memory[h]
    OBVIOUS
  <2>2. Agrees(q, ProjectionAt(file, n)) /\ ~Handles(q, r, m).refuses /\ b.events = Handles(q, r, m).events
    BY <1>1, <1>3, <1>5, <2>1 DEF MemoryOK, Prepare
  <2>3. MadeFor(ProjectionAt(file, n), b)
    BY <1>5, <2>2 DEF MadeFor
  <2>4. \A i \in 1..n : file[i].rpc # r
    BY <1>3 DEF Prepare, Receipts
  <2> QED
    BY <1>1, <1>5, <2>3, <2>4 DEF Fits
<1>9. Working(c) /\ Comes(c)
  BY <1>3, <1>5, <1>6, <1>7, <1>8 DEF Working, Comes
<1>10. Comes(c)'
  BY <1>1, <1>2, <1>9, ComesStays
<1>11. CallsOK'
  BY <1>1, <1>2, <1>4, <1>9, <1>10, CallsStep
<1> QED
  BY <1>1, <1>2, <1>11, HostsFrame, MemoryFrame, AnswersStay DEF ControlInv

\* What the log's own validation lets through it accepts.
LEMMA LandingIsAccepted ==
  ASSUME NEW h, Lands(h)
  PROVE  Accepted(file, call[h].batch, Len(file))
  BY DEF Lands, ValidNext, Accepted, Projection

LEMMA ControlAppendBatch ==
  ASSUME ControlInv, NEW h \in Hosts, AppendBatch(h)
  PROVE  ControlInv'
<1>1. StoreOK /\ HostsOK /\ MemoryOK /\ CallsOK /\ AnswersOK /\ UNCHANGED <<up, revision, memory, router, answers, faults>>
  BY DEF ControlInv, AppendBatch
<1>2. call[h] # Idle
  BY NotIdle DEF AppendBatch
<1>3. PICK d : d = call[h]
  OBVIOUS
<1>4. h \in up /\ Working(d) /\ Comes(d) /\ d.step = "append" /\ d.expected = Len(file) /\ Write(d.batch)
  BY <1>1, <1>2, <1>3, AtWork DEF AppendBatch, At, Lands, Current
<1>5. Fits(file, d.batch, Len(file)) /\ Accepted(file, d.batch, Len(file))
  BY <1>3, <1>4, LandingIsAccepted DEF Comes, AppendBatch
<1>6. PICK b : b = d.batch
  OBVIOUS
<1>7. StoreOK' /\ Grown /\ Len(file)' = Len(file) + 1 /\ file'[Len(file) + 1] = b
  BY <1>1, <1>4, <1>5, <1>6, WriteGrows
<1>8. PICK c : /\ call' = [call EXCEPT ![h] = c] /\ Working(c) /\ c.step = "flush"
               /\ c.rpc = d.rpc /\ c.expected = d.expected /\ c.batch = b
  BY <1>1, <1>2, <1>3, <1>6, GoesTo DEF AppendBatch
<1>9. Comes(c)'
  BY <1>1, <1>4, <1>6, <1>7, <1>8, StoreTypes DEF Comes, Working
<1>10. CallsOK'
  BY <1>1, <1>4, <1>7, <1>8, <1>9, CallsStep
<1> QED
  BY <1>1, <1>7, <1>10, HostsFrame, MemoryFrame, AnswersStay DEF ControlInv

LEMMA ControlAppendConflicts ==
  ASSUME ControlInv, NEW h \in Hosts, AppendConflicts(h)
  PROVE  ControlInv'
<1>1. /\ StoreOK /\ HostsOK /\ MemoryOK /\ CallsOK /\ AnswersOK
      /\ UNCHANGED <<storeVars, up, revision, memory, router, answers, faults>>
  BY DEF ControlInv, AppendConflicts
<1>2. call[h] # Idle /\ h \in up
  BY NotIdle DEF AppendConflicts, At
<1>3. StoreOK' /\ Grown
  BY <1>1, SameIsGrown
<1>4. PICK c : call' = [call EXCEPT ![h] = c] /\ Working(c) /\ c.step = "reread"
  BY <1>1, <1>2, GoesTo DEF AppendConflicts
<1>5. Comes(c)'
  BY <1>4 DEF Comes
<1>6. CallsOK'
  BY <1>1, <1>2, <1>3, <1>4, <1>5, CallsStep
<1> QED
  BY <1>1, <1>3, <1>6, HostsFrame, MemoryFrame, AnswersStay DEF ControlInv

LEMMA ControlAppendRefused ==
  ASSUME ControlInv, NEW h \in Hosts, AppendRefused(h)
  PROVE  ControlInv'
<1>1. /\ StoreOK /\ HostsOK /\ MemoryOK /\ CallsOK /\ AnswersOK /\ Releases(h)
      /\ UNCHANGED <<storeVars, up, revision, memory, router, faults>>
  BY DEF ControlInv, AppendRefused
<1>2. StoreOK' /\ Grown
  BY <1>1, SameIsGrown
<1>3. CallsOK'
  BY <1>1, <1>2, Releasing
<1>4. AnswersOK'
  <2>1. CASE UNCHANGED answers
    BY <1>1, <1>2, <2>1, AnswersStay
  <2>2. CASE Answered(call[h].rpc, "refused", 0)
    <3>1. PICK r, how, n : Answered(r, how, n) /\ how = "refused"
      BY <2>2
    <3> QED
      BY <1>1, <3>1, AnswersGrow
  <2> QED
    BY <2>1, <2>2 DEF AppendRefused
<1> QED
  BY <1>1, <1>2, <1>3, <1>4, HostsFrame, MemoryFrame DEF ControlInv

\* What an append that does not come through leaves of its batch.
LEMMA AppendLeaves ==
  ASSUME StoreOK, CallsOK, NEW h \in Hosts, At(h, "append"), Lands(h), Partial(call[h].batch)
  PROVE  StoreOK' /\ Grown
<1>1. PICK d, b : d = call[h] /\ b = d.batch
  OBVIOUS
<1>2. Comes(d) /\ d.step = "append" /\ d.expected = Len(file)
  BY <1>1, NotIdle, AtWork DEF At, Lands, Current
<1>3. Fits(file, b, Len(file)) /\ Accepted(file, b, Len(file))
  BY <1>1, <1>2, LandingIsAccepted DEF Comes
<1> QED
  BY <1>1, <1>3, PartialGrows

LEMMA ControlAppendFails ==
  ASSUME ControlInv, NEW h \in Hosts, AppendFails(h)
  PROVE  ControlInv'
<1>1. /\ StoreOK /\ HostsOK /\ MemoryOK /\ CallsOK /\ AnswersOK /\ Releases(h) /\ Fault
      /\ UNCHANGED <<up, revision, memory, router, answers>>
  BY DEF ControlInv, AppendFails, Fails
<1>2. StoreOK' /\ Grown
  BY <1>1, AppendLeaves, SameIsGrown DEF AppendFails
<1>3. CallsOK'
  BY <1>1, <1>2, Releasing
<1>4. HostsOK'
  BY <1>1, <1>2, HostsStay, FaultsStay
<1> QED
  BY <1>1, <1>2, <1>3, <1>4, MemoryStay, AnswersStay DEF ControlInv

LEMMA ControlFlush ==
  ASSUME ControlInv, NEW h \in Hosts, Flush(h)
  PROVE  ControlInv'
<1>1. /\ StoreOK /\ HostsOK /\ MemoryOK /\ CallsOK /\ AnswersOK /\ Sync
      /\ UNCHANGED <<up, revision, memory, router, faults, answers>>
  BY DEF ControlInv, Flush, Fails
<1>2. call[h] # Idle /\ h \in up /\ call[h].step = "flush"
  BY NotIdle DEF Flush, At
<1>3. StoreOK' /\ Grown /\ synced' = Len(file) /\ file' = file
  BY <1>1, SyncGrows
<1>4. CallsOK'
  <2>1. CASE Len(file) = call[h].expected + 1
    <3>1. PICK d : d = call[h]
      OBVIOUS
    <3>2. PICK c : /\ call' = [call EXCEPT ![h] = c] /\ Working(c)
                   /\ c.step = "reload" /\ c.rpc = d.rpc /\ c.expected = d.expected
      BY <1>1, <1>2, <2>1, <3>1, GoesTo DEF Flush
    <3>3. Comes(d) /\ d.step = "flush" /\ Working(d)
      BY <1>1, <1>2, <3>1, AtWork
    <3>4. d.expected + 1 = Len(file) /\ file[d.expected + 1].rpc = d.rpc /\ d.expected \in Nat
      BY <2>1, <3>1, <3>3 DEF Comes, Working
    <3>5. Comes(c)'
      BY <1>3, <3>2, <3>4 DEF Comes
    <3> QED
      BY <1>1, <1>2, <1>3, <3>2, <3>5, CallsStep
  <2>2. CASE Len(file) # call[h].expected + 1
    <3>1. Releases(h)
      BY <2>2 DEF Flush, Fails
    <3> QED
      BY <1>1, <1>3, <3>1, Releasing
  <2> QED
    BY <2>1, <2>2
<1> QED
  BY <1>1, <1>3, <1>4, HostsFrame, MemoryFrame, AnswersStay DEF ControlInv

LEMMA ControlFlushFails ==
  ASSUME ControlInv, NEW h \in Hosts, FlushFails(h)
  PROVE  ControlInv'
<1>1. /\ StoreOK /\ HostsOK /\ MemoryOK /\ CallsOK /\ AnswersOK /\ Releases(h) /\ Fault
      /\ UNCHANGED <<storeVars, up, revision, memory, router, answers>>
  BY DEF ControlInv, FlushFails, Fails
<1>2. StoreOK' /\ Grown
  BY <1>1, SameIsGrown
<1> QED
  BY <1>1, <1>2, Releasing, HostsStay, MemoryStay, FaultsStay, AnswersStay DEF ControlInv

LEMMA ControlReload ==
  ASSUME ControlInv, NEW h \in Hosts, Reload(h)
  PROVE  ControlInv'
<1>1. /\ StoreOK /\ HostsOK /\ MemoryOK /\ CallsOK /\ AnswersOK /\ Releases(h)
      /\ UNCHANGED <<storeVars, up, faults>> /\ Rereads(h) /\ h \in up
      /\ revision' = [revision EXCEPT ![h] = Len(file)]
  BY DEF ControlInv, Reload, Rereads, At
<1>2. StoreOK' /\ Grown /\ file' = file
  BY <1>1, SameIsGrown DEF storeVars
<1>3. PICK d, r, n, how : d = call[h] /\ r = d.rpc /\ n = d.expected + 1 /\ how = "committed"
  OBVIOUS
<1>4. Comes(d) /\ Working(d) /\ d.step = "reload"
  BY <1>1, <1>3, NotIdle, AtWork DEF Reload, At
<1>5. n \in 1..synced /\ file[n].rpc = r
  BY <1>1, <1>3, <1>4, StoreTypes DEF Comes, Working
<1>6. Answered(r, how, n)
  BY <1>3 DEF Reload
<1>7. AnswersOK'
  BY <1>1, <1>3, <1>5, <1>6, AnswersGrow
<1>8. CallsOK'
  BY <1>1, <1>2, Releasing
<1>9. HostsOK'
  BY <1>1, <1>2, HostsReread
<1>10. MemoryOK'
  BY <1>1, <1>2, MemoryReread
<1> QED
  BY <1>2, <1>7, <1>8, <1>9, <1>10 DEF ControlInv

LEMMA ControlReread ==
  ASSUME ControlInv, NEW h \in Hosts, Reread(h)
  PROVE  ControlInv'
<1>1. /\ StoreOK /\ HostsOK /\ MemoryOK /\ CallsOK /\ AnswersOK /\ Releases(h)
      /\ UNCHANGED <<storeVars, up, faults>> /\ Rereads(h) /\ h \in up
      /\ revision' = [revision EXCEPT ![h] = Len(file)]
  BY DEF ControlInv, Reread, Rereads, At
<1>2. StoreOK' /\ Grown /\ file' = file
  BY <1>1, SameIsGrown DEF storeVars
<1>3. PICK r, how, n : Answered(r, how, n) /\ how \in {"replayed", "conflict"}
  BY DEF Reread
<1>4. AnswersOK'
  BY <1>1, <1>3, AnswersGrow
<1>5. CallsOK'
  BY <1>1, <1>2, Releasing
<1>6. HostsOK'
  BY <1>1, <1>2, HostsReread
<1>7. MemoryOK'
  BY <1>1, <1>2, MemoryReread
<1> QED
  BY <1>2, <1>4, <1>5, <1>6, <1>7 DEF ControlInv

LEMMA ControlDrop ==
  ASSUME ControlInv, NEW h \in Hosts, DropHandler(h)
  PROVE  ControlInv'
<1>1. /\ StoreOK /\ HostsOK /\ MemoryOK /\ CallsOK /\ AnswersOK /\ Releases(h) /\ Fault
      /\ UNCHANGED <<storeVars, up, revision, memory, router, answers>>
  BY DEF ControlInv, DropHandler
<1>2. StoreOK' /\ Grown
  BY <1>1, SameIsGrown
<1> QED
  BY <1>1, <1>2, Releasing, HostsStay, MemoryStay, FaultsStay, AnswersStay DEF ControlInv

LEMMA ControlCrash ==
  ASSUME ControlInv, NEW h \in Hosts, Crash(h)
  PROVE  ControlInv'
<1>1. /\ StoreOK /\ HostsOK /\ MemoryOK /\ CallsOK /\ AnswersOK /\ Fault /\ h \in up
      /\ UNCHANGED <<revision, memory, router, answers>> /\ up' = up \ {h}
      /\ call' = [g \in Hosts |-> IF g \in {h} THEN Idle ELSE call[g]]
  BY DEF ControlInv, Crash, Forgets
<1>2. StoreOK' /\ Grown
  BY <1>1, AppendLeaves, SameIsGrown, CutGrows DEF Crash, At
<1>3. CallsOK'
  <2>1. call' = [g \in Hosts |-> call'[g]]
    BY <1>1
  <2>2. ASSUME NEW g \in Hosts, call'[g] # Idle
        PROVE  g \in up' /\ Working(call'[g]) /\ Comes(call[g])'
    <3>1. PICK d : d = call'[g]
      OBVIOUS
    <3>2. g # h /\ d = call[g] /\ d # Idle
      BY <1>1, <2>2, <3>1
    <3>3. g \in up /\ Working(d) /\ Comes(d)
      BY <1>1, <3>2 DEF CallsOK
    <3>4. Comes(d)'
      BY <1>1, <1>2, <3>3, ComesStays
    <3> QED
      BY <1>1, <3>1, <3>2, <3>3, <3>4 DEF Comes
  <2> QED
    BY <2>1, <2>2 DEF CallsOK
<1> QED
  BY <1>1, <1>2, <1>3, HostsStay, MemoryStay, FaultsStay, AnswersStay DEF ControlInv

LEMMA ControlPowerFails ==
  ASSUME ControlInv, PowerFails
  PROVE  ControlInv'
<1>1. /\ StoreOK /\ HostsOK /\ MemoryOK /\ CallsOK /\ AnswersOK /\ Fault
      /\ UNCHANGED <<revision, memory, router, answers, head, synced>> /\ up' = up \ Hosts
      /\ call' = [g \in Hosts |-> IF g \in Hosts THEN Idle ELSE call[g]]
  BY DEF ControlInv, PowerFails, Forgets, LoseUnsynced
<1>2. PICK k \in synced..Len(file) : file' = SubSeq(file, 1, k)
  BY DEF PowerFails, LoseUnsynced
<1>3. k \in 0..Len(file) /\ k \in Nat /\ synced \in 0..k /\ synced <= Len(file)
  BY <1>1, StoreTypes
<1>4. Derived(file') /\ Len(file') = k /\ \A i \in 1..k : file'[i] = file[i]
  BY <1>1, <1>2, <1>3, DerivedCut DEF StoreOK
<1>5. StoreOK'
  <2>1. head # "written" => file' = <<>>
    <3>1. ASSUME head # "written" PROVE file' = <<>>
      <4>1. file = <<>> /\ Len(file) = 0
        BY <1>1, <3>1 DEF StoreOK
      <4>2. PICK T : file' \in Seq(T)
        BY <1>4 DEF Derived
      <4>3. Len(file') = 0
        BY <1>3, <1>4, <4>1
      <4> QED
        BY <4>2, <4>3, EmptySeq
    <3> QED
      BY <3>1
  <2> QED
    BY <1>1, <1>3, <1>4, <2>1 DEF StoreOK
<1>6. HostsOK' /\ up' = {}
  BY <1>1, FaultsStay DEF HostsOK
<1>7. CallsOK'
  BY <1>1 DEF CallsOK
<1>8. AnswersOK'
  <2>1. ASSUME NEW a \in answers, a.how = "committed"
        PROVE  a.at \in 1..synced' /\ file'[a.at].rpc = a.rpc
    <3>1. a.at \in 1..synced /\ file[a.at].rpc = a.rpc
      BY <1>1, <2>1 DEF AnswersOK
    <3>2. a.at \in 1..k
      BY <1>3, <3>1
    <3> QED
      BY <1>1, <1>4, <3>1, <3>2
  <2> QED
    BY <1>1, <2>1 DEF AnswersOK
<1>9. MemoryOK'
  BY <1>1, <1>6 DEF MemoryOK
<1> QED
  BY <1>5, <1>6, <1>7, <1>8, <1>9 DEF ControlInv

LEMMA ControlStart ==
  ASSUME ControlInv, NEW h \in Hosts, Start(h)
  PROVE  ControlInv'
<1>1. /\ StoreOK /\ HostsOK /\ MemoryOK /\ CallsOK /\ AnswersOK /\ up' = up \cup {h}
      /\ UNCHANGED <<storeVars, call, answers, faults>> /\ revision' = [revision EXCEPT ![h] = Len(file)]
  BY DEF ControlInv, Start
<1>2. StoreOK' /\ Grown /\ file' = file
  BY <1>1, SameIsGrown DEF storeVars
<1>3. HostsOK'
  BY <1>1, <1>2, HostsReread
<1>4. CallsOK'
  BY <1>1, <1>2, CallsStay
<1>5. MemoryOK'
  <2>1. PICK p, f : p = Projection(file) /\ f = file
    OBVIOUS
  <2>2. PICK t \in Booted(h, p) : memory' = [memory EXCEPT ![h] = t]
    BY <2>1 DEF Start
  <2>3. Derived(f) /\ Len(f) \in Nat /\ Len(f) \in 0..Len(f)
    BY <1>1, <2>1, StoreTypes DEF StoreOK
  <2>4. Sound(p, UsedBy(f, Len(f)))
    BY <2>1, <2>3, PrefixesAreSound DEF Projection
  <2>5. Agrees(t, p)
    BY <2>2, <2>4, BootedAgrees
  <2> QED
    BY <1>1, <1>2, <2>1, <2>2, <2>5, MemoryApplied
<1> QED
  BY <1>1, <1>2, <1>3, <1>4, <1>5, AnswersStay DEF ControlInv

LEMMA ControlInit ==
  ASSUME Init PROVE ControlInv
<1>1. file = <<>> /\ synced = 0 /\ head = "none" /\ up = Hosts /\ answers = {} /\ faults = 0
  BY DEF Init, StoreInit
<1>2. revision = [h \in Hosts |-> 0] /\ call = [h \in Hosts |-> Idle]
  BY DEF Init
<1>3. Len(file) = 0 /\ Derived(file)
  BY <1>1 DEF Derived
<1>4. StoreOK
  BY <1>1, <1>3 DEF StoreOK
<1>5. HostsOK
  BY <1>1, <1>2, <1>3, HostControlAssumption DEF HostsOK, HostControlAssumption
<1>6. CallsOK /\ AnswersOK
  BY <1>1, <1>2 DEF CallsOK, AnswersOK
<1>7. MemoryOK
  <2>1. ASSUME NEW h \in Hosts PROVE Agrees(memory[h], Nothing)
    <3>1. PICK t : t = memory[h]
      OBVIOUS
    <3>2. t \in Booted(h, Nothing)
      BY <3>1 DEF Init
    <3>3. Agrees(t, Nothing)
      BY <3>2, NothingIsSound, BootedAgrees
    <3> QED
      BY <3>1, <3>3
  <2>2. ProjectionAt(file, 0) = Nothing
    <3>1. PICK f : f = file
      OBVIOUS
    <3>2. ProjectionAt(f, 0) = Nothing
      <4>1. 0 \in Nat
        OBVIOUS
      <4> QED
        BY <4>1, ProjectionGoesOn
    <3> QED
      BY <3>1, <3>2
  <2>3. DOMAIN memory = Hosts
    BY DEF Init
  <2> QED
    BY <1>1, <1>2, <2>1, <2>2, <2>3 DEF MemoryOK
<1> QED
  BY <1>4, <1>5, <1>6, <1>7 DEF ControlInv

LEMMA ControlStutters ==
  ASSUME ControlInv, UNCHANGED vars
  PROVE  ControlInv'
<1>1. /\ StoreOK /\ HostsOK /\ MemoryOK /\ CallsOK /\ AnswersOK
      /\ UNCHANGED <<storeVars, up, revision, memory, call, answers, faults>>
  BY DEF ControlInv, vars, hostVars
<1>2. StoreOK' /\ Grown
  BY <1>1, SameIsGrown
<1> QED
  BY <1>1, <1>2, HostsFrame, MemoryFrame, CallsStay, AnswersStay DEF ControlInv

LEMMA ControlSteps ==
  ASSUME ControlInv, [Next]_vars
  PROVE  ControlInv'
<1>1. ASSUME NEW r \in Requests, ClientSends(r) PROVE ControlInv'
  BY <1>1, ControlReplay, ControlRefuse, ControlPrepare DEF ClientSends
<1>2. ASSUME NEW h \in Hosts, Serves(h) PROVE ControlInv'
  BY <1>2, ControlAppendBatch, ControlAppendConflicts, ControlAppendRefused, ControlFlush,
     ControlReload, ControlReread DEF Serves
<1>3. ASSUME NEW h \in Hosts, AppendFails(h) \/ FlushFails(h) \/ DropHandler(h) \/ Crash(h) \/ Start(h)
      PROVE  ControlInv'
  BY <1>3, ControlAppendFails, ControlFlushFails, ControlDrop, ControlCrash, ControlStart
<1> QED
  BY <1>1, <1>2, <1>3, ControlPowerFails, ControlStutters DEF Next

LEMMA ControlImplies ==
  ASSUME ControlInv PROVE ControlKept
<1>1. StoreOK /\ HostsOK /\ MemoryOK /\ CallsOK /\ AnswersOK
  BY DEF ControlInv
<1>2. \A i \in DOMAIN file : file[i].rpc \in Requests /\ file[i].payload \in Payloads[file[i].rpc]
  BY <1>1, StoreTypes DEF StoreOK, Derived, Fits
<1>3. \A h \in Hosts : call[h].step \in {"idle", "append", "flush", "reload", "reread"}
  BY <1>1 DEF CallsOK, Working, Idle
<1>4. ControlTypeOK
  BY <1>1, <1>2, <1>3 DEF ControlTypeOK, StoreOK, HostsOK, AnswersOK
<1>5. CommittedStays
  BY <1>1, StoreTypes DEF CommittedStays, AnswersOK
<1>6. SwapSuffices
  <2>1. ASSUME NEW h \in up, At(h, "append"), Current(h)
        PROVE  \/ ValidNext(file, call[h].batch)
               \/ Clashes(Projection(file), call[h].batch.events)
    <3>1. PICK d : d = call[h]
      OBVIOUS
    <3>2. Comes(d) /\ d.step = "append" /\ d.expected = Len(file)
      BY <1>1, <2>1, <3>1, NotIdle, AtWork DEF At, Current, HostsOK
    <3>3. Fits(file, d.batch, Len(file))
      BY <3>2 DEF Comes
    <3>4. PICK f, b : f = file /\ b = d.batch
      OBVIOUS
    <3>5. Derived(f) /\ Len(f) \in Nat /\ Fits(f, b, Len(f))
      BY <1>1, <3>3, <3>4, StoreTypes DEF StoreOK
    <3>6. ValidNext(f, b) \/ Clashes(Projection(f), b.events)
      BY <3>5, FittingIsValid
    <3> QED
      BY <3>1, <3>4, <3>6
  <2> QED
    BY <2>1 DEF SwapSuffices
<1> QED
  BY <1>4, <1>5, <1>6 DEF ControlKept

\* However many hosts share the log and whatever fails between two steps of
\* theirs, a mutation a client was told is committed stays under its place in
\* the log, and the compare and swap of append leaves the log's validation
\* nothing to refuse, but a definition of a workspace some host made for itself
\* under a path the log has given to another (control.rs append and flush,
\* rpc.rs commit, HostState::new and apply_control_projection).
THEOREM CommitsAreKept == Spec => []ControlKept
<1>1. Spec => []ControlInv
  <2>1. Init => ControlInv
    BY ControlInit
  <2>2. ControlInv /\ [Next]_vars => ControlInv'
    BY ControlSteps
  <2> QED
    BY <2>1, <2>2, PTL DEF Spec
<1>2. ControlInv => ControlKept
  BY ControlImplies
<1> QED
  BY <1>1, <1>2, PTL

=============================================================================
