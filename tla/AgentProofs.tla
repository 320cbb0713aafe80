------------------------------ MODULE AgentProofs ------------------------------
(***************************************************************************)
(* The agents and their models: the inbox of an agent, the one worker it   *)
(* has, and the rounds in which its model replies.                         *)
(***************************************************************************)
EXTENDS AgentInbox, Supervisor, ModelRound, FiniteSetTheorems, SequenceTheorems,
        WellFoundedInduction, TLAPS

(***************************************************************************)
(* The inbox of one agent, for any inputs, steering, withdrawals, pauses   *)
(* and crashes.                                                            *)
(***************************************************************************)

--------------------------------------------------------------------------------
(* Lists *)

LEMMA Minimum ==
    ASSUME NEW S \in SUBSET Nat, S # {}
    PROVE  \E m \in S : \A n \in S : m <= n
<1>1. PICK m \in S : \A n \in S : ~ (<<n, m>> \in OpToRel(<, Nat))
  BY NatLessThanWellFounded, WFMin
<1>2. \A n \in S : ~ (n < m)
  BY <1>1 DEF OpToRel
<1> QED
  BY <1>2

\* What Without has kept of the first entries of a list.
Kept(k, s, S, n) ==
    k = [i \in 0..n |-> IF i = 0 THEN <<>>
                        ELSE IF s[i] \in S THEN k[i - 1] ELSE Append(k[i - 1], s[i])]

LEMMA KeptExists ==
    ASSUME NEW M, NEW s \in Seq(M), NEW S
    PROVE  \E k : Kept(k, s, S, Len(s))
<1> DEFINE Bad == {n \in Nat : ~ \E k : Kept(k, s, S, n)}
<1>1. ASSUME Bad # {} PROVE FALSE
  <2>1. PICK n \in Bad : \A m \in Bad : n <= m
    <3>1. Bad \in SUBSET Nat
      OBVIOUS
    <3> HIDE DEF Bad
    <3> QED
      BY <1>1, <3>1, Minimum
  <2>2. CASE n = 0
    <3>1. Kept([i \in 0..0 |-> <<>>], s, S, 0)
      BY DEF Kept
    <3> QED
      BY <2>1, <2>2, <3>1
  <2>3. CASE n # 0
    <3>1. n - 1 \in Nat /\ n - 1 \notin Bad
      BY <2>1, <2>3
    <3>2. PICK k : Kept(k, s, S, n - 1)
      BY <3>1
    <3> DEFINE last == IF s[n] \in S THEN k[n - 1] ELSE Append(k[n - 1], s[n])
               l == [i \in 0..n |-> IF i = n THEN last ELSE k[i]]
    <3>3. Kept(l, s, S, n)
      <4>1. n \in Nat /\ \A i \in 0..n : l[i] = IF i = n THEN last ELSE k[i]
        BY <2>1
      <4>2. \A i \in 0..(n - 1) : k[i] = IF i = 0 THEN <<>>
                        ELSE IF s[i] \in S THEN k[i - 1] ELSE Append(k[i - 1], s[i])
        BY <3>2 DEF Kept
      <4> HIDE DEF last
      <4>3. \A i \in 0..n : l[i] = IF i = 0 THEN <<>>
                        ELSE IF s[i] \in S THEN l[i - 1] ELSE Append(l[i - 1], s[i])
        <5>1. ASSUME NEW i \in 0..n, i # n
              PROVE  l[i] = IF i = 0 THEN <<>>
                            ELSE IF s[i] \in S THEN l[i - 1] ELSE Append(l[i - 1], s[i])
          <6>1. i \in 0..(n - 1) /\ (i # 0 => i - 1 \in 0..n /\ i - 1 # n)
            BY <4>1, <5>1
          <6> QED
            BY <4>1, <4>2, <6>1
        <5>2. l[n] = last /\ l[n - 1] = k[n - 1]
          BY <2>3, <4>1
        <5> QED
          BY <2>3, <5>1, <5>2 DEF last
      <4> QED
        BY <4>1, <4>3 DEF Kept
    <3> QED
      BY <2>1, <3>3
  <2> QED
    BY <2>2, <2>3
<1>2. Len(s) \in Nat /\ Bad = {}
  BY <1>1
<1> QED
  BY <1>2

\* Without gives what a whole filter of the list has kept at its end.
LEMMA WithoutKept ==
    ASSUME NEW M, NEW s \in Seq(M), NEW S
    PROVE  \E k : Kept(k, s, S, Len(s)) /\ Without(s, S) = k[Len(s)]
<1>1. PICK k : Kept(k, s, S, Len(s))
  BY KeptExists
<1> DEFINE f == CHOOSE f : f = [i \in 0..Len(s) |-> IF i = 0 THEN <<>>
                        ELSE IF s[i] \in S THEN f[i - 1] ELSE Append(f[i - 1], s[i])]
<1>2. f = [i \in 0..Len(s) |-> IF i = 0 THEN <<>>
                        ELSE IF s[i] \in S THEN f[i - 1] ELSE Append(f[i - 1], s[i])]
  BY <1>1 DEF Kept
<1>3. Without(s, S) = f[Len(s)]
  BY DEF Without
<1> QED
  BY <1>2, <1>3 DEF Kept

\* No entry occurs twice.
Distinct(s) == \A i, j \in DOMAIN s : s[i] = s[j] => i = j

\* The list t has the entries among the first n of s that are not in S, none of
\* them further back.
Filtered(t, s, S, n) ==
    /\ Len(t) <= n
    /\ \A i \in DOMAIN t : \E j \in 1..n : i <= j /\ t[i] = s[j] /\ s[j] \notin S
    /\ \A j \in 1..n : s[j] \notin S => \E i \in DOMAIN t : t[i] = s[j]
    /\ Distinct(s) => Distinct(t)

LEMMA FilterOne ==
    ASSUME NEW M, NEW s \in Seq(M), NEW S, NEW n \in 1..Len(s),
           NEW t \in Seq(M), Filtered(t, s, S, n - 1), s[n] \notin S
    PROVE  Append(t, s[n]) \in Seq(M) /\ Filtered(Append(t, s[n]), s, S, n)
<1> DEFINE u == Append(t, s[n])
<1>1. Len(t) \in Nat /\ n \in Nat /\ n # 0 /\ DOMAIN s = 1..Len(s) /\ Len(s) \in Nat /\ s[n] \in M
  OBVIOUS
<1>2. PICK m \in Nat : m = Len(t) + 1
  BY <1>1
<1>3. /\ u \in Seq(M) /\ Len(u) = m /\ DOMAIN u = 1..m /\ DOMAIN t = 1..(m - 1)
      /\ u[m] = s[n] /\ \A i \in 1..(m - 1) : u[i] = t[i]
  BY <1>1, <1>2
<1> HIDE DEF u
<1>4. Len(u) <= n
  BY <1>1, <1>2, <1>3 DEF Filtered
<1>5. ASSUME NEW i \in DOMAIN u
      PROVE  \E j \in 1..n : i <= j /\ u[i] = s[j] /\ s[j] \notin S
  <2>1. CASE i = m
    <3>1. n \in 1..n /\ i <= n
      BY <1>1, <1>3, <1>4, <2>1
    <3> QED
      BY <1>3, <2>1, <3>1
  <2>2. CASE i # m
    <3>1. i \in 1..(m - 1)
      BY <1>2, <1>3, <2>2
    <3>2. PICK j \in 1..(n - 1) : i <= j /\ t[i] = s[j] /\ s[j] \notin S
      BY <1>3, <3>1 DEF Filtered
    <3>3. j \in 1..n
      BY <1>1, <3>2
    <3> QED
      BY <1>3, <3>1, <3>2, <3>3
  <2> QED
    BY <2>1, <2>2
<1>6. ASSUME NEW j \in 1..n, s[j] \notin S PROVE \E i \in DOMAIN u : u[i] = s[j]
  <2>1. CASE j = n
    <3>1. m \in DOMAIN u
      BY <1>1, <1>2, <1>3
    <3> QED
      BY <1>3, <2>1, <3>1
  <2>2. CASE j # n
    <3>1. j \in 1..(n - 1)
      BY <1>1, <2>2
    <3>2. PICK i \in DOMAIN t : t[i] = s[j]
      BY <1>6, <3>1 DEF Filtered
    <3>3. i \in 1..(m - 1) /\ i \in DOMAIN u
      BY <1>2, <1>3
    <3> QED
      BY <1>3, <3>2, <3>3
  <2> QED
    BY <2>1, <2>2
<1>7. ASSUME Distinct(s) PROVE Distinct(u)
  <2>1. ASSUME NEW i \in 1..(m - 1) PROVE u[i] # s[n]
    <3>1. PICK j \in 1..(n - 1) : u[i] = s[j]
      BY <1>3 DEF Filtered
    <3>2. j \in DOMAIN s /\ n \in DOMAIN s /\ j # n
      BY <1>1
    <3> QED
      BY <1>7, <3>1, <3>2 DEF Distinct
  <2>2. \A i, j \in 1..(m - 1) : u[i] = u[j] => i = j
    BY <1>3, <1>7 DEF Filtered, Distinct
  <2>3. \A i \in 1..m : i \in 1..(m - 1) \/ i = m
    BY <1>2
  <2> QED
    BY <1>3, <2>1, <2>2, <2>3 DEF Distinct
<1> QED
  BY <1>3, <1>4, <1>5, <1>6, <1>7 DEF Filtered, u

LEMMA KeptFilters ==
    ASSUME NEW M, NEW s \in Seq(M), NEW S, NEW k, Kept(k, s, S, Len(s))
    PROVE  \A n \in 0..Len(s) : k[n] \in Seq(M) /\ Filtered(k[n], s, S, n)
<1> DEFINE Good(n) == k[n] \in Seq(M) /\ Filtered(k[n], s, S, n)
           Bad == {n \in 0..Len(s) : ~Good(n)}
<1>1. Len(s) \in Nat
  OBVIOUS
<1>2. \A i \in 0..Len(s) : k[i] = IF i = 0 THEN <<>>
                           ELSE IF s[i] \in S THEN k[i - 1] ELSE Append(k[i - 1], s[i])
  BY DEF Kept
<1>3. Good(0)
  <2>1. k[0] = <<>>
    BY <1>1, <1>2
  <2> QED
    BY <2>1 DEF Filtered, Distinct
<1>4. ASSUME NEW n \in 1..Len(s), Good(n - 1) PROVE Good(n)
  <2>1. n \in 0..Len(s) /\ n # 0 /\ n \in Nat
    BY <1>1
  <2>2. CASE s[n] \in S
    <3>1. k[n] = k[n - 1]
      BY <1>2, <2>1, <2>2
    <3>2. PICK t : t = k[n - 1]
      OBVIOUS
    <3>3. Len(t) \in Nat /\ Filtered(t, s, S, n - 1) /\ t \in Seq(M)
      BY <1>4, <3>2
    <3>4. /\ \A j \in 1..n : j \in 1..(n - 1) \/ j = n
          /\ \A j \in 1..(n - 1) : j \in 1..n
          /\ Len(t) <= n
      BY <2>1, <3>3 DEF Filtered
    <3>5. Filtered(t, s, S, n)
      BY <2>2, <3>3, <3>4 DEF Filtered
    <3> QED
      BY <3>1, <3>2, <3>3, <3>5
  <2>3. CASE s[n] \notin S
    <3>1. k[n] = Append(k[n - 1], s[n])
      BY <1>2, <2>1, <2>3
    <3> QED
      BY <1>4, <2>3, <3>1, FilterOne
  <2> QED
    BY <2>2, <2>3
<1> HIDE DEF Good
<1>5. ASSUME Bad # {} PROVE FALSE
  <2>1. Bad \in SUBSET Nat
    BY <1>1
  <2>2. PICK n \in Bad : \A m \in Bad : n <= m
    <3> HIDE DEF Bad
    <3> QED
      BY <1>5, <2>1, Minimum
  <2>3. n # 0 /\ n \in 0..Len(s) /\ ~Good(n)
    BY <1>3, <2>2
  <2>4. n - 1 \in 0..Len(s) /\ n \in 1..Len(s) /\ n - 1 \notin Bad
    BY <1>1, <2>2, <2>3
  <2> QED
    BY <1>4, <2>3, <2>4
<1>6. \A n \in 0..Len(s) : Good(n)
  BY <1>5
<1> QED
  BY <1>6 DEF Good

\* The entries of t are entries of s, and none of them stands further back in t.
MovedUp(t, s) == \A i \in DOMAIN t : \E j \in DOMAIN s : i <= j /\ t[i] = s[j]

\* What Without makes of a list.
LEMMA WithoutFilters ==
    ASSUME NEW M, NEW s \in Seq(M), NEW S
    PROVE  /\ Without(s, S) \in Seq(M) /\ Elems(Without(s, S)) = Elems(s) \ S
           /\ MovedUp(Without(s, S), s)
           /\ Distinct(s) => Distinct(Without(s, S))
<1>1. PICK k : Kept(k, s, S, Len(s)) /\ Without(s, S) = k[Len(s)]
  BY WithoutKept
<1>2. PICK t : t = Without(s, S)
  OBVIOUS
<1>3. Len(s) \in 0..Len(s) /\ DOMAIN s = 1..Len(s)
  OBVIOUS
<1>4. t \in Seq(M) /\ Filtered(t, s, S, Len(s))
  BY <1>1, <1>2, <1>3, KeptFilters
<1>5. Elems(t) = Elems(s) \ S
  <2>1. ASSUME NEW m \in Elems(t) PROVE m \in Elems(s) \ S
    <3>1. PICK i \in DOMAIN t : m = t[i]
      BY DEF Elems
    <3>2. PICK j \in DOMAIN s : t[i] = s[j] /\ s[j] \notin S
      BY <1>3, <1>4 DEF Filtered
    <3> QED
      BY <3>1, <3>2 DEF Elems
  <2>2. ASSUME NEW m \in Elems(s) \ S PROVE m \in Elems(t)
    <3>1. PICK j \in DOMAIN s : m = s[j] /\ s[j] \notin S
      BY DEF Elems
    <3>2. PICK i \in DOMAIN t : t[i] = s[j]
      BY <1>3, <1>4, <3>1 DEF Filtered
    <3> QED
      BY <3>1, <3>2 DEF Elems
  <2> QED
    BY <2>1, <2>2
<1>6. MovedUp(t, s)
  BY <1>3, <1>4 DEF Filtered, MovedUp
<1> QED
  BY <1>2, <1>4, <1>5, <1>6 DEF Filtered

\* A list without repetitions has as many inputs as entries.
LEMMA DistinctSize ==
    ASSUME NEW M, NEW s \in Seq(M), Distinct(s)
    PROVE  IsFiniteSet(Elems(s)) /\ Cardinality(Elems(s)) = Len(s)
<1>1. PICK n \in Nat : n = Len(s) /\ DOMAIN s = 1..n
  OBVIOUS
<1>2. s \in [1..n -> Elems(s)]
  BY <1>1 DEF Elems
<1>3. s \in Bijection(1..n, Elems(s))
  <2>1. s \in Injection(1..n, Elems(s))
    BY <1>1, <1>2 DEF Distinct, Injection, IsInjective
  <2>2. s \in Surjection(1..n, Elems(s))
    BY <1>1, <1>2 DEF Elems, Surjection
  <2> QED
    BY <2>1, <2>2 DEF Bijection
<1>4. ExistsBijection(1..n, Elems(s))
  BY <1>3 DEF ExistsBijection
<1>5. IsFiniteSet(1..n) /\ Cardinality(1..n) = n
  BY FS_Interval
<1> QED
  BY <1>1, <1>4, <1>5, FS_Bijection

\* The list d is s without its first k entries.
CutOff(d, s, k) == \A i \in DOMAIN d : i + k \in DOMAIN s /\ d[i] = s[i + k]

\* The two halves of a cut list.
LEMMA CutList ==
    ASSUME NEW M, NEW s \in Seq(M), NEW k \in 0..Len(s)
    PROVE  /\ Drop(s, k) \in Seq(M) /\ Len(Drop(s, k)) = Len(s) - k
           /\ CutOff(Drop(s, k), s, k)
           /\ SubSeq(s, 1, k) \in Seq(M) /\ Len(SubSeq(s, 1, k)) = k
           /\ \A i \in 1..k : i \in DOMAIN s /\ SubSeq(s, 1, k)[i] = s[i]
           /\ Elems(s) = Elems(SubSeq(s, 1, k)) \union Elems(Drop(s, k))
           /\ Distinct(s) => /\ Distinct(Drop(s, k)) /\ Distinct(SubSeq(s, 1, k))
                             /\ Elems(SubSeq(s, 1, k)) \cap Elems(Drop(s, k)) = {}
<1> DEFINE a == SubSeq(s, 1, k)
           d == Drop(s, k)
<1>1. PICK n \in Nat : n = Len(s) /\ DOMAIN s = 1..n
  OBVIOUS
<1>2. k \in Nat /\ k <= n /\ n - k \in Nat
  BY <1>1
<1>3. a \in Seq(M) /\ Len(a) = k /\ DOMAIN a = 1..k /\ \A i \in 1..k : a[i] = s[i]
  BY <1>1, <1>2
<1>4. /\ d \in Seq(M) /\ Len(d) = n - k /\ DOMAIN d = 1..(n - k)
      /\ \A i \in 1..(n - k) : d[i] = s[i + k]
  BY <1>1, <1>2 DEF Drop
<1>5. /\ \A i \in 1..k : i \in 1..n
      /\ \A i \in 1..(n - k) : i + k \in 1..n /\ i + k \notin 1..k
      /\ \A i \in 1..n : i \in 1..k \/ (i - k \in 1..(n - k) /\ (i - k) + k = i)
  BY <1>2
<1> HIDE DEF a, d
<1>6. Elems(s) = Elems(a) \union Elems(d)
  <2>1. ASSUME NEW m \in Elems(s) PROVE m \in Elems(a) \union Elems(d)
    <3>1. PICK i \in 1..n : m = s[i]
      BY <1>1 DEF Elems
    <3>2. CASE i \in 1..k
      BY <1>3, <3>1, <3>2 DEF Elems
    <3>3. CASE i - k \in 1..(n - k) /\ (i - k) + k = i
      <4>1. d[i - k] = m
        BY <1>4, <3>1, <3>3
      <4> QED
        BY <1>4, <3>3, <4>1 DEF Elems
    <3> QED
      BY <1>5, <3>2, <3>3
  <2>2. Elems(a) \subseteq Elems(s)
    BY <1>1, <1>3, <1>5 DEF Elems
  <2>3. Elems(d) \subseteq Elems(s)
    BY <1>1, <1>4, <1>5 DEF Elems
  <2> QED
    BY <2>1, <2>2, <2>3
<1>7. ASSUME Distinct(s)
      PROVE  Distinct(d) /\ Distinct(a) /\ Elems(a) \cap Elems(d) = {}
  <2>1. Distinct(a)
    BY <1>1, <1>3, <1>5, <1>7 DEF Distinct
  <2>2. Distinct(d)
    <3>1. ASSUME NEW i \in 1..(n - k), NEW j \in 1..(n - k), d[i] = d[j] PROVE i = j
      <4>1. i + k = j + k
        BY <1>1, <1>4, <1>5, <1>7, <3>1 DEF Distinct
      <4> QED
        BY <1>2, <4>1
    <3> QED
      BY <1>4, <3>1 DEF Distinct
  <2>3. ASSUME NEW i \in 1..k, NEW j \in 1..(n - k), a[i] = d[j] PROVE FALSE
    <3>1. s[i] = s[j + k]
      BY <1>3, <1>4, <2>3
    <3>2. i = j + k
      BY <1>1, <1>5, <1>7, <3>1 DEF Distinct
    <3> QED
      BY <1>5, <3>2
  <2> QED
    BY <1>3, <1>4, <2>1, <2>2, <2>3 DEF Elems
<1>8. CutOff(d, s, k)
  BY <1>1, <1>4, <1>5 DEF CutOff
<1> QED
  BY <1>1, <1>3, <1>4, <1>5, <1>6, <1>7, <1>8 DEF a, d

Messaged == [id : Messages, turn : Nat, list : {"turn", "step"}]

\* The log v is the log u followed by user messages for the inputs of a list.
Continues(v, u, ids, t, list) ==
    /\ v \in Seq(Messaged)
    /\ \A i \in DOMAIN u : i \in DOMAIN v /\ v[i] = u[i]
    /\ \A i \in DOMAIN ids :
          /\ Len(u) + i \in DOMAIN v
          /\ v[Len(u) + i] = [id |-> ids[i], turn |-> t, list |-> list]
    /\ \A i \in DOMAIN v : i \in DOMAIN u \/ \E j \in DOMAIN ids : i = Len(u) + j
    /\ Len(v) = Len(u) + Len(ids)

LEMMA SaysMore ==
    ASSUME NEW u \in Seq(Messaged), NEW ids \in Seq(Messages), NEW t \in Nat,
           NEW list \in {"turn", "step"}
    PROVE  Continues(u \o Says(ids, t, list), u, ids, t, list)
<1> DEFINE w == Says(ids, t, list)
           v == u \o w
<1>1. PICK n \in Nat : n = Len(u) /\ DOMAIN u = 1..n
  OBVIOUS
<1>2. PICK k \in Nat : k = Len(ids) /\ DOMAIN ids = 1..k
  OBVIOUS
<1>3. w \in Seq(Messaged) /\ Len(w) = k /\ DOMAIN w = 1..k
  <2>1. w \in [1..k -> Messaged]
    BY <1>2 DEF Says, Messaged
  <2>2. w \in Seq(Messaged)
    BY <2>1
  <2> QED
    BY <2>1, <2>2
<1>4. \A i \in 1..k : w[i] = [id |-> ids[i], turn |-> t, list |-> list]
  BY <1>2 DEF Says
<1> HIDE DEF w
<1>5. v \in Seq(Messaged) /\ Len(v) = n + k /\ DOMAIN v = 1..(n + k)
  BY <1>1, <1>3
<1>6. \A i \in 1..n : v[i] = u[i] /\ i \in 1..(n + k)
  BY <1>1, <1>3
<1>7. \A i \in 1..k : v[n + i] = w[i] /\ n + i \in 1..(n + k)
  BY <1>1, <1>3
<1>8. \A i \in 1..(n + k) : i \in 1..n \/ (i - n \in 1..k /\ n + (i - n) = i)
  BY <1>1, <1>2
<1> HIDE DEF v
<1>9. \A i \in 1..(n + k) : i \in 1..n \/ \E j \in 1..k : i = n + j
  BY <1>8
<1>10. Continues(v, u, ids, t, list)
  BY <1>1, <1>2, <1>4, <1>5, <1>6, <1>7, <1>9 DEF Continues
<1> QED
  BY <1>10 DEF v, w

--------------------------------------------------------------------------------
(* The inductive invariant *)

Claimed == Elems(claim.steps) \union Elems(claim.turns)

\* Before the host resumes a session its worker sleeps; afterwards an open
\* approval is asked for again first, or a run has it in hand.
ApprovalFirst ==
    /\ ~attached => pc \in {"boot", "idle"} /\ ~wake /\ ~recover
    /\ attached /\ human => (pc = "idle" /\ recover) \/ pc \in {"rebuild", "run", "rerun", "dead"}

\* A turn took its messages when it was the last one, and one follow-up.
TurnsKept ==
    /\ Len(claim.turns) <= 1
    /\ \A i \in DOMAIN users : users[i].turn <= turn
    /\ OneFollowupPerTurn

DriverInv == TypeOK /\ Pending \subseteq accepted /\ ApprovalFirst /\ TurnsKept

\* Follow-ups and steering do not mix, and each list names an input once.
ListsKept ==
    /\ Distinct(nextTurn) /\ Elems(nextTurn) \cap Steerable = {}
    /\ Distinct(nextStep) /\ Elems(nextStep) \subseteq Steerable
    /\ Distinct(mailbox) /\ Elems(mailbox) \subseteq Steerable
    /\ Distinct(claim.steps) /\ Elems(claim.steps) \subseteq Steerable
    /\ Elems(claim.turns) \cap Steerable = {}

\* What waits to be written was not written before; only steering that a run
\* wrote stays in its list, until the run's end.
WrittenOnce ==
    /\ \A i, j \in DOMAIN users : users[i].id = users[j].id => i = j
    /\ Consumed \union Elems(mailbox) \union Claimed \subseteq accepted
    /\ Claimed \cap Consumed = {} /\ Elems(mailbox) \cap (Consumed \union Claimed) = {}
    /\ Elems(nextTurn) \cap Consumed = {}
    /\ pc \in {"idle", "check", "acquire", "build", "init"} => Elems(nextStep) \cap Consumed = {}
    /\ Approvals \/ (~human /\ ~recover /\ pc \notin {"rebuild", "rerun"})

\* A claimed input that was not withdrawn is still among the first of its list,
\* which are the ones the turn's first append deletes.
ClaimHeld ==
    /\ Claimed \ cancelled \subseteq Pending
    /\ \A i \in DOMAIN nextStep : nextStep[i] \in Elems(claim.steps) => i <= Len(claim.steps)
    /\ \A i \in DOMAIN nextTurn : nextTurn[i] \in Elems(claim.turns) => i <= Len(claim.turns)

Lost    == accepted \ (Pending \union Consumed \union cancelled)
Zombies == Consumed \cap cancelled

LossesKept == IsFiniteSet(accepted) /\ Cardinality(Lost) <= Cardinality(Zombies)

InboxInv == DriverInv /\ ListsKept /\ WrittenOnce /\ ClaimHeld /\ LossesKept

--------------------------------------------------------------------------------
(* The driver: types, one follow-up per turn, approvals first *)

\* An insertion at the end of a list.
LEMMA AppendOne ==
    ASSUME NEW M, NEW s \in Seq(M), NEW m \in M
    PROVE  /\ Append(s, m) \in Seq(M) /\ Elems(Append(s, m)) = Elems(s) \union {m}
           /\ \A i \in DOMAIN Append(s, m) :
                 \/ i \in DOMAIN s /\ Append(s, m)[i] = s[i]
                 \/ Append(s, m)[i] = m
           /\ Distinct(s) /\ m \notin Elems(s) => Distinct(Append(s, m))
<1>1. PICK n \in Nat : n = Len(s) /\ DOMAIN s = 1..n
  OBVIOUS
<1> DEFINE u == Append(s, m)
<1>2. /\ u \in Seq(M) /\ DOMAIN u = 1..(n + 1) /\ u[n + 1] = m
      /\ \A i \in 1..n : u[i] = s[i]
  BY <1>1
<1>3. \A i \in 1..(n + 1) : i \in 1..n \/ i = n + 1
  BY <1>1
<1>4. \A i \in 1..n : i \in 1..(n + 1)
  BY <1>1
<1>5. n + 1 \in 1..(n + 1)
  BY <1>1
<1> HIDE DEF u
<1>6. Elems(u) = Elems(s) \union {m}
  BY <1>1, <1>2, <1>3, <1>4, <1>5 DEF Elems
<1>7. Distinct(s) /\ m \notin Elems(s) => Distinct(u)
  BY <1>1, <1>2, <1>3 DEF Elems, Distinct
<1> QED
  BY <1>1, <1>2, <1>3, <1>6, <1>7 DEF u

LEMMA DriverStarts == Init => DriverInv
<1> SUFFICES ASSUME Init PROVE DriverInv
  OBVIOUS
<1> USE DEF Init, NoClaim
<1>1. /\ 0 \in Nat /\ <<>> \in Seq(Messages) /\ Len(<<>>) = 0 /\ DOMAIN <<>> = {}
      /\ users \in Seq([id : Messages, turn : Nat, list : {"turn", "step"}])
      /\ crashes \in 0..MaxCrashes /\ pauses \in 0..MaxPauses
  BY InboxAssumption DEF InboxAssumption
<1>2. TypeOK
  BY <1>1 DEF TypeOK
<1>3. Pending = {}
  BY <1>1 DEF Pending, Elems
<1>4. ApprovalFirst /\ TurnsKept
  BY <1>1 DEF ApprovalFirst, TurnsKept, OneFollowupPerTurn
<1> QED
  BY <1>2, <1>3, <1>4 DEF DriverInv

\* Both insertions, and what an append to the mailbox gives.
LEMMA Inserted ==
    ASSUME DriverInv, NEW m \in Messages, InsertTurn(m) \/ InsertStep(m)
    PROVE  /\ nextTurn' \in Seq(Messages) /\ nextStep' \in Seq(Messages)
           /\ Pending' = Pending \union {m} /\ accepted' = accepted \union {m}
           /\ accepted' \subseteq Messages /\ Elems(nextTurn') \subseteq accepted'
<1>1. /\ nextTurn \in Seq(Messages) /\ nextStep \in Seq(Messages)
      /\ accepted \subseteq Messages /\ Pending \subseteq accepted
  BY DEF DriverInv, TypeOK
<1>2. CASE InsertTurn(m)
  <2>1. nextTurn' = Append(nextTurn, m) /\ accepted' = accepted \union {m} /\ nextStep' = nextStep
    BY <1>2 DEF InsertTurn
  <2>2. nextTurn' \in Seq(Messages) /\ Elems(nextTurn') = Elems(nextTurn) \union {m}
    BY <1>1, <2>1, AppendOne
  <2> QED
    BY <1>1, <2>1, <2>2 DEF Pending
<1>3. CASE InsertStep(m)
  <2>1. nextStep' = Append(nextStep, m) /\ accepted' = accepted \union {m} /\ nextTurn' = nextTurn
    BY <1>3 DEF InsertStep
  <2>2. nextStep' \in Seq(Messages) /\ Elems(nextStep') = Elems(nextStep) \union {m}
    BY <1>1, <2>1, AppendOne
  <2> QED
    BY <1>1, <2>1, <2>2 DEF Pending
<1> QED
  BY <1>2, <1>3

LEMMA DriverInserts ==
    ASSUME DriverInv, NEW m \in Messages,
           Admit(m) \/ Followup(m) \/ SteerIdle(m) \/ SteerActive(m) \/ Inject(m)
    PROVE  DriverInv'
<1>1. InsertTurn(m) \/ InsertStep(m)
  BY DEF Admit, Followup, SteerIdle, SteerActive, Inject
<1>2. /\ nextTurn' \in Seq(Messages) /\ nextStep' \in Seq(Messages)
      /\ Pending' = Pending \union {m} /\ accepted' = accepted \union {m}
      /\ accepted' \subseteq Messages /\ Elems(nextTurn') \subseteq accepted'
  BY <1>1, Inserted
<1>3. /\ attached
      /\ UNCHANGED <<users, turn, turnOpen, human, dispatchPaused, pc, recover, claim,
                     attached, cancelled, bounds>>
      /\ \/ UNCHANGED wake
         \/ wake' = TRUE /\ (Asleep \/ pc = "acquire" \/ ActiveReceive)
      /\ status' \in {status, "Running"}
      /\ owed' \in {owed, owed \union Elems(nextTurn')}
      /\ \/ UNCHANGED mailbox
         \/ ActiveReceive /\ mailbox' = Append(mailbox, m)
  BY DEF Admit, Followup, SteerIdle, SteerActive, Inject, Fresh, worker, IdleReceive
<1>4. mailbox' \in Seq(Messages) /\ (mailbox' # <<>> => pc' \in {"init", "run", "rerun"})
  <2>1. mailbox \in Seq(Messages) /\ (mailbox # <<>> => pc \in {"init", "run", "rerun"})
    BY DEF DriverInv, TypeOK
  <2>2. Append(mailbox, m) \in Seq(Messages)
    BY <2>1
  <2> QED
    BY <1>3, <2>1, <2>2 DEF ActiveReceive
<1>5. owed' \subseteq accepted' /\ wake' \in BOOLEAN /\ status' \in {"Idle", "Running"}
  BY <1>2, <1>3 DEF DriverInv, TypeOK
<1>6. TypeOK'
  BY <1>2, <1>3, <1>4, <1>5 DEF DriverInv, TypeOK, bounds
<1>7. Pending' \subseteq accepted'
  BY <1>2 DEF DriverInv
<1>8. ApprovalFirst'
  BY <1>3 DEF DriverInv, ApprovalFirst
<1>9. TurnsKept'
  BY <1>3 DEF DriverInv, TurnsKept, OneFollowupPerTurn
<1> QED
  BY <1>6, <1>7, <1>8, <1>9 DEF DriverInv

\* The lists after a removal or a reconciliation.
LEMMA Shrunk ==
    ASSUME DriverInv, NEW S, nextTurn' = Without(nextTurn, S), nextStep' = Without(nextStep, S)
    PROVE  /\ nextTurn' \in Seq(Messages) /\ nextStep' \in Seq(Messages)
           /\ Elems(nextTurn') = Elems(nextTurn) \ S /\ Elems(nextStep') = Elems(nextStep) \ S
           /\ Pending' = Pending \ S
  BY WithoutFilters DEF DriverInv, TypeOK, Pending

LEMMA DriverRemoves ==
    ASSUME DriverInv, NEW m \in Messages, RemovePending(m)
    PROVE  DriverInv'
<1>1. /\ nextTurn' \in Seq(Messages) /\ nextStep' \in Seq(Messages) /\ Pending' = Pending \ {m}
  BY Shrunk DEF RemovePending
<1>2. /\ m \in Pending /\ cancelled' = cancelled \union {m} /\ owed' = owed \ {m}
      /\ UNCHANGED <<users, turn, turnOpen, human, dispatchPaused, worker, accepted, bounds>>
  BY DEF RemovePending
<1>3. TypeOK'
  BY <1>1, <1>2 DEF DriverInv, TypeOK, worker, bounds
<1>4. ApprovalFirst' /\ TurnsKept'
  BY <1>2 DEF DriverInv, ApprovalFirst, TurnsKept, OneFollowupPerTurn, worker
<1> QED
  BY <1>1, <1>2, <1>3, <1>4 DEF DriverInv

\* The host's other calls, and the worker's steps that write no message.
LEMMA DriverWaits ==
    ASSUME DriverInv,
           \/ Wake \/ PauseDispatch \/ HostResume \/ CancelWaiting \/ DecideApproval
           \/ AskApproval \/ WorkerDies \/ DispatchRecovery \/ DispatchWake \/ CheckPaused
           \/ AcquireAndClaim \/ BuildRequest \/ CloseInterrupted \/ StartFails \/ ResumeTurn
           \/ EndTurn
    PROVE  DriverInv'
<1>1. /\ UNCHANGED <<nextTurn, nextStep, users, turn, accepted, cancelled, crashes>>
      /\ Pending' = Pending /\ Elems(nextTurn) \subseteq accepted
  BY DEF Wake, PauseDispatch, HostResume, CancelWaiting, Park, DecideApproval, AskApproval,
         WorkerDies, DispatchRecovery, DispatchWake, CheckPaused, AcquireAndClaim,
         BuildRequest, CloseInterrupted, StartFails, ResumeTurn, EndTurn, durable, worker,
         ghosts, bounds, DriverInv, Pending
<1>2. CASE Wake
  BY <1>1, <1>2 DEF Wake, Asleep, IdleReceive, ActiveReceive, durable, bounds, DriverInv,
     TypeOK, ApprovalFirst, TurnsKept, OneFollowupPerTurn
<1>3. CASE PauseDispatch
  <2>1. pauses' \in 0..MaxPauses
    BY <1>3, InboxAssumption DEF InboxAssumption, PauseDispatch, DriverInv, TypeOK
  <2> QED
    BY <1>1, <1>3, <2>1 DEF PauseDispatch, worker, ghosts, DriverInv, TypeOK,
       ApprovalFirst, TurnsKept, OneFollowupPerTurn
<1>4. CASE HostResume
  <2>1. /\ UNCHANGED <<durable, pc, claim, mailbox, accepted, cancelled, bounds>>
        /\ pc = "idle" /\ attached' = TRUE /\ recover' = human
        /\ status' \in {"Idle", "Running"} /\ wake' \in BOOLEAN
        /\ owed' \subseteq accepted
    BY <1>1, <1>4 DEF HostResume, DriverInv, TypeOK
  <2> QED
    BY <1>1, <2>1 DEF durable, bounds, DriverInv, TypeOK, ApprovalFirst, TurnsKept,
       OneFollowupPerTurn
<1>5. CASE CancelWaiting
  BY <1>1, <1>5 DEF CancelWaiting, Park, Retire, durable, bounds, DriverInv, TypeOK,
     ApprovalFirst, TurnsKept, OneFollowupPerTurn
<1>6. CASE DecideApproval \/ AskApproval
  BY <1>1, <1>6 DEF DecideApproval, AskApproval, Running, worker, ghosts, bounds, DriverInv,
     TypeOK, ApprovalFirst, TurnsKept, OneFollowupPerTurn
<1>7. NoClaim \in [steps : Seq(Messages), turns : Seq(Messages)] /\ Len(NoClaim.turns) = 0
  BY DEF NoClaim
<1>8. CASE WorkerDies
  BY <1>1, <1>7, <1>8 DEF WorkerDies, durable, bounds, DriverInv, TypeOK, ApprovalFirst,
     TurnsKept, OneFollowupPerTurn
<1>9. CASE DispatchRecovery
  BY <1>1, <1>9 DEF DispatchRecovery, durable, ghosts, bounds, DriverInv, TypeOK,
     ApprovalFirst, TurnsKept, OneFollowupPerTurn
<1>10. CASE DispatchWake
  BY <1>1, <1>10 DEF DispatchWake, WakeNext, durable, ghosts, bounds, DriverInv, TypeOK,
     ApprovalFirst, TurnsKept, OneFollowupPerTurn
<1>11. CASE CheckPaused
  BY <1>1, <1>11 DEF CheckPaused, Park, Retire, durable, bounds, DriverInv, TypeOK,
     ApprovalFirst, TurnsKept, OneFollowupPerTurn
<1>12. CASE AcquireAndClaim
  <2>1. /\ PrepareClaim \in [steps : Seq(Messages), turns : Seq(Messages)]
        /\ Len(PrepareClaim.turns) <= 1
    BY DEF PrepareClaim, DriverInv, TypeOK
  <2> HIDE DEF PrepareClaim
  <2> QED
    BY <1>1, <1>12, <2>1 DEF AcquireAndClaim, Retire, durable, ghosts, bounds, DriverInv,
       TypeOK, ApprovalFirst, TurnsKept, OneFollowupPerTurn
<1>13. CASE BuildRequest
  BY <1>1, <1>13 DEF BuildRequest, durable, ghosts, bounds, DriverInv, TypeOK,
     ApprovalFirst, TurnsKept, OneFollowupPerTurn
<1>14. CASE CloseInterrupted
  BY <1>1, <1>14 DEF CloseInterrupted, worker, ghosts, bounds, DriverInv, TypeOK,
     ApprovalFirst, TurnsKept, OneFollowupPerTurn
<1>15. CASE StartFails
  BY <1>1, <1>7, <1>15 DEF StartFails, DropMailbox, durable, ghosts, bounds, DriverInv,
     TypeOK, ApprovalFirst, TurnsKept, OneFollowupPerTurn
<1>16. CASE ResumeTurn
  BY <1>1, <1>16 DEF ResumeTurn, durable, bounds, DriverInv, TypeOK, ApprovalFirst,
     TurnsKept, OneFollowupPerTurn
<1>17. CASE EndTurn
  <2>1. /\ UNCHANGED <<dispatchPaused, wake, recover, claim, attached, ghosts, bounds>>
        /\ pc \in {"run", "rerun"} /\ turnOpen' = FALSE /\ human' = FALSE /\ mailbox' = <<>>
        /\ (pc' = "settle" /\ status' = status) \/ (pc' = "idle" /\ status' = "Idle")
    BY <1>17 DEF EndTurn, Running, DropMailbox, Retire
  <2>2. mailbox' \in Seq(Messages)
    BY <2>1
  <2>3. TypeOK'
    BY <1>1, <2>1, <2>2 DEF ghosts, bounds, DriverInv, TypeOK
  <2>4. ApprovalFirst' /\ TurnsKept'
    BY <1>1, <2>1 DEF DriverInv, ApprovalFirst, TurnsKept, OneFollowupPerTurn
  <2> QED
    BY <1>1, <2>3, <2>4 DEF DriverInv
<1> QED
  BY <1>2, <1>3, <1>4, <1>5, <1>6, <1>8, <1>9, <1>10, <1>11, <1>12, <1>13, <1>14, <1>15,
     <1>16, <1>17

LEMMA DriverReconciles ==
    ASSUME DriverInv, Boot \/ Settle
    PROVE  DriverInv'
<1>1. /\ nextTurn' \in Seq(Messages) /\ nextStep' \in Seq(Messages)
      /\ Pending' = Pending \ Consumed
  BY Shrunk DEF Boot, Settle, ReconcileConsumed
<1>2. CASE Boot
  BY <1>1, <1>2 DEF Boot, ghosts, bounds, DriverInv, TypeOK, ApprovalFirst, TurnsKept,
     OneFollowupPerTurn
<1>3. CASE Settle
  <2>1. /\ UNCHANGED <<users, turn, turnOpen, human, dispatchPaused, recover,
                       claim, mailbox, attached, ghosts, bounds>>
        /\ pc = "settle" /\ wake' \in {wake, FALSE}
        /\ (pc' = "check" /\ status' = status) \/ (pc' = "idle" /\ status' = "Idle")
    BY <1>3 DEF Settle, Retire
  <2> QED
    BY <1>1, <2>1 DEF ghosts, bounds, DriverInv, TypeOK, ApprovalFirst, TurnsKept,
       OneFollowupPerTurn
<1> QED
  BY <1>2, <1>3

LEMMA DriverCrashes == DriverInv /\ Crash => DriverInv'
<1> SUFFICES ASSUME DriverInv, Crash PROVE DriverInv'
  OBVIOUS
<1>1. NoClaim \in [steps : Seq(Messages), turns : Seq(Messages)] /\ Len(NoClaim.turns) = 0
  BY DEF NoClaim
<1>2. crashes' \in 0..MaxCrashes
  BY InboxAssumption DEF InboxAssumption, Crash, DriverInv, TypeOK
<1>3. Pending' = Pending
  BY DEF Crash, durable, Pending
<1>4. /\ UNCHANGED <<durable, accepted, cancelled, pauses>>
      /\ pc' = "boot" /\ wake' = FALSE /\ recover' = FALSE /\ status' = "Idle"
      /\ claim' = NoClaim /\ mailbox' = <<>> /\ attached' = FALSE /\ owed' = {}
  BY DEF Crash
<1>5. mailbox' \in Seq(Messages)
  BY <1>4
<1>6. TypeOK'
  BY <1>1, <1>2, <1>4, <1>5 DEF durable, DriverInv, TypeOK
<1>7. ApprovalFirst' /\ TurnsKept'
  BY <1>1, <1>4 DEF durable, DriverInv, ApprovalFirst, TurnsKept, OneFollowupPerTurn
<1> QED
  BY <1>3, <1>4, <1>6, <1>7 DEF DriverInv

\* What the first append of a turn writes: the claim, after what was there.
TurnWritten(n, k) ==
    /\ users' \in Seq(Messaged)
    /\ \A i \in DOMAIN users : i \in DOMAIN users' /\ users'[i] = users[i]
    /\ \A i \in DOMAIN claim.steps :
          /\ n + i \in DOMAIN users'
          /\ users'[n + i] = [id |-> claim.steps[i], turn |-> turn + 1, list |-> "step"]
    /\ \A i \in DOMAIN claim.turns :
          /\ (n + k) + i \in DOMAIN users'
          /\ users'[(n + k) + i] = [id |-> claim.turns[i], turn |-> turn + 1, list |-> "turn"]
    /\ \A i \in DOMAIN users' :
          \/ i \in DOMAIN users
          \/ \E j \in DOMAIN claim.steps : i = n + j
          \/ \E j \in DOMAIN claim.turns : i = (n + k) + j

LEMMA TurnWrites ==
    ASSUME DriverInv, StartTurn
    PROVE  \E n, k \in Nat : /\ n = Len(users) /\ DOMAIN users = 1..n
                             /\ k = Len(claim.steps) /\ DOMAIN claim.steps = 1..k
                             /\ TurnWritten(n, k)
<1>1. /\ users \in Seq(Messaged) /\ claim.steps \in Seq(Messages)
      /\ claim.turns \in Seq(Messages) /\ turn + 1 \in Nat
  BY DEF DriverInv, TypeOK, Messaged
<1>2. PICK n \in Nat : n = Len(users) /\ DOMAIN users = 1..n
  BY <1>1
<1>3. PICK k \in Nat : k = Len(claim.steps) /\ DOMAIN claim.steps = 1..k
  BY <1>1
<1> DEFINE u == users \o Says(claim.steps, turn + 1, "step")
           v == u \o Says(claim.turns, turn + 1, "turn")
<1>4. users' = v
  BY DEF StartTurn
<1>5. Continues(u, users, claim.steps, turn + 1, "step")
  BY <1>1, SaysMore
<1> HIDE DEF u
<1>6. u \in Seq(Messaged) /\ Len(u) = n + k
  BY <1>2, <1>3, <1>5 DEF Continues
<1>7. Continues(v, u, claim.turns, turn + 1, "turn")
  BY <1>1, <1>6, SaysMore
<1> HIDE DEF v
<1>8. TurnWritten(n, k)
  <2>1. /\ \A i \in DOMAIN users : i \in DOMAIN u /\ u[i] = users[i]
        /\ \A i \in DOMAIN claim.steps :
              n + i \in DOMAIN u /\ u[n + i] = [id |-> claim.steps[i], turn |-> turn + 1, list |-> "step"]
        /\ \A i \in DOMAIN u : i \in DOMAIN users \/ \E j \in DOMAIN claim.steps : i = n + j
    BY <1>2, <1>5 DEF Continues
  <2>2. /\ v \in Seq(Messaged)
        /\ \A i \in DOMAIN u : i \in DOMAIN v /\ v[i] = u[i]
        /\ \A i \in DOMAIN claim.turns :
              /\ (n + k) + i \in DOMAIN v
              /\ v[(n + k) + i] = [id |-> claim.turns[i], turn |-> turn + 1, list |-> "turn"]
        /\ \A i \in DOMAIN v : i \in DOMAIN u \/ \E j \in DOMAIN claim.turns : i = (n + k) + j
    BY <1>6, <1>7 DEF Continues
  <2> QED
    BY <1>4, <2>1, <2>2 DEF TurnWritten
<1> QED
  BY <1>2, <1>3, <1>8

LEMMA DriverTurns ==
    ASSUME DriverInv, StartTurn
    PROVE  DriverInv'
<1>1. /\ nextTurn \in Seq(Messages) /\ nextStep \in Seq(Messages)
      /\ claim.steps \in Seq(Messages) /\ claim.turns \in Seq(Messages)
  BY DEF DriverInv, TypeOK
<1>2. Len(claim.steps) \in 0..Len(nextStep) /\ Len(claim.turns) \in 0..Len(nextTurn)
  BY <1>1 DEF StartTurn, SplicesFit
<1>3. /\ nextStep' = Drop(nextStep, Len(claim.steps))
      /\ nextTurn' = Drop(nextTurn, Len(claim.turns))
      /\ turn' = turn + 1 /\ turnOpen' = TRUE /\ claim' = NoClaim /\ pc' = "run"
      /\ owed' \subseteq owed /\ pc = "init"
      /\ UNCHANGED <<human, dispatchPaused, wake, recover, status, mailbox, attached,
                     accepted, cancelled, crashes, pauses>>
  BY DEF StartTurn, bounds
<1>4. nextStep' \in Seq(Messages) /\ Elems(nextStep') \subseteq Elems(nextStep)
  BY <1>1, <1>2, <1>3, CutList
<1>5. nextTurn' \in Seq(Messages) /\ Elems(nextTurn') \subseteq Elems(nextTurn)
  BY <1>1, <1>2, <1>3, CutList
<1>6. NoClaim \in [steps : Seq(Messages), turns : Seq(Messages)] /\ Len(NoClaim.turns) = 0
  BY DEF NoClaim
<1>7. users' \in Seq(Messaged)
  BY TurnWrites DEF TurnWritten
<1>8. TypeOK'
  BY <1>3, <1>4, <1>5, <1>6, <1>7 DEF DriverInv, TypeOK, Messaged
<1>9. Pending' \subseteq accepted'
  BY <1>3, <1>4, <1>5 DEF DriverInv, Pending
<1>10. ApprovalFirst'
  BY <1>3 DEF DriverInv, ApprovalFirst
<1>11. TurnsKept'
  <2>1. PICK n \in Nat, k \in Nat : TurnWritten(n, k)
    BY TurnWrites
  <2>2. /\ turn \in Nat /\ OneFollowupPerTurn /\ Len(claim.turns) <= 1
        /\ users \in Seq(Messaged) /\ \A i \in DOMAIN users : users[i].turn <= turn
    BY DEF DriverInv, TypeOK, TurnsKept, Messaged
  <2>3. \A i \in DOMAIN claim.turns : i = 1
    BY <1>1, <2>2
  <2>4. \A i \in DOMAIN users' : i \in DOMAIN users => users'[i] = users[i] /\ users'[i].turn <= turn
    BY <2>1, <2>2 DEF TurnWritten
  <2>5. \A i \in DOMAIN users' : i \notin DOMAIN users =>
            users'[i].turn = turn + 1 /\ (users'[i].list = "turn" => i = (n + k) + 1)
    <3> TAKE i \in DOMAIN users'
    <3>1. ASSUME NEW j \in DOMAIN claim.steps, i = n + j
          PROVE  users'[i].turn = turn + 1 /\ users'[i].list = "step"
      <4>1. users'[n + j] = [id |-> claim.steps[j], turn |-> turn + 1, list |-> "step"]
        BY <2>1, <3>1 DEF TurnWritten
      <4> QED
        BY <3>1, <4>1
    <3>2. ASSUME NEW j \in DOMAIN claim.turns, i = (n + k) + j
          PROVE  users'[i].turn = turn + 1 /\ i = (n + k) + 1
      <4>1. users'[(n + k) + j] = [id |-> claim.turns[j], turn |-> turn + 1, list |-> "turn"]
        BY <2>1, <3>2 DEF TurnWritten
      <4> QED
        BY <2>3, <3>2, <4>1
    <3> QED
      BY <2>1, <3>1, <3>2 DEF TurnWritten
  <2>6. \A i \in DOMAIN users' : users'[i].turn <= turn + 1
    <3> TAKE i \in DOMAIN users'
    <3>1. CASE i \in DOMAIN users
      <4>1. users'[i] = users[i] /\ users[i].turn <= turn
        BY <2>2, <2>4, <3>1
      <4>2. users[i] \in Messaged
        BY <2>2, <3>1
      <4> QED
        BY <2>2, <4>1, <4>2 DEF Messaged
    <3>2. CASE i \notin DOMAIN users
      BY <2>2, <2>5, <3>2
    <3> QED
      BY <3>1, <3>2
  <2>7. OneFollowupPerTurn'
    <3> SUFFICES ASSUME NEW i \in DOMAIN users', NEW j \in DOMAIN users',
                        users'[i].list = "turn", users'[j].list = "turn",
                        users'[i].turn = users'[j].turn
                 PROVE  i = j
      BY DEF OneFollowupPerTurn
    <3>1. CASE i \in DOMAIN users /\ j \in DOMAIN users
      BY <2>2, <2>4, <3>1 DEF OneFollowupPerTurn
    <3>2. CASE i \notin DOMAIN users /\ j \notin DOMAIN users
      BY <2>5, <3>2
    <3>3. CASE (i \in DOMAIN users) # (j \in DOMAIN users)
      BY <2>2, <2>4, <2>5, <3>3
    <3> QED
      BY <3>1, <3>2, <3>3
  <2>8. turn' = turn + 1 /\ Len(claim'.turns) <= 1
    BY <1>3, <1>6
  <2> QED
    BY <2>6, <2>7, <2>8 DEF TurnsKept
<1> QED
  BY <1>8, <1>9, <1>10, <1>11 DEF DriverInv

LEMMA DriverFlushes ==
    ASSUME DriverInv, FlushMailbox
    PROVE  DriverInv'
<1>1. /\ mailbox \in Seq(Messages) /\ users \in Seq(Messaged) /\ turn \in Nat
      /\ \A i \in DOMAIN users : users[i].turn <= turn
  BY DEF DriverInv, TypeOK, TurnsKept, Messaged
<1>2. /\ users' = users \o Says(mailbox, turn, "step") /\ mailbox' = <<>>
      /\ pc \in {"run", "rerun"}
      /\ UNCHANGED <<nextTurn, nextStep, turn, turnOpen, human, dispatchPaused, pc, wake,
                     recover, status, claim, attached, ghosts, bounds>>
  BY DEF FlushMailbox, Running
<1>3. Continues(users', users, mailbox, turn, "step")
  BY <1>1, <1>2, SaysMore
<1>4. mailbox' \in Seq(Messages) /\ Pending' = Pending
  BY <1>2 DEF Pending
<1>5. TypeOK'
  BY <1>2, <1>3, <1>4 DEF Continues, ghosts, bounds, DriverInv, TypeOK, Messaged
<1>6. ApprovalFirst'
  BY <1>2 DEF DriverInv, ApprovalFirst
<1>7. \A i \in DOMAIN users' :
          \/ i \in DOMAIN users /\ users'[i] = users[i]
          \/ users'[i].turn = turn /\ users'[i].list = "step"
  <2> TAKE i \in DOMAIN users'
  <2>1. ASSUME NEW j \in DOMAIN mailbox, i = Len(users) + j
        PROVE  users'[i].turn = turn /\ users'[i].list = "step"
    <3>1. users'[Len(users) + j] = [id |-> mailbox[j], turn |-> turn, list |-> "step"]
      BY <1>3, <2>1 DEF Continues
    <3> QED
      BY <2>1, <3>1
  <2> QED
    BY <1>3, <2>1 DEF Continues
<1>8. TurnsKept'
  <2>1. \A i \in DOMAIN users' : users'[i].turn <= turn
    BY <1>1, <1>7
  <2>2. \A i \in DOMAIN users' : users'[i].list = "turn" => i \in DOMAIN users /\ users'[i] = users[i]
    BY <1>7
  <2>3. OneFollowupPerTurn'
    BY <2>2 DEF DriverInv, TurnsKept, OneFollowupPerTurn
  <2> QED
    BY <1>2, <2>1, <2>3 DEF DriverInv, TurnsKept
<1> QED
  BY <1>2, <1>4, <1>5, <1>6, <1>8 DEF ghosts, DriverInv

LEMMA DriverStep == DriverInv /\ [Next]_vars => DriverInv'
<1> SUFFICES ASSUME DriverInv, [Next]_vars PROVE DriverInv'
  OBVIOUS
<1>1. CASE UNCHANGED vars
  BY <1>1 DEF vars, durable, worker, ghosts, bounds, DriverInv, TypeOK, Pending,
     ApprovalFirst, TurnsKept, OneFollowupPerTurn
<1>2. CASE HostStep
  BY <1>2, DriverInserts, DriverRemoves, DriverWaits DEF HostStep
<1>3. CASE WorkerStep
  BY <1>3, DriverReconciles, DriverWaits, DriverTurns, DriverFlushes DEF WorkerStep, DriverMoves
<1>4. CASE AskApproval \/ WorkerDies \/ Crash
  BY <1>4, DriverWaits, DriverCrashes
<1> QED
  BY <1>1, <1>2, <1>3, <1>4 DEF Next

LEMMA DriverAlways == Spec => []DriverInv
<1>1. Init => DriverInv
  BY DriverStarts
<1>2. DriverInv /\ [Next]_vars => DriverInv'
  BY DriverStep
<1> QED
  BY <1>1, <1>2, PTL DEF Spec

\* Whatever is steered, withdrawn, paused or lost in crashes, a turn of the driver
\* takes one follow-up (prepare_claim), and no claim is carried towards a turn while
\* an approval of an open turn is undecided (resume_session requests the recovery
\* first, run() serves it first).
THEOREM TurnsAreInOrder == Spec => [](TypeOK /\ OneFollowupPerTurn /\ ClaimsWaitForApproval)
<1>1. DriverInv => TypeOK /\ OneFollowupPerTurn /\ ClaimsWaitForApproval
  BY DEF DriverInv, TypeOK, ApprovalFirst, TurnsKept, ClaimsWaitForApproval
<1> QED
  BY <1>1, DriverAlways, PTL

--------------------------------------------------------------------------------
(* What a claim may lose *)

\* Steering is not queued in sessions whose turns may stop at an approval: a turn
\* recovered from one may write steering that its driver does not reconcile.
SteersOrAsks == Approvals => Steerable = {}

LEMMA Exchange ==
    ASSUME NEW C, NEW D, IsFiniteSet(C), IsFiniteSet(D), Cardinality(C) = Cardinality(D)
    PROVE  IsFiniteSet(C \ D) /\ IsFiniteSet(D \ C) /\ Cardinality(D \ C) = Cardinality(C \ D)
<1>1. C \cap D = D \cap C
  OBVIOUS
<1>2. IsFiniteSet(C \ D) /\ Cardinality(C \ D) = Cardinality(C) - Cardinality(C \cap D)
  BY FS_Difference
<1>3. IsFiniteSet(D \ C) /\ Cardinality(D \ C) = Cardinality(D) - Cardinality(D \cap C)
  BY FS_Difference
<1> QED
  BY <1>1, <1>2, <1>3

LEMMA Apart ==
    ASSUME NEW C, NEW D, IsFiniteSet(C), IsFiniteSet(D), C \cap D = {}
    PROVE  /\ IsFiniteSet(C \union D)
           /\ Cardinality(C \union D) = Cardinality(C) + Cardinality(D)
<1>1. Cardinality(C \cap D) = 0
  BY FS_EmptySet
<1>2. Cardinality(C) \in Nat /\ Cardinality(D) \in Nat
  BY FS_CardinalityType
<1>3. /\ IsFiniteSet(C \union D)
      /\ Cardinality(C \union D) = Cardinality(C) + Cardinality(D) - Cardinality(C \cap D)
  BY FS_Union
<1> QED
  BY <1>1, <1>2, <1>3

\* Losses stay within withdrawals that ran when no more inputs become lost and
\* those that ran are still counted.
LEMMA LossesShrink ==
    ASSUME DriverInv, LossesKept, DriverInv', IsFiniteSet(accepted'),
           Lost' \subseteq Lost, Zombies \subseteq Zombies', Zombies' \subseteq accepted'
    PROVE  LossesKept'
<1>1. IsFiniteSet(Lost) /\ Cardinality(Lost) <= Cardinality(Zombies)
  BY FS_Difference DEF LossesKept, Lost
<1>2. PICK l : l = Lost'
  OBVIOUS
<1>3. PICK z : z = Zombies'
  OBVIOUS
<1>4. IsFiniteSet(l) /\ Cardinality(l) <= Cardinality(Lost)
  BY <1>1, <1>2, FS_Subset
<1>5. IsFiniteSet(z)
  BY <1>3, FS_Subset
<1>6. IsFiniteSet(Zombies) /\ Cardinality(Zombies) <= Cardinality(z)
  BY <1>3, <1>5, FS_Subset
<1>7. /\ Cardinality(l) \in Nat /\ Cardinality(Lost) \in Nat
      /\ Cardinality(z) \in Nat /\ Cardinality(Zombies) \in Nat
  BY <1>1, <1>4, <1>5, <1>6, FS_CardinalityType
<1>8. Cardinality(l) <= Cardinality(z)
  BY <1>1, <1>4, <1>6, <1>7
<1> QED
  BY <1>2, <1>3, <1>8 DEF LossesKept

LEMMA LossesStart == Init => InboxInv
<1> SUFFICES ASSUME Init PROVE InboxInv
  OBVIOUS
<1> USE DEF Init, NoClaim
<1>1. DOMAIN <<>> = {}
  OBVIOUS
<1>2. Claimed = {} /\ Consumed = {} /\ Elems(<<>>) = {} /\ Distinct(<<>>)
  BY <1>1 DEF Claimed, Consumed, Elems, Distinct
<1>3. ListsKept /\ WrittenOnce /\ ClaimHeld
  BY <1>1, <1>2 DEF ListsKept, WrittenOnce, ClaimHeld, Pending
<1>4. Lost = {} /\ Zombies = {}
  BY DEF Lost, Zombies
<1>5. LossesKept
  BY <1>4, FS_EmptySet DEF LossesKept
<1> QED
  BY <1>3, <1>5, DriverStarts DEF InboxInv

LEMMA LossesInserts ==
    ASSUME InboxInv, NEW m \in Messages,
           Admit(m) \/ Followup(m) \/ SteerIdle(m) \/ SteerActive(m) \/ Inject(m)
    PROVE  InboxInv'
<1>1. DriverInv /\ DriverInv'
  BY DriverInserts DEF InboxInv
<1>2. /\ UNCHANGED <<users, turn, turnOpen, human, pc, recover, claim, cancelled>>
      /\ m \notin accepted
      /\ \/ UNCHANGED mailbox
         \/ mailbox' = Append(mailbox, m) /\ m \in Steerable
      /\ \/ InsertTurn(m) /\ m \notin Steerable
         \/ InsertStep(m) /\ m \in Steerable
  BY DEF Admit, Followup, SteerIdle, SteerActive, Inject, Fresh, worker
<1>3. /\ nextTurn \in Seq(Messages) /\ nextStep \in Seq(Messages) /\ mailbox \in Seq(Messages)
      /\ Pending \subseteq accepted /\ accepted \subseteq Messages
  BY <1>1 DEF DriverInv, TypeOK
<1>4. ListsKept /\ WrittenOnce /\ ClaimHeld /\ LossesKept
  BY DEF InboxInv
<1>5. Pending' = Pending \union {m} /\ accepted' = accepted \union {m}
  <2>1. InsertTurn(m) \/ InsertStep(m)
    BY <1>2
  <2> QED
    BY <1>1, <2>1, Inserted
<1>6. /\ Claimed' = Claimed /\ Consumed' = Consumed
      /\ Claimed \subseteq accepted /\ Consumed \subseteq accepted /\ Elems(mailbox) \subseteq accepted
  BY <1>2, <1>4 DEF Claimed, Consumed, WrittenOnce
<1>7. Elems(mailbox') \subseteq Elems(mailbox) \union {m} /\ Distinct(mailbox')
      /\ Elems(mailbox') \subseteq Steerable
  <2>1. CASE mailbox' = mailbox
    BY <1>4, <2>1 DEF ListsKept
  <2>2. CASE mailbox' = Append(mailbox, m) /\ m \in Steerable
    BY <1>2, <1>3, <1>4, <1>6, <2>2, AppendOne DEF ListsKept
  <2> QED
    BY <1>2, <2>1, <2>2
<1>8. /\ Elems(nextTurn') \subseteq Elems(nextTurn) \union {m} /\ Distinct(nextTurn')
      /\ Elems(nextTurn') \cap Steerable = {}
      /\ \A i \in DOMAIN nextTurn' :
            (i \in DOMAIN nextTurn /\ nextTurn'[i] = nextTurn[i]) \/ nextTurn'[i] = m
  <2>1. CASE InsertTurn(m) /\ m \notin Steerable
    BY <1>3, <1>4, <2>1, AppendOne DEF InsertTurn, Pending, ListsKept
  <2>2. CASE InsertStep(m)
    BY <1>4, <2>2 DEF InsertStep, ListsKept
  <2> QED
    BY <1>2, <2>1, <2>2
<1>9. /\ Elems(nextStep') \subseteq Elems(nextStep) \union {m} /\ Distinct(nextStep')
      /\ Elems(nextStep') \subseteq Steerable
      /\ \A i \in DOMAIN nextStep' :
            (i \in DOMAIN nextStep /\ nextStep'[i] = nextStep[i]) \/ nextStep'[i] = m
  <2>1. CASE InsertTurn(m)
    BY <1>4, <2>1 DEF InsertTurn, ListsKept
  <2>2. CASE InsertStep(m) /\ m \in Steerable
    BY <1>3, <1>4, <2>2, AppendOne DEF InsertStep, Pending, ListsKept
  <2> QED
    BY <1>2, <2>1, <2>2
<1>10. ListsKept'
  BY <1>2, <1>4, <1>7, <1>8, <1>9 DEF ListsKept
<1>11. WrittenOnce'
  BY <1>2, <1>4, <1>5, <1>6, <1>7, <1>8, <1>9 DEF WrittenOnce
<1>12. ClaimHeld'
  BY <1>2, <1>4, <1>5, <1>6, <1>8, <1>9 DEF ClaimHeld, Claimed
<1>13. LossesKept'
  <2>1. Lost' = Lost /\ Zombies' = Zombies /\ Zombies \subseteq accepted'
    BY <1>2, <1>5, <1>6 DEF Lost, Zombies
  <2>2. IsFiniteSet(accepted')
    BY <1>4, <1>5, FS_AddElement DEF LossesKept
  <2> QED
    BY <1>1, <1>4, <2>1, <2>2, LossesShrink
<1> QED
  BY <1>1, <1>10, <1>11, <1>12, <1>13 DEF InboxInv

LEMMA LossesRemoves ==
    ASSUME InboxInv, NEW m \in Messages, RemovePending(m)
    PROVE  InboxInv'
<1>1. DriverInv /\ DriverInv'
  BY DriverRemoves DEF InboxInv
<1>2. ListsKept /\ WrittenOnce /\ ClaimHeld /\ LossesKept
  BY DEF InboxInv
<1>3. /\ UNCHANGED <<users, human, recover, pc, claim, mailbox, accepted>>
      /\ m \in Pending /\ cancelled' = cancelled \union {m}
      /\ nextTurn' = Without(nextTurn, {m}) /\ nextStep' = Without(nextStep, {m})
  BY DEF RemovePending, worker
<1>4. nextTurn \in Seq(Messages) /\ nextStep \in Seq(Messages)
  BY <1>1 DEF DriverInv, TypeOK
<1>5. /\ Elems(nextTurn') = Elems(nextTurn) \ {m} /\ Elems(nextStep') = Elems(nextStep) \ {m}
      /\ Pending' = Pending \ {m}
  BY <1>1, <1>3, Shrunk
<1>6. MovedUp(nextTurn', nextTurn) /\ (Distinct(nextTurn) => Distinct(nextTurn'))
  BY <1>3, <1>4, WithoutFilters
<1>7. MovedUp(nextStep', nextStep) /\ (Distinct(nextStep) => Distinct(nextStep'))
  BY <1>3, <1>4, WithoutFilters
<1>8. Claimed' = Claimed /\ Consumed' = Consumed /\ Consumed \subseteq accepted
  BY <1>2, <1>3 DEF Claimed, Consumed, WrittenOnce
<1>9. ListsKept'
  BY <1>2, <1>3, <1>5, <1>6, <1>7 DEF ListsKept
<1>10. WrittenOnce'
  BY <1>2, <1>3, <1>5, <1>8 DEF WrittenOnce
<1>11. ClaimHeld'
  <2>1. (Claimed \ cancelled \subseteq Pending)'
    BY <1>2, <1>3, <1>5, <1>8 DEF ClaimHeld
  <2>2. ASSUME NEW i \in DOMAIN nextStep', nextStep'[i] \in Elems(claim.steps)
        PROVE  i <= Len(claim.steps)
    <3>1. PICK j \in DOMAIN nextStep : i <= j /\ nextStep'[i] = nextStep[j]
      BY <1>7 DEF MovedUp
    <3>2. j <= Len(claim.steps)
      BY <1>2, <2>2, <3>1 DEF ClaimHeld
    <3>3. i \in Nat /\ j \in Nat
      <4>1. nextStep' \in Seq(Messages)
        BY <1>1 DEF DriverInv, TypeOK
      <4> QED
        BY <1>4, <4>1
    <3>4. Len(claim.steps) \in Nat
      BY <1>1 DEF DriverInv, TypeOK
    <3> QED
      BY <3>1, <3>2, <3>3, <3>4
  <2>3. ASSUME NEW i \in DOMAIN nextTurn', nextTurn'[i] \in Elems(claim.turns)
        PROVE  i <= Len(claim.turns)
    <3>1. PICK j \in DOMAIN nextTurn : i <= j /\ nextTurn'[i] = nextTurn[j]
      BY <1>6 DEF MovedUp
    <3>2. j <= Len(claim.turns)
      BY <1>2, <2>3, <3>1 DEF ClaimHeld
    <3>3. i \in Nat /\ j \in Nat
      <4>1. nextTurn' \in Seq(Messages)
        BY <1>1 DEF DriverInv, TypeOK
      <4> QED
        BY <1>4, <4>1
    <3>4. Len(claim.turns) \in Nat
      BY <1>1 DEF DriverInv, TypeOK
    <3> QED
      BY <3>1, <3>2, <3>3, <3>4
  <2> QED
    BY <1>3, <2>1, <2>2, <2>3 DEF ClaimHeld
<1>12. LossesKept'
  <2>1. Lost' \subseteq Lost /\ Zombies \subseteq Zombies' /\ Zombies' \subseteq accepted'
    BY <1>3, <1>5, <1>8 DEF Lost, Zombies
  <2> QED
    BY <1>1, <1>2, <1>3, <2>1, LossesShrink DEF LossesKept
<1> QED
  BY <1>1, <1>9, <1>10, <1>11, <1>12 DEF InboxInv

\* A worker that is not between the claim and the turn's first append holds none.
LEMMA NothingClaimed ==
    ASSUME TypeOK, pc \notin {"build", "init"}
    PROVE  claim = NoClaim /\ Claimed = {}
<1>1. DOMAIN <<>> = {}
  OBVIOUS
<1> QED
  BY <1>1 DEF TypeOK, NoClaim, Claimed, Elems

LEMMA LossesReconciles ==
    ASSUME InboxInv, Boot \/ Settle
    PROVE  InboxInv'
<1>1. DriverInv /\ DriverInv'
  BY DriverReconciles DEF InboxInv
<1>2. ListsKept /\ WrittenOnce /\ ClaimHeld /\ LossesKept
  BY DEF InboxInv
<1>3. /\ UNCHANGED <<users, human, recover, claim, mailbox, accepted, cancelled>>
      /\ pc \in {"boot", "settle"} /\ pc' \in {"idle", "check"}
      /\ nextTurn' = Without(nextTurn, Consumed) /\ nextStep' = Without(nextStep, Consumed)
  BY DEF Boot, Settle, Retire, ReconcileConsumed, ghosts
<1>4. nextTurn \in Seq(Messages) /\ nextStep \in Seq(Messages)
  BY <1>1 DEF DriverInv, TypeOK
<1>5. /\ Elems(nextTurn') = Elems(nextTurn) \ Consumed
      /\ Elems(nextStep') = Elems(nextStep) \ Consumed /\ Pending' = Pending \ Consumed
  BY <1>1, <1>3, Shrunk
<1>6. Distinct(nextTurn') /\ Distinct(nextStep')
  BY <1>2, <1>3, <1>4, WithoutFilters DEF ListsKept
<1>7. claim = NoClaim /\ Claimed = {}
  BY <1>1, <1>3, NothingClaimed DEF DriverInv
<1>8. Claimed' = Claimed /\ Consumed' = Consumed /\ Consumed \subseteq accepted
  BY <1>2, <1>3 DEF Claimed, Consumed, WrittenOnce
<1>9. ListsKept'
  BY <1>2, <1>3, <1>5, <1>6 DEF ListsKept
<1>10. WrittenOnce'
  BY <1>2, <1>3, <1>5, <1>8 DEF WrittenOnce
<1>11. ClaimHeld'
  BY <1>3, <1>7, <1>8 DEF ClaimHeld, Claimed
<1>12. LossesKept'
  <2>1. Lost' \subseteq Lost /\ Zombies \subseteq Zombies' /\ Zombies' \subseteq accepted'
    BY <1>3, <1>5, <1>8 DEF Lost, Zombies
  <2> QED
    BY <1>1, <1>2, <1>3, <2>1, LossesShrink DEF LossesKept
<1> QED
  BY <1>1, <1>9, <1>10, <1>11, <1>12 DEF InboxInv

\* A step that touches neither lists nor messages: what it may do to the claim, the
\* mailbox and the worker's state.
Waits ==
    /\ UNCHANGED <<nextTurn, nextStep, users, accepted, cancelled>>
    /\ mailbox' \in {mailbox, <<>>}
    /\ claim' \in {claim, NoClaim} \/ (pc = "acquire" /\ claim' = PrepareClaim)
    /\ human' => Approvals \/ human
    /\ recover' => human \/ recover
    /\ pc' \in {"rebuild", "rerun"} => recover \/ pc \in {"rebuild", "rerun"}
    /\ pc' \in {"idle", "check", "acquire", "build", "init"}
         => pc \in {"idle", "check", "acquire", "build", "init", "rerun"}

LEMMA WaitSteps ==
    \/ Wake \/ PauseDispatch \/ HostResume \/ CancelWaiting \/ DecideApproval
    \/ AskApproval \/ WorkerDies \/ DispatchRecovery \/ DispatchWake \/ CheckPaused
    \/ AcquireAndClaim \/ BuildRequest \/ CloseInterrupted \/ StartFails \/ ResumeTurn
    \/ EndTurn \/ Crash \/ UNCHANGED vars
    => Waits
<1> USE DEF Waits, durable, worker, ghosts, bounds
<1>1. Wake \/ PauseDispatch \/ HostResume \/ CancelWaiting \/ DecideApproval => Waits
  BY DEF Wake, PauseDispatch, HostResume, CancelWaiting, Park, Retire, DecideApproval
<1>2. AskApproval \/ WorkerDies \/ DispatchRecovery \/ DispatchWake \/ CheckPaused => Waits
  BY DEF AskApproval, WorkerDies, DispatchRecovery, DispatchWake, WakeNext, CheckPaused, Park, Retire
<1>3. AcquireAndClaim \/ BuildRequest \/ CloseInterrupted \/ StartFails \/ ResumeTurn => Waits
  BY DEF AcquireAndClaim, BuildRequest, CloseInterrupted, StartFails, ResumeTurn, DropMailbox, Retire
<1>4. EndTurn \/ Crash \/ UNCHANGED vars => Waits
  BY DEF EndTurn, Running, DropMailbox, Retire, Crash, vars
<1> QED
  BY <1>1, <1>2, <1>3, <1>4

LEMMA LossesWaits ==
    ASSUME InboxInv, SteersOrAsks, DriverInv', Waits
    PROVE  InboxInv'
<1>1. ListsKept /\ WrittenOnce /\ ClaimHeld /\ LossesKept /\ TypeOK
  BY DEF InboxInv, DriverInv
<1>2. /\ UNCHANGED <<nextTurn, nextStep, users, accepted, cancelled>>
      /\ Pending' = Pending /\ Consumed' = Consumed
  BY DEF Waits, Pending, Consumed
<1>3. DOMAIN <<>> = {} /\ Elems(<<>>) = {} /\ Distinct(<<>>)
  BY DEF Elems, Distinct
<1>4. /\ Distinct(mailbox') /\ Elems(mailbox') \subseteq Elems(mailbox)
      /\ mailbox' \in {mailbox, <<>>}
  BY <1>1, <1>3 DEF Waits, ListsKept
<1>5. /\ Distinct(claim'.steps) /\ Elems(claim'.steps) \subseteq Steerable
      /\ Elems(claim'.turns) \cap Steerable = {}
      /\ Elems(claim'.steps) \union Elems(claim'.turns) \subseteq Claimed \union Pending
      /\ (Elems(claim'.steps) \union Elems(claim'.turns)) \cap Consumed = {}
      /\ (Elems(claim'.steps) \union Elems(claim'.turns)) \cap Elems(mailbox') = {}
      /\ (Elems(claim'.steps) \union Elems(claim'.turns)) \ cancelled \subseteq Pending
      /\ \A i \in DOMAIN nextStep : nextStep[i] \in Elems(claim'.steps) => i <= Len(claim'.steps)
      /\ \A i \in DOMAIN nextTurn : nextTurn[i] \in Elems(claim'.turns) => i <= Len(claim'.turns)
  <2>1. CASE claim' = claim
    BY <1>1, <1>4, <2>1 DEF ListsKept, WrittenOnce, ClaimHeld, Claimed
  <2>2. CASE claim' = NoClaim
    BY <1>3, <2>2 DEF NoClaim
  <2>3. CASE pc = "acquire" /\ claim' = PrepareClaim
    <3>1. nextTurn \in Seq(Messages) /\ nextStep \in Seq(Messages) /\ mailbox = <<>>
      BY <1>1, <2>3 DEF TypeOK
    <3>2. /\ claim'.steps = nextStep
          /\ claim'.turns = IF nextTurn = <<>> THEN <<>> ELSE <<Head(nextTurn)>>
      BY <2>3 DEF PrepareClaim
    <3>3. Elems(nextTurn) \cap Consumed = {} /\ Elems(nextStep) \cap Consumed = {}
      BY <1>1, <2>3 DEF WrittenOnce
    <3>4. Elems(mailbox') = {}
      BY <1>3, <1>4, <3>1
    <3>5. \A i \in DOMAIN nextStep : i <= Len(nextStep)
      BY <3>1
    <3>6. /\ Elems(claim'.turns) \subseteq Elems(nextTurn)
          /\ \A i \in DOMAIN nextTurn : nextTurn[i] \in Elems(claim'.turns) => i <= Len(claim'.turns)
      <4>1. CASE nextTurn = <<>>
        BY <1>3, <3>2, <4>1
      <4>2. CASE nextTurn # <<>>
        <5>1. claim'.turns = <<nextTurn[1]>> /\ 1 \in DOMAIN nextTurn /\ nextTurn[1] \in Messages
          BY <3>1, <3>2, <4>2
        <5>2. Elems(claim'.turns) = {nextTurn[1]} /\ Len(claim'.turns) = 1
          BY <5>1 DEF Elems
        <5>3. \A i \in DOMAIN nextTurn : nextTurn[i] = nextTurn[1] => i = 1
          BY <1>1, <5>1 DEF ListsKept, Distinct
        <5>4. nextTurn[1] \in Elems(nextTurn)
          BY <5>1 DEF Elems
        <5> QED
          BY <5>2, <5>3, <5>4
      <4> QED
        BY <4>1, <4>2
    <3> QED
      BY <1>1, <3>2, <3>3, <3>4, <3>5, <3>6 DEF ListsKept, Pending
  <2> QED
    BY <2>1, <2>2, <2>3 DEF Waits
<1>6. ListsKept'
  BY <1>1, <1>2, <1>4, <1>5 DEF ListsKept
<1>7. WrittenOnce'
  <2>1. Approvals \/ (~human' /\ ~recover' /\ pc' \notin {"rebuild", "rerun"})
    BY <1>1 DEF Waits, WrittenOnce
  <2>2. ASSUME pc' \in {"idle", "check", "acquire", "build", "init"}
        PROVE  Elems(nextStep) \cap Consumed = {}
    <3>1. CASE pc \in {"idle", "check", "acquire", "build", "init"}
      BY <1>1, <3>1 DEF WrittenOnce
    <3>2. CASE pc = "rerun"
      BY <1>1, <3>2 DEF WrittenOnce, SteersOrAsks, ListsKept
    <3> QED
      BY <2>2, <3>1, <3>2 DEF Waits
  <2>3. Pending \subseteq accepted /\ Claimed' = Elems(claim'.steps) \union Elems(claim'.turns)
    BY DEF InboxInv, DriverInv, Claimed
  <2> QED
    BY <1>1, <1>2, <1>4, <1>5, <2>1, <2>2, <2>3 DEF WrittenOnce
<1>8. ClaimHeld'
  BY <1>2, <1>5 DEF ClaimHeld, Claimed
<1>9. LossesKept'
  BY <1>1, <1>2 DEF LossesKept, Lost, Zombies
<1> QED
  BY <1>6, <1>7, <1>8, <1>9 DEF InboxInv

\* The inputs whose messages a flush and a turn's first append write.
FlushIds(n) ==
    /\ \A i \in DOMAIN users : i \in DOMAIN users' /\ users'[i].id = users[i].id
    /\ \A j \in DOMAIN mailbox : n + j \in DOMAIN users' /\ users'[n + j].id = mailbox[j]
    /\ \A i \in DOMAIN users' : i \in DOMAIN users \/ \E j \in DOMAIN mailbox : i = n + j

TurnIds(n, k) ==
    /\ \A i \in DOMAIN users : i \in DOMAIN users' /\ users'[i].id = users[i].id
    /\ \A j \in DOMAIN claim.steps : n + j \in DOMAIN users' /\ users'[n + j].id = claim.steps[j]
    /\ \A j \in DOMAIN claim.turns :
          (n + k) + j \in DOMAIN users' /\ users'[(n + k) + j].id = claim.turns[j]
    /\ \A i \in DOMAIN users' :
          \/ i \in DOMAIN users
          \/ \E j \in DOMAIN claim.steps : i = n + j
          \/ \E j \in DOMAIN claim.turns : i = (n + k) + j

LEMMA FlushRuns ==
    ASSUME DriverInv, FlushMailbox
    PROVE  /\ Consumed' = Consumed \union Elems(mailbox)
           /\ \E n \in Nat : DOMAIN users = 1..n /\ FlushIds(n)
<1>1. users' = users \o Says(mailbox, turn, "step")
  BY DEF FlushMailbox
<1>2. users \in Seq(Messaged) /\ mailbox \in Seq(Messages) /\ turn \in Nat
  BY DEF DriverInv, TypeOK, Messaged
<1>3. PICK n \in Nat : n = Len(users) /\ DOMAIN users = 1..n
  BY <1>2
<1>4. Continues(users', users, mailbox, turn, "step")
  BY <1>1, <1>2, SaysMore
<1>5. FlushIds(n)
  <2>1. ASSUME NEW j \in DOMAIN mailbox
        PROVE  n + j \in DOMAIN users' /\ users'[n + j].id = mailbox[j]
    <3>1. /\ n + j \in DOMAIN users'
          /\ users'[n + j] = [id |-> mailbox[j], turn |-> turn, list |-> "step"]
      BY <1>3, <1>4 DEF Continues
    <3> QED
      BY <3>1
  <2> QED
    BY <1>3, <1>4, <2>1 DEF Continues, FlushIds
<1>6. Consumed' = Consumed \union Elems(mailbox)
  BY <1>5 DEF FlushIds, Consumed, Elems
<1> QED
  BY <1>3, <1>5, <1>6

LEMMA TurnRuns ==
    ASSUME DriverInv, StartTurn
    PROVE  /\ Consumed' = Consumed \union Claimed
           /\ \E n, k \in Nat : /\ DOMAIN users = 1..n /\ DOMAIN claim.steps = 1..k
                                 /\ TurnIds(n, k)
<1>1. PICK n \in Nat, k \in Nat : TurnWritten(n, k) /\ DOMAIN users = 1..n /\ DOMAIN claim.steps = 1..k
  BY TurnWrites
<1>2. TurnIds(n, k)
  <2>1. ASSUME NEW j \in DOMAIN claim.steps
        PROVE  n + j \in DOMAIN users' /\ users'[n + j].id = claim.steps[j]
    <3>1. /\ n + j \in DOMAIN users'
          /\ users'[n + j] = [id |-> claim.steps[j], turn |-> turn + 1, list |-> "step"]
      BY <1>1 DEF TurnWritten
    <3> QED
      BY <3>1
  <2>2. ASSUME NEW j \in DOMAIN claim.turns
        PROVE  (n + k) + j \in DOMAIN users' /\ users'[(n + k) + j].id = claim.turns[j]
    <3>1. /\ (n + k) + j \in DOMAIN users'
          /\ users'[(n + k) + j] = [id |-> claim.turns[j], turn |-> turn + 1, list |-> "turn"]
      BY <1>1 DEF TurnWritten
    <3> QED
      BY <3>1
  <2> QED
    BY <1>1, <2>1, <2>2 DEF TurnWritten, TurnIds
<1>3. Consumed' = Consumed \union Claimed
  BY <1>2 DEF TurnIds, Consumed, Claimed, Elems
<1> QED
  BY <1>1, <1>2, <1>3

LEMMA LossesFlushes ==
    ASSUME InboxInv, FlushMailbox
    PROVE  InboxInv'
<1>1. ListsKept /\ WrittenOnce /\ ClaimHeld /\ LossesKept /\ TypeOK
  BY DEF InboxInv, DriverInv
<1>2. DriverInv /\ DriverInv'
  BY DriverFlushes DEF InboxInv
<1>3. /\ UNCHANGED <<nextTurn, nextStep, pc, human, recover, claim, accepted, cancelled>>
      /\ pc \in {"run", "rerun"} /\ mailbox' = <<>>
      /\ users' = users \o Says(mailbox, turn, "step")
  BY DEF FlushMailbox, Running, ghosts
<1>4. Claimed = {} /\ claim = NoClaim
  BY <1>1, <1>3, NothingClaimed
<1>5. PICK n \in Nat : DOMAIN users = 1..n /\ FlushIds(n)
  BY <1>2, FlushRuns
<1>6. /\ \A i \in DOMAIN users : i \in DOMAIN users' /\ users'[i].id = users[i].id
      /\ \A j \in DOMAIN mailbox : n + j \in DOMAIN users' /\ users'[n + j].id = mailbox[j]
      /\ \A i \in DOMAIN users' : i \in DOMAIN users \/ \E j \in DOMAIN mailbox : i = n + j
  BY <1>5 DEF FlushIds
<1>7. Consumed' = Consumed \union Elems(mailbox)
  BY <1>2, FlushRuns
<1>8. \A i, j \in DOMAIN users' : users'[i].id = users'[j].id => i = j
  <2> SUFFICES ASSUME NEW i \in DOMAIN users', NEW j \in DOMAIN users', users'[i].id = users'[j].id
               PROVE  i = j
    OBVIOUS
  <2>1. \A a \in DOMAIN users, b \in DOMAIN mailbox : users[a].id # mailbox[b]
    BY <1>1 DEF WrittenOnce, Consumed, Elems
  <2>2. CASE i \in DOMAIN users /\ j \in DOMAIN users
    BY <1>1, <1>6, <2>2 DEF WrittenOnce
  <2>3. ASSUME NEW b \in DOMAIN mailbox, j = n + b, i \in DOMAIN users PROVE FALSE
    BY <1>6, <2>1, <2>3
  <2>4. ASSUME NEW a \in DOMAIN mailbox, i = n + a, j \in DOMAIN users PROVE FALSE
    BY <1>6, <2>1, <2>4
  <2>5. ASSUME NEW a \in DOMAIN mailbox, i = n + a, NEW b \in DOMAIN mailbox, j = n + b
        PROVE  i = j
    <3>1. mailbox[a] = mailbox[b]
      BY <1>6, <2>5
    <3> QED
      BY <1>1, <2>5, <3>1 DEF ListsKept, Distinct
  <2> QED
    BY <1>6, <2>2, <2>3, <2>4, <2>5
<1>9. DOMAIN <<>> = {} /\ Elems(<<>>) = {} /\ Distinct(<<>>)
  BY DEF Elems, Distinct
<1>10. ListsKept'
  BY <1>1, <1>3, <1>9 DEF ListsKept
<1>11. WrittenOnce'
  <2>1. Claimed' = {}
    BY <1>3, <1>4 DEF Claimed
  <2>2. Elems(nextTurn) \cap Elems(mailbox) = {}
    BY <1>1 DEF ListsKept
  <2> QED
    BY <1>1, <1>3, <1>7, <1>8, <1>9, <2>1, <2>2 DEF WrittenOnce
<1>12. ClaimHeld'
  BY <1>1, <1>3 DEF ClaimHeld, Claimed, Pending
<1>13. LossesKept'
  <2>1. Lost' \subseteq Lost /\ Zombies \subseteq Zombies' /\ Zombies' \subseteq accepted'
    BY <1>1, <1>3, <1>7 DEF WrittenOnce, Lost, Zombies, Pending
  <2> QED
    BY <1>1, <1>2, <1>3, <2>1, LossesShrink DEF LossesKept
<1> QED
  BY <1>2, <1>10, <1>11, <1>12, <1>13 DEF InboxInv

\* The turn's first append deletes as many inputs as it runs, and those it runs
\* without deleting them were withdrawn after the claim.
LEMMA Deleted ==
    ASSUME InboxInv, StartTurn
    PROVE  \E D : /\ Pending = D \union Pending' /\ D \cap Pending' = {}
                  /\ IsFiniteSet(D) /\ IsFiniteSet(Claimed) /\ Cardinality(D) = Cardinality(Claimed)
                  /\ Claimed \ D \subseteq cancelled
                  /\ Elems(nextTurn') \subseteq Elems(nextTurn) \ Claimed
                  /\ Elems(nextStep') \subseteq Elems(nextStep)
                  /\ Distinct(nextTurn') /\ Distinct(nextStep')
<1>1. ListsKept /\ WrittenOnce /\ ClaimHeld /\ LossesKept /\ TypeOK /\ TurnsKept
  BY DEF InboxInv, DriverInv
<1>2. /\ nextTurn \in Seq(Messages) /\ nextStep \in Seq(Messages)
      /\ claim.steps \in Seq(Messages) /\ claim.turns \in Seq(Messages)
  BY <1>1 DEF TypeOK
<1>3. PICK k : k = Len(claim.steps)
  OBVIOUS
<1>4. PICK l : l = Len(claim.turns)
  OBVIOUS
<1>5. /\ k \in 0..Len(nextStep) /\ l \in 0..Len(nextTurn)
      /\ nextStep' = Drop(nextStep, k) /\ nextTurn' = Drop(nextTurn, l)
  BY <1>2, <1>3, <1>4 DEF StartTurn, SplicesFit
<1> DEFINE A == SubSeq(nextStep, 1, k)
           B == SubSeq(nextTurn, 1, l)
           D == Elems(A) \union Elems(B)
<1>6. /\ A \in Seq(Messages) /\ Len(A) = k /\ Distinct(A) /\ Distinct(nextStep')
      /\ \A i \in 1..k : i \in DOMAIN nextStep /\ A[i] = nextStep[i]
      /\ Elems(nextStep) = Elems(A) \union Elems(nextStep')
      /\ Elems(A) \cap Elems(nextStep') = {}
  <2>1. Distinct(nextStep) /\ nextStep \in Seq(Messages) /\ k \in 0..Len(nextStep)
    BY <1>1, <1>2, <1>5 DEF ListsKept
  <2> QED
    BY <1>5, <2>1, CutList
<1>7. /\ B \in Seq(Messages) /\ Len(B) = l /\ Distinct(B) /\ Distinct(nextTurn')
      /\ \A i \in 1..l : i \in DOMAIN nextTurn /\ B[i] = nextTurn[i]
      /\ CutOff(nextTurn', nextTurn, l)
      /\ Elems(nextTurn) = Elems(B) \union Elems(nextTurn')
      /\ Elems(B) \cap Elems(nextTurn') = {}
  <2>1. Distinct(nextTurn) /\ nextTurn \in Seq(Messages) /\ l \in 0..Len(nextTurn)
    BY <1>1, <1>2, <1>5 DEF ListsKept
  <2>2. PICK d : d = Drop(nextTurn, l)
    OBVIOUS
  <2>3. /\ B \in Seq(Messages) /\ Len(B) = l /\ Distinct(B) /\ Distinct(d)
        /\ \A i \in 1..l : i \in DOMAIN nextTurn /\ B[i] = nextTurn[i]
        /\ Elems(nextTurn) = Elems(B) \union Elems(d)
        /\ Elems(B) \cap Elems(d) = {}
    BY <2>1, <2>2, CutList
  <2>4. CutOff(d, nextTurn, l)
    BY <2>1, <2>2, CutList
  <2> QED
    BY <1>5, <2>2, <2>3, <2>4
<1> HIDE DEF A, B
<1>8. Elems(nextTurn) \cap Steerable = {} /\ Elems(nextStep) \subseteq Steerable
  BY <1>1 DEF ListsKept
<1>9. Pending = D \union Pending' /\ D \cap Pending' = {}
  BY <1>6, <1>7, <1>8 DEF Pending
<1>10. Distinct(claim.turns) /\ Distinct(claim.steps) /\ Elems(claim.steps) \subseteq Steerable
       /\ Elems(claim.turns) \cap Steerable = {}
  <2>1. \A i \in DOMAIN claim.turns : i = 1
    BY <1>1, <1>2 DEF TurnsKept
  <2> QED
    BY <1>1, <2>1 DEF ListsKept, Distinct
<1>11. IsFiniteSet(D) /\ Cardinality(D) = k + l
  <2>1. IsFiniteSet(Elems(A)) /\ Cardinality(Elems(A)) = k
    BY <1>6, DistinctSize
  <2>2. IsFiniteSet(Elems(B)) /\ Cardinality(Elems(B)) = l
    BY <1>7, DistinctSize
  <2>3. Elems(A) \cap Elems(B) = {}
    BY <1>6, <1>7, <1>8
  <2> QED
    BY <2>1, <2>2, <2>3, Apart
<1>12. IsFiniteSet(Claimed) /\ Cardinality(Claimed) = k + l
  <2>1. IsFiniteSet(Elems(claim.steps)) /\ Cardinality(Elems(claim.steps)) = k
    BY <1>2, <1>3, <1>10, DistinctSize
  <2>2. IsFiniteSet(Elems(claim.turns)) /\ Cardinality(Elems(claim.turns)) = l
    BY <1>2, <1>4, <1>10, DistinctSize
  <2>3. Elems(claim.steps) \cap Elems(claim.turns) = {}
    BY <1>10
  <2> QED
    BY <2>1, <2>2, <2>3, Apart DEF Claimed
<1>13. ASSUME NEW x \in Claimed, x \notin cancelled PROVE x \in D
  <2>1. x \in Elems(nextTurn) \/ x \in Elems(nextStep)
    BY <1>1, <1>13 DEF ClaimHeld, Pending
  <2>2. CASE x \in Elems(nextStep)
    <3>1. PICK i \in DOMAIN nextStep : x = nextStep[i]
      BY <2>2 DEF Elems
    <3>2. x \in Elems(claim.steps)
      BY <1>8, <1>10, <2>2 DEF Claimed
    <3>3. i <= k
      BY <1>1, <1>3, <3>1, <3>2 DEF ClaimHeld
    <3>4. i \in 1..k /\ DOMAIN A = 1..k
      BY <1>2, <1>5, <1>6, <3>1, <3>3
    <3>5. x \in Elems(A)
      BY <1>6, <3>1, <3>4 DEF Elems
    <3> QED
      BY <3>5
  <2>3. CASE x \in Elems(nextTurn)
    <3>1. PICK i \in DOMAIN nextTurn : x = nextTurn[i]
      BY <2>3 DEF Elems
    <3>2. x \in Elems(claim.turns)
      BY <1>8, <1>10, <2>3 DEF Claimed
    <3>3. i <= l
      BY <1>1, <1>4, <3>1, <3>2 DEF ClaimHeld
    <3>4. i \in 1..l /\ DOMAIN B = 1..l
      BY <1>2, <1>5, <1>7, <3>1, <3>3
    <3>5. x \in Elems(B)
      BY <1>7, <3>1, <3>4 DEF Elems
    <3> QED
      BY <3>5
  <2> QED
    BY <2>1, <2>2, <2>3
<1>14. Elems(nextTurn') \subseteq Elems(nextTurn) \ Claimed
  <2> SUFFICES ASSUME NEW x \in Elems(nextTurn'), x \in Claimed PROVE FALSE
    BY <1>7
  <2>1. x \in Elems(claim.turns)
    BY <1>7, <1>8, <1>10 DEF Claimed
  <2>2. PICK i \in DOMAIN nextTurn' : x = nextTurn[i + l] /\ i + l \in DOMAIN nextTurn
    BY <1>7 DEF Elems, CutOff
  <2>3. i + l <= l
    BY <1>1, <1>4, <2>1, <2>2 DEF ClaimHeld
  <2>4. i \in Nat /\ i >= 1 /\ l \in Nat
    <3>1. nextTurn' \in Seq(Messages)
      BY <1>2, <1>5, CutList
    <3> QED
      BY <1>2, <1>5, <3>1
  <2> QED
    BY <2>3, <2>4
<1> QED
  BY <1>6, <1>7, <1>9, <1>11, <1>12, <1>13, <1>14

LEMMA LossesTurns ==
    ASSUME InboxInv, StartTurn
    PROVE  InboxInv'
<1>1. ListsKept /\ WrittenOnce /\ ClaimHeld /\ LossesKept /\ TypeOK /\ TurnsKept
  BY DEF InboxInv, DriverInv
<1>2. DriverInv /\ DriverInv'
  BY DriverTurns DEF InboxInv
<1>3. /\ UNCHANGED <<mailbox, human, recover, accepted, cancelled>>
      /\ pc' = "run" /\ claim' = NoClaim
  BY DEF StartTurn
<1>4. PICK D : /\ Pending = D \union Pending' /\ D \cap Pending' = {}
               /\ IsFiniteSet(D) /\ IsFiniteSet(Claimed) /\ Cardinality(D) = Cardinality(Claimed)
               /\ Claimed \ D \subseteq cancelled
               /\ Elems(nextTurn') \subseteq Elems(nextTurn) \ Claimed
               /\ Elems(nextStep') \subseteq Elems(nextStep)
               /\ Distinct(nextTurn') /\ Distinct(nextStep')
  BY Deleted
<1>5. PICK n \in Nat, k \in Nat : DOMAIN users = 1..n /\ DOMAIN claim.steps = 1..k /\ TurnIds(n, k)
  BY <1>2, TurnRuns
<1>6. \A a \in DOMAIN claim.turns : a = 1
  BY <1>1 DEF TypeOK, TurnsKept
<1>7. /\ \A i \in DOMAIN users : i \in DOMAIN users' /\ users'[i].id = users[i].id
      /\ \A j \in DOMAIN claim.steps : n + j \in DOMAIN users' /\ users'[n + j].id = claim.steps[j]
      /\ \A j \in DOMAIN claim.turns :
            (n + k) + j \in DOMAIN users' /\ users'[(n + k) + j].id = claim.turns[j]
      /\ \A i \in DOMAIN users' :
            \/ i \in DOMAIN users
            \/ \E j \in DOMAIN claim.steps : i = n + j
            \/ \E j \in DOMAIN claim.turns : i = (n + k) + j
  BY <1>5 DEF TurnIds
<1>8. Consumed' = Consumed \union Claimed
  BY <1>2, TurnRuns
<1>9. \A i, j \in DOMAIN users' : users'[i].id = users'[j].id => i = j
  <2> SUFFICES ASSUME NEW i \in DOMAIN users', NEW j \in DOMAIN users', users'[i].id = users'[j].id
               PROVE  i = j
    OBVIOUS
  <2>1. /\ \A a \in DOMAIN users, b \in DOMAIN claim.steps : users[a].id # claim.steps[b]
        /\ \A a \in DOMAIN users, b \in DOMAIN claim.turns : users[a].id # claim.turns[b]
        /\ \A a \in DOMAIN claim.steps, b \in DOMAIN claim.turns : claim.steps[a] # claim.turns[b]
    BY <1>1 DEF WrittenOnce, ListsKept, Consumed, Claimed, Elems
  <2>2. \A a, b \in DOMAIN claim.steps : claim.steps[a] = claim.steps[b] => a = b
    BY <1>1 DEF ListsKept, Distinct
  <2>3. \A a, b \in DOMAIN users : users[a].id = users[b].id => a = b
    BY <1>1 DEF WrittenOnce
  <2> DEFINE Old(x)  == x \in DOMAIN users
             Step(x) == \E a \in DOMAIN claim.steps : x = n + a
             Turn(x) == \E a \in DOMAIN claim.turns : x = (n + k) + a
  <2>4. CASE Old(i) /\ Old(j)
    BY <1>7, <2>3, <2>4
  <2>5. CASE Step(i) /\ Step(j)
    BY <1>7, <2>2, <2>5
  <2>6. CASE Turn(i) /\ Turn(j)
    BY <1>6, <2>6
  <2>7. ~ (Old(i) /\ Step(j)) /\ ~ (Old(j) /\ Step(i))
    BY <1>7, <2>1
  <2>8. ~ (Old(i) /\ Turn(j)) /\ ~ (Old(j) /\ Turn(i))
    BY <1>7, <2>1
  <2>9. ~ (Step(i) /\ Turn(j)) /\ ~ (Step(j) /\ Turn(i))
    BY <1>7, <2>1
  <2>10. (Old(i) \/ Step(i) \/ Turn(i)) /\ (Old(j) \/ Step(j) \/ Turn(j))
    BY <1>7
  <2> HIDE DEF Old, Step, Turn
  <2> QED
    BY <2>4, <2>5, <2>6, <2>7, <2>8, <2>9, <2>10
<1>10. DOMAIN <<>> = {} /\ Elems(<<>>) = {} /\ Distinct(<<>>)
  BY DEF Elems, Distinct
<1>11. ListsKept'
  BY <1>1, <1>3, <1>4, <1>10 DEF ListsKept, NoClaim
<1>12. Claimed' = {}
  BY <1>3, <1>10 DEF Claimed, NoClaim
<1>13. WrittenOnce'
  BY <1>1, <1>3, <1>4, <1>8, <1>9, <1>12 DEF WrittenOnce
<1>14. ClaimHeld'
  BY <1>3, <1>10, <1>12 DEF ClaimHeld, NoClaim
<1>15. LossesKept'
  <2> DEFINE C == Claimed
  <2>1. /\ C \subseteq accepted /\ Consumed \subseteq accepted /\ Pending \subseteq accepted
        /\ C \cap Consumed = {} /\ IsFiniteSet(accepted)
    BY <1>1, <1>2 DEF DriverInv, WrittenOnce, LossesKept
  <2>2. Lost' \subseteq Lost \union (D \ C)
    BY <1>3, <1>4, <1>8 DEF Lost
  <2>3. Zombies \union (C \ D) \subseteq Zombies' /\ Zombies \cap (C \ D) = {}
        /\ Zombies' \subseteq accepted
    BY <1>3, <1>4, <1>8, <2>1 DEF Zombies
  <2>4. Lost \cap (D \ C) = {}
    BY <1>4 DEF Lost
  <2>5. /\ IsFiniteSet(C \ D) /\ IsFiniteSet(D \ C)
        /\ Cardinality(D \ C) = Cardinality(C \ D)
    <3> HIDE DEF C
    <3>1. IsFiniteSet(C) /\ IsFiniteSet(D) /\ Cardinality(C) = Cardinality(D)
      BY <1>4 DEF C
    <3> QED
      BY <3>1, Exchange
  <2>6. IsFiniteSet(Lost) /\ IsFiniteSet(Zombies) /\ Cardinality(Lost) <= Cardinality(Zombies)
    <3>1. Lost \subseteq accepted /\ Zombies \subseteq accepted
      BY <2>1 DEF Lost, Zombies
    <3> QED
      BY <1>1, <2>1, <3>1, FS_Subset DEF LossesKept
  <2>7. PICK e : e = C \ D
    OBVIOUS
  <2>8. PICK d : d = D \ C
    OBVIOUS
  <2>9. PICK L : L = Lost'
    OBVIOUS
  <2>10. PICK Z : Z = Zombies'
    OBVIOUS
  <2>11. PICK f : f = accepted
    OBVIOUS
  <2>12. PICK L0 : L0 = Lost
    OBVIOUS
  <2>13. PICK Z0 : Z0 = Zombies
    OBVIOUS
  <2> HIDE DEF C
  <2>14. IsFiniteSet(L0 \union d) /\ Cardinality(L0 \union d) = Cardinality(L0) + Cardinality(d)
    BY <2>4, <2>5, <2>6, <2>8, <2>12, Apart
  <2>15. IsFiniteSet(Z0 \union e) /\ Cardinality(Z0 \union e) = Cardinality(Z0) + Cardinality(e)
    BY <2>3, <2>5, <2>6, <2>7, <2>13, Apart
  <2>16. IsFiniteSet(L) /\ Cardinality(L) <= Cardinality(L0 \union d)
    <3>1. L \in SUBSET (L0 \union d)
      BY <2>2, <2>8, <2>9, <2>12
    <3> QED
      BY <2>14, <3>1, FS_Subset
  <2>17. IsFiniteSet(Z)
    <3>1. Z \in SUBSET f /\ IsFiniteSet(f)
      BY <2>1, <2>3, <2>10, <2>11
    <3> QED
      BY <3>1, FS_Subset
  <2>18. Cardinality(Z0 \union e) <= Cardinality(Z)
    <3>1. Z0 \union e \in SUBSET Z
      BY <2>3, <2>7, <2>10, <2>13
    <3> QED
      BY <2>17, <3>1, FS_Subset
  <2>19. /\ Cardinality(L0) \in Nat /\ Cardinality(Z0) \in Nat /\ Cardinality(d) \in Nat
         /\ Cardinality(e) \in Nat /\ Cardinality(L) \in Nat /\ Cardinality(Z) \in Nat
    BY <2>5, <2>6, <2>7, <2>8, <2>12, <2>13, <2>16, <2>17, FS_CardinalityType
  <2>20. Cardinality(L0) <= Cardinality(Z0) /\ Cardinality(d) = Cardinality(e)
    BY <2>5, <2>6, <2>7, <2>8, <2>12, <2>13
  <2>21. Cardinality(L) <= Cardinality(Z)
    BY <2>14, <2>15, <2>16, <2>18, <2>19, <2>20
  <2> QED
    BY <1>1, <1>3, <2>9, <2>10, <2>21 DEF LossesKept
<1> QED
  BY <1>2, <1>11, <1>13, <1>14, <1>15 DEF InboxInv

LEMMA LossesStep == SteersOrAsks /\ InboxInv /\ [Next]_vars => InboxInv'
<1> SUFFICES ASSUME SteersOrAsks, InboxInv, [Next]_vars PROVE InboxInv'
  OBVIOUS
<1>1. DriverInv'
  BY DriverStep DEF InboxInv
<1>2. CASE WorkerStep \/ AskApproval \/ WorkerDies \/ Crash \/ UNCHANGED vars
  <2>1. CASE Boot \/ Settle
    BY <2>1, LossesReconciles
  <2>2. CASE StartTurn
    BY <2>2, LossesTurns
  <2>3. CASE FlushMailbox
    BY <2>3, LossesFlushes
  <2>4. CASE Waits
    BY <1>1, <2>4, LossesWaits
  <2> QED
    BY <1>2, <2>1, <2>2, <2>3, <2>4, WaitSteps DEF WorkerStep, DriverMoves
<1>3. CASE HostStep
  <2>1. CASE Wake \/ PauseDispatch \/ HostResume \/ CancelWaiting \/ DecideApproval
    BY <1>1, <2>1, WaitSteps, LossesWaits
  <2> QED
    BY <1>3, <2>1, LossesInserts, LossesRemoves DEF HostStep
<1> QED
  BY <1>2, <1>3 DEF Next

LEMMA InboxAlways == SteersOrAsks => (Spec => []InboxInv)
<1> SUFFICES ASSUME SteersOrAsks PROVE Spec => []InboxInv
  OBVIOUS
<1>1. Init => InboxInv
  BY LossesStart
<1>2. InboxInv /\ [Next]_vars => InboxInv'
  BY LossesStep
<1> QED
  BY <1>1, <1>2, PTL DEF Spec

LEMMA TakenOnce ==
    ASSUME InboxInv, NEW m
    PROVE  /\ IsFiniteSet(Taken(m)) /\ Cardinality(Taken(m)) <= 1
           /\ Taken(m) # {} <=> m \in Consumed
<1>1. \A i, j \in Taken(m) : i = j
  BY DEF Taken, InboxInv, WrittenOnce
<1>2. CASE Taken(m) = {}
  BY <1>2, FS_EmptySet DEF Taken, Consumed
<1>3. CASE Taken(m) # {}
  <2>1. PICK i \in Taken(m) : Taken(m) = {i}
    BY <1>1, <1>3
  <2>2. IsFiniteSet(Taken(m)) /\ Cardinality(Taken(m)) = 1
    BY <2>1, FS_Singleton
  <2>3. m \in Consumed
    BY <1>3 DEF Taken, Consumed
  <2> QED
    BY <1>3, <2>2, <2>3
<1> QED
  BY <1>2, <1>3

LEMMA FatesCount ==
    ASSUME InboxInv
    PROVE  /\ {m \in Messages : FateOf(m) = "lost"} = Lost
           /\ {m \in Messages : FateOf(m) = "zombie"} = Zombies
<1>1. accepted \subseteq Messages /\ Consumed \subseteq accepted
  BY DEF InboxInv, DriverInv, TypeOK, WrittenOnce
<1>2. ASSUME NEW m
      PROVE  /\ Taken(m) # {} <=> m \in Consumed
             /\ ~ (Cardinality(Taken(m)) > 1)
  <2>1. /\ IsFiniteSet(Taken(m)) /\ Cardinality(Taken(m)) <= 1
        /\ Taken(m) # {} <=> m \in Consumed
    BY TakenOnce
  <2>2. Cardinality(Taken(m)) \in Nat
    BY <2>1, FS_CardinalityType
  <2> QED
    BY <2>1, <2>2
<1>3. \A m : FateOf(m) = IF m \in Consumed THEN IF m \in cancelled THEN "zombie" ELSE "consumed"
                         ELSE IF m \in cancelled THEN "cancelled"
                         ELSE IF m \in Pending THEN "pending"
                         ELSE IF m \in accepted THEN "lost" ELSE "new"
  BY <1>2 DEF FateOf
<1> QED
  BY <1>1, <1>3 DEF Lost, Zombies

\* The claim of prepare_claim and the first append of run_started_turn, for any
\* inputs, crashes and withdrawals at any moment: a turn takes one follow-up, none
\* starts over an open approval, and an input is lost only in the place of another
\* that ran although its withdrawal had been acknowledged.
THEOREM ClaimsHold == SteersOrAsks => (Spec => []ClaimsAreSound)
<1> SUFFICES ASSUME SteersOrAsks PROVE Spec => []ClaimsAreSound
  OBVIOUS
<1>1. InboxInv => ClaimsAreSound
  <2> SUFFICES ASSUME InboxInv PROVE ClaimsAreSound
    OBVIOUS
  <2>1. LossesAreRemovalsThatRan
    BY FatesCount DEF InboxInv, LossesKept, LossesAreRemovalsThatRan
  <2> QED
    BY <2>1 DEF InboxInv, DriverInv, TypeOK, ApprovalFirst, TurnsKept, ClaimsWaitForApproval,
                ClaimsAreSound
<1> QED
  BY <1>1, InboxAlways, PTL

\* The engine writes a steered input when its run reaches a boundary, the driver
\* deletes its pending entry when the run is over, and a new process does either
\* after a crash: the model is still given the input once.
THEOREM InputsRunOnce == SteersOrAsks => (Spec => []ConsumedOnce)
<1> SUFFICES ASSUME SteersOrAsks PROVE Spec => []ConsumedOnce
  OBVIOUS
<1>1. InboxInv => ConsumedOnce
  BY TakenOnce DEF ConsumedOnce
<1> QED
  BY <1>1, InboxAlways, PTL

\* Turns take their follow-up from the front of the queue (prepare_claim), steering
\* overtakes none of them, and a withdrawal that a claim does not see moves the queue
\* up but never a later input to the front of an earlier one.
THEOREM FollowupsRunInOrder == SteersOrAsks => (Spec => NoOvertaking)
<1> SUFFICES ASSUME SteersOrAsks PROVE Spec => NoOvertaking
  OBVIOUS
<1> DEFINE InOrder == \A i, j \in DOMAIN nextTurn :
          i < j /\ nextTurn[j] \in Consumed' \ Consumed => nextTurn[i] \in Consumed'
<1>1. InboxInv /\ [Next]_vars => InOrder
  <2> SUFFICES ASSUME InboxInv, [Next]_vars, NEW i \in DOMAIN nextTurn, NEW j \in DOMAIN nextTurn,
                      i < j, nextTurn[j] \in Consumed' \ Consumed
               PROVE  FALSE
    OBVIOUS
  <2>1. DriverInv /\ TypeOK /\ ListsKept /\ ClaimHeld /\ TurnsKept
    BY DEF InboxInv, DriverInv
  <2>2. nextTurn \in Seq(Messages) /\ nextTurn[j] \in Elems(nextTurn)
    BY <2>1 DEF TypeOK, Elems
  <2>3. CASE UNCHANGED users
    BY <2>3 DEF Consumed
  <2>4. CASE StartTurn
    <3>1. nextTurn[j] \in Claimed
      BY <2>1, <2>4, TurnRuns
    <3>2. nextTurn[j] \in Elems(claim.turns)
      BY <2>1, <2>2, <3>1 DEF Claimed, ListsKept
    <3>3. j <= Len(claim.turns) /\ Len(claim.turns) <= 1
      BY <2>1, <3>2 DEF ClaimHeld, TurnsKept
    <3>4. i \in Nat /\ i >= 1 /\ j \in Nat /\ Len(claim.turns) \in Nat
      BY <2>1, <2>2 DEF TypeOK
    <3> QED
      BY <3>3, <3>4
  <2>5. CASE FlushMailbox
    BY <2>1, <2>2, <2>5, FlushRuns DEF ListsKept
  <2>6. StartTurn \/ FlushMailbox \/ UNCHANGED users
    BY WaitSteps DEF Next, WorkerStep, DriverMoves, HostStep, Waits, Boot, Settle, Admit, Followup, SteerIdle,
       SteerActive, Inject, RemovePending, vars, durable
  <2> QED
    BY <2>3, <2>4, <2>5, <2>6
<1> QED
  BY <1>1, InboxAlways, PTL DEF Spec, NoOvertaking

--------------------------------------------------------------------------------
(* The inbox implements the ledger *)

Ledger == INSTANCE InputLedger WITH fate <- [m \in Messages |-> FateOf(m)]

\* The host withdraws only what still waits: an input that is not in a claim, not
\* handed to the run as steering, and not written yet.
WithdrawsWaiting ==
    \A m \in cancelled' \ cancelled : m \notin Claimed \union Elems(mailbox) \union Consumed

\* What was withdrawn is out of every hand.
LedgerInv ==
    /\ InboxInv
    /\ cancelled \cap (Pending \union Claimed \union Elems(mailbox) \union Consumed) = {}

\* What a step does to the life of the inputs.
Accepts(m) ==
    /\ m \notin accepted /\ accepted' = accepted \union {m}
    /\ Consumed' = Consumed /\ cancelled' = cancelled
    /\ Pending' = Pending \union {m} /\ Claimed' = Claimed
    /\ Elems(mailbox') \subseteq Elems(mailbox) \union {m}

Withdraws(m) ==
    /\ m \in Pending /\ cancelled' = cancelled \union {m} /\ Pending' = Pending \ {m}
    /\ accepted' = accepted /\ Consumed' = Consumed /\ Claimed' = Claimed /\ mailbox' = mailbox

Consumes(batch) ==
    /\ batch \in {Claimed, Elems(mailbox)} /\ batch \cap Consumed = {}
    /\ Consumed' = Consumed \union batch /\ accepted' = accepted /\ cancelled' = cancelled
    /\ Pending' \subseteq Pending /\ Claimed' = {} /\ Elems(mailbox') \subseteq Elems(mailbox)

KeepsFates ==
    /\ accepted' = accepted /\ Consumed' = Consumed /\ cancelled' = cancelled
    /\ Pending' \subseteq Pending /\ Claimed' \subseteq Claimed \union Pending
    /\ Elems(mailbox') \subseteq Elems(mailbox)

LEMMA FateSteps ==
    ASSUME InboxInv, [Next]_vars
    PROVE  \/ \E m \in Messages : Accepts(m) \/ Withdraws(m)
           \/ Consumes(Claimed) \/ Consumes(Elems(mailbox)) \/ KeepsFates
<1>1. DriverInv /\ TypeOK /\ WrittenOnce
  BY DEF InboxInv, DriverInv
<1>2. DOMAIN <<>> = {} /\ Elems(<<>>) = {}
  BY DEF Elems
<1>3. ASSUME NEW m \in Messages,
             Admit(m) \/ Followup(m) \/ SteerIdle(m) \/ SteerActive(m) \/ Inject(m)
      PROVE  Accepts(m)
  <2>1. /\ UNCHANGED <<users, claim, cancelled>> /\ m \notin accepted
        /\ mailbox' = mailbox \/ mailbox' = Append(mailbox, m)
        /\ InsertTurn(m) \/ InsertStep(m)
    BY <1>3 DEF Admit, Followup, SteerIdle, SteerActive, Inject, Fresh, worker
  <2>2. Pending' = Pending \union {m} /\ accepted' = accepted \union {m}
    BY <1>1, <2>1, Inserted
  <2>3. Elems(mailbox') \subseteq Elems(mailbox) \union {m}
    <3>1. Elems(Append(mailbox, m)) = Elems(mailbox) \union {m}
      BY <1>1, AppendOne DEF TypeOK
    <3>2. CASE mailbox' = mailbox
      BY <3>2
    <3>3. CASE mailbox' = Append(mailbox, m)
      BY <3>1, <3>3
    <3> QED
      BY <2>1, <3>2, <3>3
  <2> QED
    BY <2>1, <2>2, <2>3 DEF Accepts, Consumed, Claimed
<1>4. ASSUME NEW m \in Messages, RemovePending(m) PROVE Withdraws(m)
  <2>1. Pending' = Pending \ {m}
    BY <1>1, <1>4, Shrunk DEF RemovePending
  <2> QED
    BY <1>4, <2>1 DEF RemovePending, worker, Withdraws, Consumed, Claimed
<1>5. CASE StartTurn
  <2>1. Consumed' = Consumed \union Claimed
    BY <1>1, <1>5, TurnRuns
  <2>2. Pending' \subseteq Pending
    BY <1>5, Deleted
  <2>3. claim' = NoClaim /\ UNCHANGED <<accepted, cancelled, mailbox>>
    BY <1>5 DEF StartTurn
  <2>4. Claimed' = {}
    BY <1>2, <2>3 DEF Claimed, NoClaim
  <2> QED
    BY <1>1, <2>1, <2>2, <2>3, <2>4 DEF Consumes, WrittenOnce
<1>6. CASE FlushMailbox
  <2>1. Consumed' = Consumed \union Elems(mailbox)
    BY <1>1, <1>6, FlushRuns
  <2>2. UNCHANGED <<nextTurn, nextStep, claim, accepted, cancelled>> /\ mailbox' = <<>>
    BY <1>6 DEF FlushMailbox, ghosts
  <2>3. Claimed' = {}
    <3>1. Claimed = {}
      BY <1>1, <1>6, NothingClaimed DEF FlushMailbox, Running
    <3> QED
      BY <2>2, <3>1 DEF Claimed
  <2> QED
    BY <1>1, <1>2, <2>1, <2>2, <2>3 DEF Consumes, WrittenOnce, Pending
<1>7. CASE Boot \/ Settle
  <2>1. Pending' = Pending \ Consumed
    BY <1>1, <1>7, Shrunk DEF Boot, Settle, ReconcileConsumed
  <2> QED
    BY <1>7, <2>1 DEF Boot, Settle, ghosts, KeepsFates, Consumed, Claimed
<1>8. CASE Waits
  <2>1. UNCHANGED <<nextTurn, nextStep, users, accepted, cancelled>>
    BY <1>8 DEF Waits
  <2>2. Elems(mailbox') \subseteq Elems(mailbox)
    BY <1>2, <1>8 DEF Waits
  <2>3. Claimed' \subseteq Claimed \union Pending
    <3>1. CASE claim' = claim
      BY <3>1 DEF Claimed
    <3>2. CASE claim' = NoClaim
      BY <1>2, <3>2 DEF Claimed, NoClaim
    <3>3. CASE claim' = PrepareClaim
      <4>1. nextTurn \in Seq(Messages)
        BY <1>1 DEF TypeOK
      <4>2. nextTurn # <<>> => Elems(<<Head(nextTurn)>>) \subseteq Elems(nextTurn)
        BY <4>1 DEF Elems
      <4> QED
        BY <1>2, <3>3, <4>2 DEF Claimed, PrepareClaim, Pending
    <3> QED
      BY <1>8, <3>1, <3>2, <3>3 DEF Waits
  <2> QED
    BY <2>1, <2>2, <2>3 DEF KeepsFates, Consumed, Pending
<1> QED
  BY <1>3, <1>4, <1>5, <1>6, <1>7, <1>8, WaitSteps DEF Next, WorkerStep, DriverMoves, HostStep

LEMMA LedgerKeeps ==
    SteersOrAsks /\ LedgerInv /\ [Next]_vars /\ (WithdrawsWaiting \/ UNCHANGED vars) => LedgerInv'
<1> SUFFICES ASSUME SteersOrAsks, LedgerInv, [Next]_vars, WithdrawsWaiting \/ UNCHANGED vars
             PROVE  LedgerInv'
  OBVIOUS
<1>1. InboxInv /\ InboxInv'
  BY LossesStep DEF LedgerInv
<1>2. WithdrawsWaiting
  BY DEF WithdrawsWaiting, vars, ghosts
<1>3. /\ cancelled \subseteq accepted /\ Claimed \subseteq accepted
      /\ Elems(mailbox) \subseteq accepted /\ Consumed \subseteq accepted
  BY <1>1 DEF InboxInv, DriverInv, TypeOK, WrittenOnce
<1>4. (\E m \in Messages : Accepts(m) \/ Withdraws(m))
        \/ Consumes(Claimed) \/ Consumes(Elems(mailbox)) \/ KeepsFates
  BY <1>1, FateSteps
<1>5. (cancelled \cap (Pending \union Claimed \union Elems(mailbox) \union Consumed) = {})'
  <2>1. ASSUME NEW m \in Messages, Accepts(m)
        PROVE  (cancelled \cap (Pending \union Claimed \union Elems(mailbox) \union Consumed) = {})'
    BY <1>3, <2>1 DEF Accepts, LedgerInv
  <2>2. ASSUME NEW m \in Messages, Withdraws(m)
        PROVE  (cancelled \cap (Pending \union Claimed \union Elems(mailbox) \union Consumed) = {})'
    <3>1. m \notin Claimed \union Elems(mailbox) \union Consumed
      BY <1>2, <2>2 DEF Withdraws, WithdrawsWaiting, LedgerInv
    <3> QED
      BY <2>2, <3>1 DEF Withdraws, LedgerInv
  <2>3. CASE Consumes(Claimed) \/ Consumes(Elems(mailbox))
    BY <2>3 DEF Consumes, LedgerInv
  <2>4. CASE KeepsFates
    BY <2>4 DEF KeepsFates, LedgerInv
  <2> QED
    BY <1>4, <2>1, <2>2, <2>3, <2>4
<1> QED
  BY <1>1, <1>5 DEF LedgerInv

\* While no withdrawal ran, an input's place is told by what was promised and
\* written.
Place(m) ==
    IF m \in Consumed THEN "consumed" ELSE IF m \in cancelled THEN "cancelled"
    ELSE IF m \in accepted THEN "pending" ELSE "new"

LEMMA Places ==
    ASSUME LedgerInv
    PROVE  \A m : FateOf(m) = Place(m)
<1>1. InboxInv /\ Zombies = {}
  BY DEF LedgerInv, Zombies
<1>2. Lost = {}
  <2>1. IsFiniteSet(Lost) /\ Cardinality(Lost) <= Cardinality(Zombies)
    BY <1>1, FS_Difference DEF InboxInv, LossesKept, Lost
  <2>2. Cardinality(Lost) \in Nat /\ Cardinality(Zombies) = 0
    BY <1>1, <2>1, FS_EmptySet, FS_CardinalityType
  <2>3. Cardinality(Lost) = 0
    BY <2>1, <2>2
  <2> QED
    BY <2>1, <2>3, FS_EmptySet
<1>3. Pending \subseteq accepted
  BY <1>1 DEF InboxInv, DriverInv
<1>4. ASSUME NEW m PROVE FateOf(m) = Place(m)
  <2>1. /\ IsFiniteSet(Taken(m)) /\ Cardinality(Taken(m)) <= 1
        /\ Taken(m) # {} <=> m \in Consumed
    BY <1>1, TakenOnce
  <2>2. ~ (Cardinality(Taken(m)) > 1)
    <3>1. Cardinality(Taken(m)) \in Nat
      BY <2>1, FS_CardinalityType
    <3> QED
      BY <2>1, <3>1
  <2>3. m \in Consumed => m \notin cancelled
    BY <1>1 DEF Zombies
  <2>4. m \in accepted => m \in Pending \/ m \in Consumed \/ m \in cancelled
    BY <1>2 DEF Lost
  <2> QED
    BY <1>3, <2>1, <2>2, <2>3, <2>4 DEF FateOf, Place
<1> QED
  BY <1>4

LEMMA LedgerSteps ==
    ASSUME LedgerInv, LedgerInv', [Next]_vars, WithdrawsWaiting \/ UNCHANGED vars
    PROVE  [Ledger!LedgerNext]_([m \in Messages |-> FateOf(m)])
<1> DEFINE f == [m \in Messages |-> Place(m)]
<1>1. [m \in Messages |-> FateOf(m)] = f
  BY Places
<1>2. [m \in Messages |-> FateOf(m)]' = f'
  <2>1. (\A m : FateOf(m) = Place(m))'
    BY Places, PTL
  <2> QED
    BY <2>1
<1>3. InboxInv
  BY DEF LedgerInv
<1>4. /\ Consumed \subseteq accepted /\ cancelled \subseteq accepted
      /\ accepted \subseteq Messages /\ Pending \subseteq accepted
      /\ Claimed \subseteq accepted /\ Elems(mailbox) \subseteq accepted
      /\ cancelled \cap (Pending \union Claimed \union Elems(mailbox) \union Consumed) = {}
  BY <1>3 DEF InboxInv, DriverInv, TypeOK, WrittenOnce, LedgerInv
<1>5. WithdrawsWaiting
  BY DEF WithdrawsWaiting, vars, ghosts
<1>6. ASSUME NEW m \in Messages, Accepts(m)
      PROVE  f[m] = "new" /\ f' = [f EXCEPT ![m] = "pending"]
  BY <1>4, <1>6 DEF Accepts, Place
<1>7. ASSUME NEW m \in Messages, Withdraws(m)
      PROVE  f[m] = "pending" /\ f' = [f EXCEPT ![m] = "cancelled"]
  <2>1. m \notin Consumed /\ m \notin cancelled /\ m \in accepted
    BY <1>4, <1>5, <1>7 DEF Withdraws, WithdrawsWaiting
  <2> QED
    BY <1>7, <2>1 DEF Withdraws, Place
<1>8. ASSUME NEW B, Consumes(B)
      PROVE  /\ B \in SUBSET Messages /\ \A m \in B : f[m] = "pending"
             /\ f' = [m \in Messages |-> IF m \in B THEN "consumed" ELSE f[m]]
  <2>1. B \subseteq accepted /\ B \cap cancelled = {} /\ B \cap Consumed = {}
    BY <1>4, <1>8 DEF Consumes
  <2> QED
    BY <1>4, <1>8, <2>1 DEF Consumes, Place
<1>9. ASSUME NEW B, Consumes(B)
      PROVE  [Ledger!LedgerNext]_([m \in Messages |-> FateOf(m)])
  <2>1. CASE B = {}
    BY <1>1, <1>2, <1>8, <1>9, <2>1
  <2>2. CASE B # {}
    BY <1>1, <1>2, <1>8, <1>9, <2>2 DEF Ledger!LedgerNext, Ledger!Consume
  <2> QED
    BY <2>1, <2>2
<1>10. CASE KeepsFates
  <2>1. f' = f
    BY <1>10 DEF KeepsFates, Place
  <2> QED
    BY <1>1, <1>2, <2>1
<1>11. ASSUME NEW m \in Messages, Accepts(m) \/ Withdraws(m)
       PROVE  Ledger!LedgerNext
  BY <1>1, <1>2, <1>6, <1>7, <1>11 DEF Ledger!LedgerNext, Ledger!Accept, Ledger!Withdraw
<1> QED
  BY <1>3, <1>9, <1>10, <1>11, FateSteps

\* The inbox, the driver and the engine's first append implement the ledger, in
\* which an input waits until one turn takes it or the host withdraws it, across
\* crashes, live steering and reconciliation, as long as the host withdraws only
\* inputs that wait.  (remove_pending_input does not check that, and a withdrawal
\* that races a claim does break the ledger.)
THEOREM InboxImplementsLedger ==
    SteersOrAsks => (Spec /\ [][WithdrawsWaiting]_vars => Ledger!LedgerSpec)
<1> SUFFICES ASSUME SteersOrAsks
             PROVE  Spec /\ [][WithdrawsWaiting]_vars => Ledger!LedgerSpec
  OBVIOUS
<1>1. Init => LedgerInv /\ Ledger!LedgerInit
  <2> SUFFICES ASSUME Init PROVE LedgerInv /\ Ledger!LedgerInit
    OBVIOUS
  <2>1. LedgerInv
    BY LossesStart DEF Init, LedgerInv
  <2>2. Consumed = {} /\ cancelled = {} /\ accepted = {}
    BY DEF Init, Consumed
  <2>3. \A m : FateOf(m) = "new"
    BY <2>1, <2>2, Places DEF Place
  <2> QED
    BY <2>1, <2>3 DEF Ledger!LedgerInit
<1>2. LedgerInv /\ [Next]_vars /\ [WithdrawsWaiting]_vars => LedgerInv'
  BY LedgerKeeps
<1>3. LedgerInv /\ LedgerInv' /\ [Next]_vars /\ [WithdrawsWaiting]_vars
        => [Ledger!LedgerNext]_([m \in Messages |-> FateOf(m)])
  BY LedgerSteps
<1> QED
  BY <1>1, <1>2, <1>3, PTL DEF Spec, Ledger!LedgerSpec

(***************************************************************************)
(* One writer per agent, for any processes, requests and process ends: the *)
(* lease follows whoever refers to the activation.                         *)
(***************************************************************************)

USE SupervisorAssumption DEF SupervisorAssumption

\* The map's lock is held by the handlers that are between its look and the
\* publication, each by itself.
LockHeld ==
    \A r \in Requests : request[r] \in {"inside", "opening"} <=> handles[HostOf[r]] = r

\* While a handler opens the activation nothing else refers to it, and the
\* shutdown cannot pass the lock that the handler holds.
OpensAlone ==
    \A r \in Requests : request[r] = "opening" =>
        /\ lease = HostOf[r] /\ stage[HostOf[r]] \in {"open", "drain"}
        /\ ~mapped[HostOf[r]] /\ task[HostOf[r]] \notin Live
        /\ \A s \in Requests : HostOf[s] = HostOf[r] => request[s] # "holds"

\* Any reference keeps the lease.
ReferredHolds == \A h \in Hosts : Referred(h) => lease = h

\* Before it is drained, the map has every worker; afterwards it is empty.
Mapped ==
    \A h \in Hosts :
        /\ closed[h] <=> stage[h] # "open"
        /\ stage[h] \in {"open", "drain"} /\ task[h] \in Live => mapped[h]
        /\ stage[h] \in {"wait", "over"} => ~mapped[h]
        /\ stage[h] = "over" => task[h] \notin Live

\* The engine runs under a worker that drives or cancels it, unless that worker
\* was aborted, which only a shutdown does, at its end.
EngineDriven ==
    \A h \in Hosts :
        /\ engine[h] /\ h \notin forced => task[h] \in {"drives", "cancels"}
        /\ h \in forced => stage[h] = "over"

SuperInv ==
    /\ SuperTypeOK
    /\ LockHeld /\ OpensAlone /\ ReferredHolds /\ Mapped /\ EngineDriven

--------------------------------------------------------------------------------
(* Each part is inductive *)

LEMMA RequestKeeps ==
    ASSUME SuperInv, NEW r \in Requests,
           Check(r) \/ LockMap(r) \/ Enter(r) \/ Publish(r) \/ Goes(r)
    PROVE  SuperInv'
<1> USE DEF SuperInv, SuperTypeOK, LockHeld, OpensAlone, ReferredHolds, Referred, Mapped,
            EngineDriven, Moves, Live
<1>1. CASE Check(r)
  BY <1>1 DEF Check
<1>2. CASE LockMap(r)
  BY <1>2 DEF LockMap
<1>3. CASE Enter(r)
  BY <1>3 DEF Enter, MayStillStart, UnlockMap
<1>4. CASE Publish(r)
  BY <1>4 DEF Publish, UnlockMap
<1>5. CASE Goes(r)
  BY <1>5 DEF Goes
<1> QED
  BY <1>1, <1>2, <1>3, <1>4, <1>5

LEMMA HostKeeps ==
    ASSUME SuperInv, NEW h \in Hosts,
           \/ Release(h) \/ Drive(h) \/ EngineEnds(h) \/ WorkerFails(h)
           \/ HearsShutdown(h) \/ Close(h) \/ Drain(h) \/ Stopped(h)
           \/ Abort(h) \/ Exit(h)
    PROVE  SuperInv'
<1> USE DEF SuperInv, SuperTypeOK, LockHeld, OpensAlone, ReferredHolds, Referred, Mapped,
            EngineDriven, Live
<1>1. CASE Release(h)
  BY <1>1 DEF Release
<1>2. CASE Drive(h)
  BY <1>2 DEF Drive
<1>3. CASE EngineEnds(h)
  BY <1>3 DEF EngineEnds
<1>4. CASE WorkerFails(h)
  BY <1>4 DEF WorkerFails
<1>5. CASE HearsShutdown(h)
  BY <1>5 DEF HearsShutdown
<1>6. CASE Close(h)
  BY <1>6 DEF Close
<1>7. CASE Drain(h)
  BY <1>7 DEF Drain
<1>8. CASE Stopped(h)
  BY <1>8 DEF Stopped
<1>9. CASE Abort(h)
  BY <1>9 DEF Abort
<1>10. CASE Exit(h)
  BY <1>10 DEF Exit
<1> QED
  BY <1>1, <1>2, <1>3, <1>4, <1>5, <1>6, <1>7, <1>8, <1>9, <1>10

\* One writer at a time and none after a shutdown (lease.rs and the supervisor
\* in driver.rs): whatever still writes for an agent holds the lease, except the
\* engine of a worker whose shutdown was forced.
THEOREM OneWriter == SuperSpec => []SingleWriter
<1>1. SuperInit => SuperInv
  BY DEF SuperInit, SuperInv, SuperTypeOK, LockHeld, OpensAlone, ReferredHolds, Referred,
         Mapped, EngineDriven, Live
<1>2. SuperInv /\ [SuperNext]_superVars => SuperInv'
  <2> SUFFICES ASSUME SuperInv, [SuperNext]_superVars
               PROVE  SuperInv'
    OBVIOUS
  <2>1. CASE UNCHANGED superVars
    BY <2>1 DEF superVars, SuperInv, SuperTypeOK, LockHeld, OpensAlone, ReferredHolds, Referred,
                Mapped, EngineDriven
  <2> QED
    BY <2>1, RequestKeeps, HostKeeps DEF SuperNext
<1>3. SuperInv => SingleWriter
  BY DEF SuperInv, SingleWriter, WritersHoldUnlessForced, ShutdownIsFinal, Writes,
         ReferredHolds, Referred, Mapped, EngineDriven, Live
<1> QED
  BY <1>1, <1>2, <1>3, PTL DEF SuperSpec

HIDE SupervisorAssumption DEF SupervisorAssumption

(***************************************************************************)
(* A model round, for any calls of a reply, retries, frames and failures:  *)
(* a completed round holds one reply, and the log holds of it what the     *)
(* consumer was given, once.                                               *)
(***************************************************************************)

USE RoundAssumption DEF RoundAssumption

\* What a piece belongs to: the text, as call 0, or a call's arguments.
Slots  == Calls \union {NoCall}
Morsel == Nat \X Slots \X Nat
Parts  == [k : {"text", "added", "args", "item", "alive", "done", "error"}, c : Slots, p : Seq(Morsel)]
Heard  == [k : {"text", "args", "done", "error"}, c : Slots, p : Seq(Morsel)]

RoundTypeOK ==
    /\ protocol \in {"chat", "responses"}
    /\ meant \in [text : Seq(Morsel), args : [Calls -> Seq(Morsel)]]
    /\ wire \in Seq(Parts)
    /\ line \in {"open", "said", "eof", "broken"}
    /\ seen \subseteq Slots
    /\ ready \in Seq(Heard) /\ Len(ready) \in {0, 1}
    /\ at \in {"off", "send", "read", "retry", "fail", "over"}
    /\ attempt \in Nat /\ sawDelta \in BOOLEAN
    /\ text \in Seq(Morsel) /\ args \in [Calls -> Seq(Morsel)]
    /\ result \in {"none", "completed", "interrupted", "stopped", "failed", "overflow"}
    /\ chunks \in Seq(Morsel) /\ held \in Seq(Morsel) /\ emitted \in Seq(Morsel)
    /\ behind \in BOOLEAN

Got(c) == IF c = NoCall THEN text ELSE args[c]
Meant(c) == IF c = NoCall THEN meant.text ELSE meant.args[c]

\* A round under way has no outcome; it starts an attempt only with nothing
\* heard, and is behind the log only when it fails.
RoundRuns ==
    /\ at \in {"send", "read", "retry"} => result = "none"
    /\ at \in {"send", "retry"} => ~sawDelta
    /\ result = "completed" => at \in {"over", "off"}
    /\ behind => at \in {"fail", "off"}
    /\ ~sawDelta => /\ text = <<>> /\ \A c \in Calls : args[c] = <<>>
                    /\ chunks = <<>> /\ held = <<>> /\ emitted = <<>>

\* The log and what is held for it are what was given to the consumer, but
\* for a piece whose batch could not be written.
LogTold ==
    /\ ~behind /\ at \notin {"fail", "off"} => emitted = chunks \o held
    /\ ~behind => IsPrefix(emitted, chunks \o held)
    /\ behind => emitted = chunks
Told == IF behind THEN chunks ELSE chunks \o held
ToldOnce ==
    /\ IsInjective(Told)
    /\ \A i \in DOMAIN Told : Told[i][1] = attempt

\* Pieces of a slot come in order, each once.
InOrder(seq, c) == \A k \in 1 .. Len(seq) : seq[k] = <<attempt, c, k>>
\* A frame gives a piece if the slot is its own and the item is not a repetition.
Carries(f, c, n) == f.c = c /\ (f.k \in {"text", "args"} \/ (f.k = "item" /\ n = 0))
\* What the engine has of a slot before the i-th frame of the wire.
Counts(c, g) ==
    /\ g \in [0 .. Len(wire) -> Nat]
    /\ g[0] = Len(Got(c)) + (IF ready # <<>> /\ ready[1].c = c THEN Len(ready[1].p) ELSE 0)
    /\ \A i \in 1 .. Len(wire) :
          IF Carries(wire[i], c, g[i - 1])
          THEN wire[i].p = <<<<attempt, c, g[i - 1] + 1>>>> /\ g[i] = g[i - 1] + 1
          ELSE g[i] = g[i - 1]
    /\ line \in {"open", "said"} => g[Len(wire)] = Len(Meant(c))
    /\ c # NoCall => (c \in seen <=> g[0] > 0)
Counted(c) == \E g \in [0 .. Len(wire) -> Nat] : Counts(c, g)

\* The frames of an attempt: of which slot, and nothing after the last one.
Framed ==
    /\ \A i \in 1 .. Len(wire) :
          /\ wire[i].k \in {"added", "args", "item"} => wire[i].c \in Calls
          /\ wire[i].k \in {"text", "alive", "done", "error"} => wire[i].c = NoCall
          /\ wire[i].k \in {"added", "alive", "done", "error"} => wire[i].p = <<>>
          /\ wire[i].k = "done" => i = Len(wire) /\ line = "said"
    /\ ready # <<>> =>
          /\ ready[1].k \in {"text", "alive", "done", "error"} => ready[1].c = NoCall
          /\ ready[1].k = "args" => ready[1].c \in Calls
          /\ ready[1].k \in {"done", "error"} => ready[1].p = <<>>
          /\ ready[1].p = <<>> \/ ready[1].p = <<<<attempt, ready[1].c, Len(Got(ready[1].c)) + 1>>>>
          /\ ready[1].k = "done" => wire = <<>> /\ line = "said"

\* While a reply is read, what is taken, on its way and meant fit each other.
Reading ==
    at = "read" =>
        /\ Framed
        /\ \A c \in Slots : InOrder(Got(c), c) /\ InOrder(Meant(c), c) /\ Counted(c)
        /\ \A i \in DOMAIN Told : \E c \in Slots, k \in Nat :
              Told[i] = <<attempt, c, k>> /\ k <= Len(Got(c))

RoundInv == RoundTypeOK /\ RoundRuns /\ LogTold /\ ToldOnce /\ Reading /\ OneReply

LEMMA RoundStart == RoundInit => RoundInv
<1> SUFFICES ASSUME RoundInit PROVE RoundInv
  OBVIOUS
<1>1. RoundTypeOK
  <2>1. <<>> \in Seq(Morsel) /\ <<>> \in Seq(Parts) /\ <<>> \in Seq(Heard) /\ Len(<<>>) = 0
    OBVIOUS
  <2>2. [c \in Calls |-> <<>>] \in [Calls -> Seq(Morsel)]
    OBVIOUS
  <2>3. meant \in [text : Seq(Morsel), args : [Calls -> Seq(Morsel)]]
    BY <2>1, <2>2 DEF RoundInit, NoContent
  <2> QED
    BY <2>1, <2>2, <2>3 DEF RoundInit, RoundTypeOK
<1>2. RoundRuns /\ LogTold /\ OneReply
  BY DEF RoundInit, RoundRuns, LogTold, OneReply, IsPrefix
<1>3. ToldOnce
  BY DEF RoundInit, ToldOnce, Told, IsInjective
<1>4. Reading
  BY DEF RoundInit, Reading
<1> QED
  BY <1>1, <1>2, <1>3, <1>4 DEF RoundInv

\* What the adapter makes of a frame: at most one event.
LEMMA EventsOf ==
    ASSUME NEW f \in Parts
    PROVE  /\ f.k = "text" => Events(f) = <<Delta("text", NoCall, f.p)>>
           /\ f.k = "added" => Events(f) = <<Delta("args", f.c, <<>>)>>
           /\ f.k = "args" => Events(f) = <<Delta("args", f.c, f.p)>>
           /\ f.k = "item" => Events(f) = IF f.c \notin seen THEN <<Delta("args", f.c, f.p)>> ELSE <<>>
           /\ f.k = "alive" => Events(f) = <<>>
           /\ f.k \in {"done", "error"} => Events(f) = <<Delta(f.k, NoCall, <<>>)>>
<1>1. CASE f.k = "text"
  BY <1>1, Zenon DEF Events
<1>2. CASE f.k = "added"
  BY <1>2, Zenon DEF Events
<1>3. CASE f.k = "args"
  BY <1>3, Zenon DEF Events
<1>4. CASE f.k = "item"
  BY <1>4, Zenon DEF Events, Unheard
<1>5. CASE f.k = "done"
  BY <1>5, Zenon DEF Events
<1>6. CASE f.k = "error"
  BY <1>6, Zenon DEF Events
<1>7. CASE f.k = "alive"
  BY <1>7, Zenon DEF Events
<1> QED
  BY <1>1, <1>2, <1>3, <1>4, <1>5, <1>6, <1>7 DEF Parts

LEMMA EventsAreHeard ==
    ASSUME NEW f \in Parts
    PROVE  Events(f) \in Seq(Heard) /\ Len(Events(f)) \in {0, 1}
<1>1. \A k \in {"text", "args", "done", "error"}, c \in Slots, p \in Seq(Morsel) :
          Delta(k, c, p) \in Heard
  BY DEF Delta, Heard
<1>2. f.c \in Slots /\ f.p \in Seq(Morsel) /\ NoCall \in Slots /\ <<>> \in Seq(Morsel)
  BY DEF Parts, Slots
<1>3. \A e \in Heard : <<e>> \in Seq(Heard) /\ Len(<<e>>) \in {0, 1}
  OBVIOUS
<1>4. <<>> \in Seq(Heard) /\ Len(<<>>) \in {0, 1}
  OBVIOUS
<1> QED
  BY <1>1, <1>2, <1>3, <1>4, EventsOf DEF Parts

\* The log and what was told of it, by what a step does to the journal.
LEMMA JournalStays ==
    ASSUME LogTold, ToldOnce, UNCHANGED <<chunks, held, behind, emitted, attempt>>,
           at \in {"fail", "off"} => at' \in {"fail", "off"}
    PROVE  LogTold' /\ ToldOnce'
BY DEF LogTold, ToldOnce, Told

LEMMA JournalWritten ==
    ASSUME RoundTypeOK, LogTold, ToldOnce, NEW mark, Write(mark), UNCHANGED <<emitted, attempt>>,
           at \in {"fail", "off"} => at' \in {"fail", "off"}
    PROVE  /\ LogTold' /\ ToldOnce'
           /\ chunks' \in Seq(Morsel) /\ held' = <<>> /\ behind' = behind
<1>1. /\ ~behind /\ chunks' = chunks \o held /\ held' = <<>> /\ behind' = behind
      /\ chunks' \in Seq(Morsel) /\ chunks' \o held' = chunks \o held
  BY DEF Write, InStep, RoundTypeOK
<1>2. LogTold'
  BY <1>1 DEF LogTold
<1>3. ToldOnce'
  BY <1>1 DEF ToldOnce, Told
<1> QED
  BY <1>1, <1>2, <1>3

LEMMA JournalNotWritten ==
    ASSUME RoundTypeOK, LogTold, ToldOnce, NEW mark, WriteFails(mark),
           UNCHANGED <<emitted, attempt>>,
           ~behind, at \notin {"fail", "off"}, at' = "fail"
    PROVE  /\ LogTold' /\ ToldOnce'
           /\ chunks' \in Seq(Morsel) /\ held' = held /\ behind' \in BOOLEAN
<1>1. CASE UNCHANGED journal
  BY <1>1 DEF LogTold, ToldOnce, Told, journal, RoundTypeOK
<1>2. CASE behind' = TRUE /\ chunks' = chunks \o held /\ UNCHANGED held
  <2>1. chunks' \in Seq(Morsel)
    BY <1>2 DEF RoundTypeOK
  <2>2. LogTold'
    BY <1>2 DEF LogTold
  <2>3. ToldOnce'
    BY <1>2 DEF ToldOnce, Told
  <2> QED
    BY <1>2, <2>1, <2>2, <2>3
<1> QED
  BY <1>1, <1>2 DEF WriteFails

--------------------------------------------------------------------------------
(* Steps that end the reading of a reply, or are not about one. *)

\* A round that goes on with what it has: nothing it holds changes.
LEMMA RoundStays ==
    ASSUME RoundInv, UNCHANGED <<protocol, meant, seen, attempt, sawDelta, text, args, journal, emitted>>,
           at' \in {"off", "send", "retry", "fail", "over"},
           at \in {"fail", "off"} => at' \in {"fail", "off"},
           at' \in {"send", "retry"} => ~sawDelta,
           at' \in {"send", "retry"} => result' = "none",
           result' \in {"none", "interrupted", "stopped", "failed", "overflow"},
           wire' \in Seq(Parts), line' \in {"open", "said", "eof", "broken"},
           ready' \in Seq(Heard), Len(ready') \in {0, 1}
    PROVE  RoundInv'
<1>1. RoundTypeOK'
  BY DEF RoundInv, RoundTypeOK, journal
<1>2. LogTold' /\ ToldOnce'
  BY JournalStays DEF RoundInv, journal
<1>3. RoundRuns'
  BY DEF RoundInv, RoundRuns, journal
<1>4. Reading'
  BY DEF Reading
<1>5. OneReply'
  BY DEF OneReply
<1> QED
  BY <1>1, <1>2, <1>3, <1>4, <1>5 DEF RoundInv

LEMMA SendFailsKeeps == ASSUME RoundInv, SendFails PROVE RoundInv'
<1>1. /\ at = "send" /\ UNCHANGED <<protocol, meant, wire, line, seen, ready, attempt, sawDelta,
                                    text, args, journal, emitted>>
  BY DEF SendFails, server
<1>2. at' \in {"retry", "fail", "over"} /\ result' \in {result, "failed", "overflow"}
      /\ (at' = "retry" => result' = result)
  BY DEF SendFails, Failed, Fails
<1>3. ~sawDelta /\ result = "none"
  BY <1>1 DEF RoundInv, RoundRuns
<1> QED
  BY <1>1, <1>2, <1>3, RoundStays DEF RoundInv, RoundTypeOK

LEMMA TakeErrorKeeps == ASSUME RoundInv, TakeError PROVE RoundInv'
<1>1. /\ at = "read" /\ UNCHANGED <<protocol, meant, wire, line, seen, attempt, sawDelta,
                                    text, args, journal, emitted>>
  BY DEF TakeError, server
<1>2. at' = "fail" /\ result' = "failed"
  BY DEF TakeError, Failed, Fails, MayRetry
<1>3. ready' \in Seq(Heard) /\ Len(ready') = 0
  BY DEF TakeError
<1> QED
  BY <1>1, <1>2, <1>3, RoundStays DEF RoundInv, RoundTypeOK

LEMMA TakeEndKeeps == ASSUME RoundInv, TakeEnd PROVE RoundInv'
<1>1. /\ at = "read" /\ UNCHANGED <<protocol, meant, wire, line, seen, ready, attempt, sawDelta,
                                    text, args, journal, emitted>>
  BY DEF TakeEnd, server
<1>2. \/ at' = "retry" /\ ~sawDelta /\ result' = result
      \/ at' = "fail" /\ result' = "failed"
  BY DEF TakeEnd, Failed, Fails, MayRetry
<1>3. result = "none"
  BY <1>1 DEF RoundInv, RoundRuns
<1> QED
  BY <1>1, <1>2, <1>3, RoundStays DEF RoundInv, RoundTypeOK

LEMMA CancelKeeps == ASSUME RoundInv, Cancel PROVE RoundInv'
<1>1. /\ at \in {"send", "read"}
      /\ UNCHANGED <<protocol, meant, wire, line, seen, ready, attempt, sawDelta,
                     text, args, journal, emitted>>
  BY DEF Cancel, server
<1>2. at' = "over" /\ result' = "stopped"
  BY DEF Cancel, Stop, Ends
<1> QED
  BY <1>1, <1>2, RoundStays DEF RoundInv, RoundTypeOK

LEMMA SteerKeeps == ASSUME RoundInv, Steer PROVE RoundInv'
<1>1. /\ at \in {"send", "read"}
      /\ UNCHANGED <<protocol, meant, wire, line, seen, ready, attempt, sawDelta, text, journal, emitted>>
      /\ at' = "over" /\ result' = "interrupted" /\ args' = [c \in Calls |-> <<>>]
  BY DEF Steer, server, Listens, Ends
<1>2. RoundTypeOK'
  BY <1>1 DEF RoundInv, RoundTypeOK, journal
<1>3. LogTold' /\ ToldOnce'
  BY <1>1, JournalStays DEF RoundInv, journal
<1>4. RoundRuns'
  BY <1>1 DEF RoundInv, RoundRuns, journal
<1>5. Reading' /\ OneReply'
  BY <1>1 DEF Reading, OneReply
<1> QED
  BY <1>2, <1>3, <1>4, <1>5 DEF RoundInv

\* Written and not written marks.
LEMMA MarkedKeeps ==
    ASSUME RoundInv, NEW mark, Write(mark),
           UNCHANGED <<protocol, meant, wire, line, seen, ready, sawDelta, text, args, emitted>>,
           at' \in {"off", "send", "retry"}, result' = result, at \notin {"send", "read"},
           at \in {"fail", "off"} => at' = "off",
           at' \in {"send", "retry"} => at = "retry",
           attempt' = attempt \/ (attempt' = attempt + 1 /\ ~sawDelta)
    PROVE  RoundInv'
<1>1. /\ ~behind /\ chunks' = chunks \o held /\ held' = <<>> /\ behind' = behind
      /\ chunks' \in Seq(Morsel) /\ chunks' \o held' = chunks \o held
  BY DEF Write, InStep, RoundInv, RoundTypeOK
<1>2. RoundTypeOK'
  BY <1>1 DEF RoundInv, RoundTypeOK
<1>3. LogTold'
  BY <1>1 DEF RoundInv, LogTold
<1>4. ToldOnce'
  <2>1. Told' = Told
    BY <1>1 DEF Told
  <2>2. ~sawDelta => Told = <<>>
    BY DEF RoundInv, RoundRuns, Told
  <2> QED
    BY <2>1, <2>2 DEF RoundInv, ToldOnce
<1>5. RoundRuns'
  <2>1. ~sawDelta => chunks' = <<>>
    BY <1>1 DEF RoundInv, RoundRuns
  <2> QED
    BY <1>1, <2>1 DEF RoundInv, RoundRuns
<1>6. Reading'
  BY DEF Reading
<1>7. OneReply'
  BY DEF OneReply, RoundInv
<1> QED
  BY <1>2, <1>3, <1>4, <1>5, <1>6, <1>7 DEF RoundInv

LEMMA ScheduleRetryKeeps == ASSUME RoundInv, ScheduleRetry PROVE RoundInv'
BY MarkedKeeps DEF ScheduleRetry, server, round
LEMMA StartRetryKeeps == ASSUME RoundInv, StartRetry PROVE RoundInv'
<1>1. at = "retry" /\ ~sawDelta
  BY DEF StartRetry, RoundInv, RoundRuns
<1> QED
  BY <1>1, MarkedKeeps DEF StartRetry, server
LEMMA SaveMessageKeeps == ASSUME RoundInv, SaveMessage PROVE RoundInv'
BY MarkedKeeps DEF SaveMessage, server, round
LEMMA FinalizeKeeps == ASSUME RoundInv, Finalize PROVE RoundInv'
<1>1. CASE Write("end")
  BY <1>1, MarkedKeeps DEF Finalize, server, round
<1>2. CASE UNCHANGED journal
  <2>1. result # "completed"
    BY DEF Finalize, RoundInv, RoundRuns, Answered
  <2>2. /\ UNCHANGED <<protocol, meant, wire, line, seen, ready, attempt, sawDelta, text, args,
                       journal, emitted>>
        /\ at' = "off" /\ result' = result
    BY <1>2 DEF Finalize, server, round
  <2> QED
    BY <2>1, <2>2, RoundStays DEF RoundInv, RoundTypeOK
<1> QED
  BY <1>1, <1>2 DEF Finalize

\* A mark that is not written fails the round.
LEMMA NotMarkedKeeps ==
    ASSUME RoundInv, NEW mark, WriteFails(mark), at \in {"retry", "over"},
           at' = "fail", result' = "failed",
           UNCHANGED <<protocol, meant, wire, line, seen, ready, attempt, sawDelta, text, args, emitted>>
    PROVE  RoundInv'
<1>1. ~behind
  BY DEF RoundInv, RoundRuns
<1>2. /\ LogTold' /\ ToldOnce'
      /\ chunks' \in Seq(Morsel) /\ held' = held /\ behind' \in BOOLEAN
  BY <1>1, JournalNotWritten DEF RoundInv
<1>3. RoundTypeOK'
  BY <1>2 DEF RoundInv, RoundTypeOK
<1>4. RoundRuns'
  <2>1. chunks' \in {chunks, chunks \o held}
    BY DEF WriteFails, journal
  <2>2. ~sawDelta => chunks' = <<>>
    BY <2>1 DEF RoundInv, RoundRuns
  <2> QED
    BY <1>2, <2>2 DEF RoundInv, RoundRuns
<1>5. Reading' /\ OneReply'
  BY DEF Reading, OneReply
<1> QED
  BY <1>2, <1>3, <1>4, <1>5 DEF RoundInv

LEMMA RetryNotWrittenKeeps == ASSUME RoundInv, RetryNotWritten PROVE RoundInv'
BY NotMarkedKeeps DEF RetryNotWritten, server, Fails
LEMMA MessageNotSavedKeeps == ASSUME RoundInv, MessageNotSaved PROVE RoundInv'
BY NotMarkedKeeps DEF MessageNotSaved, server, Fails

--------------------------------------------------------------------------------
(* Steps of a reply that is read. *)

LEMMA MeantTyped ==
    ASSUME RoundTypeOK, NEW c \in Slots
    PROVE  Got(c) \in Seq(Morsel) /\ Meant(c) \in Seq(Morsel)
BY DEF RoundTypeOK, Got, Meant, Slots

LEMMA ReadyOne ==
    ASSUME RoundTypeOK, ready # <<>>
    PROVE  Len(ready) = 1 /\ ready[1] \in Heard
BY DEF RoundTypeOK

\* A command that only changes the flow.
LEMMA FlowChanges ==
    ASSUME RoundInv, at \in {"send", "read"}, UNCHANGED <<server, seen, ready, journal, emitted>>,
           UNCHANGED <<attempt, sawDelta, text, args>>,
           (at' = at /\ result' = result) \/ (at' = "over" /\ result' = "stopped")
    PROVE  RoundInv'
<1> USE DEF server, journal
<1>1. RoundTypeOK' /\ LogTold' /\ ToldOnce'
  BY JournalStays DEF RoundInv, RoundTypeOK
<1>2. RoundRuns' /\ OneReply'
  BY DEF RoundInv, RoundRuns, OneReply
<1>3. Reading'
  <2> SUFFICES ASSUME at' = "read" PROVE Reading'
    BY DEF Reading
  <2>1. at = "read" /\ Reading
    BY DEF RoundInv
  <2>2. Framed'
    BY <2>1 DEF Reading, Framed, Got
  <2>3. \A c \in Slots : InOrder(Got(c), c)' /\ InOrder(Meant(c), c)' /\ Counted(c)'
    <3> TAKE c \in Slots
    <3>1. Got(c)' = Got(c) /\ Meant(c)' = Meant(c)
      BY DEF Got, Meant
    <3>2. \A g : Counts(c, g) => Counts(c, g)'
      BY <3>1 DEF Counts
    <3> QED
      BY <2>1, <3>1, <3>2 DEF Reading, InOrder, Counted
  <2>4. Told' = Told /\ \A c \in Slots : Got(c)' = Got(c)
    BY DEF Told, Got
  <2> QED
    BY <2>1, <2>2, <2>3, <2>4 DEF Reading
<1> QED
  BY <1>1, <1>2, <1>3 DEF RoundInv

LEMMA PauseKeeps == ASSUME RoundInv, Pause PROVE RoundInv'
BY FlowChanges DEF Pause, Listens, round
LEMMA ResumeKeeps == ASSUME RoundInv, Resume PROVE RoundInv'
BY FlowChanges DEF Resume, Listens, round
LEMMA HandleGoneKeeps == ASSUME RoundInv, HandleGone PROVE RoundInv'
<1>1. (at' = at /\ result' = result) \/ (at' = "over" /\ result' = "stopped")
  BY DEF HandleGone, GivesUp, Stop, Ends
<1> QED
  BY <1>1, FlowChanges DEF HandleGone, Listens

\* A new attempt begins with nothing taken and nothing meant.
LEMMA SendKeeps == ASSUME RoundInv, Send PROVE RoundInv'
<1>1. /\ at = "send" /\ at' = "read" /\ meant' = NoContent /\ wire' = <<>> /\ line' = "open"
      /\ seen' = {} /\ ready' = <<>>
      /\ UNCHANGED <<protocol, attempt, sawDelta, text, args, result, chunks, held, behind, emitted>>
  BY DEF Send, Connection, round, journal
<1>2. /\ text = <<>> /\ (\A c \in Calls : args[c] = <<>>)
      /\ chunks = <<>> /\ held = <<>> /\ ~behind
  BY <1>1 DEF RoundInv, RoundRuns
<1>3. RoundTypeOK'
  <2>1. <<>> \in Seq(Parts) /\ <<>> \in Seq(Heard) /\ Len(<<>>) = 0
    OBVIOUS
  <2>2. NoContent \in [text : Seq(Morsel), args : [Calls -> Seq(Morsel)]]
    BY DEF NoContent
  <2> QED
    BY <1>1, <2>1, <2>2 DEF RoundInv, RoundTypeOK
<1>4. LogTold' /\ ToldOnce'
  BY <1>1, JournalStays DEF RoundInv
<1>5. RoundRuns' /\ OneReply'
  BY <1>1 DEF RoundInv, RoundRuns, OneReply
<1>6. Reading'
  <2>1. Framed'
    BY <1>1 DEF Framed
  <2>2. ASSUME NEW c \in Slots PROVE InOrder(Got(c), c)' /\ InOrder(Meant(c), c)' /\ Counted(c)'
    <3>1. Got(c)' = <<>> /\ Meant(c)' = <<>>
      BY <1>1, <1>2 DEF Got, Meant, NoContent, Slots
    <3>2. InOrder(Got(c), c)' /\ InOrder(Meant(c), c)'
      BY <3>1 DEF InOrder
    <3> DEFINE g == [i \in 0 .. 0 |-> 0]
    <3>3. Counts(c, g)'
      BY <1>1, <3>1 DEF Counts
    <3>4. g \in [0 .. Len(wire') -> Nat]
      BY <1>1
    <3> QED
      BY <3>2, <3>3, <3>4 DEF Counted
  <2>3. Told' = <<>>
    BY <1>1, <1>2 DEF Told
  <2> QED
    BY <2>1, <2>2, <2>3 DEF Reading
<1> QED
  BY <1>3, <1>4, <1>5, <1>6 DEF RoundInv

\* The server's steps change what is meant and what is on the wire.
LEMMA ServerMoves ==
    ASSUME RoundInv, at = "read", UNCHANGED <<protocol, seen, ready, at, round, journal, emitted>>,
           meant' \in [text : Seq(Morsel), args : [Calls -> Seq(Morsel)]],
           wire' \in Seq(Parts), line' \in {"open", "said", "eof", "broken"}, Framed',
           \A c \in Slots : InOrder(Meant(c), c)' /\ Counted(c)'
    PROVE  RoundInv'
<1> USE DEF round, journal
<1>1. RoundTypeOK'
  BY DEF RoundInv, RoundTypeOK
<1>2. LogTold' /\ ToldOnce' /\ RoundRuns'
  BY JournalStays DEF RoundInv, RoundRuns
<1>3. OneReply'
  BY DEF RoundInv, RoundRuns, OneReply
<1>4. Reading'
  <2>1. Told' = Told /\ \A c \in Slots : Got(c)' = Got(c)
    BY DEF Told, Got
  <2>2. \A c \in Slots : InOrder(Got(c), c)'
    BY <2>1 DEF RoundInv, Reading, InOrder
  <2> QED
    BY <2>1, <2>2 DEF RoundInv, Reading
<1> QED
  BY <1>1, <1>2, <1>3, <1>4 DEF RoundInv

LEMMA PutKeeps ==
    ASSUME RoundInv, at = "read", UNCHANGED <<protocol, seen, ready, at, round, journal, emitted>>,
           line = "open", line' \in {"open", "said"}, NEW f \in Parts, wire' = Append(wire, f),
           f.k \in {"added", "args", "item"} => f.c \in Calls,
           f.k \in {"text", "alive", "done", "error"} => f.c = NoCall,
           f.k \in {"added", "alive", "done", "error"} => f.p = <<>>,
           f.k = "done" => line' = "said",
           meant' \in [text : Seq(Morsel), args : [Calls -> Seq(Morsel)]],
           \A c \in Slots :
               IF Carries(f, c, Len(Meant(c)))
               THEN /\ f.p = <<<<attempt, c, Len(Meant(c)) + 1>>>>
                    /\ Meant(c)' = Append(Meant(c), <<attempt, c, Len(Meant(c)) + 1>>)
               ELSE Meant(c)' = Meant(c)
    PROVE  RoundInv'
<1>1. wire' \in Seq(Parts) /\ Len(wire') = Len(wire) + 1 /\ wire'[Len(wire) + 1] = f
      /\ (\A i \in 1 .. Len(wire) : wire'[i] = wire[i]) /\ wire \in Seq(Parts)
  BY DEF RoundInv, RoundTypeOK
<1>2. Framed /\ \A c \in Slots : InOrder(Meant(c), c) /\ Counted(c)
  BY DEF RoundInv, Reading
<1>3. \A i \in 1 .. Len(wire) : wire[i].k # "done"
  BY <1>2 DEF Framed
<1>4. ready' = ready /\ (\A c \in Slots : Got(c)' = Got(c)) /\ attempt' = attempt /\ seen' = seen
  BY DEF Got, round
<1>5. Framed'
  <2>1. ready # <<>> => ready[1].k # "done" /\ ready[1].c \in Slots
    BY <1>2, ReadyOne DEF Framed, RoundInv, Heard
  <2>2. \A i \in 1 .. Len(wire') :
          /\ wire'[i].k \in {"added", "args", "item"} => wire'[i].c \in Calls
          /\ wire'[i].k \in {"text", "alive", "done", "error"} => wire'[i].c = NoCall
          /\ wire'[i].k \in {"added", "alive", "done", "error"} => wire'[i].p = <<>>
          /\ wire'[i].k = "done" => i = Len(wire') /\ line' = "said"
    BY <1>1, <1>2, <1>3 DEF Framed
  <2> QED
    BY <1>2, <1>4, <2>1, <2>2 DEF Framed
<1>6. ASSUME NEW c \in Slots PROVE InOrder(Meant(c), c)' /\ Counted(c)'
  <2>1. Meant(c) \in Seq(Morsel) /\ Len(Meant(c)) \in Nat
    BY MeantTyped DEF RoundInv
  <2>2. PICK g \in [0 .. Len(wire) -> Nat] : Counts(c, g)
    BY <1>2 DEF Counted
  <2>3. g[Len(wire)] = Len(Meant(c)) /\ Len(wire) \in Nat
    BY <1>1, <2>2 DEF Counts
  <2> DEFINE n == Len(Meant(c))
  <2> DEFINE m == IF Carries(f, c, n) THEN n + 1 ELSE n
  <2>4. Len(Meant(c)') = m /\ InOrder(Meant(c), c)'
    BY <1>2, <1>4, <2>1 DEF InOrder
  <2> DEFINE h == [i \in 0 .. Len(wire) + 1 |-> IF i <= Len(wire) THEN g[i] ELSE m]
  <2>5. h \in [0 .. Len(wire') -> Nat]
    BY <1>1, <2>1
  <2>6. \A i \in 1 .. Len(wire') :
          IF Carries(wire'[i], c, h[i - 1])
          THEN wire'[i].p = <<<<attempt, c, h[i - 1] + 1>>>> /\ h[i] = h[i - 1] + 1
          ELSE h[i] = h[i - 1]
    <3> SUFFICES ASSUME NEW i \in 1 .. Len(wire')
                 PROVE  IF Carries(wire'[i], c, h[i - 1])
                        THEN wire'[i].p = <<<<attempt, c, h[i - 1] + 1>>>> /\ h[i] = h[i - 1] + 1
                        ELSE h[i] = h[i - 1]
      OBVIOUS
    <3>1. CASE i <= Len(wire)
      <4>1. h[i - 1] = g[i - 1] /\ h[i] = g[i] /\ wire'[i] = wire[i] /\ i \in 1 .. Len(wire)
        BY <1>1, <3>1
      <4> QED
        BY <2>2, <4>1 DEF Counts
    <3>2. CASE i = Len(wire) + 1
      <4>1. h[i - 1] = n /\ h[i] = m /\ wire'[i] = f
        BY <1>1, <2>3, <3>2
      <4> QED
        BY <4>1
    <3> QED
      BY <1>1, <3>1, <3>2
  <2>7. h[0] = g[0] /\ h[Len(wire')] = m
    BY <1>1
  <2> HIDE DEF h, m, n
  <2>8. PICK a \in [0 .. Len(wire') -> Nat] : a = h
    BY <2>5
  <2>9. Counts(c, a)'
    <3>1. a[0] = Len(Got(c)') + (IF ready' # <<>> /\ ready'[1].c = c THEN Len(ready'[1].p) ELSE 0)
      BY <1>4, <2>2, <2>7, <2>8 DEF Counts
    <3>2. a[Len(wire')] = Len(Meant(c)')
      BY <2>4, <2>7, <2>8
    <3>3. c # NoCall => (c \in seen' <=> a[0] > 0)
      BY <1>4, <2>2, <2>7, <2>8 DEF Counts
    <3>4. attempt' = attempt
      BY <1>4
    <3> QED
      BY <2>6, <2>8, <3>1, <3>2, <3>3, <3>4 DEF Counts
  <2> QED
    BY <2>4, <2>8, <2>9 DEF Counted
<1> QED
  BY <1>1, <1>5, <1>6, ServerMoves

LEMMA PieceTyped ==
    ASSUME RoundTypeOK, NEW c \in Slots, NEW s \in Seq(Morsel)
    PROVE  /\ Piece(c, s) \in Morsel /\ <<Piece(c, s)>> \in Seq(Morsel)
           /\ Append(s, Piece(c, s)) \in Seq(Morsel)
BY DEF RoundTypeOK, Piece, Morsel

LEMMA MeantRecord ==
    ASSUME RoundTypeOK
    PROVE  /\ meant.text \in Seq(Morsel) /\ meant.args \in [Calls -> Seq(Morsel)]
           /\ meant = [text |-> meant.text, args |-> meant.args]
BY DEF RoundTypeOK

LEMMA SayTextKeeps == ASSUME RoundInv, SayText PROVE RoundInv'
<1>1. at = "read" /\ line = "open" /\ UNCHANGED <<protocol, line, seen, ready, at, round, journal, emitted>>
  BY DEF SayText, CanSay, ServerSays
<1> DEFINE f == Frame("text", NoCall, <<Piece(NoCall, meant.text)>>)
<1>2. wire' = Append(wire, f)
  BY DEF SayText, Put
<1>3. NoCall \in Slots /\ \A c \in Calls : c # NoCall
  BY DEF Slots, NoCall
<1>4. f \in Parts /\ f.k = "text" /\ f.c = NoCall /\ f.p = <<Piece(NoCall, meant.text)>>
  BY <1>3, PieceTyped, MeantRecord DEF RoundInv, Frame, Parts
<1>5. /\ meant' = [text |-> Append(meant.text, Piece(NoCall, meant.text)), args |-> meant.args]
      /\ meant' \in [text : Seq(Morsel), args : [Calls -> Seq(Morsel)]]
  BY <1>3, PieceTyped, MeantRecord DEF RoundInv, SayText
<1>6. ASSUME NEW c \in Slots
      PROVE  IF Carries(f, c, Len(Meant(c)))
             THEN /\ f.p = <<<<attempt, c, Len(Meant(c)) + 1>>>>
                  /\ Meant(c)' = Append(Meant(c), <<attempt, c, Len(Meant(c)) + 1>>)
             ELSE Meant(c)' = Meant(c)
  BY <1>3, <1>4, <1>5 DEF Carries, Meant, Piece
<1> HIDE DEF f
<1> QED
  BY <1>1, <1>2, <1>4, <1>5, <1>6, PutKeeps

LEMMA AnnounceKeeps == ASSUME RoundInv, NEW d \in Calls, Announce(d) PROVE RoundInv'
<1>1. at = "read" /\ line = "open" /\ UNCHANGED <<meant, protocol, line, seen, ready, at, round, journal, emitted>>
  BY DEF Announce, CanSay, ServerSays
<1> DEFINE f == Frame("added", d, <<>>)
<1>2. wire' = Append(wire, f)
  BY DEF Announce, Put
<1>4. f \in Parts /\ f.k = "added" /\ f.c \in Calls /\ f.p = <<>>
  BY DEF Frame, Parts, Slots
<1>5. meant' \in [text : Seq(Morsel), args : [Calls -> Seq(Morsel)]]
  BY <1>1 DEF RoundInv, RoundTypeOK
<1>6. \A c \in Slots : ~Carries(f, c, Len(Meant(c))) /\ Meant(c)' = Meant(c)
  BY <1>1, <1>4 DEF Carries, Meant
<1> HIDE DEF f
<1> QED
  BY <1>1, <1>2, <1>4, <1>5, <1>6, PutKeeps

LEMMA SayArgumentsKeeps == ASSUME RoundInv, NEW d \in Calls, SayArguments(d) PROVE RoundInv'
<1>1. at = "read" /\ line = "open" /\ UNCHANGED <<protocol, line, seen, ready, at, round, journal, emitted>>
  BY DEF SayArguments, CanSay, ServerSays
<1> DEFINE f == Frame("args", d, <<Piece(d, meant.args[d])>>)
<1>2. wire' = Append(wire, f)
  BY DEF SayArguments, Put
<1>3. d \in Slots /\ \A c \in Calls : c # NoCall
  BY DEF Slots, NoCall
<1>4. f \in Parts /\ f.k = "args" /\ f.c = d /\ f.p = <<Piece(d, meant.args[d])>>
  BY <1>3, PieceTyped, MeantRecord DEF RoundInv, Frame, Parts
<1>5. /\ meant'.text = meant.text
      /\ meant'.args = [meant.args EXCEPT ![d] = Append(@, Piece(d, @))]
      /\ meant' \in [text : Seq(Morsel), args : [Calls -> Seq(Morsel)]]
  BY <1>3, PieceTyped, MeantRecord DEF RoundInv, SayArguments
<1>6. ASSUME NEW c \in Slots
      PROVE  IF Carries(f, c, Len(Meant(c)))
             THEN /\ f.p = <<<<attempt, c, Len(Meant(c)) + 1>>>>
                  /\ Meant(c)' = Append(Meant(c), <<attempt, c, Len(Meant(c)) + 1>>)
             ELSE Meant(c)' = Meant(c)
  BY <1>3, <1>4, <1>5, MeantRecord DEF RoundInv, Carries, Meant, Piece, Slots
<1> HIDE DEF f
<1> QED
  BY <1>1, <1>2, <1>4, <1>5, <1>6, PutKeeps

LEMMA FinishItemKeeps == ASSUME RoundInv, NEW d \in Calls, FinishItem(d) PROVE RoundInv'
<1>1. at = "read" /\ line = "open" /\ UNCHANGED <<protocol, line, seen, ready, at, round, journal, emitted>>
  BY DEF FinishItem, CanSay, ServerSays
<1> DEFINE whole == IF meant.args[d] = <<>> THEN <<Piece(d, <<>>)>> ELSE meant.args[d]
<1> DEFINE f == Frame("item", d, whole)
<1>2. wire' = Append(wire, f)
  BY DEF FinishItem, Put
<1>3. d \in Slots /\ (\A c \in Calls : c # NoCall) /\ <<>> \in Seq(Morsel)
  BY DEF Slots, NoCall
<1>4. whole \in Seq(Morsel)
  BY <1>3, PieceTyped, MeantRecord DEF RoundInv
<1>5. f \in Parts /\ f.k = "item" /\ f.c = d /\ f.p = whole
  BY <1>3, <1>4 DEF Frame, Parts
<1>6. /\ meant'.text = meant.text
      /\ meant'.args = [meant.args EXCEPT ![d] = whole]
      /\ meant' \in [text : Seq(Morsel), args : [Calls -> Seq(Morsel)]]
  BY <1>3, <1>4, MeantRecord DEF RoundInv, FinishItem
<1>7. ASSUME NEW c \in Slots
      PROVE  IF Carries(f, c, Len(Meant(c)))
             THEN /\ f.p = <<<<attempt, c, Len(Meant(c)) + 1>>>>
                  /\ Meant(c)' = Append(Meant(c), <<attempt, c, Len(Meant(c)) + 1>>)
             ELSE Meant(c)' = Meant(c)
  <2>1. CASE c = d
    <3>1. Meant(c) = meant.args[d] /\ Meant(c)' = whole /\ meant.args[d] \in Seq(Morsel)
      BY <1>3, <1>6, <2>1, MeantRecord DEF RoundInv, Meant
    <3>2. CASE meant.args[d] = <<>>
      <4>1. Len(Meant(c)) = 0 /\ whole = <<<<attempt, c, 1>>>>
        BY <2>1, <3>1, <3>2 DEF Piece
      <4>2. Append(Meant(c), <<attempt, c, 1>>) = <<<<attempt, c, 1>>>>
        BY <3>1, <3>2
      <4>3. f.p = <<<<attempt, c, Len(Meant(c)) + 1>>>>
        BY <1>5, <4>1
      <4>4. Meant(c)' = Append(Meant(c), <<attempt, c, Len(Meant(c)) + 1>>)
        <5>1. Len(Meant(c)) + 1 = 1
          BY <4>1
        <5>2. Meant(c)' = <<<<attempt, c, 1>>>>
          BY <3>1, <4>1
        <5> QED
          BY <4>2, <5>1, <5>2
      <4>5. Carries(f, c, Len(Meant(c)))
        BY <1>5, <2>1, <4>1 DEF Carries
      <4> QED
        BY <4>3, <4>4, <4>5
    <3>3. CASE meant.args[d] # <<>>
      <4>1. Len(Meant(c)) # 0 /\ whole = Meant(c)
        BY <3>1, <3>3
      <4> QED
        BY <1>5, <3>1, <4>1 DEF Carries
    <3> QED
      BY <3>2, <3>3
  <2>2. CASE c # d
    BY <1>3, <1>5, <1>6, <2>2, MeantRecord DEF RoundInv, Carries, Meant, Slots
  <2> QED
    BY <2>1, <2>2
<1> HIDE DEF f
<1> QED
  BY <1>1, <1>2, <1>3, <1>5, <1>6, <1>7, PutKeeps

\* The end of a reply, an error and a chunk without an event give nothing.
LEMMA ClosingKeeps ==
    ASSUME RoundInv, at = "read", line = "open", NEW k \in {"alive", "done", "error"},
           wire' = Append(wire, Frame(k, NoCall, <<>>)),
           line' = IF k = "alive" THEN "open" ELSE "said",
           UNCHANGED <<protocol, meant, seen, ready, at, round, journal, emitted>>
    PROVE  RoundInv'
<1> DEFINE f == Frame(k, NoCall, <<>>)
<1>1. f \in Parts /\ f.k = k /\ f.c = NoCall /\ f.p = <<>>
  BY DEF Frame, Parts, Slots
<1>2. meant' \in [text : Seq(Morsel), args : [Calls -> Seq(Morsel)]]
  BY DEF RoundInv, RoundTypeOK
<1>3. \A c \in Slots : ~Carries(f, c, Len(Meant(c))) /\ Meant(c)' = Meant(c)
  BY <1>1 DEF Carries, Meant
<1>4. wire' = Append(wire, f)
  OBVIOUS
<1> HIDE DEF f
<1> QED
  BY <1>1, <1>2, <1>3, <1>4, PutKeeps

LEMMA KeepAliveKeeps == ASSUME RoundInv, KeepAlive PROVE RoundInv'
BY ClosingKeeps DEF KeepAlive, Put, ServerSays
LEMMA SayDoneKeeps == ASSUME RoundInv, SayDone PROVE RoundInv'
BY ClosingKeeps DEF SayDone, Put
LEMMA SayErrorKeeps == ASSUME RoundInv, SayError PROVE RoundInv'
BY ClosingKeeps DEF SayError, Put

\* A connection that ends loses the end of what was on its way.
LEMMA LosingKeeps ==
    ASSUME RoundInv, at = "read", line = "open", line' \in {"eof", "broken"},
           UNCHANGED <<protocol, meant, seen, ready, at, round, journal, emitted>>,
           wire' \in Seq(Parts), Len(wire') <= Len(wire),
           \A i \in 1 .. Len(wire') :
               wire'[i] = wire[i] \/ (i = Len(wire') /\ wire'[i] = Frame("error", NoCall, <<>>))
    PROVE  RoundInv'
<1>1. Framed /\ \A c \in Slots : InOrder(Meant(c), c) /\ Counted(c)
  BY DEF RoundInv, Reading
<1>2. ready' = ready /\ (\A c \in Slots : Got(c)' = Got(c) /\ Meant(c)' = Meant(c))
      /\ attempt' = attempt /\ seen' = seen
  BY DEF Got, Meant, round
<1>3. wire \in Seq(Parts) /\ Len(wire) \in Nat /\ Len(wire') \in Nat
  BY DEF RoundInv, RoundTypeOK
<1>4. \A i \in 1 .. Len(wire') : wire[i].k # "done"
  BY <1>1, <1>3 DEF Framed
<1>5. Frame("error", NoCall, <<>>).k = "error" /\ Frame("error", NoCall, <<>>).c = NoCall
      /\ Frame("error", NoCall, <<>>).p = <<>>
  BY DEF Frame
<1>6. Framed'
  <2>1. ready # <<>> => ready[1].k # "done" /\ ready[1].c \in Slots
    BY <1>1, ReadyOne DEF Framed, RoundInv, Heard
  <2>2. \A i \in 1 .. Len(wire') :
          /\ wire'[i].k \in {"added", "args", "item"} => wire'[i].c \in Calls
          /\ wire'[i].k \in {"text", "alive", "done", "error"} => wire'[i].c = NoCall
          /\ wire'[i].k \in {"added", "alive", "done", "error"} => wire'[i].p = <<>>
          /\ wire'[i].k # "done"
    BY <1>1, <1>3, <1>4, <1>5 DEF Framed
  <2> QED
    BY <1>1, <1>2, <2>1, <2>2 DEF Framed
<1>7. ASSUME NEW c \in Slots PROVE InOrder(Meant(c), c)' /\ Counted(c)'
  <2>1. InOrder(Meant(c), c)'
    BY <1>1, <1>2 DEF InOrder
  <2>2. PICK g \in [0 .. Len(wire) -> Nat] : Counts(c, g)
    BY <1>1 DEF Counted
  <2> DEFINE w == wire'
  <2>3. PICK a \in [0 .. Len(wire') -> Nat] :
           a = [i \in 0 .. Len(wire') |-> IF i > 0 /\ wire'[i] # wire[i] THEN g[i - 1] ELSE g[i]]
    <3>1. \A i \in 0 .. Len(wire') : g[i] \in Nat /\ (i > 0 => g[i - 1] \in Nat)
      <4> TAKE i \in 0 .. Len(wire')
      <4>1. i \in 0 .. Len(wire) /\ (i > 0 => i - 1 \in 0 .. Len(wire))
        BY <1>3
      <4> QED
        BY <2>2, <4>1
    <3> QED
      BY <3>1
  <2>4. \A i \in 1 .. Len(wire') :
          IF Carries(wire'[i], c, a[i - 1])
          THEN wire'[i].p = <<<<attempt, c, a[i - 1] + 1>>>> /\ a[i] = a[i - 1] + 1
          ELSE a[i] = a[i - 1]
    <3> SUFFICES ASSUME NEW i \in 1 .. Len(wire')
                 PROVE  IF Carries(wire'[i], c, a[i - 1])
                        THEN wire'[i].p = <<<<attempt, c, a[i - 1] + 1>>>> /\ a[i] = a[i - 1] + 1
                        ELSE a[i] = a[i - 1]
      OBVIOUS
    <3>1. i - 1 \in 0 .. Len(wire') /\ i \in 0 .. Len(wire') /\ i \in 1 .. Len(wire)
      BY <1>3
    <3>2. a[i - 1] = g[i - 1]
      <4>1. i - 1 > 0 => wire'[i - 1] = wire[i - 1]
        BY <1>3
      <4> QED
        BY <2>3, <3>1, <4>1
    <3>3. CASE wire'[i] = wire[i]
      <4>1. a[i] = g[i]
        BY <2>3, <3>1, <3>3
      <4> QED
        BY <2>2, <3>1, <3>2, <3>3, <4>1 DEF Counts
    <3>4. CASE wire'[i] # wire[i]
      <4>1. a[i] = g[i - 1] /\ wire'[i].k = "error"
        BY <1>5, <2>3, <3>1, <3>4
      <4> QED
        BY <3>2, <4>1 DEF Carries
    <3> QED
      BY <3>3, <3>4
  <2>5. a[0] = g[0]
    BY <1>3, <2>3
  <2>6. Counts(c, a)'
    <3>1. a[0] = Len(Got(c)') + (IF ready' # <<>> /\ ready'[1].c = c THEN Len(ready'[1].p) ELSE 0)
      BY <1>2, <2>2, <2>5 DEF Counts
    <3>2. c # NoCall => (c \in seen' <=> a[0] > 0)
      BY <1>2, <2>2, <2>5 DEF Counts
    <3> QED
      BY <1>2, <2>3, <2>4, <3>1, <3>2 DEF Counts
  <2> QED
    BY <2>1, <2>3, <2>6 DEF Counted
<1> QED
  BY <1>6, <1>7, ServerMoves DEF RoundInv, RoundTypeOK

LEMMA HangUpKeeps == ASSUME RoundInv, HangUp PROVE RoundInv'
<1>1. /\ at = "read" /\ line = "open" /\ line' = "eof" /\ wire \in Seq(Parts)
      /\ UNCHANGED <<protocol, meant, seen, ready, at, round, journal, emitted>>
  BY DEF HangUp, RoundInv, RoundTypeOK
<1>2. CASE UNCHANGED wire
  BY <1>1, <1>2, LosingKeeps
<1>3. CASE wire # <<>> /\ wire' = [wire EXCEPT ![Len(wire)] = Frame("error", NoCall, <<>>)]
  <2>1. Frame("error", NoCall, <<>>) \in Parts
    BY DEF Frame, Parts, Slots
  <2>2. wire' \in Seq(Parts) /\ Len(wire') = Len(wire)
    BY <1>1, <1>3, <2>1
  <2>3. \A i \in 1 .. Len(wire') :
           wire'[i] = wire[i] \/ (i = Len(wire') /\ wire'[i] = Frame("error", NoCall, <<>>))
    <3> TAKE i \in 1 .. Len(wire')
    <3>1. i \in DOMAIN wire
      BY <1>1, <2>2
    <3>2. wire'[i] = IF i = Len(wire) THEN Frame("error", NoCall, <<>>) ELSE wire[i]
      BY <1>3, <3>1
    <3> QED
      BY <2>2, <3>2
  <2> QED
    BY <1>1, <2>2, <2>3, LosingKeeps
<1> QED
  BY <1>2, <1>3 DEF HangUp

LEMMA BreakKeeps == ASSUME RoundInv, Break PROVE RoundInv'
<1>1. /\ at = "read" /\ line = "open" /\ line' = "broken" /\ wire \in Seq(Parts)
      /\ UNCHANGED <<protocol, meant, seen, ready, at, round, journal, emitted>>
  BY DEF Break, RoundInv, RoundTypeOK
<1>2. PICK n \in 0 .. Len(wire) : wire' = SubSeq(wire, 1, n)
  BY DEF Break
<1>3. wire' \in Seq(Parts) /\ Len(wire') = n /\ \A i \in 1 .. Len(wire') : wire'[i] = wire[i]
  BY <1>1, <1>2
<1> QED
  BY <1>1, <1>3, LosingKeeps

\* The engine gives up a stream on which nothing is left.
LEMMA SilenceKeeps == ASSUME RoundInv, Silence PROVE RoundInv'
<1>1. /\ at = "read" /\ wire = <<>> /\ ready = <<>> /\ line' = "broken"
      /\ UNCHANGED <<protocol, meant, wire, seen, ready, at, round, journal, emitted>>
  BY DEF Silence
<1>2. Reading
  BY DEF RoundInv
<1>3. Framed'
  BY <1>1 DEF Framed
<1>4. ASSUME NEW c \in Slots PROVE InOrder(Meant(c), c)' /\ Counted(c)'
  <2>1. Got(c)' = Got(c) /\ Meant(c)' = Meant(c) /\ attempt' = attempt
    BY <1>1 DEF Got, Meant, round
  <2>2. \A g : Counts(c, g) => Counts(c, g)'
    BY <1>1, <2>1 DEF Counts
  <2> QED
    BY <1>1, <1>2, <2>1, <2>2 DEF Reading, InOrder, Counted
<1> QED
  BY <1>1, <1>3, <1>4, ServerMoves DEF RoundInv, RoundTypeOK

--------------------------------------------------------------------------------
(* The adapter and the engine take what comes. *)

LEMMA FeedKeeps == ASSUME RoundInv, Feed PROVE RoundInv'
<1>1. /\ at = "read" /\ wire # <<>> /\ ready = <<>> /\ ready' = Events(wire[1]) /\ wire' = Tail(wire)
      /\ seen' = IF wire[1].k \in {"args", "item"} THEN seen \union {wire[1].c} ELSE seen
      /\ UNCHANGED <<protocol, meant, line, at, attempt, sawDelta, text, args, result,
                     chunks, held, behind, emitted>>
  <2>1. wire \in Seq(Parts) /\ wire # <<>>
    BY DEF Feed, RoundInv, RoundTypeOK
  <2>2. Head(wire) = wire[1]
    BY <2>1
  <2> QED
    BY <2>2 DEF Feed, round, journal
<1>2. wire \in Seq(Parts) /\ Len(wire) \in Nat \ {0} /\ wire[1] \in Parts
  BY <1>1 DEF RoundInv, RoundTypeOK
<1>3. wire' \in Seq(Parts) /\ Len(wire') = Len(wire) - 1 /\ \A i \in 1 .. Len(wire') : wire'[i] = wire[i + 1]
  BY <1>1, <1>2
<1>4. Framed /\ \A c \in Slots : InOrder(Got(c), c) /\ InOrder(Meant(c), c) /\ Counted(c)
  BY <1>1 DEF RoundInv, Reading
<1>5. (\A c \in Slots : Got(c)' = Got(c) /\ Meant(c)' = Meant(c)) /\ Told' = Told
  BY <1>1 DEF Got, Meant, Told
<1> DEFINE f == wire[1]
<1>6. /\ f.k \in {"text", "added", "args", "item", "alive", "done", "error"} /\ f.c \in Slots /\ f.p \in Seq(Morsel)
      /\ f.k \in {"added", "args", "item"} => f.c \in Calls
      /\ f.k \in {"text", "alive", "done", "error"} => f.c = NoCall
      /\ f.k \in {"added", "alive", "done", "error"} => f.p = <<>>
      /\ f.k = "done" => wire' = <<>> /\ line = "said"
  <2>1. f.k = "done" => Len(wire') = 0 /\ line = "said"
    BY <1>2, <1>3, <1>4 DEF Framed
  <2> QED
    BY <1>2, <1>3, <1>4, <2>1 DEF Framed, Parts
\* What the event gives to its slot.
<1>7. ASSUME NEW c \in Slots, NEW n \in Nat, c # NoCall => (c \in seen <=> n > 0)
      PROVE  /\ Carries(f, c, n) => ready' # <<>> /\ ready'[1].c = c /\ ready'[1].p = f.p
             /\ ~Carries(f, c, n) => (ready' # <<>> /\ ready'[1].c = c => ready'[1].p = <<>>)
  <2>1. CASE f.k = "item"
    <3>1. f.c # NoCall
      BY <1>6, <2>1 DEF NoCall
    <3>2. ready' = IF f.c \notin seen THEN <<Delta("args", f.c, f.p)>> ELSE <<>>
      BY <1>1, <1>2, <2>1, EventsOf
    <3> QED
      BY <1>7, <2>1, <3>1, <3>2 DEF Carries, Delta
  <2>2. CASE f.k # "item"
    <3>1. /\ f.k = "text" => ready' = <<Delta("text", NoCall, f.p)>>
          /\ f.k = "added" => ready' = <<Delta("args", f.c, <<>>)>>
          /\ f.k = "args" => ready' = <<Delta("args", f.c, f.p)>>
          /\ f.k = "alive" => ready' = <<>>
          /\ f.k \in {"done", "error"} => ready' = <<Delta(f.k, NoCall, <<>>)>>
      BY <1>1, <1>2, EventsOf
    <3> QED
      BY <1>6, <2>2, <3>1 DEF Carries, Delta
  <2> QED
    BY <2>1, <2>2
<1>8. RoundTypeOK'
  <2>1. ready' \in Seq(Heard) /\ Len(ready') \in {0, 1}
    BY <1>1, <1>2, EventsAreHeard
  <2>2. seen' \subseteq Slots
    BY <1>1, <1>6 DEF RoundInv, RoundTypeOK
  <2> QED
    BY <1>1, <1>3, <2>1, <2>2 DEF RoundInv, RoundTypeOK
<1>9. LogTold' /\ ToldOnce' /\ RoundRuns' /\ OneReply'
  BY <1>1, JournalStays DEF RoundInv, RoundRuns, OneReply
<1>10. ASSUME NEW c \in Slots
       PROVE  /\ InOrder(Got(c), c)' /\ InOrder(Meant(c), c)' /\ Counted(c)'
              /\ ready' # <<>> /\ ready'[1].c = c
                    => ready'[1].p = <<>> \/ ready'[1].p = <<<<attempt, c, Len(Got(c)) + 1>>>>
  <2>1. InOrder(Got(c), c)' /\ InOrder(Meant(c), c)'
    BY <1>1, <1>4, <1>5 DEF InOrder
  <2>2. PICK g \in [0 .. Len(wire) -> Nat] : Counts(c, g)
    BY <1>4 DEF Counted
  <2>3. g[0] = Len(Got(c)) /\ g[0] \in Nat /\ g[1] \in Nat
    BY <1>1, <1>2, <2>2 DEF Counts
  <2>4. /\ Carries(f, c, g[0]) => f.p = <<<<attempt, c, g[0] + 1>>>> /\ g[1] = g[0] + 1
        /\ ~Carries(f, c, g[0]) => g[1] = g[0]
    <3>1. 1 \in 1 .. Len(wire) /\ 1 - 1 = 0
      BY <1>2
    <3> QED
      BY <2>2, <3>1 DEF Counts
  <2>5. c # NoCall => (c \in seen <=> g[0] > 0)
    BY <2>2 DEF Counts
  <2>6. /\ Carries(f, c, g[0]) => ready' # <<>> /\ ready'[1].c = c /\ ready'[1].p = f.p
        /\ ~Carries(f, c, g[0]) => (ready' # <<>> /\ ready'[1].c = c => ready'[1].p = <<>>)
    BY <1>7, <2>3, <2>5
  <2>7. PICK a \in [0 .. Len(wire') -> Nat] : a = [i \in 0 .. Len(wire') |-> g[i + 1]]
    <3>1. \A i \in 0 .. Len(wire') : g[i + 1] \in Nat
      <4> TAKE i \in 0 .. Len(wire')
      <4>1. i + 1 \in 0 .. Len(wire)
        BY <1>2, <1>3
      <4> QED
        BY <2>2, <4>1
    <3> QED
      BY <3>1
  <2>8. \A i \in 1 .. Len(wire') :
          IF Carries(wire'[i], c, a[i - 1])
          THEN wire'[i].p = <<<<attempt, c, a[i - 1] + 1>>>> /\ a[i] = a[i - 1] + 1
          ELSE a[i] = a[i - 1]
    <3> TAKE i \in 1 .. Len(wire')
    <3>1. i - 1 \in 0 .. Len(wire') /\ i \in 0 .. Len(wire') /\ i + 1 \in 1 .. Len(wire) /\ (i + 1) - 1 = i
      BY <1>2, <1>3
    <3>2. a[i - 1] = g[i] /\ a[i] = g[i + 1] /\ wire'[i] = wire[i + 1]
      BY <1>3, <2>7, <3>1
    <3> QED
      BY <2>2, <3>1, <3>2 DEF Counts
  <2>9. a[0] = g[1] /\ a[Len(wire')] = g[Len(wire)]
    BY <1>2, <1>3, <2>7
  <2>10. Counts(c, a)'
    <3>1. a[0] = Len(Got(c)') + (IF ready' # <<>> /\ ready'[1].c = c THEN Len(ready'[1].p) ELSE 0)
      <4>1. CASE Carries(f, c, g[0])
        <5>0. \A x : Len(<<x>>) = 1
          OBVIOUS
        <5>1. Len(f.p) = 1
          <6> HIDE DEF f
          <6> QED
            BY <2>4, <4>1, <5>0
        <5>2. a[0] = Len(Got(c)) + 1 /\ ready' # <<>> /\ ready'[1].c = c /\ Len(ready'[1].p) = 1
          BY <2>3, <2>4, <2>6, <2>9, <4>1, <5>1
        <5> QED
          BY <1>5, <5>2
      <4>2. CASE ~Carries(f, c, g[0])
        <5>1. a[0] = Len(Got(c)) /\ Len(Got(c)) \in Nat
          BY <2>3, <2>4, <2>9, <4>2
        <5>2. ready' # <<>> /\ ready'[1].c = c => Len(ready'[1].p) = 0
          BY <2>6, <4>2
        <5> QED
          BY <1>5, <5>1, <5>2
      <4> QED
        BY <4>1, <4>2
    <3>2. c # NoCall => (c \in seen' <=> a[0] > 0)
      BY <1>1, <1>6, <2>3, <2>4, <2>5, <2>9 DEF Carries
    <3>3. line' \in {"open", "said"} => a[Len(wire')] = Len(Meant(c)')
      BY <1>1, <1>5, <2>2, <2>9 DEF Counts
    <3> QED
      BY <1>1, <2>7, <2>8, <3>1, <3>2, <3>3 DEF Counts
  <2>11. ready' # <<>> /\ ready'[1].c = c
            => ready'[1].p = <<>> \/ ready'[1].p = <<<<attempt, c, Len(Got(c)) + 1>>>>
    BY <2>3, <2>4, <2>6
  <2> QED
    BY <2>1, <2>7, <2>10, <2>11 DEF Counted
<1>11. Framed'
  <2>1. \A i \in 1 .. Len(wire') :
          /\ wire'[i].k \in {"added", "args", "item"} => wire'[i].c \in Calls
          /\ wire'[i].k \in {"text", "alive", "done", "error"} => wire'[i].c = NoCall
          /\ wire'[i].k \in {"added", "alive", "done", "error"} => wire'[i].p = <<>>
          /\ wire'[i].k = "done" => i = Len(wire') /\ line' = "said"
    <3> TAKE i \in 1 .. Len(wire')
    <3>1. i + 1 \in 1 .. Len(wire) /\ wire'[i] = wire[i + 1]
      BY <1>2, <1>3
    <3>2. /\ wire[i + 1].k \in {"added", "args", "item"} => wire[i + 1].c \in Calls
          /\ wire[i + 1].k \in {"text", "alive", "done", "error"} => wire[i + 1].c = NoCall
          /\ wire[i + 1].k \in {"added", "alive", "done", "error"} => wire[i + 1].p = <<>>
          /\ wire[i + 1].k = "done" => i + 1 = Len(wire) /\ line = "said"
      BY <1>4, <3>1 DEF Framed
    <3>3. i + 1 = Len(wire) => i = Len(wire')
      BY <1>2, <1>3
    <3>4. line' = line
      BY <1>1
    <3> QED
      BY <3>1, <3>2, <3>3, <3>4
  <2>2. ASSUME ready' # <<>>
        PROVE  /\ ready'[1].k \in {"text", "alive", "done", "error"} => ready'[1].c = NoCall
               /\ ready'[1].k = "args" => ready'[1].c \in Calls
               /\ ready'[1].k \in {"done", "error"} => ready'[1].p = <<>>
               /\ ready'[1].k = "done" => wire' = <<>> /\ line' = "said"
               /\ ready'[1].c \in Slots
    <3>1. /\ f.k = "text" => ready' = <<Delta("text", NoCall, f.p)>>
          /\ f.k = "added" => ready' = <<Delta("args", f.c, <<>>)>>
          /\ f.k = "args" => ready' = <<Delta("args", f.c, f.p)>>
          /\ f.k = "item" => ready' = <<Delta("args", f.c, f.p)>>
          /\ f.k = "alive" => ready' = <<>>
          /\ f.k \in {"done", "error"} => ready' = <<Delta(f.k, NoCall, <<>>)>>
      BY <1>1, <1>2, <2>2, EventsOf
    <3>2. NoCall \in Slots
      BY DEF Slots
    <3>3. CASE f.k \in {"added", "args", "item"}
      <4>1. ready'[1].k = "args" /\ ready'[1].c = f.c
        BY <3>1, <3>3 DEF Delta
      <4> QED
        BY <1>6, <3>3, <4>1
    <3>4. CASE f.k = "text"
      <4>1. ready'[1].k = "text" /\ ready'[1].c = NoCall
        BY <3>1, <3>4 DEF Delta
      <4> QED
        BY <3>2, <4>1
    <3>5. CASE f.k \in {"done", "error"}
      <4>1. ready'[1].k = f.k /\ ready'[1].c = NoCall /\ ready'[1].p = <<>>
        BY <3>1, <3>5 DEF Delta
      <4> QED
        BY <1>1, <1>6, <3>2, <3>5, <4>1
    <3>6. f.k # "alive"
      BY <2>2, <3>1
    <3> QED
      BY <1>6, <3>3, <3>4, <3>5, <3>6
  <2>3. \A c \in Slots : Got(c)' = Got(c)
    BY <1>5
  <2>4. ready' # <<>> => \/ ready'[1].p = <<>>
                         \/ ready'[1].p = <<<<attempt', ready'[1].c, Len(Got(ready[1].c)') + 1>>>>
    BY <1>1, <1>10, <2>2, <2>3
  <2> QED
    BY <2>1, <2>2, <2>4 DEF Framed
<1>12. Reading'
  <2>1. \A i \in DOMAIN Told : \E c \in Slots, k \in Nat : Told[i] = <<attempt, c, k>> /\ k <= Len(Got(c))
    BY <1>1 DEF RoundInv, Reading
  <2> QED
    BY <1>1, <1>5, <1>10, <1>11, <2>1 DEF Reading
<1> QED
  BY <1>8, <1>9, <1>12 DEF RoundInv

LEMMA SameFunction ==
    ASSUME NEW S, NEW T, NEW f \in [S -> T], NEW g \in [S -> T], \A x \in S : f[x] = g[x]
    PROVE  f = g
OBVIOUS

LEMMA TakeDoneKeeps == ASSUME RoundInv, TakeDone PROVE RoundInv'
<1>1. /\ at = "read" /\ ready # <<>> /\ ready[1].k = "done" /\ at' = "over" /\ result' = "completed"
      /\ ready' = <<>>
      /\ UNCHANGED <<protocol, meant, wire, line, seen, attempt, sawDelta, text, args,
                     chunks, held, behind, emitted>>
  BY DEF TakeDone, Ends, server, journal
<1>2. Framed /\ \A c \in Slots : InOrder(Got(c), c) /\ InOrder(Meant(c), c) /\ Counted(c)
  BY <1>1 DEF RoundInv, Reading
<1>3. wire = <<>> /\ line = "said" /\ ready[1].p = <<>>
  BY <1>1, <1>2 DEF Framed
<1>4. ASSUME NEW c \in Slots PROVE Got(c) = Meant(c)
  <2>1. PICK g \in [0 .. Len(wire) -> Nat] : Counts(c, g)
    BY <1>2 DEF Counted
  <2>2. g[0] = Len(Meant(c)) /\ g[0] = Len(Got(c))
    BY <1>3, <2>1, MeantTyped DEF Counts, RoundInv
  <2>3. \A k \in 1 .. Len(Got(c)) : Got(c)[k] = Meant(c)[k]
    BY <1>2, <2>2 DEF InOrder
  <2>4. PICK s, t : s = Got(c) /\ t = Meant(c)
    OBVIOUS
  <2>5. s \in Seq(Morsel) /\ t \in Seq(Morsel)
    BY <2>4, MeantTyped DEF RoundInv
  <2>6. Len(s) = Len(t) /\ \A k \in 1 .. Len(s) : s[k] = t[k]
    BY <2>2, <2>3, <2>4
  <2>7. s = t
    BY <2>5, <2>6, SeqEqual
  <2> QED
    BY <2>4, <2>7
<1>5. text = meant.text /\ args = meant.args
  <2>1. NoCall \in Slots /\ \A c \in Calls : c \in Slots /\ c # NoCall
    BY DEF Slots, NoCall
  <2>2. text = meant.text
    BY <1>4, <2>1 DEF Got, Meant
  <2>3. \A c \in Calls : args[c] = meant.args[c]
    BY <1>4, <2>1 DEF Got, Meant
  <2>4. args \in [Calls -> Seq(Morsel)] /\ meant.args \in [Calls -> Seq(Morsel)]
    BY MeantRecord DEF RoundInv, RoundTypeOK
  <2>5. args = meant.args
    <3>1. \A f, g \in [Calls -> Seq(Morsel)] : (\A c \in Calls : f[c] = g[c]) => f = g
      BY SameFunction
    <3> QED
      BY <2>3, <2>4, <3>1, Zenon
  <2> QED
    BY <2>2, <2>5
<1>6. RoundTypeOK'
  BY <1>1 DEF RoundInv, RoundTypeOK
<1>7. LogTold' /\ ToldOnce'
  BY <1>1, JournalStays DEF RoundInv
<1>8. RoundRuns' /\ Reading' /\ OneReply'
  BY <1>1, <1>5 DEF RoundInv, RoundRuns, Reading, OneReply
<1> QED
  BY <1>6, <1>7, <1>8 DEF RoundInv

LEMMA Joined ==
    ASSUME NEW s \in Seq(Morsel), NEW u \in Seq(Morsel), NEW v \in Seq(Morsel)
    PROVE  /\ s \o u \in Seq(Morsel) /\ s \o (u \o v) \in Seq(Morsel)
           /\ s \o (u \o v) = (s \o u) \o v
<1>1. s \o u \in Seq(Morsel) /\ s \o (u \o v) \in Seq(Morsel)
  OBVIOUS
<1> QED
  BY <1>1, ConcatAssociative

\* A piece goes to the text or to its call, to the log's side and to the consumer.
LEMMA TakeDeltaKeeps == ASSUME RoundInv, TakeDelta PROVE RoundInv'
<1>1. /\ RoundTypeOK /\ RoundRuns /\ LogTold /\ ToldOnce
      /\ at = "read" /\ ready # <<>> /\ ready[1] \in Heard /\ ready[1].k \in {"text", "args"}
      /\ ready' = <<>> /\ sawDelta' = TRUE
      /\ UNCHANGED <<protocol, meant, wire, line, seen, attempt>>
  <2>1. ready \in Seq(Heard) /\ Len(ready) = 1 /\ ready[1] \in Heard /\ ready # <<>>
    BY ReadyOne DEF TakeDelta, RoundInv, RoundTypeOK
  <2>2. Head(ready) = ready[1] /\ Tail(ready) \in Seq(Heard) /\ Len(Tail(ready)) = 0
    BY <2>1
  <2>3. Tail(ready) = <<>>
    BY <2>2, EmptySeq
  <2> QED
    BY <2>1, <2>2, <2>3 DEF TakeDelta, RoundInv, server
<1> DEFINE e == ready[1]
<1>2. /\ Framed /\ Reading /\ result = "none" /\ ~behind
      /\ \A c \in Slots : InOrder(Got(c), c) /\ InOrder(Meant(c), c) /\ Counted(c)
  BY <1>1 DEF RoundInv, Reading, RoundRuns
<1>3. /\ e.c \in Slots /\ e.p \in Seq(Morsel)
      /\ e.k = "text" => e.c = NoCall
      /\ e.k = "args" => e.c \in Calls
      /\ e.p = <<>> \/ e.p = <<<<attempt, e.c, Len(Got(e.c)) + 1>>>>
  BY <1>1, <1>2 DEF Framed, Heard
<1>4. Head(ready) = e /\ Pieced(e) = e.p
  BY <1>1 DEF Pieced, RoundTypeOK
<1>5. /\ text' = IF e.k = "text" THEN text \o e.p ELSE text
      /\ args' = IF e.k = "args" THEN [args EXCEPT ![e.c] = @ \o e.p] ELSE args
      /\ Hold(held \o e.p, e)
  BY <1>4 DEF TakeDelta
<1>6. /\ behind' = behind /\ (at' = at \/ at' = "fail")
      /\ at' = at => result' = result /\ emitted' = emitted \o e.p
      /\ at' = "fail" => result' = "failed" /\ emitted' = emitted /\ chunks' = chunks
      /\ \/ held' = held \o e.p /\ chunks' = chunks
         \/ held' = <<>> /\ chunks' = chunks \o (held \o e.p)
  BY <1>1, <1>4, <1>5 DEF Hold, Fails
<1> HIDE DEF e
<1>7. /\ chunks \in Seq(Morsel) /\ held \in Seq(Morsel) /\ emitted \in Seq(Morsel)
      /\ text \in Seq(Morsel) /\ args \in [Calls -> Seq(Morsel)]
  BY <1>1 DEF RoundTypeOK
<1>8. /\ chunks' \in Seq(Morsel) /\ held' \in Seq(Morsel) /\ emitted' \in Seq(Morsel)
      /\ chunks' \o held' = (chunks \o held) \o e.p
  <2>1. /\ held \o e.p \in Seq(Morsel) /\ emitted \o e.p \in Seq(Morsel)
        /\ chunks \o (held \o e.p) = (chunks \o held) \o e.p
        /\ chunks \o (held \o e.p) \in Seq(Morsel)
    <3>1. e.p \in Seq(Morsel)
      BY <1>3
    <3>2. emitted \o e.p \in Seq(Morsel)
      BY <1>7, <3>1, Joined
    <3>3. held \o e.p \in Seq(Morsel)
      BY <1>7, <3>1, Joined
    <3>4. /\ chunks \o (held \o e.p) = (chunks \o held) \o e.p
          /\ chunks \o (held \o e.p) \in Seq(Morsel)
      <4>1. \A u, v, w \in Seq(Morsel) : u \o (v \o w) = (u \o v) \o w /\ u \o (v \o w) \in Seq(Morsel)
        BY Joined
      <4> QED
        BY <1>7, <3>1, <4>1
    <3> QED
      BY <3>2, <3>3, <3>4
  <2>2. \A s \in Seq(Morsel) : s \o <<>> = s
    OBVIOUS
  <2>3. emitted' \in Seq(Morsel)
    BY <1>6, <1>7, <2>1
  <2>4. CASE held' = held \o e.p /\ chunks' = chunks
    BY <1>7, <2>1, <2>3, <2>4
  <2>5. CASE held' = <<>> /\ chunks' = chunks \o (held \o e.p)
    BY <1>7, <2>1, <2>2, <2>3, <2>5
  <2> QED
    BY <1>6, <2>4, <2>5
<1>9. text' \in Seq(Morsel) /\ args' \in [Calls -> Seq(Morsel)]
  <2>1. text' \in Seq(Morsel)
    BY <1>3, <1>5, <1>7
  <2>2. e.k = "args" => args[e.c] \o e.p \in Seq(Morsel)
    <3>1. e.k = "args" => args[e.c] \in Seq(Morsel)
      BY <1>3, <1>7
    <3>2. e.p \in Seq(Morsel)
      BY <1>3
    <3> QED
      BY <3>1, <3>2, Joined
  <2>3. args' \in [Calls -> Seq(Morsel)]
    BY <1>5, <1>7, <2>2
  <2> QED
    BY <2>1, <2>3
<1>10. RoundTypeOK'
  <2>1. ready' \in Seq(Heard) /\ Len(ready') = 0
    BY <1>1
  <2> QED
    BY <1>1, <1>2, <1>6, <1>8, <1>9, <2>1 DEF RoundTypeOK
<1>11. RoundRuns' /\ OneReply'
  BY <1>1, <1>2, <1>6 DEF RoundRuns, OneReply
<1>12. LogTold'
  <2>1. emitted = chunks \o held
    BY <1>1, <1>2 DEF LogTold
  <2>2. CASE at' = at
    <3>1. emitted' = chunks' \o held'
      BY <1>6, <1>8, <2>1, <2>2
    <3>2. IsPrefix(emitted', chunks' \o held')
      BY <1>8, <3>1 DEF IsPrefix
    <3> QED
      BY <1>2, <1>6, <3>1, <3>2 DEF LogTold
  <2>3. CASE at' = "fail"
    <3>1. emitted' = emitted /\ chunks' \o held' = emitted \o e.p
      BY <1>6, <1>8, <2>1, <2>3
    <3>2. IsPrefix(emitted', chunks' \o held')
      BY <1>3, <1>7, <3>1 DEF IsPrefix
    <3> QED
      BY <1>2, <1>6, <2>3, <3>2 DEF LogTold
  <2> QED
    BY <1>6, <2>2, <2>3
<1>13. Told' = Told \o e.p /\ Told \in Seq(Morsel)
  <2>1. Told = chunks \o held /\ Told' = chunks' \o held'
    BY <1>2, <1>6 DEF Told
  <2> QED
    BY <1>7, <1>8, <2>1
<1>14. ASSUME NEW c \in Slots
       PROVE  /\ Got(c) \in Seq(Morsel)
              /\ Got(c)' = IF c = e.c THEN Got(c) \o e.p ELSE Got(c)
              /\ Meant(c)' = Meant(c)
  <2>1. \A d \in Calls : d # NoCall
    BY DEF NoCall
  <2>2. Got(c)' = IF c = e.c THEN Got(c) \o e.p ELSE Got(c)
    <3>1. CASE e.k = "text"
      BY <1>3, <1>5, <3>1 DEF Got
    <3>2. CASE e.k = "args"
      <4>1. text' = text /\ e.c # NoCall
        BY <1>3, <1>5, <2>1, <3>2
      <4>2. \A d \in Calls : args'[d] = IF d = e.c THEN args[d] \o e.p ELSE args[d]
        BY <1>3, <1>5, <1>7, <3>2
      <4> QED
        BY <4>1, <4>2 DEF Got, Slots
    <3> QED
      BY <1>1, <3>1, <3>2 DEF e
  <2> QED
    BY <1>1, <2>2, MeantTyped DEF Meant
<1>15. ASSUME NEW i \in 1 .. Len(Told)
       PROVE  \E c \in Slots, k \in Nat : Told[i] = <<attempt, c, k>> /\ k <= Len(Got(c))
  <2>1. \A j \in DOMAIN Told : \E c \in Slots, k \in Nat : Told[j] = <<attempt, c, k>> /\ k <= Len(Got(c))
    BY <1>1, <1>2 DEF Reading
  <2>2. i \in DOMAIN Told
    BY <1>13
  <2> QED
    BY <2>1, <2>2
<1>16. ToldOnce'
  <2>1. IsInjective(Told) /\ \A i \in 1 .. Len(Told) : Told[i][1] = attempt
    BY <1>1, <1>13 DEF ToldOnce
  <2>2. CASE e.p = <<>>
    <3>1. Told' = Told
      BY <1>13, <2>2
    <3> QED
      BY <1>1, <1>13, <2>1, <3>1 DEF ToldOnce
  <2>3. CASE e.p = <<<<attempt, e.c, Len(Got(e.c)) + 1>>>>
    <3> DEFINE new == <<attempt, e.c, Len(Got(e.c)) + 1>>
    <3>1. \A i \in 1 .. Len(Told) : Told[i] # new
      <4> TAKE i \in 1 .. Len(Told)
      <4>1. PICK c \in Slots, k \in Nat : Told[i] = <<attempt, c, k>> /\ k <= Len(Got(c))
        BY <1>15
      <4>2. Len(Got(e.c)) \in Nat
        BY <1>3, <1>14
      <4>3. c # e.c \/ k # Len(Got(e.c)) + 1
        BY <4>1, <4>2
      <4> QED
        BY <4>1, <4>3
    <3>2. new[1] = attempt
      OBVIOUS
    <3> HIDE DEF new
    <3>3. Len(Told') = Len(Told) + 1 /\ Told'[Len(Told) + 1] = new /\ Told' \in Seq(Morsel)
          /\ \A i \in 1 .. Len(Told) : Told'[i] = Told[i]
      BY <1>3, <1>13, <2>3 DEF new
    <3>4. IsInjective(Told')
      BY <1>13, <2>1, <3>1, <3>3 DEF IsInjective
    <3>5. \A i \in DOMAIN Told' : Told'[i][1] = attempt
      BY <1>13, <2>1, <3>2, <3>3
    <3> QED
      BY <1>1, <3>4, <3>5 DEF ToldOnce
  <2> QED
    BY <1>3, <2>2, <2>3
<1>17. Reading'
  <2>1. Framed'
    BY <1>1, <1>2 DEF Framed
  <2>2. ASSUME NEW c \in Slots
        PROVE  InOrder(Got(c), c)' /\ InOrder(Meant(c), c)' /\ Counted(c)'
    <3>1. InOrder(Meant(c), c)'
      BY <1>1, <1>2, <1>14 DEF InOrder
    <3>2. InOrder(Got(c), c)'
      <4>1. CASE c # e.c \/ e.p = <<>>
        <5>1. Got(c)' = Got(c)
          BY <1>14, <4>1
        <5> QED
          BY <1>1, <1>2, <5>1 DEF InOrder
      <4>2. CASE c = e.c /\ e.p = <<<<attempt, e.c, Len(Got(e.c)) + 1>>>>
        <5>1. Got(c)' = Append(Got(c), <<attempt, c, Len(Got(c)) + 1>>)
          BY <1>14, <4>2
        <5> QED
          BY <1>1, <1>2, <1>14, <5>1 DEF InOrder
      <4> QED
        BY <1>3, <4>1, <4>2
    <3>3. PICK g \in [0 .. Len(wire) -> Nat] : Counts(c, g)
      BY <1>2 DEF Counted
    <3>4. g[0] = Len(Got(c)')
      <4>1. g[0] = Len(Got(c)) + (IF e.c = c THEN Len(e.p) ELSE 0)
        BY <1>1, <3>3 DEF Counts, e
      <4> QED
        BY <1>3, <1>14, <4>1
    <3>5. g[0] = Len(Got(c)') + (IF ready' # <<>> /\ ready'[1].c = c THEN Len(ready'[1].p) ELSE 0)
      <4>1. Len(Got(c)') \in Nat
        BY <1>3, <1>14
      <4> QED
        BY <1>1, <3>4, <4>1
    <3>6. Counts(c, g)'
      BY <1>1, <1>14, <3>3, <3>5 DEF Counts
    <3> QED
      BY <1>1, <3>1, <3>2, <3>3, <3>6 DEF Counted
  <2>3. ASSUME NEW i \in DOMAIN Told'
        PROVE  \E c \in Slots, k \in Nat : Told'[i] = <<attempt', c, k>> /\ k <= Len(Got(c)')
    <3>1. CASE i \in 1 .. Len(Told)
      <4>1. Told'[i] = Told[i]
        BY <1>3, <1>13, <3>1
      <4>2. PICK c \in Slots, k \in Nat : Told[i] = <<attempt, c, k>> /\ k <= Len(Got(c))
        BY <1>15, <3>1
      <4>3. Len(Got(c)) <= Len(Got(c)') /\ Len(Got(c)) \in Nat /\ Len(Got(c)') \in Nat
        BY <1>3, <1>14
      <4> QED
        BY <1>1, <4>1, <4>2, <4>3
    <3>2. CASE i \notin 1 .. Len(Told)
      <4>1. e.p # <<>>
        BY <1>3, <1>13, <2>3, <3>2
      <4>2. e.p = <<<<attempt, e.c, Len(Got(e.c)) + 1>>>>
        BY <1>3, <4>1
      <4>3. Told'[i] = <<attempt, e.c, Len(Got(e.c)) + 1>>
        BY <1>3, <1>13, <2>3, <3>2, <4>2
      <4>4. PICK d \in Slots : d = e.c
        BY <1>3
      <4>5. Got(d) \in Seq(Morsel) /\ Got(d)' = Got(d) \o <<<<attempt, d, Len(Got(d)) + 1>>>>
        BY <1>14, <4>2, <4>4
      <4>6. Len(Got(d)') = Len(Got(d)) + 1 /\ Len(Got(d)) + 1 \in Nat
        BY <4>5
      <4>7. Told'[i] = <<attempt', d, Len(Got(d)) + 1>>
        BY <1>1, <4>3, <4>4
      <4> QED
        BY <4>6, <4>7
    <3> QED
      BY <3>1, <3>2
  <2> QED
    BY <2>1, <2>2, <2>3 DEF Reading
<1> QED
  BY <1>10, <1>11, <1>12, <1>16, <1>17 DEF RoundInv

LEMMA RoundStep == RoundInv /\ [RoundNext]_roundVars => RoundInv'
<1> SUFFICES ASSUME RoundInv, [RoundNext]_roundVars PROVE RoundInv'
  OBVIOUS
<1>1. CASE Serve
  BY <1>1, SayTextKeeps, KeepAliveKeeps, SayDoneKeeps, SayErrorKeeps, HangUpKeeps, BreakKeeps, AnnounceKeeps,
     SayArgumentsKeeps, FinishItemKeeps DEF Serve
<1>2. CASE EngineStep
  BY <1>2, SendKeeps, ScheduleRetryKeeps, StartRetryKeeps, FeedKeeps, TakeDeltaKeeps, TakeDoneKeeps,
     TakeErrorKeeps, SilenceKeeps, TakeEndKeeps, SaveMessageKeeps, FinalizeKeeps DEF EngineStep
<1>3. CASE Command
  BY <1>3, SteerKeeps, PauseKeeps, ResumeKeeps, CancelKeeps, HandleGoneKeeps DEF Command
<1>4. CASE SendFails \/ RetryNotWritten \/ MessageNotSaved
  BY <1>4, SendFailsKeeps, RetryNotWrittenKeeps, MessageNotSavedKeeps
<1>5. CASE UNCHANGED roundVars
  <2>1. UNCHANGED <<server, seen, ready, at, attempt, sawDelta, text, args, result, journal, emitted>>
    BY <1>5 DEF roundVars, round
  <2>2. CASE at \in {"send", "read"}
    BY <2>1, <2>2, FlowChanges
  <2>3. CASE at \notin {"send", "read"}
    <3>1. RoundTypeOK' /\ LogTold' /\ ToldOnce' /\ RoundRuns' /\ OneReply'
      BY <2>1, JournalStays DEF RoundInv, RoundTypeOK, RoundRuns, OneReply, server, journal
    <3>2. Reading'
      BY <2>1, <2>3 DEF Reading
    <3> QED
      BY <3>1, <3>2 DEF RoundInv
  <2> QED
    BY <2>2, <2>3
<1> QED
  BY <1>1, <1>2, <1>3, <1>4, <1>5 DEF RoundNext

LEMMA TwoPrefixes ==
    ASSUME NEW all \in Seq(Morsel), NEW s \in Seq(Morsel), NEW u \in Seq(Morsel),
           IsPrefix(s, all), IsPrefix(u, all)
    PROVE  IsPrefix(s, u) \/ IsPrefix(u, s)
<1>1. /\ Len(s) <= Len(all) /\ \A i \in 1 .. Len(s) : s[i] = all[i]
      /\ Len(u) <= Len(all) /\ \A i \in 1 .. Len(u) : u[i] = all[i]
  <2>1. \A v \in Seq(Morsel) : IsPrefix(v, all)
           => Len(v) <= Len(all) /\ \A i \in 1 .. Len(v) : v[i] = all[i]
    <3> TAKE v \in Seq(Morsel)
    <3> SUFFICES ASSUME IsPrefix(v, all), NEW i \in 1 .. Len(v)
                 PROVE  Len(v) <= Len(all) /\ v[i] = all[i]
      BY DEF IsPrefix
    <3>1. Len(v) <= Len(all) /\ SubSeq(v, 1, Len(v)) = SubSeq(all, 1, Len(v))
      BY DEF IsPrefix
    <3>2. SubSeq(v, 1, Len(v))[i] = v[i] /\ SubSeq(all, 1, Len(v))[i] = all[i]
      BY <3>1
    <3> QED
      BY <3>1, <3>2
  <2> QED
    BY <2>1
<1>2. CASE Len(s) <= Len(u)
  <2>1. SubSeq(s, 1, Len(s)) = SubSeq(u, 1, Len(s))
    BY <1>1, <1>2
  <2> QED
    BY <1>2, <2>1 DEF IsPrefix
<1>3. CASE Len(u) <= Len(s)
  <2>1. SubSeq(u, 1, Len(u)) = SubSeq(s, 1, Len(u))
    BY <1>1, <1>3
  <2> QED
    BY <1>3, <2>1 DEF IsPrefix
<1> QED
  BY <1>2, <1>3

LEMMA ChunksAreTold == RoundInv => ChunksOnce
<1> SUFFICES ASSUME RoundInv PROVE ChunksOnce
  OBVIOUS
<1>1. chunks \in Seq(Morsel) /\ held \in Seq(Morsel) /\ emitted \in Seq(Morsel)
  BY DEF RoundInv, RoundTypeOK
<1>2. /\ Told \in Seq(Morsel) /\ Len(chunks) <= Len(Told)
      /\ \A i \in 1 .. Len(chunks) : chunks[i] = Told[i]
  BY <1>1 DEF Told
<1>3. IsInjective(Told) /\ \A i \in 1 .. Len(Told) : Told[i][1] = attempt
  BY <1>2 DEF RoundInv, ToldOnce
<1>4. IsInjective(chunks)
  <2> SUFFICES ASSUME NEW i \in DOMAIN chunks, NEW j \in DOMAIN chunks, chunks[i] = chunks[j]
               PROVE  i = j
    BY DEF IsInjective
  <2>1. i \in DOMAIN Told /\ j \in DOMAIN Told /\ Told[i] = Told[j]
    BY <1>1, <1>2
  <2> QED
    BY <1>3, <2>1 DEF IsInjective
<1>5. \A i, j \in DOMAIN chunks : chunks[i][1] = chunks[j][1]
  <2> TAKE i, j \in DOMAIN chunks
  <2>1. \A k \in DOMAIN chunks : k \in 1 .. Len(Told) /\ chunks[k] = Told[k]
    BY <1>1, <1>2
  <2> QED
    BY <1>3, <2>1
<1>6. IsPrefix(chunks, Told)
  <2>1. SubSeq(chunks, 1, Len(chunks)) = SubSeq(Told, 1, Len(chunks))
    BY <1>1, <1>2
  <2> QED
    BY <1>2, <2>1 DEF IsPrefix
<1>7. IsPrefix(emitted, Told)
  BY <1>1 DEF RoundInv, LogTold, Told, IsPrefix
<1>8. IsPrefix(chunks, emitted) \/ IsPrefix(emitted, chunks)
  BY <1>1, <1>2, <1>6, <1>7, TwoPrefixes
<1> QED
  BY <1>4, <1>5, <1>8 DEF ChunksOnce

\* Whatever the server sends, loses or breaks off, and whatever attempt it is,
\* model_round ends as completed only with the text and the arguments of one
\* reply, in order and once, on both protocols.
THEOREM RepliesAreWhole == RoundSpec => []OneReply
<1>1. RoundInv => OneReply
  BY DEF RoundInv
<1> QED
  BY <1>1, RoundStart, RoundStep, PTL DEF RoundSpec

\* The chunks that journal_chunk and the flushes put into the log are those the
\* consumer was given, of one attempt, in order and once, whatever write failed.
THEOREM ChunksAreOnce == RoundSpec => []ChunksOnce
BY ChunksAreTold, RoundStart, RoundStep, PTL DEF RoundSpec

===============================================================================
