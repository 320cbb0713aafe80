--------------------------- MODULE FileToolsProofs ---------------------------
(***************************************************************************)
(* The file tools, for any batches, calls, sessions, services and files:   *)
(* conflicting calls keep the model's order, and sessions of one service   *)
(* do not lose each other's updates.                                       *)
(***************************************************************************)
EXTENDS FileTools, TLAPS

USE ToolAssumption, FileToolsAssumption DEF toolVars, fileVars

--------------------------------------------------------------------------------
(* The lanes of a batch *)

\* A call is found in its own batch, at some place in it.
LEMMA OwnBatch ==
    ASSUME NEW b \in Batches, NEW c \in CallsOf(b)
    PROVE  /\ c \in AllCalls /\ BatchOf(c) = b
           /\ Position(c) \in Nat /\ Batched[b][Position(c)] = c
<1>1. c \in AllCalls
  BY DEF AllCalls
<1>2. BatchOf(c) \in Batches /\ c \in CallsOf(BatchOf(c))
  BY DEF BatchOf
<1>3. BatchOf(c) = b
  BY <1>2 DEF ToolAssumption
<1>4. \E i \in DOMAIN Batched[b] : Batched[b][i] = c
  BY DEF CallsOf, ToSet
<1>5. Position(c) \in DOMAIN Batched[b] /\ Batched[b][Position(c)] = c
  BY <1>3, <1>4 DEF Position
<1>6. DOMAIN Batched[b] \subseteq Nat
  BY DEF ToolAssumption
<1> QED
  BY <1>1, <1>3, <1>5, <1>6

\* A call of some batch is a call of its batch.
LEMMA InItsBatch ==
    ASSUME NEW c \in AllCalls
    PROVE  BatchOf(c) \in Batches /\ c \in CallsOf(BatchOf(c)) /\ Position(c) \in Nat
<1>1. PICK b \in Batches : c \in CallsOf(b)
  BY DEF AllCalls
<1> QED
  BY <1>1, OwnBatch

\* What comes before an earlier call comes before the later one.
LEMMA BeforeIsTransitive ==
    ASSUME NEW c \in AllCalls, NEW d \in Before(c)
    PROVE  d \in AllCalls /\ BatchOf(d) = BatchOf(c) /\ Before(d) \subseteq Before(c)
<1>1. BatchOf(c) \in Batches /\ d \in CallsOf(BatchOf(c))
  BY InItsBatch DEF Before
<1>2. d \in AllCalls /\ BatchOf(d) = BatchOf(c)
  BY <1>1, OwnBatch
<1>3. ASSUME NEW e \in Before(d) PROVE e \in Before(c)
  <2>1. e \in CallsOf(BatchOf(c)) /\ Position(e) < Position(d) /\ Position(d) < Position(c)
    BY <1>2 DEF Before
  <2>2. Position(e) \in Nat /\ Position(d) \in Nat /\ Position(c) \in Nat
    BY <1>1, <2>1, OwnBatch, InItsBatch
  <2> QED
    BY <2>1, <2>2 DEF Before
<1> QED
  BY <1>2, <1>3

\* The call that is launched conflicts with no earlier call that has not ended.
LEMMA LaunchIsFree ==
    ASSUME ToolTypeOK, NEW b \in Batches, NEW c \in Ready(b),
           \A d \in Ready(b) : Position(c) <= Position(d),
           NEW d \in Before(c), Conflict(c, d)
    PROVE  phase[d] = "done"
<1> DEFINE free == {e \in Unstarted(b) : Mode[e] # "exclusive" /\ ~Behind(e) /\ CanLaunch(e)}
<1>1. c \in Unstarted(b) /\ ~Behind(c) /\ c \in CallsOf(b)
  BY DEF Ready, Unstarted
<1>2. BatchOf(c) = b /\ c \in AllCalls
  BY <1>1, OwnBatch
<1>3. d \in CallsOf(b) /\ d \in AllCalls /\ BatchOf(d) = b /\ Before(d) \subseteq Before(c)
  BY <1>2, BeforeIsTransitive DEF Before
<1>4. ~Behind(d)
  BY <1>1, <1>3 DEF Behind
<1>5. phase[d] = "waiting" => Mode[d] # "exclusive"
  BY <1>1 DEF Behind
<1>6. Position(d) < Position(c) /\ Position(d) \in Nat /\ Position(c) \in Nat
  BY <1>2, <1>3, InItsBatch DEF Before
<1>7. CASE Mode[c] = "exclusive"
  <2>1. free = {} /\ Active(b) = {}
    BY <1>7 DEF Ready
  <2>2. phase[d] # "waiting"
    BY <2>1, <1>3, <1>4, <1>5 DEF Unstarted, CanLaunch
  <2> QED
    BY <2>1, <2>2, <1>3 DEF Active
<1>8. CASE Mode[c] # "exclusive"
  <2>1. CanLaunch(c) /\ Ready(b) = free
    BY <1>8 DEF Ready
  <2>2. d \notin Active(b)
    BY <2>1, <1>2, <1>3 DEF CanLaunch
  <2>3. ASSUME phase[d] = "waiting" PROVE FALSE
    <3>1. Mode[d] = "keyed" /\ Mode[c] = "keyed" /\ Key[c] = Key[d]
      BY <2>3, <1>5, <1>8 DEF Conflict
    <3>2. CanLaunch(d)
      BY <3>1, <2>1, <1>2, <1>3 DEF CanLaunch, Conflict
    <3>3. d \in free
      BY <2>3, <3>2, <1>3, <1>4, <1>5 DEF Unstarted
    <3> QED
      BY <3>3, <2>1, <1>6
  <2> QED
    BY <2>2, <2>3, <1>3 DEF Active
<1> QED
  BY <1>7, <1>8

--------------------------------------------------------------------------------
(* What a batch does keeps the order *)

ToolInv == ToolTypeOK /\ ModelOrder

LEMMA LaunchKeeps ==
    ASSUME ToolInv, NEW b \in Batches, Launch(b)
    PROVE  ToolInv'
<1> USE DEF ToolInv, ToolTypeOK
<1>1. PICK c \in Ready(b) : (\A d \in Ready(b) : Position(c) <= Position(d)) /\ To(c, "policy")
  BY DEF Launch
<1>2. c \in CallsOf(b) /\ phase[c] = "waiting"
  BY DEF Ready, Unstarted
<1>3. c \in AllCalls
  BY <1>2, OwnBatch
<1>4. phase' = [phase EXCEPT ![c] = "policy"] /\ UNCHANGED <<outcome, cancelled>>
  BY <1>1 DEF Launch, To
<1>5. ToolTypeOK'
  BY <1>2, <1>3, <1>4 DEF Phases
<1>6. ASSUME NEW e \in AllCalls, phase'[e] # "waiting", NEW d \in Before(e), Conflict(e, d)
      PROVE  phase'[d] = "done"
  <2>1. d \in AllCalls
    BY BeforeIsTransitive
  <2>2. phase[d] = "done"
    <3>1. CASE e = c
      BY <3>1, <1>1, <1>6, LaunchIsFree
    <3>2. CASE e # c
      BY <3>2, <1>4, <1>6 DEF ModelOrder
    <3> QED
      BY <3>1, <3>2
  <2> QED
    BY <2>1, <2>2, <1>2, <1>4
<1> QED
  BY <1>5, <1>6 DEF ModelOrder

\* A call that moves on left the queue before, and an ended call does not move.
LEMMA MovesKeep ==
    ASSUME ToolInv, NEW c \in AllCalls, NEW next \in {"running", "cleanup", "done"},
           phase[c] \in {"policy", "running", "cleanup"}, To(c, next),
           outcome' \in [AllCalls -> Outcomes], UNCHANGED cancelled,
           \A d \in AllCalls : phase'[d] = "done" <=> outcome'[d] # "none"
    PROVE  ToolInv'
<1> USE DEF ToolInv, ToolTypeOK
<1>1. phase' = [phase EXCEPT ![c] = next]
  BY DEF To
<1>2. ToolTypeOK'
  BY <1>1 DEF Phases
<1>3. ASSUME NEW e \in AllCalls, phase'[e] # "waiting", NEW d \in Before(e), Conflict(e, d)
      PROVE  phase'[d] = "done"
  <2>1. d \in AllCalls
    BY BeforeIsTransitive
  <2>2. phase[e] # "waiting"
    BY <1>1, <1>3
  <2>3. phase[d] = "done"
    BY <2>2, <1>3 DEF ModelOrder
  <2> QED
    BY <2>1, <2>3, <1>1
<1> QED
  BY <1>2, <1>3 DEF ModelOrder

LEMMA AdmitKeeps ==
    ASSUME ToolInv, NEW c \in AllCalls, Approve(c) \/ Allow(c)
    PROVE  ToolInv' /\ phase[c] = "policy" /\ phase' = [phase EXCEPT ![c] = "running"]
<1>1. /\ phase[c] = "policy" /\ To(c, "running") /\ UNCHANGED <<outcome, cancelled>>
  BY DEF Approve, Allow, Admit, Polled
<1>2. \A d \in AllCalls : phase'[d] = "done" <=> outcome'[d] # "none"
  BY <1>1 DEF ToolInv, ToolTypeOK, To
<1>3. ToolInv'
  BY <1>1, <1>2, MovesKeep DEF ToolInv, ToolTypeOK
<1> QED
  BY <1>1, <1>3 DEF To

LEMMA InterruptKeeps ==
    ASSUME ToolInv, NEW c \in AllCalls, Interrupt(c)
    PROVE  ToolInv' /\ phase[c] = "running" /\ phase' = [phase EXCEPT ![c] = "cleanup"]
<1>1. /\ phase[c] = "running" /\ To(c, "cleanup") /\ UNCHANGED <<outcome, cancelled>>
  BY DEF Interrupt, Polled
<1>2. \A d \in AllCalls : phase'[d] = "done" <=> outcome'[d] # "none"
  BY <1>1 DEF ToolInv, ToolTypeOK, To
<1>3. ToolInv'
  BY <1>1, <1>2, MovesKeep DEF ToolInv, ToolTypeOK
<1> QED
  BY <1>1, <1>3 DEF To

\* Without stages that may replace it, the outcome of a call is the one it ended with.
LEMMA EndKeeps ==
    ASSUME ToolInv, NEW c \in AllCalls, NEW how \in {"ok", "failed", "abandoned"},
           phase[c] \in {"policy", "running", "cleanup"}, Ends(c, how), UNCHANGED cancelled
    PROVE  /\ ToolInv'
           /\ phase' = [phase EXCEPT ![c] = "done"]
           /\ \A d \in AllCalls \ {c} : outcome'[d] = outcome[d]
           /\ ~StagesMayFail => outcome'[c] = how
<1> USE DEF ToolInv, ToolTypeOK
<1>1. PICK final \in {how} \union (IF StagesMayFail THEN {"failed"} ELSE {}) :
         outcome' = [outcome EXCEPT ![c] = final]
  BY DEF Ends
<1>2. final \in {"ok", "failed", "abandoned"} /\ (~StagesMayFail => final = how)
  BY <1>1
<1>3. To(c, "done") /\ phase' = [phase EXCEPT ![c] = "done"]
  BY DEF Ends, To
<1>4. outcome' \in [AllCalls -> Outcomes]
  BY <1>1, <1>2 DEF Outcomes
<1>5. \A d \in AllCalls : phase'[d] = "done" <=> outcome'[d] # "none"
  BY <1>1, <1>2, <1>3
<1>6. ToolInv'
  BY <1>3, <1>4, <1>5, MovesKeep
<1> QED
  BY <1>1, <1>2, <1>3, <1>6

LEMMA CancelKeeps ==
    ASSUME ToolInv, NEW b \in Batches, Cancel(b)
    PROVE  ToolInv'
<1>1. cancelled' = cancelled \union {b} /\ UNCHANGED <<phase, outcome>>
  BY DEF Cancel
<1>2. ToolTypeOK'
  BY <1>1 DEF ToolInv, ToolTypeOK
<1>3. ModelOrder'
  BY <1>1 DEF ToolInv, ModelOrder, Before
<1> QED
  BY <1>2, <1>3 DEF ToolInv

--------------------------------------------------------------------------------
(* The file service *)

Pcs == {"idle", "lock", "check", "final", "rename", "record", "ok", "failed"}

\* The operations and what they remember.
Operations == [pc: Pcs, kind: Kinds, session: Sessions \union {NoVersion},
               file: Files \union {NoVersion}, base: Versions \union {Absent, NoVersion}]
ServiceTyped ==
    /\ files \in [Files -> Versions \union {Absent}]
    /\ observed \in [Sessions \X Files -> Versions \union {Absent, NoVersion}]
    /\ op \in [AllCalls -> Operations]
    /\ shown \in [Sessions -> SUBSET Versions]
    /\ outside \in 0 .. MaxOutside

\* An operation belongs to the call's session and file.
Owned ==
    \A c \in AllCalls : op[c].pc # "idle" =>
        /\ op[c].session = SessionOf[BatchOf(c)]
        /\ op[c].file = FileOf[c]

\* Two operations of one target are never both inside.
Exclusive ==
    \A c, d \in AllCalls : c # d /\ Holds(c) /\ Holds(d) => ~SameTarget(c, d)

\* A session may replace what it was shown, nothing, and what came past its service.
Replaceable(seen, v, s) ==
    \/ v \in seen[s] \union {Absent}
    \/ v.by = Outsider
    \/ ServiceOf[SessionOf[BatchOf(v.by)]] # ServiceOf[s]

\* What a session observed it may replace; so it may what an operation that was
\* authorised started from, and what the file holds once that was compared.
Informed ==
    /\ \A s \in Sessions, f \in Files : Replaceable(shown, observed[<<s, f>>], s)
    /\ \A c \in AllCalls :
          /\ op[c].pc = "final" => Replaceable(shown, op[c].base, op[c].session)
          /\ op[c].pc \in {"rename", "record"} => Replaceable(shown, files[op[c].file], op[c].session)

ServiceInv == ServiceTyped /\ Owned /\ Exclusive /\ Informed

\* The operation of a call that was entered has its session and file.
LEMMA OperationTyped ==
    ASSUME ServiceInv, NEW c \in AllCalls, op[c].pc # "idle"
    PROVE  op[c].session \in Sessions /\ op[c].file \in Files
<1>1. SessionOf[BatchOf(c)] \in Sessions
  BY InItsBatch DEF Sessions
<1>2. FileOf[c] \in Files
  BY DEF Files
<1> QED
  BY <1>1, <1>2 DEF ServiceInv, Owned

\* What one operation does to itself, while files and observations stay.
LEMMA Goes ==
    ASSUME ServiceInv, NEW c \in AllCalls, NEW next \in Pcs,
           Go(c, next), op[c].pc # "idle",
           next \in {"check", "rename"} => LockFree(c) \/ Holds(c),
           next \notin {"final", "record", "idle"},
           next = "rename" => Replaceable(shown, files[op[c].file], op[c].session),
           UNCHANGED <<files, observed, shown, outside>>
    PROVE  ServiceInv'
<1> USE DEF ServiceInv, ServiceTyped
<1>1. /\ op' = [op EXCEPT ![c] = [op[c] EXCEPT !.pc = next]] 
  BY DEF Go
<1>2. op[c] \in Operations /\ op'[c] \in Operations /\ op' \in [AllCalls -> Operations]
  BY <1>1 DEF Operations
<1>3. /\ op'[c].pc = next /\ op'[c].session = op[c].session /\ op'[c].file = op[c].file
      /\ op'[c].base = op[c].base /\ \A d \in AllCalls \ {c} : op'[d] = op[d]
  BY <1>1, <1>2 DEF Operations
<1>4. ServiceTyped'
  BY <1>2
<1>5. Owned'
  BY <1>3 DEF Owned
<1>6. Exclusive'
  BY <1>3 DEF Exclusive, Holds, SameTarget, LockFree
<1>7. Informed'
  BY <1>3 DEF Informed, Replaceable
<1> QED
  BY <1>4, <1>5, <1>6, <1>7

LEMMA BeginKeeps ==
    ASSUME ServiceInv, NEW c \in AllCalls, OnFile(c),
           Begin(c, KindOf[c], SessionOf[BatchOf(c)], FileOf[c])
    PROVE  ServiceInv' /\ op' = [op EXCEPT ![c] = op'[c]] /\ op[c].pc = "idle"
<1> USE DEF ServiceInv, ServiceTyped
<1> DEFINE new == [pc |-> "lock", kind |-> KindOf[c], session |-> SessionOf[BatchOf(c)],
                   file |-> FileOf[c], base |-> NoVersion]
<1>1. op' = [op EXCEPT ![c] = new] /\ UNCHANGED <<files, observed, shown, outside>>
  BY DEF Begin
<1>2. new \in Operations
  <2>1. SessionOf[BatchOf(c)] \in Sessions /\ FileOf[c] \in Files
    BY InItsBatch DEF Sessions, Files
  <2>2. KindOf[c] \in Kinds
    BY DEF FileToolsAssumption, OnFile
  <2> QED
    BY <2>1, <2>2 DEF Operations, Pcs
<1>3. /\ new.pc = "lock" /\ new.session = SessionOf[BatchOf(c)] /\ new.file = FileOf[c]
  OBVIOUS
<1> HIDE DEF new
<1>4. op'[c] = new /\ (\A d \in AllCalls \ {c} : op'[d] = op[d]) /\ op' \in [AllCalls -> Operations]
  BY <1>1, <1>2
<1>5. Owned'
  BY <1>3, <1>4 DEF Owned
<1>6. Exclusive'
  BY <1>3, <1>4 DEF Exclusive, Holds, SameTarget
<1>7. Informed'
  BY <1>1, <1>3, <1>4 DEF Informed, Replaceable
<1> QED
  BY <1>1, <1>4, <1>5, <1>6, <1>7 DEF Begin, At

\* A read shows its session the version it records.
LEMMA ReadKeeps ==
    ASSUME ServiceInv, NEW c \in AllCalls, Read(c)
    PROVE  ServiceInv'
<1> USE DEF ServiceInv, ServiceTyped
<1> DEFINE s == op[c].session
           v == files[op[c].file]
<1>1. s \in Sessions /\ op[c].file \in Files /\ v \in Versions \union {Absent}
  BY OperationTyped DEF Read, At
<1>2. /\ observed' = [observed EXCEPT ![<<s, op[c].file>>] = v]
      /\ shown' = [shown EXCEPT ![s] = shown[s] \union ({v} \ {Absent})]
      /\ UNCHANGED <<files, outside>>
  BY DEF Read, Observe, Held
<1>3. /\ op'[c].pc = "ok" /\ op' \in [AllCalls -> Operations]
      /\ \A d \in AllCalls : op'[d].session = op[d].session /\ op'[d].file = op[d].file
                             /\ op'[d].base = op[d].base
      /\ \A d \in AllCalls \ {c} : op'[d] = op[d]
  BY DEF Read, Go, Operations, Pcs
<1>4. ServiceTyped'
  BY <1>1, <1>2, <1>3
<1>5. Owned'
  BY <1>3, OperationTyped DEF Owned, Read, At
<1>6. Exclusive'
  BY <1>3 DEF Exclusive, Holds, SameTarget
<1>7. ASSUME NEW w, NEW t \in Sessions, Replaceable(shown, w, t) PROVE Replaceable(shown', w, t)
  BY <1>1, <1>2, <1>7 DEF Replaceable
<1>8. Replaceable(shown', v, s)
  BY <1>1, <1>2 DEF Replaceable
<1>9. \A t \in Sessions, f \in Files : Replaceable(shown', observed'[<<t, f>>], t)
  BY <1>1, <1>2, <1>7, <1>8 DEF Informed
<1>10. ASSUME NEW d \in AllCalls
       PROVE  /\ op'[d].pc = "final" => Replaceable(shown', op'[d].base, op'[d].session)
              /\ op'[d].pc \in {"rename", "record"}
                    => Replaceable(shown', files'[op'[d].file], op'[d].session)
  BY <1>2, <1>3, <1>7, OperationTyped DEF Informed
<1> QED
  BY <1>4, <1>5, <1>6, <1>9, <1>10 DEF Informed

\* An operation that is authorised starts from what its session observed, or from nothing.
LEMMA AuthorizeKeeps ==
    ASSUME ServiceInv, NEW c \in AllCalls, Authorize(c)
    PROVE  ServiceInv'
<1> USE DEF ServiceInv, ServiceTyped
<1> DEFINE v == files[op[c].file]
<1>1. op[c].pc = "check" /\ op[c].session \in Sessions /\ op[c].file \in Files
      /\ v \in Versions \union {Absent}
  BY OperationTyped DEF Authorize, At
<1>2. /\ op'[c].pc = "final" /\ op'[c].base = v /\ op' \in [AllCalls -> Operations]
      /\ \A d \in AllCalls : op'[d].session = op[d].session /\ op'[d].file = op[d].file
      /\ \A d \in AllCalls \ {c} : op'[d] = op[d]
  BY <1>1 DEF Authorize, Held, Operations, Pcs
<1>3. UNCHANGED <<files, observed, shown, outside>>
  BY DEF Authorize
<1>4. Replaceable(shown, v, op[c].session)
  BY <1>1 DEF Authorize, Authorized, Held, Seen, Informed, Replaceable
<1>5. Owned'
  BY <1>1, <1>2 DEF Owned
<1>6. Exclusive'
  BY <1>1, <1>2 DEF Exclusive, Holds, SameTarget
<1>7. Informed'
  BY <1>2, <1>3, <1>4 DEF Informed, Replaceable
<1> QED
  BY <1>2, <1>3, <1>5, <1>6, <1>7

\* A replacement is informed, and what it leaves may be replaced by the operations of its own
\* service, which it keeps out of its target, never.
LEMMA PublishKeeps ==
    ASSUME ServiceInv, NEW c \in AllCalls, Publish(c)
    PROVE  ServiceInv'
<1> USE DEF ServiceInv, ServiceTyped
<1> DEFINE s == op[c].session
           f == op[c].file
           v == Version(c, 0)
<1>1. op[c].pc = "rename" /\ s \in Sessions /\ f \in Files
  BY OperationTyped DEF Publish, At
<1>2. CASE op[c].base = Absent /\ Held(c) # Absent
  BY <1>1, <1>2, Goes DEF Publish, Pcs
<1>3. CASE ~(op[c].base = Absent /\ Held(c) # Absent)
  <2>1. /\ files' = [files EXCEPT ![f] = v]
        /\ shown' = [shown EXCEPT ![s] = shown[s] \union {v}]
        /\ UNCHANGED <<observed, outside>>
    BY <1>3 DEF Publish
  <2>2. /\ op'[c].pc = "record" /\ op' \in [AllCalls -> Operations]
        /\ \A d \in AllCalls : op'[d].session = op[d].session /\ op'[d].file = op[d].file
                               /\ op'[d].base = op[d].base
        /\ \A d \in AllCalls \ {c} : op'[d] = op[d]
    <3>1. Go(c, "record")
      BY <1>3 DEF Publish
    <3> QED
      BY <3>1 DEF Go, Operations, Pcs
  <2>3. v \in Versions /\ v.by = c
    BY DEF Version, Versions, FileToolsAssumption
  <2>4. ServiceTyped'
    BY <1>1, <2>1, <2>2, <2>3
  <2>5. Owned'
    BY <1>1, <2>2 DEF Owned
  <2>6. Exclusive'
    BY <1>1, <2>2 DEF Exclusive, Holds, SameTarget
  <2>7. ASSUME NEW w, NEW t \in Sessions, Replaceable(shown, w, t) PROVE Replaceable(shown', w, t)
    BY <1>1, <2>1, <2>7 DEF Replaceable
  <2>8. \A t \in Sessions, g \in Files : Replaceable(shown', observed'[<<t, g>>], t)
    BY <2>1, <2>7 DEF Informed
  <2>9. ASSUME NEW d \in AllCalls
        PROVE  /\ op'[d].pc = "final" => Replaceable(shown', op'[d].base, op'[d].session)
               /\ op'[d].pc \in {"rename", "record"}
                     => Replaceable(shown', files'[op'[d].file], op'[d].session)
    <3>1. CASE d = c
      BY <3>1, <1>1, <2>1, <2>2 DEF Replaceable
    <3>2. CASE d # c /\ op[d].file # f
      BY <3>2, <1>1, <2>1, <2>2, <2>7, OperationTyped DEF Informed
    <3>3. CASE d # c /\ op[d].file = f /\ op[d].pc = "final"
      BY <3>3, <2>2, <2>7, OperationTyped DEF Informed
    <3>4. CASE d # c /\ op[d].file = f /\ op[d].pc \in {"rename", "record"}
      <4>1. ServiceOf[op[d].session] # ServiceOf[s]
        BY <3>4, <1>1 DEF Exclusive, Holds, SameTarget
      <4>2. s = SessionOf[BatchOf(c)]
        BY <1>1 DEF Owned
      <4>3. files'[op'[d].file] = v /\ op'[d].session = op[d].session /\ op'[d].pc # "final"
        BY <3>4, <1>1, <2>1, <2>2
      <4> QED
        BY <4>1, <4>2, <4>3, <2>3 DEF Replaceable
    <3> QED
      BY <3>1, <3>2, <3>3, <3>4, <2>2
  <2> QED
    BY <2>4, <2>5, <2>6, <2>8, <2>9 DEF Informed
<1> QED
  BY <1>2, <1>3

\* The version that is read back is the operation's own or one that came past its service.
LEMMA RecordKeeps ==
    ASSUME ServiceInv, NEW c \in AllCalls, Record(c)
    PROVE  ServiceInv'
<1> USE DEF ServiceInv, ServiceTyped
<1> DEFINE s == op[c].session
           f == op[c].file
           v == files[f]
<1>1. op[c].pc = "record" /\ s \in Sessions /\ f \in Files /\ v \in Versions \union {Absent}
  BY OperationTyped DEF Record, At
<1>2. CASE v = Absent
  BY <1>1, <1>2, Goes DEF Record, Held, Pcs
<1>3. CASE v # Absent
  <2>1. /\ observed' = [observed EXCEPT ![<<s, f>>] = v] /\ Go(c, "ok")
        /\ UNCHANGED <<files, shown, outside>>
    BY <1>3 DEF Record, Held
  <2>2. /\ op'[c].pc = "ok" /\ op' \in [AllCalls -> Operations]
        /\ \A d \in AllCalls : op'[d].session = op[d].session /\ op'[d].file = op[d].file
                               /\ op'[d].base = op[d].base
        /\ \A d \in AllCalls \ {c} : op'[d] = op[d]
    BY <2>1 DEF Go, Operations, Pcs
  <2>3. Replaceable(shown, v, s)
    BY <1>1 DEF Informed
  <2>4. Owned'
    BY <1>1, <2>2 DEF Owned
  <2>5. Exclusive'
    BY <2>2 DEF Exclusive, Holds, SameTarget
  <2>6. \A t \in Sessions, g \in Files : Replaceable(shown', observed'[<<t, g>>], t)
    BY <1>1, <2>1, <2>3 DEF Informed
  <2>7. Informed'
    BY <2>1, <2>2, <2>6 DEF Informed
  <2> QED
    BY <1>1, <2>1, <2>2, <2>4, <2>5, <2>7
<1> QED
  BY <1>2, <1>3

\* What comes past every service any session may lose.
LEMMA OutsiderKeeps ==
    ASSUME ServiceInv, NEW f \in Files, OutsiderChanges(f)
    PROVE  ServiceInv'
<1> USE DEF ServiceInv, ServiceTyped
<1> DEFINE v == IF files[f] # Absent /\ files[f].by = Outsider
                THEN Absent ELSE Version(Outsider, outside + 1)
<1>1. /\ files' = [files EXCEPT ![f] = v] /\ outside' = outside + 1 /\ outside < MaxOutside
      /\ UNCHANGED <<observed, op, shown>>
  BY DEF OutsiderChanges
<1>2. v \in Versions \union {Absent} /\ \A s \in Sessions : Replaceable(shown, v, s)
  <2>1. outside + 1 \in 0 .. MaxOutside
    BY <1>1 DEF FileToolsAssumption
  <2> QED
    BY <2>1 DEF Version, Versions, Replaceable
<1> HIDE DEF v
<1>3. ServiceTyped'
  BY <1>1, <1>2 DEF FileToolsAssumption
<1>4. Owned' /\ Exclusive'
  BY <1>1 DEF Owned, Exclusive, Holds, SameTarget
<1>5. Informed'
  BY <1>1, <1>2, OperationTyped DEF Informed
<1> QED
  BY <1>3, <1>4, <1>5

LEMMA WorkKeeps ==
    ASSUME ServiceInv, NEW c \in AllCalls, Work(c)
    PROVE  ServiceInv'
<1>1. CASE Lock(c)
  BY <1>1, Goes DEF Lock, At, Pcs
<1>2. CASE Read(c)
  BY <1>2, ReadKeeps
<1>3. CASE ReadFails(c)
  BY <1>3, Goes DEF ReadFails, At, Pcs
<1>4. CASE Authorize(c)
  BY <1>4, AuthorizeKeeps
<1>5. CASE Reject(c)
  BY <1>5, Goes DEF Reject, At, Pcs
<1>6. CASE FinalCheck(c)
  <2>1. op[c].pc = "final" /\ Holds(c) /\ UNCHANGED <<files, observed, shown, outside>>
    BY <1>6 DEF FinalCheck, At, Holds
  <2>2. CASE Held(c) = op[c].base
    <3>1. Go(c, "rename")
      BY <1>6, <2>2 DEF FinalCheck
    <3>2. Replaceable(shown, files[op[c].file], op[c].session)
      BY <2>1, <2>2 DEF ServiceInv, Informed, Held
    <3> QED
      BY <2>1, <3>1, <3>2, Goes DEF Pcs
  <2>3. CASE Held(c) # op[c].base
    <3>1. Go(c, "failed")
      BY <1>6, <2>3 DEF FinalCheck
    <3> QED
      BY <2>1, <3>1, Goes DEF Pcs
  <2> QED
    BY <2>2, <2>3
<1>7. CASE Publish(c)
  BY <1>7, PublishKeeps
<1>8. CASE Record(c)
  BY <1>8, RecordKeeps
<1>9. CASE IoFails(c)
  BY <1>9, Goes DEF IoFails, Pcs
<1> QED
  BY <1>1, <1>2, <1>3, <1>4, <1>5, <1>6, <1>7, <1>8, <1>9 DEF Work

\* An operation at work has begun and is not finished, and each goes on by itself.
LEMMA WorkGoesOn ==
    ASSUME ServiceInv, NEW c \in AllCalls, Work(c)
    PROVE  /\ op[c].pc \notin {"idle", "ok", "failed"} /\ op'[c].pc # "idle"
           /\ \A d \in AllCalls \ {c} : op'[d] = op[d]
<1> USE DEF ServiceInv, ServiceTyped
<1>1. CASE Authorize(c)
  BY <1>1 DEF Authorize, At, Operations, Pcs
<1>2. CASE \E next \in Pcs \ {"idle"} : Go(c, next) /\ op[c].pc \notin {"idle", "ok", "failed"}
  BY <1>2 DEF Go, Operations, Pcs
<1>3. CASE Lock(c) \/ Read(c) \/ ReadFails(c) \/ Reject(c) \/ IoFails(c)
  BY <1>2, <1>3 DEF Lock, Read, ReadFails, Reject, IoFails, At, Pcs
<1>4. CASE FinalCheck(c)
  BY <1>2, <1>4 DEF FinalCheck, At, Pcs
<1>5. CASE Publish(c)
  BY <1>2, <1>5 DEF Publish, At, Pcs
<1>6. CASE Record(c)
  BY <1>2, <1>6 DEF Record, At, Pcs
<1> QED
  BY <1>1, <1>3, <1>4, <1>5, <1>6 DEF Work

--------------------------------------------------------------------------------
(* The file tools *)

\* Only a call on a file whose handler was entered has an operation.
Handled ==
    \A c \in AllCalls : op[c].pc # "idle" =>
        OnFile(c) /\ phase[c] \in {"running", "cleanup", "done"}

FilesInv == ToolInv /\ ServiceInv /\ Handled

\* Without stages after the handler, what FilesInv and the report keep together.
Reported == ~StagesMayFail => SettledMeansQuiet

LEMMA FilesInit == Init => FilesInv /\ Reported
<1> SUFFICES ASSUME Init PROVE FilesInv /\ Reported
  OBVIOUS
<1> USE DEF Init, ToolInit, FsInit
<1>1. ToolInv
  BY DEF ToolInv, ToolTypeOK, ModelOrder, Phases, Outcomes
<1>2. ServiceInv
  <2>1. files \in [Files -> Versions \union {Absent}]
    BY DEF Version, Versions, FileToolsAssumption
  <2>2. observed \in [Sessions \X Files -> Versions \union {Absent, NoVersion}]
    BY <2>1
  <2>3. op \in [AllCalls -> Operations] /\ \A c \in AllCalls : op[c].pc = "idle"
    BY DEF Idle, Operations, Pcs, Kinds
  <2>4. shown \in [Sessions -> SUBSET Versions]
    BY <2>1
  <2>5. \A s \in Sessions, f \in Files : Replaceable(shown, observed[<<s, f>>], s)
    BY DEF Replaceable
  <2>6. Owned /\ Exclusive
    BY <2>3 DEF Owned, Exclusive, Holds
  <2>7. Informed
    BY <2>3, <2>5 DEF Informed
  <2>8. ServiceTyped
    BY <2>1, <2>2, <2>3, <2>4 DEF ServiceTyped, FileToolsAssumption
  <2> QED
    BY <2>6, <2>7, <2>8 DEF ServiceInv
<1>3. Handled /\ SettledMeansQuiet
  BY DEF Idle, Handled, SettledMeansQuiet
<1> QED
  BY <1>1, <1>2, <1>3 DEF FilesInv, Reported

\* The parts of an invariant that a step of the other component leaves alone.
LEMMA ToolStays == ToolInv /\ UNCHANGED toolVars => ToolInv'
  BY DEF ToolInv, ToolTypeOK, ModelOrder

LEMMA ServiceStays == ServiceInv /\ UNCHANGED fileVars => ServiceInv'
  BY DEF ServiceInv, ServiceTyped, Owned, Exclusive, Informed, Holds, SameTarget

\* A call that goes on without its handler having come to an end is settled as abandoned, or
\* not settled.
LEMMA MovesAlone ==
    ASSUME FilesInv, Reported, NEW c \in AllCalls, NEW next \in Phases \ {"done", "waiting"},
           phase[c] \notin {"done"}, op[c].pc = "idle" \/ next \in {"running", "cleanup"},
           phase' = [phase EXCEPT ![c] = next], UNCHANGED <<outcome, op>>
    PROVE  Handled' /\ Reported'
<1> USE DEF FilesInv, ToolInv, ToolTypeOK
<1>1. Handled'
  BY DEF Handled
<1>2. Reported'
  BY DEF Reported, SettledMeansQuiet, Finished
<1> QED
  BY <1>1, <1>2

LEMMA EndsQuiet ==
    ASSUME FilesInv, Reported, NEW c \in AllCalls, NEW how \in {"ok", "failed", "abandoned"},
           phase[c] \in {"policy", "running", "cleanup"}, Ends(c, how), UNCHANGED cancelled,
           \A d \in AllCalls \ {c} : op'[d] = op[d],
           op[c].pc = "idle" <=> op'[c].pc = "idle",
           op'[c].pc = "idle" \/ Finished(c)' \/ how = "abandoned"
    PROVE  ToolInv' /\ Handled' /\ Reported'
<1>1. /\ ToolInv'
      /\ phase' = [phase EXCEPT ![c] = "done"]
      /\ \A d \in AllCalls \ {c} : outcome'[d] = outcome[d]
      /\ ~StagesMayFail => outcome'[c] = how
  BY EndKeeps DEF FilesInv
<1>2. Handled'
  BY <1>1 DEF FilesInv, ToolInv, ToolTypeOK, Handled
<1>3. Reported'
  BY <1>1 DEF FilesInv, ToolInv, ToolTypeOK, Reported, SettledMeansQuiet, Finished
<1> QED
  BY <1>1, <1>2, <1>3

LEMMA TimedKeeps ==
    ASSUME FilesInv, Reported, NEW c \in AllCalls, Timed(c)
    PROVE  FilesInv' /\ Reported'
<1>1. CASE Refuse(c) /\ UNCHANGED fileVars
  <2>1. phase[c] = "policy" /\ Ends(c, "failed") /\ UNCHANGED cancelled
    BY <1>1 DEF Refuse, Polled
  <2>2. op[c].pc = "idle"
    BY <2>1 DEF FilesInv, Handled
  <2> QED
    BY <1>1, <2>1, <2>2, EndsQuiet, ServiceStays DEF FilesInv
<1>2. CASE Interrupt(c) /\ UNCHANGED fileVars
  <2>1. ToolInv' /\ phase[c] = "running" /\ phase' = [phase EXCEPT ![c] = "cleanup"]
    BY <1>2, InterruptKeeps DEF FilesInv
  <2>2. UNCHANGED <<outcome, op>>
    BY <1>2 DEF Interrupt
  <2> QED
    BY <1>2, <2>1, <2>2, MovesAlone, ServiceStays DEF FilesInv, Phases
<1>3. CASE CleansUp(c)
  <2>1. phase[c] = "cleanup" /\ Ends(c, "failed") /\ UNCHANGED cancelled /\ UNCHANGED fileVars
    BY <1>3 DEF CleansUp, Quiesces, Polled
  <2>2. op[c].pc = "idle" \/ Finished(c)
    BY <1>3 DEF CleansUp, FilesInv, Handled
  <2> QED
    BY <2>1, <2>2, EndsQuiet, ServiceStays DEF FilesInv, Finished
<1>4. CASE GivesUp(c)
  <2>1. phase[c] = "cleanup" /\ Ends(c, "abandoned") /\ UNCHANGED cancelled
    BY <1>4 DEF GivesUp, Abandon, Polled
  <2>2. CASE op[c].pc = "lock" /\ Forgone(c)
    <3>1. Go(c, "failed") /\ UNCHANGED <<files, observed, shown, outside>>
      BY <2>2 DEF Forgone
    <3>2. ServiceInv'
      BY <2>2, <3>1, Goes DEF FilesInv, Pcs
    <3>3. /\ \A d \in AllCalls \ {c} : op'[d] = op[d]
          /\ op'[c].pc = "failed"
      BY <3>1 DEF FilesInv, ServiceInv, ServiceTyped, Operations, Go
    <3> QED
      BY <2>1, <2>2, <3>2, <3>3, EndsQuiet DEF FilesInv
  <2>3. CASE UNCHANGED fileVars
    BY <2>1, <2>3, EndsQuiet, ServiceStays DEF FilesInv
  <2> QED
    BY <1>4, <2>2, <2>3 DEF GivesUp
<1> QED
  BY <1>1, <1>2, <1>3, <1>4 DEF Timed

LEMMA EnterKeeps ==
    ASSUME FilesInv, Reported, NEW c \in AllCalls, Approve(c) \/ Allow(c), Entered(c)
    PROVE  FilesInv' /\ Reported'
<1>1. ToolInv' /\ phase[c] = "policy" /\ phase' = [phase EXCEPT ![c] = "running"]
  BY AdmitKeeps DEF FilesInv
<1>2. outcome' = outcome
  BY DEF Approve, Allow, Admit
<1>3. CASE OnFile(c)
  <2>1. Begin(c, KindOf[c], SessionOf[BatchOf(c)], FileOf[c])
    BY <1>3 DEF Entered
  <2>2. ServiceInv' /\ op' = [op EXCEPT ![c] = op'[c]]
    BY <1>3, <2>1, BeginKeeps DEF FilesInv
  <2>3. \A d \in AllCalls \ {c} : op'[d] = op[d]
    BY <2>2 DEF FilesInv, ServiceInv, ServiceTyped
  <2>4. Handled'
    BY <1>1, <1>3, <2>3 DEF FilesInv, ToolInv, ToolTypeOK, Handled, OnFile
  <2>5. Reported'
    BY <1>1, <1>2, <2>3 DEF FilesInv, ToolInv, ToolTypeOK, Reported, SettledMeansQuiet, Finished
  <2> QED
    BY <1>1, <2>2, <2>4, <2>5 DEF FilesInv
<1>4. CASE ~OnFile(c)
  <2>1. UNCHANGED fileVars
    BY <1>4 DEF Entered
  <2>2. Handled' /\ Reported'
    BY <1>1, <1>2, <2>1, MovesAlone DEF Phases
  <2> QED
    BY <1>1, <2>1, <2>2, ServiceStays DEF FilesInv
<1> QED
  BY <1>3, <1>4

LEMMA AnswerKeeps ==
    ASSUME FilesInv, Reported, NEW c \in AllCalls, Answer(c)
    PROVE  FilesInv' /\ Reported'
<1>1. PICK how \in {"ok", "failed"} : Returns(c, how)
  BY DEF Answer, Finished
<1>2. phase[c] = "running" /\ Ends(c, how) /\ UNCHANGED cancelled /\ UNCHANGED fileVars
  BY <1>1 DEF Answer, Returns, Polled
<1>3. op[c].pc = "idle" \/ Finished(c)
  BY DEF Answer, FilesInv, Handled
<1> QED
  BY <1>2, <1>3, EndsQuiet, ServiceStays DEF FilesInv, Finished

LEMMA WorkStepKeeps ==
    ASSUME FilesInv, Reported, NEW c \in AllCalls, Work(c), UNCHANGED toolVars
    PROVE  FilesInv' /\ Reported'
<1>1. ServiceInv' /\ ToolInv'
  BY WorkKeeps, ToolStays DEF FilesInv
<1>2. /\ op[c].pc \notin {"idle", "ok", "failed"} /\ op'[c].pc # "idle"
      /\ \A d \in AllCalls \ {c} : op'[d] = op[d]
  BY WorkGoesOn DEF FilesInv
<1>3. Handled'
  BY <1>2 DEF FilesInv, Handled, OnFile
<1>4. Reported'
  BY <1>2 DEF FilesInv, Handled, Reported, SettledMeansQuiet, Finished
<1> QED
  BY <1>1, <1>3, <1>4 DEF FilesInv

LEMMA FilesNext == FilesInv /\ Reported /\ [Next]_vars => FilesInv' /\ Reported'
<1> SUFFICES ASSUME FilesInv, Reported, [Next]_vars PROVE FilesInv' /\ Reported'
  OBVIOUS
<1>1. ASSUME NEW b \in Batches, Launch(b), UNCHANGED fileVars PROVE FilesInv' /\ Reported'
  <2>1. ToolInv'
    BY <1>1, LaunchKeeps DEF FilesInv
  <2>2. PICK c \in CallsOf(b) : phase[c] = "waiting" /\ To(c, "policy")
    BY <1>1 DEF Launch, Ready, Unstarted
  <2>3. c \in AllCalls /\ op[c].pc = "idle" /\ UNCHANGED <<outcome, op>>
    BY <1>1, <2>2, OwnBatch DEF Launch, FilesInv, Handled
  <2>4. Handled' /\ Reported'
    BY <2>2, <2>3, MovesAlone DEF To, Phases
  <2> QED
    BY <1>1, <2>1, <2>4, ServiceStays DEF FilesInv
<1>2. ASSUME NEW b \in Batches, NEW c \in CallsOf(b), Timed(c) PROVE FilesInv' /\ Reported'
  BY <1>2, OwnBatch, TimedKeeps
<1>3. ASSUME NEW b \in Batches, Cancel(b), UNCHANGED fileVars PROVE FilesInv' /\ Reported'
  <2>1. ToolInv' /\ ServiceInv' /\ UNCHANGED <<phase, outcome>>
    BY <1>3, CancelKeeps, ServiceStays DEF FilesInv, Cancel
  <2> QED
    BY <1>3, <2>1 DEF FilesInv, Handled, OnFile, Reported, SettledMeansQuiet, Finished
<1>4. ASSUME NEW c \in AllCalls, Approve(c) \/ Allow(c), Entered(c)
      PROVE  FilesInv' /\ Reported'
  BY <1>4, EnterKeeps
<1>5. ASSUME NEW c \in AllCalls, Answer(c) PROVE FilesInv' /\ Reported'
  BY <1>5, AnswerKeeps
<1>6. ASSUME NEW c \in AllCalls, Work(c), UNCHANGED toolVars PROVE FilesInv' /\ Reported'
  BY <1>6, WorkStepKeeps
<1>7. ASSUME NEW f \in Files, OutsiderChanges(f), UNCHANGED toolVars
      PROVE  FilesInv' /\ Reported'
  <2>1. ServiceInv' /\ ToolInv' /\ op' = op
    BY <1>7, OutsiderKeeps, ToolStays DEF FilesInv, OutsiderChanges
  <2> QED
    BY <1>7, <2>1 DEF FilesInv, Handled, OnFile, Reported, SettledMeansQuiet, Finished
<1>8. CASE UNCHANGED vars
  BY <1>8, ToolStays, ServiceStays
     DEF vars, FilesInv, Handled, OnFile, Reported, SettledMeansQuiet, Finished
<1> QED
  BY <1>1, <1>2, <1>3, <1>4, <1>5, <1>6, <1>7, <1>8 DEF Next, Poll, Done

\* The invariant holds throughout, and with it the report where no stage replaces an outcome.
LEMMA FilesAreKept == Spec => [](FilesInv /\ Reported)
<1>1. Init => FilesInv /\ Reported
  BY FilesInit
<1>2. FilesInv /\ Reported /\ [Next]_vars => (FilesInv /\ Reported)'
  BY FilesNext
<1> QED
  BY <1>1, <1>2, PTL DEF Spec

--------------------------------------------------------------------------------
(* What the runs check *)

\* A call is not launched before the earlier calls it conflicts with have ended, however the
\* lanes of its batch fill and empty.
THEOREM OrderIsKept == Spec => []ModelOrder
<1>1. FilesInv => ModelOrder
  BY DEF FilesInv, ToolInv
<1> QED
  BY <1>1, FilesAreKept, PTL

\* Without post and finalize stages, work that goes on behind a settled call is reported as
\* a cleanup that timed out.
THEOREM ReportsAreHonest == ~StagesMayFail => (Spec => []SettledMeansQuiet)
<1> SUFFICES ASSUME ~StagesMayFail PROVE Spec => []SettledMeansQuiet
  OBVIOUS
<1>1. Reported => SettledMeansQuiet
  BY DEF Reported
<1> QED
  BY <1>1, FilesAreKept, PTL

\* A replacement destroys only what its session was shown, or what came past its service
\* between its last comparison and the rename.
THEOREM NoUpdateIsLost == Spec => OverwritesAreInformed
<1>1. FilesInv => \A c \in AllCalls :
        /\ op[c].pc = "rename" /\ op'[c].pc = "record"
        /\ files[op[c].file] \notin shown[op[c].session] \union {Absent}
        => LET by == files[op[c].file].by
           IN \/ by = Outsider
              \/ ServiceOf[SessionOf[BatchOf(by)]] # ServiceOf[op[c].session]
  BY DEF FilesInv, ServiceInv, Informed, Replaceable
<1> QED
  BY <1>1, FilesAreKept, PTL DEF OverwritesAreInformed

==============================================================================
