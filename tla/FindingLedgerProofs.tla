-------------------------- MODULE FindingLedgerProofs --------------------------
(***************************************************************************)
(* Proofs about FindingLedger for every value of its constants.            *)
(***************************************************************************)
EXTENDS FindingLedger, FiniteSetTheorems, TLAPS

USE MaxIdAssumption, BatchAssumption, ExplicitAssumption, InputAssumption,
    NoRowAssumption

(***************************************************************************)
(* Lemmas about the statements.                                            *)
(***************************************************************************)

(* Inserting a row no key of which is taken yields a database. *)
LEMMA InsertRowType ==
  ASSUME NEW d \in Database, NEW t \in PutTables, NEW r \in RowsOf(t),
         t = "gr_findings" => RowId(d, r) \in Ids,
         ~RowRejected(d, t, r)
  PROVE  InsertRow(d, t, r) \in Database
<1>1. CASE t = "gr_findings"
  <2>1. NewFinding(r) \in Finding
    BY <1>1 DEF RowsOf, FindingRow, NewFinding, Finding, Statuses, NotCarried, NoSeverity
  <2>2. InsertRow(d, t, r) = [d EXCEPT !.findings[RowId(d, r)] = NewFinding(r)]
    BY <1>1 DEF InsertRow
  <2>. QED
    BY <1>1, <2>1, <2>2 DEF Database
<1>2. CASE t = "refutations"
  BY <1>2 DEF RowsOf, RefutationRow, InsertRow, Database
<1>3. CASE t = "critic_findings"
  BY <1>3 DEF RowsOf, CriticRow, InsertRow, Database
<1>4. CASE t = "mutation_log"
  BY <1>4 DEF RowsOf, MutationRow, InsertRow, Database
<1>. QED
  BY <1>1, <1>2, <1>3, <1>4

(* So does taking an id from the sequence. *)
LEMMA AssignIdType ==
  ASSUME NEW d \in Database, NEW t, NEW r
  PROVE  AssignId(d, t, r) \in Database
BY DEF AssignId, Database

(* The two statements of Promote yield databases. *)
LEMMA PromoteTypes ==
  ASSUME NEW d \in Database, NEW f \in Stored(d), NEW sev \in SeverityInputs
  PROVE  /\ FlipStatus(d, f, sev) \in Database
         /\ LogFlip(d, f) \in Database
         /\ Stored(FlipStatus(d, f, sev)) = Stored(d)
<1>1. d.findings[f] \in Finding
  BY DEF Stored, Database
<1>2. f \in Ids /\ [d.findings[f] EXCEPT !.status = "confirmed", !.sev = sev] \in Finding
  BY <1>1 DEF Finding, Statuses, Stored
<1>3. FlipStatus(d, f, sev) \in Database
  BY <1>1, <1>2 DEF FlipStatus, Database
<1>4. LogFlip(d, f) \in Database
  BY <1>1 DEF LogFlip, Database, Finding
<1>5. Stored(FlipStatus(d, f, sev)) = Stored(d)
  BY <1>1, <1>2 DEF FlipStatus, Database, Stored
<1>. QED
  BY <1>3, <1>4, <1>5

(* Inserting keeps the keys: its guards are the constraints. *)
LEMMA InsertRowKeys ==
  ASSUME NEW d \in Database, NEW t \in PutTables, NEW r \in RowsOf(t),
         t = "gr_findings" => RowId(d, r) \in Ids,
         ~RowRejected(d, t, r), ~RowConflicts(d, t, r),
         KeysHold(d)
  PROVE  /\ KeysHold(InsertRow(d, t, r))
         /\ Stored(d) \subseteq Stored(InsertRow(d, t, r))
         /\ \A i \in Stored(d) : InsertRow(d, t, r).findings[i] = d.findings[i]
<1> DEFINE e == InsertRow(d, t, r)
<1>1. CASE t = "gr_findings"
  <2> DEFINE n == RowId(d, r)
  <2>1. n \in Ids /\ n \notin Stored(d)
    BY <1>1 DEF RowConflicts
  <2>2. NewFinding(r) # NoRow /\ NewFinding(r).hash = r.hash
    <3>1. NewFinding(r) \in Finding
      BY <1>1 DEF RowsOf, FindingRow, NewFinding, Finding, Statuses, NotCarried, NoSeverity
    <3>. QED
      BY <3>1 DEF NewFinding
  <2>3. /\ e.findings = [d.findings EXCEPT ![n] = NewFinding(r)]
        /\ e.refuted = d.refuted /\ e.critic = d.critic /\ e.proofs = d.proofs
    BY <1>1 DEF InsertRow, Database
  <2>4. Stored(e) = Stored(d) \cup {n}
    BY <2>1, <2>2, <2>3 DEF Stored, Database
  <2>5. \A i \in Stored(d) : e.findings[i] = d.findings[i]
    BY <2>1, <2>3 DEF Stored, Database
  <2>6. \A i \in Stored(d) : d.findings[i].hash # r.hash
    BY <1>1 DEF RowConflicts
  <2>7. e.findings[n] = NewFinding(r)
    BY <2>1, <2>3 DEF Database
  <2>8. \A i, j \in Stored(e) : e.findings[i].hash = e.findings[j].hash => i = j
    BY <2>1, <2>2, <2>4, <2>5, <2>6, <2>7 DEF KeysHold
  <2>. QED
    BY <2>3, <2>4, <2>5, <2>8 DEF KeysHold
<1>2. CASE t = "refutations"
  <2>1. r.finding \in Stored(d)
    BY <1>2 DEF RowRejected
  <2>2. /\ e.findings = d.findings /\ e.refuted = d.refuted \cup {r.finding}
        /\ e.critic = d.critic /\ e.proofs = d.proofs
    BY <1>2 DEF InsertRow, Database
  <2>. QED
    BY <2>1, <2>2 DEF KeysHold, Stored
<1>3. CASE t = "critic_findings"
  <2>1. r.finding \in Stored(d)
    BY <1>3 DEF RowRejected
  <2>2. /\ e.findings = d.findings /\ e.refuted = d.refuted
        /\ e.critic = [d.critic EXCEPT ![r.finding] = r.severity] /\ e.proofs = d.proofs
    BY <1>3 DEF InsertRow, Database
  <2>. QED
    BY <2>1, <2>2 DEF KeysHold, Stored, Database
<1>4. CASE t = "mutation_log"
  <2>1. /\ e.findings = d.findings /\ e.refuted = d.refuted
        /\ e.critic = d.critic /\ e.proofs = d.proofs
    BY <1>4 DEF InsertRow, Database
  <2>. QED
    BY <2>1 DEF KeysHold, Stored
<1>. QED
  BY <1>1, <1>2, <1>3, <1>4

(* The sequence is not part of the keys. *)
LEMMA AssignIdKeeps ==
  ASSUME NEW d \in Database, NEW t, NEW r, KeysHold(d)
  PROVE  /\ AssignId(d, t, r) \in Database
         /\ KeysHold(AssignId(d, t, r))
         /\ Stored(AssignId(d, t, r)) = Stored(d)
         /\ AssignId(d, t, r) = [d EXCEPT !.seq = AssignId(d, t, r).seq]
BY AssignIdType DEF AssignId, Database, KeysHold, Stored

(* The sequence a rejected batch leaves behind only grows. *)
LEMMA SeqOfRejectedType ==
  ASSUME db \in Database
  PROVE  SeqOfRejected \in Nat /\ db.seq <= SeqOfRejected
BY DEF SeqOfRejected, Database

(* Keys survive a rollback that keeps the ids it gave out. *)
LEMMA RollbackKeeps ==
  ASSUME disk \in Database, db \in Database, KeysHold(disk), Rollback
  PROVE  disk' \in Database /\ KeysHold(disk') /\ disk' = [disk EXCEPT !.seq = disk'.seq]
BY SeqOfRejectedType DEF Rollback, Database, KeysHold, Stored

(* A proof is inserted for a finding that exists. *)
LEMMA ProofKeeps ==
  ASSUME disk \in Database, KeysHold(disk),
         NEW f \in Ids, NEW c \in Consumers, NEW cap \in Caps \cup {NoCap},
         ImpactProof(f, c, cap)
  PROVE  disk' \in Database /\ KeysHold(disk')
<1>1. [finding |-> f, consumer |-> c, cap |-> cap] \in Proof
  BY DEF Proof
<1>2. disk' = [disk EXCEPT !.proofs =
                 @ \cup {[finding |-> f, consumer |-> c, cap |-> cap]}]
  BY DEF ImpactProof
<1>3. disk' \in Database
  BY <1>1, <1>2 DEF Database
<1>4. /\ disk'.findings = disk.findings /\ disk'.refuted = disk.refuted
      /\ disk'.critic = disk.critic
      /\ disk'.proofs = disk.proofs \cup {[finding |-> f, consumer |-> c, cap |-> cap]}
  BY <1>2 DEF Database
<1>5. f \in Stored(disk)
  BY DEF ImpactProof
<1>. QED
  BY <1>3, <1>4, <1>5 DEF KeysHold, Stored

(* Flipping a status touches no key. *)
LEMMA PromoteKeeps ==
  ASSUME NEW d \in Database, KeysHold(d), NEW f \in Stored(d), NEW sev \in SeverityInputs
  PROVE  KeysHold(FlipStatus(d, f, sev))
<1> DEFINE e == FlipStatus(d, f, sev)
<1>1. Stored(e) = Stored(d)
  BY PromoteTypes
<1>2. /\ e.refuted = d.refuted /\ e.critic = d.critic /\ e.proofs = d.proofs
      /\ e.findings = [d.findings EXCEPT
           ![f] = [d.findings[f] EXCEPT !.status = "confirmed", !.sev = sev]]
  BY DEF FlipStatus, Database
<1>3. d.findings[f] \in Finding
  BY DEF Stored, Database
<1>4. \A i \in Stored(d) : e.findings[i].hash = d.findings[i].hash
  BY <1>2, <1>3 DEF Stored, Database, Finding
<1>. QED
  BY <1>1, <1>2, <1>4 DEF KeysHold

(* Nor does logging the flip. *)
LEMMA LogKeeps ==
  ASSUME NEW d \in Database, KeysHold(d), NEW f \in Stored(d)
  PROVE  KeysHold(LogFlip(d, f)) /\ Stored(LogFlip(d, f)) = Stored(d)
BY DEF LogFlip, Database, KeysHold, Stored

(* Nor does a raw status UPDATE. *)
LEMMA ExecKeeps ==
  ASSUME disk \in Database, KeysHold(disk), NEW f \in Ids, NEW s \in OutOfBand,
         ExecStatus(f, s)
  PROVE  disk' \in Database /\ KeysHold(disk') /\ Stored(disk') = Stored(disk)
<1>1. f \in Stored(disk)
  BY DEF ExecStatus
<1>2. disk.findings[f] \in Finding
  BY <1>1 DEF Stored, Database
<1>3. [disk.findings[f] EXCEPT !.status = s] \in Finding
  BY <1>2 DEF Finding
<1>4. disk' = [disk EXCEPT !.findings[f].status = s]
  BY DEF ExecStatus
<1>5. disk' \in Database
  BY <1>2, <1>3, <1>4 DEF Database
<1>6. /\ disk'.refuted = disk.refuted /\ disk'.critic = disk.critic
      /\ disk'.proofs = disk.proofs
      /\ disk'.findings = [disk.findings EXCEPT ![f] = [disk.findings[f] EXCEPT !.status = s]]
  BY <1>4 DEF Database
<1>7. Stored(disk') = Stored(disk)
  BY <1>1, <1>2, <1>3, <1>6 DEF Stored, Database
<1>8. \A i \in Stored(disk) : disk'.findings[i].hash = disk.findings[i].hash
  BY <1>2, <1>6 DEF Stored, Database, Finding
<1>. QED
  BY <1>5, <1>6, <1>7, <1>8 DEF KeysHold
-------------------------------------------------------------------------------
(***************************************************************************)
(* The inductive invariant: between calls the view is the committed        *)
(* database, and during a promotion it is the committed database with the  *)
(* status of one promotable finding flipped and nothing logged yet.        *)
(***************************************************************************)
CallInv ==
  /\ call = Idle => db = disk
  /\ call.verb = "put" => call.inserted + call.skipped = call.next - 1
  /\ call.verb = "promote" =>
       /\ Promotable(disk, call.finding, call.sev)
       /\ db = FlipStatus(disk, call.finding, call.sev)

IInv == TypeOK /\ KeysHoldThroughout /\ CallInv

(* The row a Put is at is a row of its table. *)
LEMMA RowTyped ==
  ASSUME TypeOK, AtRow, SequenceLeft
  PROVE  /\ call.table \in PutTables
         /\ Row \in RowsOf(call.table)
         /\ call.table = "gr_findings" => RowId(db, Row) \in Ids
         /\ call # Idle
<1>1. PICK t \in PutTables : call \in PutCalls(t)
  BY DEF TypeOK, AtRow, Idle
<1>2. PICK n \in 1..MaxBatch : call.rows \in [1..n -> RowsOf(t)]
  BY <1>1 DEF Batches, PutCalls
<1>3. Row \in RowsOf(t)
  BY <1>1, <1>2 DEF AtRow, Row, PutCalls
<1>. QED
  BY <1>1, <1>3 DEF SequenceLeft, AtRow, Idle, PutCalls

(* The rows a Put has written, the one it is at included, have their ids. *)
LEMMA WrittenTyped ==
  ASSUME TypeOK, AtRow, SequenceLeft
  PROVE  /\ Written \subseteq WrittenRow
         /\ call.written \subseteq WrittenRow
<1>1. PICK t \in PutTables : call \in PutCalls(t)
  BY DEF TypeOK, AtRow, Idle
<1>2. call.written \subseteq WrittenRow
  BY <1>1 DEF PutCalls
<1>3. ASSUME call.table = "gr_findings" PROVE WithId(db, Row) \in WrittenRow
  <2>1. Row \in FindingRow /\ RowId(db, Row) \in Ids
    BY <1>3, RowTyped DEF RowsOf
  <2>. QED
    BY <2>1 DEF WithId, FindingRow, WrittenRow
<1>. QED
  BY <1>2, <1>3 DEF Written

(* A statement of a Put moves the call on and keeps its type and its count. *)
Advances ==
  \/ call' = [call EXCEPT !.next = @ + 1, !.inserted = @ + 1, !.written = Written]
  \/ call' = [call EXCEPT !.next = @ + 1, !.skipped = @ + 1, !.written = Written]
  \/ call' = [call EXCEPT !.next = @ + 1, !.inserted = @ + 1, !.written = Written,
                         !.exact = FALSE]

LEMMA CallAdvances ==
  ASSUME TypeOK, CallInv, AtRow, SequenceLeft, Advances
  PROVE  /\ \E t \in PutTables : call' \in PutCalls(t)
         /\ call'.inserted + call'.skipped = call'.next - 1
         /\ call'.table = call.table /\ call'.rows = call.rows
         /\ call'.next = call.next + 1 /\ call'.written = Written
<1>1. PICK t \in PutTables : call \in PutCalls(t)
  BY DEF TypeOK, AtRow, Idle
<1> USE DEF PutCalls
<1>2. PICK n \in 1..MaxBatch : call.rows \in [1..n -> RowsOf(t)]
  BY <1>1 DEF Batches
<1>3. call.next <= MaxBatch
  BY <1>1, <1>2 DEF AtRow
<1>4. call.inserted + call.skipped = call.next - 1
  BY DEF CallInv, AtRow
<1>5. Written \in SUBSET WrittenRow
  BY WrittenTyped
<1>6. call.next + 1 \in 1..(MaxBatch + 1)
  BY <1>1, <1>3
<1>7. CASE call' = [call EXCEPT !.next = @ + 1, !.inserted = @ + 1, !.written = Written]
  <2>1. call.inserted + 1 \in 0..MaxBatch
    BY <1>1, <1>3, <1>4
  <2>2. call' \in PutCalls(t)
    BY <1>1, <1>5, <1>6, <1>7, <2>1
  <2>3. /\ call'.inserted = call.inserted + 1 /\ call'.skipped = call.skipped
        /\ call'.table = call.table /\ call'.rows = call.rows
        /\ call'.next = call.next + 1 /\ call'.written = Written
    BY <1>1, <1>7
  <2>. QED
    BY <1>1, <1>4, <2>2, <2>3
<1>8. CASE call' = [call EXCEPT !.next = @ + 1, !.skipped = @ + 1, !.written = Written]
  <2>1. call.skipped + 1 \in 0..MaxBatch
    BY <1>1, <1>3, <1>4
  <2>2. call' \in PutCalls(t)
    BY <1>1, <1>5, <1>6, <1>8, <2>1
  <2>3. /\ call'.inserted = call.inserted /\ call'.skipped = call.skipped + 1
        /\ call'.table = call.table /\ call'.rows = call.rows
        /\ call'.next = call.next + 1 /\ call'.written = Written
    BY <1>1, <1>8
  <2>. QED
    BY <1>1, <1>4, <2>2, <2>3
<1>9. CASE call' = [call EXCEPT !.next = @ + 1, !.inserted = @ + 1, !.written = Written,
                              !.exact = FALSE]
  <2>1. call.inserted + 1 \in 0..MaxBatch
    BY <1>1, <1>3, <1>4
  <2>2. call' \in PutCalls(t)
    BY <1>1, <1>5, <1>6, <1>9, <2>1
  <2>3. /\ call'.inserted = call.inserted + 1 /\ call'.skipped = call.skipped
        /\ call'.table = call.table /\ call'.rows = call.rows
        /\ call'.next = call.next + 1 /\ call'.written = Written
    BY <1>1, <1>9
  <2>. QED
    BY <1>1, <1>4, <2>2, <2>3
<1>. QED
  BY <1>7, <1>8, <1>9 DEF Advances

(* Both ways of skipping a row change nothing but the call and the sequence. *)
Skips == PutSkip \/ PutSkipUnreported
LEMMA SkipsDoNothing == Skips => DoNothing /\ Advances
BY DEF Skips, PutSkip, PutSkipUnreported, Advances

LEMMA InsertAdvances == PutInsert => Advances
BY DEF PutInsert, Advances

(* Every verb starts and ends in the invariant. *)
LEMMA IInvInit == Init => IInv
<1> SUFFICES ASSUME Init PROVE IInv
  OBVIOUS
<1>1. EmptyDatabase \in Database
  BY DEF EmptyDatabase, Database
<1>2. Stored(EmptyDatabase) = {}
  BY DEF EmptyDatabase, Stored
<1>3. KeysHold(EmptyDatabase)
  BY <1>2 DEF KeysHold, EmptyDatabase
<1>4. TypeOK
  BY <1>1 DEF Init, TypeOK
<1>5. CallInv
  BY DEF Init, CallInv, Idle
<1>. QED
  BY <1>3, <1>4, <1>5 DEF Init, IInv, KeysHoldThroughout

LEMMA IInvNext == IInv /\ [Next]_vars => IInv'
<1> SUFFICES ASSUME IInv, [Next]_vars PROVE IInv'
  OBVIOUS
<1> USE DEF IInv, KeysHoldThroughout
<1>1. ASSUME NEW t \in PutTables, PutBegin(t) PROVE IInv'
  <2>1. PICK rows \in Batches(t) : call' = PutCall(t, rows)
    BY <1>1 DEF PutBegin
  <2>2. call' \in PutCalls(t)
    BY <2>1 DEF PutCall, PutCalls
  <2>3. TypeOK'
    BY <1>1, <2>2 DEF PutBegin, TypeOK
  <2>4. CallInv'
    BY <2>1 DEF PutCall, CallInv, Idle
  <2>. QED
    BY <1>1, <2>3, <2>4 DEF PutBegin
<1>2. CASE PutInsert
  <2>1. /\ call.table \in PutTables /\ Row \in RowsOf(call.table)
        /\ call.table = "gr_findings" => RowId(db, Row) \in Ids
    BY <1>2, RowTyped DEF PutInsert
  <2> DEFINE e == InsertRow(db, call.table, Row)
  <2>2. e \in Database /\ KeysHold(e)
    BY <1>2, <2>1, InsertRowType, InsertRowKeys DEF PutInsert, TypeOK
  <2>3. db' \in Database /\ KeysHold(db')
    BY <1>2, <2>2, AssignIdKeeps DEF PutInsert
  <2>4. /\ \E t \in PutTables : call' \in PutCalls(t)
        /\ call'.inserted + call'.skipped = call'.next - 1
    BY <1>2, InsertAdvances, CallAdvances DEF PutInsert
  <2>5. TypeOK'
    BY <1>2, <2>3, <2>4 DEF PutInsert, TypeOK
  <2>6. CallInv'
    BY <2>4 DEF CallInv, Idle, PutCalls
  <2>. QED
    BY <1>2, <2>3, <2>5, <2>6 DEF PutInsert
<1>3. CASE Skips
  <2>2. DoNothing /\ Advances
    BY <1>3, SkipsDoNothing
  <2>3. db' \in Database /\ KeysHold(db')
    BY <2>2, AssignIdKeeps DEF DoNothing, TypeOK
  <2>4. /\ \E t \in PutTables : call' \in PutCalls(t)
        /\ call'.inserted + call'.skipped = call'.next - 1
    BY <2>2, CallAdvances DEF DoNothing
  <2>5. TypeOK'
    BY <2>2, <2>3, <2>4 DEF DoNothing, TypeOK
  <2>6. CallInv'
    BY <2>4 DEF CallInv, Idle, PutCalls
  <2>. QED
    BY <2>2, <2>3, <2>5, <2>6 DEF DoNothing
<1>4. CASE PutReject
  <2>1. disk' \in Database /\ KeysHold(disk')
    BY <1>4, RollbackKeeps DEF PutReject, TypeOK
  <2>. QED
    BY <1>4, <2>1 DEF PutReject, Rollback, TypeOK, CallInv, Idle
<1>5. CASE PutCommit
  <2>1. acked' \subseteq WrittenRow
    BY <1>5 DEF PutCommit, TypeOK, Idle, PutCalls
  <2>. QED
    BY <1>5, <2>1 DEF PutCommit, TypeOK, CallInv, Idle
<1>6. ASSUME NEW f \in Ids, NEW c \in Consumers, NEW cap \in CapInputs, ImpactProof(f, c, cap)
      PROVE  IInv'
  <2>1. disk' \in Database /\ KeysHold(disk')
    BY <1>6, ProofKeeps DEF ImpactProof, TypeOK
  <2>. QED
    BY <1>6, <2>1 DEF ImpactProof, TypeOK, CallInv, Idle
<1>7. ASSUME NEW f \in Ids, NEW sev \in SeverityInputs, PromoteFlip(f, sev)
      PROVE  IInv'
  <2>1. f \in Stored(disk)
    BY <1>7 DEF PromoteFlip, Promotable
  <2>2. db' \in Database /\ KeysHold(db')
    BY <1>7, <2>1, PromoteTypes, PromoteKeeps DEF PromoteFlip, TypeOK
  <2>3. call' = PromoteCall(f, sev) /\ call'.verb = "promote"
        /\ call'.finding = f /\ call'.sev = sev
    BY <1>7 DEF PromoteFlip, PromoteCall
  <2>4. TypeOK'
    BY <1>7, <2>2, <2>3 DEF PromoteFlip, TypeOK, PromoteCall
  <2>5. CallInv'
    BY <1>7, <2>3 DEF PromoteFlip, CallInv, Idle
  <2>. QED
    BY <1>7, <2>2, <2>4, <2>5 DEF PromoteFlip
<1>8. CASE PromoteCommit
  <2> DEFINE f == call.finding
  <2>1. f \in Stored(disk) /\ f \in Ids /\ call.sev \in SeverityInputs
    BY <1>8 DEF PromoteCommit, CallInv, Promotable, Stored, TypeOK, Idle, PutCalls
  <2>2. f \in Stored(db)
    BY <1>8, <2>1, PromoteTypes DEF PromoteCommit, CallInv, TypeOK
  <2>3. disk' \in Database /\ KeysHold(disk')
    BY <1>8, <2>1, <2>2, PromoteTypes, LogKeeps DEF PromoteCommit, TypeOK
  <2>. QED
    BY <1>8, <2>3 DEF PromoteCommit, TypeOK, CallInv, Idle
<1>9. ASSUME NEW f \in Ids, NEW s \in OutOfBand, ExecStatus(f, s) PROVE IInv'
  <2>1. disk' \in Database /\ KeysHold(disk')
    BY <1>9, ExecKeeps DEF ExecStatus, TypeOK
  <2>. QED
    BY <1>9, <2>1 DEF ExecStatus, TypeOK, CallInv, Idle
<1>10. CASE Crash
  BY <1>10 DEF Crash, TypeOK, CallInv, Idle
<1>11. CASE UNCHANGED vars
  BY <1>11 DEF vars, TypeOK, CallInv
<1>. QED
  BY <1>1, <1>2, <1>3, <1>4, <1>5, <1>6, <1>7, <1>8, <1>9, <1>10, <1>11 DEF Next, Skips

(* The invariant holds in every behaviour, and with it types and keys. *)
THEOREM InvariantHolds == Spec => []IInv
<1>1. QED
  BY IInvInit, IInvNext, PTL DEF Spec

(* Every variable keeps its type, for any number of ids, hashes and rows.   *)
THEOREM TypeCorrect == Spec => []TypeOK
<1>1. IInv => TypeOK
  BY DEF IInv
<1>. QED
  BY <1>1, InvariantHolds, PTL

(* The pre-checks of the write path keep every UNIQUE and REFERENCES        *)
(* constraint, in the committed database and at every statement.            *)
THEOREM KeysAlwaysHold == Spec => []KeysHoldThroughout
<1>1. IInv => KeysHoldThroughout
  BY DEF IInv
<1>. QED
  BY <1>1, InvariantHolds, PTL
-------------------------------------------------------------------------------
(***************************************************************************)
(* What the statements of a Put have done so far: old findings untouched,  *)
(* new ones recorded with a Put status, evidence only added, and only to   *)
(* the table the Put writes.                                               *)
(***************************************************************************)
Grows(d, e) ==
  /\ \A i \in Stored(d) : i \in Stored(e) /\ e.findings[i] = d.findings[i]
  /\ \A i \in Stored(e) \ Stored(d) : e.findings[i].status \in PutStatuses
  /\ d.refuted \subseteq e.refuted
  /\ \A i \in Ids : d.critic[i] # NoVerdict => e.critic[i] = d.critic[i]
  /\ e.proofs = d.proofs
  /\ e.flips = d.flips
  /\ d.seq <= e.seq

PutInv ==
  call.verb = "put" =>
    /\ Grows(disk, db)
    /\ IF call.table = "gr_findings"
       THEN db.refuted = disk.refuted /\ db.critic = disk.critic
       ELSE db.findings = disk.findings

(* An insert grows the database, in the table it writes. *)
LEMMA InsertRowGrows ==
  ASSUME NEW d \in Database, NEW t \in PutTables, NEW r \in RowsOf(t),
         t = "gr_findings" => RowId(d, r) \in Ids,
         ~RowRejected(d, t, r), ~RowConflicts(d, t, r), KeysHold(d)
  PROVE  /\ Grows(d, InsertRow(d, t, r))
         /\ InsertRow(d, t, r).seq = d.seq
         /\ IF t = "gr_findings"
            THEN InsertRow(d, t, r).refuted = d.refuted /\ InsertRow(d, t, r).critic = d.critic
            ELSE InsertRow(d, t, r).findings = d.findings
<1> DEFINE e == InsertRow(d, t, r)
<1>1. \A i \in Stored(d) : i \in Stored(e) /\ e.findings[i] = d.findings[i]
  BY InsertRowKeys
<1>2. d.seq \in Nat
  BY DEF Database
<1>3. CASE t = "gr_findings"
  <2>1. /\ e.findings = [d.findings EXCEPT ![RowId(d, r)] = NewFinding(r)]
        /\ e.refuted = d.refuted /\ e.critic = d.critic /\ e.proofs = d.proofs
        /\ e.flips = d.flips /\ e.seq = d.seq
    BY <1>3 DEF InsertRow, Database
  <2>2. NewFinding(r).status \in PutStatuses
    BY <1>3 DEF RowRejected, NewFinding
  <2>3. \A i \in Stored(e) \ Stored(d) : i = RowId(d, r)
    BY <2>1 DEF Stored, Database
  <2>4. \A i \in Stored(e) \ Stored(d) : e.findings[i] = NewFinding(r)
    BY <1>3, <2>1, <2>3 DEF Database
  <2>5. \A i \in Stored(e) \ Stored(d) : e.findings[i].status \in PutStatuses
    BY <2>2, <2>4
  <2>. QED
    BY <1>1, <1>2, <1>3, <2>1, <2>5 DEF Grows
<1>4. CASE t = "refutations"
  <2>1. /\ e.findings = d.findings /\ e.refuted = d.refuted \cup {r.finding}
        /\ e.critic = d.critic /\ e.proofs = d.proofs
        /\ e.flips = d.flips /\ e.seq = d.seq
    BY <1>4 DEF InsertRow, Database
  <2>. QED
    BY <1>2, <1>4, <2>1 DEF Grows, Stored
<1>5. CASE t = "critic_findings"
  <2>1. /\ e.findings = d.findings /\ e.refuted = d.refuted
        /\ e.critic = [d.critic EXCEPT ![r.finding] = r.severity] /\ e.proofs = d.proofs
        /\ e.flips = d.flips /\ e.seq = d.seq
    BY <1>5 DEF InsertRow, Database
  <2>2. d.critic[r.finding] = NoVerdict
    BY <1>5 DEF RowConflicts
  <2>3. \A i \in Ids : d.critic[i] # NoVerdict => e.critic[i] = d.critic[i]
    BY <2>1, <2>2 DEF Database
  <2>. QED
    BY <1>2, <1>5, <2>1, <2>3 DEF Grows, Stored
<1>6. CASE t = "mutation_log"
  <2>1. /\ e.findings = d.findings /\ e.refuted = d.refuted
        /\ e.critic = d.critic /\ e.proofs = d.proofs
        /\ e.flips = d.flips /\ e.seq = d.seq
    BY <1>6 DEF InsertRow, Database
  <2>. QED
    BY <1>2, <1>6, <2>1 DEF Grows, Stored
<1>. QED
  BY <1>3, <1>4, <1>5, <1>6

(* Taking an id grows nothing but the sequence. *)
LEMMA AssignIdGrows ==
  ASSUME NEW d \in Database, NEW t, NEW r
  PROVE  LET e == AssignId(d, t, r)
         IN  /\ e.findings = d.findings /\ e.refuted = d.refuted
             /\ e.critic = d.critic /\ e.proofs = d.proofs /\ e.flips = d.flips
             /\ d.seq <= e.seq
BY DEF AssignId, Database

(* Growth composes, so a whole batch grows what it started from. *)
LEMMA GrowsTransitive ==
  ASSUME NEW c \in Database, NEW d \in Database, NEW e \in Database,
         Grows(c, d), Grows(d, e)
  PROVE  Grows(c, e)
<1>1. \A i \in Stored(e) \ Stored(c) : e.findings[i].status \in PutStatuses
  <2>1. ASSUME NEW i \in Stored(e) \ Stored(c) PROVE e.findings[i].status \in PutStatuses
    <3>1. CASE i \in Stored(d)
      BY <2>1, <3>1 DEF Grows
    <3>2. CASE i \notin Stored(d)
      BY <2>1, <3>2 DEF Grows
    <3>. QED
      BY <3>1, <3>2
  <2>. QED
    BY <2>1
<1>2. \A i \in Stored(c) : i \in Stored(e) /\ e.findings[i] = c.findings[i]
  BY DEF Grows
<1>3. c.seq <= e.seq
  BY DEF Grows, Database
<1>4. \A i \in Ids : c.critic[i] # NoVerdict => e.critic[i] = c.critic[i]
  BY DEF Grows
<1>. QED
  BY <1>1, <1>2, <1>3, <1>4 DEF Grows

LEMMA GrowsReflexive ==
  ASSUME NEW d \in Database
  PROVE  Grows(d, d)
BY DEF Grows, Database

(* Sequence numbers aside, two databases are the same to Grows. *)
LEMMA GrowsSameTables ==
  ASSUME NEW d \in Database, NEW e \in Database, NEW g \in Database, Grows(d, e),
         g.findings = e.findings, g.refuted = e.refuted, g.critic = e.critic,
         g.proofs = e.proofs, g.flips = e.flips, e.seq <= g.seq
  PROVE  Grows(d, g)
<1>1. d.seq <= g.seq
  BY DEF Grows, Database
<1>2. Stored(g) = Stored(e)
  BY DEF Stored
<1>. QED
  BY <1>1, <1>2 DEF Grows

LEMMA PutInvNext == IInv /\ PutInv /\ [Next]_vars => PutInv'
<1> SUFFICES ASSUME IInv, PutInv, [Next]_vars PROVE PutInv'
  OBVIOUS
<1> USE DEF IInv
<1>1. ASSUME NEW t \in PutTables, PutBegin(t) PROVE PutInv'
  <2>1. db = disk /\ db' = db /\ disk' = disk
    BY <1>1 DEF PutBegin, CallInv
  <2>. QED
    BY <2>1, GrowsReflexive DEF PutInv, TypeOK
<1>2. CASE PutInsert
  <2>1. /\ call.table \in PutTables /\ Row \in RowsOf(call.table)
        /\ call.table = "gr_findings" => RowId(db, Row) \in Ids
    BY <1>2, RowTyped DEF PutInsert
  <2> DEFINE t == call.table
             e == InsertRow(db, t, Row)
  <2>2. /\ Grows(db, e)
        /\ IF t = "gr_findings" THEN e.refuted = db.refuted /\ e.critic = db.critic
                                ELSE e.findings = db.findings
    BY <1>2, <2>1, InsertRowGrows DEF PutInsert, TypeOK, KeysHoldThroughout
  <2>3. e \in Database
    BY <1>2, <2>1, InsertRowType DEF PutInsert, TypeOK
  <2>4. db' = AssignId(e, t, Row) /\ db' \in Database
    BY <1>2, <2>3, AssignIdType DEF PutInsert
  <2>5. /\ db'.findings = e.findings /\ db'.refuted = e.refuted
        /\ db'.critic = e.critic /\ db'.proofs = e.proofs /\ db'.flips = e.flips
        /\ e.seq <= db'.seq
    BY <2>3, <2>4, AssignIdGrows
  <2>6. Grows(disk, db) /\ disk' = disk /\ call.verb = "put" /\ call'.table = t
    BY <1>2, InsertAdvances, CallAdvances DEF PutInsert, PutInv, AtRow
  <2>7. Grows(disk, e)
    BY <2>2, <2>3, <2>6, GrowsTransitive DEF TypeOK
  <2>8. Grows(disk, db')
    BY <2>3, <2>4, <2>5, <2>7, GrowsSameTables DEF TypeOK
  <2>. QED
    BY <2>2, <2>5, <2>6, <2>8 DEF PutInv
<1>3. CASE Skips
  <2>0. DoNothing /\ Advances
    BY <1>3, SkipsDoNothing
  <2>1. db' = AssignId(db, call.table, Row) /\ db' \in Database
    BY <2>0, AssignIdType DEF DoNothing, TypeOK
  <2>2. /\ db'.findings = db.findings /\ db'.refuted = db.refuted
        /\ db'.critic = db.critic /\ db'.proofs = db.proofs /\ db'.flips = db.flips
        /\ db.seq <= db'.seq
    BY <2>1, AssignIdGrows DEF TypeOK
  <2>3. Grows(disk, db) /\ disk' = disk /\ call.verb = "put" /\ call'.table = call.table
    BY <2>0, CallAdvances DEF DoNothing, PutInv, AtRow
  <2>4. Grows(disk, db')
    BY <2>1, <2>2, <2>3, GrowsSameTables DEF TypeOK
  <2>. QED
    BY <2>2, <2>3, <2>4 DEF PutInv
<1>4. CASE PutReject
  BY <1>4 DEF PutReject, Rollback, PutInv, Idle
<1>5. CASE PutCommit
  BY <1>5 DEF PutCommit, PutInv, Idle
<1>6. ASSUME NEW f \in Ids, NEW c \in Consumers, NEW cap \in CapInputs, ImpactProof(f, c, cap)
      PROVE  PutInv'
  BY <1>6 DEF ImpactProof, PutInv, Idle
<1>7. ASSUME NEW f \in Ids, NEW sev \in SeverityInputs, PromoteFlip(f, sev)
      PROVE  PutInv'
  BY <1>7 DEF PromoteFlip, PromoteCall, PutInv
<1>8. CASE PromoteCommit
  BY <1>8 DEF PromoteCommit, PutInv, Idle
<1>9. ASSUME NEW f \in Ids, NEW s \in OutOfBand, ExecStatus(f, s) PROVE PutInv'
  BY <1>9 DEF ExecStatus, PutInv, Idle
<1>10. CASE Crash
  BY <1>10 DEF Crash, PutInv, Idle
<1>11. CASE UNCHANGED vars
  BY <1>11 DEF vars, PutInv
<1>. QED
  BY <1>1, <1>2, <1>3, <1>4, <1>5, <1>6, <1>7, <1>8, <1>9, <1>10, <1>11 DEF Next, Skips

LEMMA PutInvHolds == Spec => []PutInv
<1>1. Init => PutInv
  BY DEF Init, PutInv, Idle
<1>. QED
  BY <1>1, PutInvNext, InvariantHolds, PTL DEF Spec
-------------------------------------------------------------------------------
(***************************************************************************)
(* The counts of a Put: every insert so far added one row to the table in  *)
(* the open view, every skip none, whichever of the two it was counted as. *)
(***************************************************************************)
Tells(before, after) ==
  /\ after <= before + call.inserted
  /\ call.exact => after = before + call.inserted

CountInv ==
  /\ IsFiniteSet(disk.notes) /\ IsFiniteSet(db.notes)
  /\ call.verb = "put" =>
       Tells(Cardinality(TableRows(disk, call.table)),
             Cardinality(TableRows(db, call.table)))

LEMMA TableRowsFinite ==
  ASSUME NEW d \in Database, IsFiniteSet(d.notes), NEW t \in PutTables
  PROVE  /\ IsFiniteSet(TableRows(d, t))
         /\ Cardinality(TableRows(d, t)) \in Nat
<1>1. IsFiniteSet(Ids)
  BY FS_Interval DEF Ids
<1>2. d.refuted \subseteq Ids
  BY DEF Database
<1>3. t = "mutation_log" \/ TableRows(d, t) \subseteq Ids
  BY <1>2 DEF TableRows, Stored
<1>4. IsFiniteSet(TableRows(d, t))
  <2>1. CASE t = "mutation_log"
    BY <2>1 DEF TableRows
  <2>2. CASE TableRows(d, t) \subseteq Ids
    BY <1>1, <2>2, FS_Subset
  <2>. QED
    BY <1>3, <2>1, <2>2
<1>. QED
  BY <1>4, FS_CardinalityType

(* An insert whose keys are free adds one row, which was not there. *)
LEMMA InsertRowAddsOne ==
  ASSUME NEW d \in Database, NEW t \in PutTables, NEW r \in RowsOf(t),
         t = "gr_findings" => RowId(d, r) \in Ids,
         ~RowRejected(d, t, r), ~RowConflicts(d, t, r), IsFiniteSet(d.notes)
  PROVE  /\ IsFiniteSet(InsertRow(d, t, r).notes)
         /\ Cardinality(TableRows(InsertRow(d, t, r), t))
              = Cardinality(TableRows(d, t)) + 1
<1> DEFINE e == InsertRow(d, t, r)
<1>1. IsFiniteSet(TableRows(d, t))
  BY TableRowsFinite
<1>2. IsFiniteSet(e.notes)
        /\ \E x : x \notin TableRows(d, t) /\ TableRows(e, t) = TableRows(d, t) \cup {x}
  <2>1. CASE t = "gr_findings"
    <3>1. /\ e.findings = [d.findings EXCEPT ![RowId(d, r)] = NewFinding(r)]
          /\ e.notes = d.notes
      BY <2>1 DEF InsertRow, Database
    <3>2. RowId(d, r) \notin Stored(d) /\ RowId(d, r) \in Ids
      BY <2>1 DEF RowConflicts
    <3>3. NewFinding(r) \in Finding
      <4>1. r \in FindingRow /\ r.status \in Statuses
        BY <2>1 DEF RowsOf, FindingRow
      <4>. QED
        BY <4>1 DEF NewFinding, Finding, FindingRow
    <3>4. Stored(e) = Stored(d) \cup {RowId(d, r)}
      BY <3>1, <3>2, <3>3 DEF Stored, Database
    <3>. QED
      BY <2>1, <3>1, <3>2, <3>4 DEF TableRows
  <2>2. CASE t = "refutations"
    <3>1. e.refuted = d.refuted \cup {r.finding} /\ e.notes = d.notes
      BY <2>2 DEF InsertRow, Database
    <3>2. r.finding \notin d.refuted
      BY <2>2 DEF RowConflicts
    <3>. QED
      BY <2>2, <3>1, <3>2 DEF TableRows
  <2>3. CASE t = "critic_findings"
    <3>1. /\ e.critic = [d.critic EXCEPT ![r.finding] = r.severity]
          /\ e.notes = d.notes
      BY <2>3 DEF InsertRow, Database
    <3>2. d.critic[r.finding] = NoVerdict
      BY <2>3 DEF RowConflicts
    <3>3. r.finding \in Ids /\ r.severity # NoVerdict
      BY <2>3 DEF RowsOf, CriticRow, Verdicts, NoVerdict
    <3>4. {i \in Ids : e.critic[i] # NoVerdict}
            = {i \in Ids : d.critic[i] # NoVerdict} \cup {r.finding}
      BY <3>1, <3>3 DEF Database
    <3>. QED
      BY <2>3, <3>1, <3>2, <3>4 DEF TableRows
  <2>4. CASE t = "mutation_log"
    <3>1. e.notes = d.notes \cup {r.key}
      BY <2>4 DEF InsertRow, Database
    <3>2. r.key \notin d.notes
      BY <2>4 DEF RowConflicts
    <3>3. IsFiniteSet(e.notes)
      BY <3>1, FS_AddElement
    <3>. QED
      BY <2>4, <3>1, <3>2, <3>3 DEF TableRows
  <2>. QED
    BY <2>1, <2>2, <2>3, <2>4
<1>3. PICK x : x \notin TableRows(d, t) /\ TableRows(e, t) = TableRows(d, t) \cup {x}
  BY <1>2
<1>4. Cardinality(TableRows(d, t) \cup {x}) = Cardinality(TableRows(d, t)) + 1
  BY <1>1, <1>3, FS_AddElement
<1>. QED
  BY <1>2, <1>3, <1>4

(* Taking an id adds no row to any table. *)
LEMMA AssignIdAddsNone ==
  ASSUME NEW d \in Database, NEW t, NEW r, NEW u
  PROVE  /\ AssignId(d, t, r).notes = d.notes
         /\ TableRows(AssignId(d, t, r), u) = TableRows(d, u)
<1> DEFINE e == AssignId(d, t, r)
<1>1. /\ e.findings = d.findings /\ e.refuted = d.refuted
      /\ e.critic = d.critic /\ e.notes = d.notes
  BY DEF AssignId, Database
<1>. QED
  BY <1>1 DEF TableRows, Stored

LEMMA CountInvNext == IInv /\ CountInv /\ [Next]_vars => CountInv'
<1> SUFFICES ASSUME IInv, CountInv, [Next]_vars PROVE CountInv'
  OBVIOUS
<1> USE DEF IInv
<1>1. ASSUME NEW t \in PutTables, PutBegin(t) PROVE CountInv'
  <2>1. db = disk /\ db' = db /\ disk' = disk
    BY <1>1 DEF PutBegin, CallInv
  <2>2. call'.table = t /\ call'.inserted = 0
    BY <1>1 DEF PutBegin, PutCall
  <2>3. Cardinality(TableRows(disk, t)) \in Nat
    BY TableRowsFinite DEF TypeOK, CountInv
  <2>. QED
    BY <2>1, <2>2, <2>3 DEF CountInv, Tells
<1>2. CASE PutInsert
  <2>1. /\ call.table \in PutTables /\ Row \in RowsOf(call.table)
        /\ call.table = "gr_findings" => RowId(db, Row) \in Ids
    BY <1>2, RowTyped DEF PutInsert
  <2> DEFINE t == call.table
             e == InsertRow(db, t, Row)
  <2>2. e \in Database /\ IsFiniteSet(e.notes)
        /\ Cardinality(TableRows(e, t)) = Cardinality(TableRows(db, t)) + 1
    BY <1>2, <2>1, InsertRowType, InsertRowAddsOne DEF PutInsert, TypeOK, CountInv
  <2>3. db'.notes = e.notes /\ TableRows(db', t) = TableRows(e, t)
    BY <1>2, <2>2, AssignIdAddsNone DEF PutInsert
  <2> DEFINE before == Cardinality(TableRows(disk, t))
             after == Cardinality(TableRows(db, t))
  <2>4. Tells(before, after)
    BY <1>2 DEF PutInsert, AtRow, CountInv
  <2>5. call'.table = t /\ disk' = disk
    BY <1>2, InsertAdvances, CallAdvances DEF PutInsert
  <2>6. /\ call'.inserted = call.inserted + 1 /\ call.inserted \in Nat
        /\ call'.exact = call.exact
    BY <1>2 DEF PutInsert, AtRow, TypeOK, Idle, PutCalls
  <2>7. before \in Nat /\ after \in Nat
    BY <2>1, TableRowsFinite DEF TypeOK, CountInv
  <2>8. Tells(before, after)'
    <3>1. Cardinality(TableRows(disk', t)) = before
      BY <2>5
    <3> HIDE DEF before, after
    <3>2. \A x \in Int : x = call'.inserted =>
             /\ after + 1 <= before + x
             /\ call.exact => after + 1 = before + x
      BY <2>4, <2>6, <2>7 DEF Tells
    <3>3. call'.inserted \in Int
      BY <2>6
    <3>. QED
      BY <2>2, <2>3, <2>5, <2>6, <3>1, <3>2, <3>3 DEF Tells, before, after
  <2>. QED
    BY <2>2, <2>3, <2>5, <2>8 DEF CountInv
<1>3. CASE Skips
  <2>0. DoNothing /\ Advances /\ AtRow /\ SequenceLeft
    BY <1>3, SkipsDoNothing DEF DoNothing
  <2>1. db'.notes = db.notes /\ TableRows(db', call.table) = TableRows(db, call.table)
    BY <2>0, AssignIdAddsNone DEF DoNothing, TypeOK
  <2>2. call'.table = call.table /\ disk' = disk /\ call.verb = "put"
    BY <2>0, CallAdvances DEF DoNothing, AtRow
  <2>3. \/ call'.inserted = call.inserted /\ call'.exact = call.exact
        \/ call'.inserted = call.inserted + 1 /\ call'.exact = FALSE
    BY <1>3, <2>0 DEF Skips, PutSkip, PutSkipUnreported, AtRow, TypeOK, Idle, PutCalls
  <2> DEFINE before == Cardinality(TableRows(disk, call.table))
             after == Cardinality(TableRows(db, call.table))
  <2>4. Tells(before, after) /\ call.inserted \in Nat /\ call.table \in PutTables
    BY <2>0, <2>2 DEF CountInv, AtRow, TypeOK, Idle, PutCalls
  <2>5. before \in Nat /\ after \in Nat
    BY <2>4, TableRowsFinite DEF TypeOK, CountInv
  <2>6. Tells(before, after)'
    <3>1. before' = before /\ after' = after
      BY <2>1, <2>2
    <3>2. CASE call'.inserted = call.inserted /\ call'.exact = call.exact
      BY <2>4, <3>1, <3>2 DEF Tells
    <3>3. CASE call'.inserted = call.inserted + 1 /\ call'.exact = FALSE
      <4> HIDE DEF before, after
      <4>1. \A x \in Int : x = call'.inserted => after <= before + x
        BY <2>4, <2>5, <3>3 DEF Tells
      <4>2. call'.inserted \in Int
        BY <2>4, <3>3
      <4>. QED
        BY <3>1, <3>3, <4>1, <4>2 DEF Tells
    <3>. QED
      BY <2>3, <3>2, <3>3
  <2>. QED
    BY <2>1, <2>2, <2>6 DEF CountInv
<1>4. CASE PutReject
  <2>1. disk'.notes = disk.notes /\ db' = disk' /\ call' = Idle
    BY <1>4 DEF PutReject, Rollback, TypeOK, Database
  <2>. QED
    BY <2>1 DEF CountInv, Idle
<1>5. CASE PutCommit
  BY <1>5 DEF PutCommit, CountInv, Idle
<1>6. ASSUME NEW f \in Ids, NEW c \in Consumers, NEW cap \in CapInputs, ImpactProof(f, c, cap)
      PROVE  CountInv'
  <2>1. disk'.notes = disk.notes /\ db' = disk' /\ call' = Idle
    BY <1>6 DEF ImpactProof, TypeOK, Database
  <2>. QED
    BY <2>1 DEF CountInv, Idle
<1>7. ASSUME NEW f \in Ids, NEW sev \in SeverityInputs, PromoteFlip(f, sev)
      PROVE  CountInv'
  <2>1. db'.notes = disk.notes /\ disk' = disk /\ call' = PromoteCall(f, sev)
    BY <1>7 DEF PromoteFlip, FlipStatus, TypeOK, Database
  <2>. QED
    BY <2>1 DEF CountInv, PromoteCall
<1>8. CASE PromoteCommit
  <2>1. disk'.notes = db.notes /\ db' = disk' /\ call' = Idle
    BY <1>8 DEF PromoteCommit, LogFlip, TypeOK, Database
  <2>. QED
    BY <2>1 DEF CountInv, Idle
<1>9. ASSUME NEW f \in Ids, NEW s \in OutOfBand, ExecStatus(f, s) PROVE CountInv'
  <2>1. disk'.notes = disk.notes /\ db' = disk' /\ call' = Idle
    BY <1>9 DEF ExecStatus, TypeOK, Database
  <2>. QED
    BY <2>1 DEF CountInv, Idle
<1>10. CASE Crash
  BY <1>10 DEF Crash, CountInv, Idle
<1>11. CASE UNCHANGED vars
  BY <1>11 DEF vars, CountInv, Tells
<1>. QED
  BY <1>1, <1>2, <1>3, <1>4, <1>5, <1>6, <1>7, <1>8, <1>9, <1>10, <1>11 DEF Next, Skips

(* The counts a Put prints are true for batches and tables of any size:     *)
(* inserted rows are new in the table, the others were there, and a count   *)
(* the driver did not report can only make "inserted" too large.            *)
THEOREM PutCountsAlwaysTrue == Spec => PutCountsAreTrue
<1>1. Init => CountInv
  BY FS_EmptySet DEF Init, CountInv, EmptyDatabase, Idle
<1>2. ASSUME IInv, CountInv, PutCommit
      PROVE  /\ call.inserted + call.skipped = Len(call.rows)
             /\ Tells(Cardinality(TableRows(disk, call.table)),
                      Cardinality(TableRows(disk', call.table)))
  <2>1. PICK t \in PutTables : call.rows \in Batches(t)
    BY <1>2 DEF IInv, TypeOK, PutCommit, Idle, PutCalls
  <2>2. Len(call.rows) \in Nat
    BY <2>1 DEF Batches
  <2>3. call.inserted + call.skipped = call.next - 1
    BY <1>2 DEF IInv, CallInv, PutCommit
  <2>4. call.inserted + call.skipped = Len(call.rows)
    BY <1>2, <2>2, <2>3 DEF PutCommit
  <2>. QED
    BY <1>2, <2>4 DEF PutCommit, CountInv
<1>3. IInv /\ CountInv /\ [Next]_vars =>
        [PutCommit =>
           LET before == Cardinality(TableRows(disk, call.table))
               after == Cardinality(TableRows(disk', call.table)) IN
           /\ call.inserted + call.skipped = Len(call.rows)
           /\ after <= before + call.inserted
           /\ call.exact => after = before + call.inserted]_vars
  BY <1>2 DEF Tells
<1>. QED
  BY <1>1, <1>3, CountInvNext, InvariantHolds, PTL DEF Spec, PutCountsAreTrue
-------------------------------------------------------------------------------
(***************************************************************************)
(* Justification.                                                          *)
(***************************************************************************)
AllJustified(d) == \A i \in Confirmed(d) : Justified(d, i)

(* A confirmed finding stays justified while its row stays and evidence and *)
(* flips only grow.                                                         *)
LEMMA JustifiedStays ==
  ASSUME NEW d \in Database, NEW e \in Database, AllJustified(d),
         \A i \in Confirmed(e) : i \in Stored(d) /\ e.findings[i] = d.findings[i],
         d.refuted \subseteq e.refuted,
         \A i \in Ids : d.critic[i] = "OK" => e.critic[i] = "OK",
         d.proofs \subseteq e.proofs,
         \A h \in Hashes : d.flips[h] <= e.flips[h]
  PROVE  AllJustified(e)
<1> SUFFICES ASSUME NEW i \in Confirmed(e) PROVE Justified(e, i)
  BY DEF AllJustified
<1>1. i \in Confirmed(d) /\ i \in Ids /\ e.findings[i] = d.findings[i]
  BY DEF Confirmed, Stored
<1>2. Justified(d, i)
  BY <1>1 DEF AllJustified
<1>3. d.findings[i] \in Finding
  BY <1>1 DEF Confirmed, Stored, Database
<1>4. HasProof(e, i)
  BY <1>2 DEF Justified, HasProof
<1>5. d.findings[i].hash \in Hashes
  BY <1>3 DEF Finding
<1>6. /\ d.flips[d.findings[i].hash] \in Nat /\ e.flips[d.findings[i].hash] \in Nat
  BY <1>5 DEF Database
<1>7. e.flips[d.findings[i].hash] > 0
  BY <1>2, <1>5, <1>6 DEF Justified
<1>. QED
  BY <1>1, <1>2, <1>4, <1>7 DEF Justified

(* What a rollback leaves. *)
LEMMA RollbackTables ==
  ASSUME disk \in Database, Rollback
  PROVE  /\ disk'.findings = disk.findings /\ disk'.refuted = disk.refuted
         /\ disk'.critic = disk.critic /\ disk'.proofs = disk.proofs
         /\ disk'.flips = disk.flips
BY DEF Rollback, Database

(* What a committed promotion leaves: one finding flipped, its flip logged. *)
LEMMA PromoteCommitTables ==
  ASSUME IInv, PromoteCommit
  PROVE  LET f == call.finding
             h == disk.findings[f].hash
         IN  /\ f \in Stored(disk) /\ h \in Hashes /\ call.sev \in SeverityInputs
             /\ disk.findings[f] \in Finding
             /\ Promotable(disk, f, call.sev)
             /\ disk'.findings = [disk.findings EXCEPT
                  ![f] = [disk.findings[f] EXCEPT !.status = "confirmed", !.sev = call.sev]]
             /\ disk'.refuted = disk.refuted /\ disk'.critic = disk.critic
             /\ disk'.proofs = disk.proofs
             /\ disk'.flips = [disk.flips EXCEPT ![h] = @ + 1]
             /\ disk' \in Database
<1> DEFINE f == call.finding
           h == disk.findings[f].hash
<1>1. Promotable(disk, f, call.sev) /\ db = FlipStatus(disk, f, call.sev)
  BY DEF PromoteCommit, IInv, CallInv
<1>2. f \in Stored(disk) /\ call.sev \in SeverityInputs
  BY <1>1 DEF Promotable, PromoteCommit, IInv, TypeOK, Idle, PutCalls
<1>3. disk \in Database /\ disk.findings[f] \in Finding /\ h \in Hashes /\ f \in Ids
  BY <1>2 DEF IInv, TypeOK, Database, Stored, Finding
<1>4. /\ db \in Database /\ db.findings = [disk.findings EXCEPT
           ![f] = [disk.findings[f] EXCEPT !.status = "confirmed", !.sev = call.sev]]
      /\ db.refuted = disk.refuted /\ db.critic = disk.critic /\ db.proofs = disk.proofs
      /\ db.flips = disk.flips
  BY <1>1, <1>3 DEF FlipStatus, Database, IInv, TypeOK
<1>5. db.findings[f].hash = h
  BY <1>3, <1>4 DEF Finding, Database
<1>6. disk' = LogFlip(db, f)
  BY DEF PromoteCommit
<1>7. /\ disk'.findings = db.findings /\ disk'.refuted = db.refuted
      /\ disk'.critic = db.critic /\ disk'.proofs = db.proofs
      /\ disk'.flips = [disk.flips EXCEPT ![h] = @ + 1]
  BY <1>4, <1>5, <1>6 DEF LogFlip, Database
<1>8. disk' \in Database
  BY <1>3, <1>4, <1>5, <1>6 DEF LogFlip, Database
<1>. QED
  BY <1>1, <1>2, <1>3, <1>4, <1>7, <1>8

LEMMA JustifiedNext ==
  ASSUME "confirmed" \notin OutOfBand, IInv, PutInv, AllJustified(disk), [Next]_vars
  PROVE  AllJustified(disk')
<1>0. disk \in Database /\ db \in Database
  BY DEF IInv, TypeOK
<1>1. ASSUME disk' = disk PROVE AllJustified(disk')
  BY <1>1
<1>2. CASE PutReject
  <2>1. disk' \in Database
    BY <1>0, <1>2, RollbackKeeps DEF PutReject, IInv, KeysHoldThroughout
  <2>2. \A h \in Hashes : disk.flips[h] <= disk'.flips[h]
    BY <1>0, <1>2, RollbackTables DEF PutReject, Database
  <2>. QED
    BY <1>0, <1>2, <2>1, <2>2, RollbackTables, JustifiedStays
    DEF PutReject, Confirmed, Stored
<1>3. CASE PutCommit
  <2>1. Grows(disk, db) /\ disk' = db
    BY <1>3 DEF PutCommit, PutInv
  <2>2. \A i \in Confirmed(db) : i \in Stored(disk)
    BY <2>1 DEF Grows, Confirmed, PutStatuses
  <2>3. \A h \in Hashes : disk.flips[h] <= db.flips[h]
    BY <1>0, <2>1 DEF Grows, Database
  <2>4. \A i \in Ids : disk.critic[i] = "OK" => db.critic[i] = "OK"
    BY <2>1 DEF Grows, NoVerdict
  <2>. QED
    BY <1>0, <2>1, <2>2, <2>3, <2>4, JustifiedStays DEF Grows
<1>4. ASSUME NEW f \in Ids, NEW c \in Consumers, NEW cap \in CapInputs, ImpactProof(f, c, cap)
      PROVE  AllJustified(disk')
  <2>1. disk' \in Database
    BY <1>0, <1>4, ProofKeeps DEF IInv, KeysHoldThroughout
  <2>2. /\ disk'.findings = disk.findings /\ disk'.refuted = disk.refuted
        /\ disk'.critic = disk.critic /\ disk.proofs \subseteq disk'.proofs
        /\ disk'.flips = disk.flips
    BY <1>0, <1>4 DEF ImpactProof, Database
  <2>3. \A h \in Hashes : disk.flips[h] <= disk'.flips[h]
    BY <1>0, <2>2 DEF Database
  <2>. QED
    BY <1>0, <2>1, <2>2, <2>3, JustifiedStays DEF Confirmed, Stored
<1>5. CASE PromoteCommit
  <2> DEFINE f == call.finding
             h == disk.findings[f].hash
  <2>1. /\ f \in Stored(disk) /\ h \in Hashes /\ call.sev \in SeverityInputs
        /\ disk.findings[f] \in Finding
        /\ Promotable(disk, f, call.sev)
        /\ disk'.findings = [disk.findings EXCEPT
             ![f] = [disk.findings[f] EXCEPT !.status = "confirmed", !.sev = call.sev]]
        /\ disk'.refuted = disk.refuted /\ disk'.critic = disk.critic
        /\ disk'.proofs = disk.proofs
        /\ disk'.flips = [disk.flips EXCEPT ![h] = @ + 1]
    BY <1>5, PromoteCommitTables
  <2>2. ASSUME NEW i \in Confirmed(disk') PROVE Justified(disk', i)
    <3>1. i \in Ids /\ disk'.findings[i] # NoRow /\ disk'.findings[i].status = "confirmed"
      BY <2>2 DEF Confirmed, Stored
    <3>2. CASE i = f
      <4>1. disk'.findings[i].hash = h /\ disk'.findings[i].sev = call.sev
        BY <1>0, <2>1, <3>1, <3>2 DEF Database, Finding
      <4>2. disk'.flips[h] > 0
        BY <1>0, <2>1 DEF Database
      <4>3. call.sev # NoSeverity
        BY <2>1 DEF Severities, severityRank, NoSeverity
      <4>. QED
        BY <2>1, <3>2, <4>1, <4>2, <4>3 DEF Justified, Promotable, HasProof
    <3>3. CASE i # f
      <4>1. disk'.findings[i] = disk.findings[i] /\ i \in Confirmed(disk)
        BY <1>0, <2>1, <3>1, <3>3 DEF Database, Confirmed, Stored
      <4>2. Justified(disk, i)
        BY <4>1 DEF AllJustified
      <4>3. disk.findings[i].hash \in Hashes
        BY <1>0, <4>1 DEF Database, Confirmed, Stored, Finding
      <4>4. disk'.flips[disk.findings[i].hash] > 0
        BY <1>0, <2>1, <4>2, <4>3 DEF Database, Justified
      <4>. QED
        BY <2>1, <4>1, <4>2, <4>4 DEF Justified, HasProof
    <3>. QED
      BY <3>2, <3>3
  <2>. QED
    BY <2>2 DEF AllJustified
<1>6. ASSUME NEW f \in Ids, NEW s \in OutOfBand, ExecStatus(f, s)
      PROVE  AllJustified(disk')
  <2>1. disk' \in Database
    BY <1>0, <1>6, ExecKeeps DEF IInv, KeysHoldThroughout
  <2>2. /\ disk'.findings = [disk.findings EXCEPT ![f] = [disk.findings[f] EXCEPT !.status = s]]
        /\ disk'.refuted = disk.refuted /\ disk'.critic = disk.critic
        /\ disk'.proofs = disk.proofs /\ disk'.flips = disk.flips
        /\ f \in Stored(disk)
    BY <1>0, <1>6 DEF ExecStatus, Database
  <2>3. disk.findings[f] \in Finding
    BY <1>0, <2>2 DEF Database, Stored
  <2>4. disk'.findings[f].status # "confirmed"
    BY <1>0, <2>2, <2>3 DEF Database, Finding
  <2>5. \A i \in Confirmed(disk') : i \in Stored(disk) /\ disk'.findings[i] = disk.findings[i]
    BY <1>0, <2>2, <2>4 DEF Database, Confirmed, Stored
  <2>6. \A h \in Hashes : disk.flips[h] <= disk'.flips[h]
    BY <1>0, <2>2 DEF Database
  <2>. QED
    BY <1>0, <2>1, <2>2, <2>5, <2>6, JustifiedStays
<1>7. CASE \/ \E t \in PutTables : PutBegin(t)
           \/ PutInsert \/ Skips \/ Crash \/ UNCHANGED vars
           \/ \E f \in Ids, sev \in SeverityInputs : PromoteFlip(f, sev)
  BY <1>1, <1>7 DEF PutBegin, PutInsert, Skips, PutSkip, PutSkipUnreported, DoNothing,
         Crash, PromoteFlip, vars
<1>. QED
  BY <1>2, <1>3, <1>4, <1>5, <1>6, <1>7 DEF Next, Skips

(* However many batches, crashes, retries and promotions: a committed       *)
(* confirmed finding has its refutation pass, its critic OK, its impact     *)
(* proof, its severity and its logged flip, provided no raw UPDATE writes   *)
(* 'confirmed'.                                                             *)
THEOREM ConfirmedAlwaysJustified ==
  ASSUME "confirmed" \notin OutOfBand
  PROVE  Spec => []ConfirmedIsJustified
<1>1. Init => AllJustified(disk)
  BY DEF Init, AllJustified, Confirmed, Stored, EmptyDatabase
<1>2. IInv /\ PutInv /\ AllJustified(disk) /\ [Next]_vars => AllJustified(disk)'
  BY JustifiedNext DEF AllJustified, Confirmed, Stored, Justified, HasProof
<1>3. AllJustified(disk) => ConfirmedIsJustified
  BY DEF AllJustified, ConfirmedIsJustified
<1>. QED
  BY <1>1, <1>2, <1>3, InvariantHolds, PutInvHolds, PTL DEF Spec
-------------------------------------------------------------------------------
(***************************************************************************)
(* The severity ceiling.                                                   *)
(***************************************************************************)

(* A finding becomes confirmed only when promote commits it. *)
LEMMA ConfirmedByPromote ==
  ASSUME "confirmed" \notin OutOfBand, IInv, PutInv, [Next]_vars,
         NEW i \in Ids, BecomesConfirmed(i)
  PROVE  PromoteCommit /\ i = call.finding
<1>0. /\ disk \in Database /\ db \in Database
      /\ i \in Confirmed(disk') /\ i \notin Confirmed(disk)
  BY DEF IInv, TypeOK, BecomesConfirmed, Confirmed, Stored
<1>1. ASSUME disk'.findings = disk.findings PROVE FALSE
  BY <1>0, <1>1 DEF Confirmed, Stored
<1>2. CASE PutReject
  BY <1>0, <1>1, <1>2, RollbackTables DEF PutReject
<1>3. CASE PutCommit
  <2>1. Grows(disk, db) /\ disk' = db
    BY <1>3 DEF PutCommit, PutInv
  <2>. QED
    BY <1>0, <2>1 DEF Grows, Confirmed, PutStatuses
<1>4. ASSUME NEW f \in Ids, NEW c \in Consumers, NEW cap \in CapInputs, ImpactProof(f, c, cap)
      PROVE  FALSE
  BY <1>0, <1>1, <1>4 DEF ImpactProof, Database
<1>5. CASE PromoteCommit
  <2>1. /\ call.finding \in Stored(disk)
        /\ disk'.findings = [disk.findings EXCEPT
             ![call.finding] = [disk.findings[call.finding] EXCEPT
                !.status = "confirmed", !.sev = call.sev]]
    BY <1>5, PromoteCommitTables
  <2>. QED
    BY <1>0, <1>5, <2>1 DEF Database, Confirmed, Stored
<1>6. ASSUME NEW f \in Ids, NEW s \in OutOfBand, ExecStatus(f, s)
      PROVE  FALSE
  <2>1. /\ disk'.findings = [disk.findings EXCEPT ![f] = [disk.findings[f] EXCEPT !.status = s]]
        /\ f \in Stored(disk) /\ disk.findings[f] \in Finding
    BY <1>0, <1>6 DEF ExecStatus, Database, Stored
  <2>2. disk'.findings[f].status = s
    BY <1>0, <2>1 DEF Database, Finding
  <2>. QED
    BY <1>0, <2>1, <2>2 DEF Database, Confirmed, Stored
<1>7. CASE \/ \E t \in PutTables : PutBegin(t)
           \/ PutInsert \/ Skips \/ Crash \/ UNCHANGED vars
           \/ \E f \in Ids, sev \in SeverityInputs : PromoteFlip(f, sev)
  BY <1>1, <1>7 DEF PutBegin, PutInsert, Skips, PutSkip, PutSkipUnreported, DoNothing,
         Crash, PromoteFlip, vars
<1>. QED
  BY <1>2, <1>3, <1>4, <1>5, <1>6, <1>7 DEF Next, Skips

(* The maximum of one cap is that cap, in whatever order they are compared. *)
LEMMA MaxOfOneCap ==
  ASSUME NEW d, NEW f, NEW c \in Caps, CapsOf(d, f) = {c}
  PROVE  MaxCap(d, f) = c
<1>1. textOrder[c] <= textOrder[c]
  BY DEF Caps, textOrder
<1>2. \A e \in CapsOf(d, f) : textOrder[e] <= textOrder[c]
  BY <1>1
<1>3. \E m \in CapsOf(d, f) : \A e \in CapsOf(d, f) : textOrder[e] <= textOrder[m]
  BY <1>2
<1>4. MaxCap(d, f) \in CapsOf(d, f)
  BY <1>3 DEF MaxCap
<1>. QED
  BY <1>4

(* With no raw UPDATE to 'confirmed', a finding with a dos_only proof is    *)
(* promoted above MEDIUM only when another proof names another cap: however *)
(* many proofs it has, those without a cap never lift the ceiling.          *)
THEOREM DosOnlyAlwaysCaps ==
  ASSUME "confirmed" \notin OutOfBand
  PROVE  Spec => DosOnlyCapsSeverity
<1>1. ASSUME IInv, PutInv, [Next]_vars, NEW i \in Ids, BecomesConfirmed(i),
             \E p \in disk.proofs : p.finding = i /\ p.cap = "dos_only",
             severityRank[disk'.findings[i].sev] > severityRank["MEDIUM"]
      PROVE  \E p \in disk.proofs : p.finding = i /\ p.cap \notin {"dos_only", NoCap}
  <2> SUFFICES ASSUME ~\E p \in disk.proofs :
                         p.finding = i /\ p.cap \notin {"dos_only", NoCap}
               PROVE  FALSE
    OBVIOUS
  <2>1. PromoteCommit /\ i = call.finding
    BY <1>1, ConfirmedByPromote
  <2>2. /\ i \in Stored(disk) /\ disk.findings[i] \in Finding
        /\ Promotable(disk, i, call.sev) /\ call.sev \in SeverityInputs
        /\ disk'.findings = [disk.findings EXCEPT
             ![i] = [disk.findings[i] EXCEPT !.status = "confirmed", !.sev = call.sev]]
    BY <1>1, <2>1, PromoteCommitTables
  <2>3. CapsOf(disk, i) = {"dos_only"}
    BY <1>1 DEF CapsOf, NoCap
  <2>4. MaxCap(disk, i) = "dos_only"
    BY <2>3, MaxOfOneCap DEF Caps
  <2>5. severityRank[call.sev] <= severityRank["MEDIUM"]
    BY <2>2, <2>4 DEF Promotable, WithinCeiling
  <2>6. disk'.findings[i].sev = call.sev
    BY <1>1, <2>2 DEF IInv, TypeOK, Database, Stored, Finding
  <2>7. call.sev \in Severities
    BY <2>2, InputAssumption
  <2>8. severityRank[call.sev] \in Int /\ severityRank["MEDIUM"] \in Int
    BY <2>7 DEF Severities, severityRank
  <2>9. severityRank[call.sev] > severityRank["MEDIUM"]
    BY <1>1, <2>6
  <2>. QED
    BY <2>5, <2>8, <2>9
<1>2. IInv /\ PutInv /\ [Next]_vars =>
        [\A i \in Ids :
           /\ BecomesConfirmed(i)
           /\ \E p \in disk.proofs : p.finding = i /\ p.cap = "dos_only"
           /\ severityRank[disk'.findings[i].sev] > severityRank["MEDIUM"]
           => \E p \in disk.proofs :
                p.finding = i /\ p.cap \notin {"dos_only", NoCap}]_vars
  BY <1>1
<1>. QED
  BY <1>2, InvariantHolds, PutInvHolds, PTL DEF Spec, DosOnlyCapsSeverity
-------------------------------------------------------------------------------
(***************************************************************************)
(* The log and the statuses.                                               *)
(***************************************************************************)
LogMatches(d) ==
  \A h \in Hashes :
    d.flips[h] = IF \E i \in Confirmed(d) : d.findings[i].hash = h THEN 1 ELSE 0

(* Only confirmed findings and flips matter to it. *)
LEMMA LogMatchesStays ==
  ASSUME NEW d, NEW e, LogMatches(d), Confirmed(e) = Confirmed(d),
         \A i \in Confirmed(d) : e.findings[i].hash = d.findings[i].hash,
         e.flips = d.flips
  PROVE  LogMatches(e)
BY DEF LogMatches

LEMMA LogMatchesNext ==
  ASSUME OutOfBand = {}, IInv, PutInv, LogMatches(disk), [Next]_vars
  PROVE  LogMatches(disk')
<1>0. disk \in Database /\ db \in Database
  BY DEF IInv, TypeOK
<1>1. CASE PutReject
  BY <1>0, <1>1, RollbackTables, LogMatchesStays DEF PutReject, Confirmed, Stored
<1>2. CASE PutCommit
  <2>1. Grows(disk, db) /\ disk' = db
    BY <1>2 DEF PutCommit, PutInv
  <2>2. Confirmed(db) = Confirmed(disk)
    BY <2>1 DEF Grows, Confirmed, PutStatuses
  <2>3. \A i \in Confirmed(disk) : db.findings[i].hash = disk.findings[i].hash
    BY <2>1 DEF Grows, Confirmed
  <2>. QED
    BY <2>1, <2>2, <2>3, LogMatchesStays DEF Grows
<1>3. ASSUME NEW f \in Ids, NEW c \in Consumers, NEW cap \in CapInputs, ImpactProof(f, c, cap)
      PROVE  LogMatches(disk')
  <2>1. disk'.findings = disk.findings /\ disk'.flips = disk.flips
    BY <1>0, <1>3 DEF ImpactProof, Database
  <2>. QED
    BY <2>1, LogMatchesStays DEF Confirmed, Stored
<1>4. CASE PromoteCommit
  <2> DEFINE f == call.finding
             h == disk.findings[f].hash
  <2>1. /\ f \in Stored(disk) /\ h \in Hashes
        /\ disk.findings[f] \in Finding
        /\ Promotable(disk, f, call.sev)
        /\ disk'.findings = [disk.findings EXCEPT
             ![f] = [disk.findings[f] EXCEPT !.status = "confirmed", !.sev = call.sev]]
        /\ disk'.flips = [disk.flips EXCEPT ![h] = @ + 1]
        /\ disk' \in Database
    BY <1>4, PromoteCommitTables
  <2>2. /\ disk'.findings[f].hash = h /\ disk'.findings[f].status = "confirmed"
        /\ disk'.findings[f] # NoRow
    <3>1. disk'.findings[f] = [disk.findings[f] EXCEPT !.status = "confirmed", !.sev = call.sev]
      BY <1>0, <2>1 DEF Database, Stored
    <3>2. [disk.findings[f] EXCEPT !.status = "confirmed", !.sev = call.sev] \in Finding
      BY <1>4, <2>1, PromoteCommitTables DEF Finding, Statuses
    <3>. QED
      BY <2>1, <3>1, <3>2 DEF Finding
  <2>3. \A i \in Ids : i # f => disk'.findings[i] = disk.findings[i]
    BY <1>0, <2>1 DEF Database
  <2>4. Confirmed(disk') = Confirmed(disk) \cup {f}
    BY <2>1, <2>2, <2>3 DEF Confirmed, Stored
  <2>5. f \notin Confirmed(disk)
    BY <2>1 DEF Promotable, Confirmed
  <2>6. \A i \in Confirmed(disk) : disk.findings[i].hash # h
    BY <2>1, <2>5 DEF IInv, KeysHoldThroughout, KeysHold, Confirmed
  <2>7. disk.flips[h] = 0
    BY <2>1, <2>6 DEF LogMatches
  <2>8. ASSUME NEW g \in Hashes
        PROVE  disk'.flips[g] = IF \E i \in Confirmed(disk') : disk'.findings[i].hash = g
                                THEN 1 ELSE 0
    <3>1. CASE g = h
      BY <1>0, <2>1, <2>2, <2>4, <2>7, <3>1 DEF Database
    <3>2. CASE g # h
      <4>1. disk'.flips[g] = disk.flips[g]
        BY <1>0, <2>1, <3>2 DEF Database
      <4>2. (\E i \in Confirmed(disk') : disk'.findings[i].hash = g)
              <=> (\E i \in Confirmed(disk) : disk.findings[i].hash = g)
        BY <2>2, <2>3, <2>4, <2>5, <3>2 DEF Confirmed, Stored
      <4>. QED
        BY <4>1, <4>2 DEF LogMatches
    <3>. QED
      BY <3>1, <3>2
  <2>. QED
    BY <2>8 DEF LogMatches
<1>5. ASSUME disk' = disk PROVE LogMatches(disk')
  BY <1>5
<1>6. CASE \/ \E t \in PutTables : PutBegin(t)
           \/ PutInsert \/ Skips \/ Crash \/ UNCHANGED vars
           \/ \E f \in Ids, sev \in SeverityInputs : PromoteFlip(f, sev)
  BY <1>5, <1>6 DEF PutBegin, PutInsert, Skips, PutSkip, PutSkipUnreported, DoNothing,
         Crash, PromoteFlip, vars
<1>. QED
  BY <1>1, <1>2, <1>3, <1>4, <1>6 DEF Next, Skips

(* With no raw status UPDATE, a hash has exactly one logged flip if its     *)
(* finding is confirmed and none otherwise: flip and log row commit or roll *)
(* back together, and a retried promotion adds nothing.                     *)
THEOREM LogAlwaysMatchesStatus ==
  ASSUME OutOfBand = {}
  PROVE  Spec => []LogMatchesStatus
<1>1. Init => LogMatches(disk)
  BY DEF Init, LogMatches, Confirmed, Stored, EmptyDatabase
<1>2. IInv /\ PutInv /\ LogMatches(disk) /\ [Next]_vars => LogMatches(disk)'
  BY LogMatchesNext DEF LogMatches, Confirmed, Stored
<1>3. LogMatches(disk) => LogMatchesStatus
  BY DEF LogMatches, LogMatchesStatus
<1>. QED
  BY <1>1, <1>2, <1>3, InvariantHolds, PutInvHolds, PTL DEF Spec
-------------------------------------------------------------------------------
(***************************************************************************)
(* Acknowledged rows.  A row a Put has inserted is stored; one it has       *)
(* skipped for its hash has passed the dedup check against the stored row;  *)
(* one it has skipped for its id alone finds another finding there.         *)
(***************************************************************************)
AckInv ==
  /\ \A r \in acked : Kept(disk, r)
  /\ call.verb = "put" => \A r \in call.written : Kept(db, r)

(* What is kept stays kept while no row is removed and no hash or body      *)
(* changes.                                                                 *)
SameContent(d, e) ==
  \A i \in Stored(d) : /\ i \in Stored(e)
                       /\ e.findings[i].hash = d.findings[i].hash
                       /\ e.findings[i].body = d.findings[i].body

LEMMA SameContentKept ==
  ASSUME NEW d, NEW e, SameContent(d, e), NEW r, Kept(d, r)
  PROVE  Kept(e, r)
BY DEF SameContent, Kept, Holds, IdTaken

LEMMA GrowsSameContent ==
  ASSUME NEW d, NEW e, Grows(d, e)
  PROVE  SameContent(d, e)
BY DEF Grows, SameContent

(* The row a Put has just inserted or skipped is kept, under its id. *)
LEMMA PutRowKept ==
  ASSUME NEW d \in Database, NEW r \in FindingRow,
         RowId(d, r) \in Ids, ~RowRejected(d, "gr_findings", r)
  PROVE  /\ RowConflicts(d, "gr_findings", r) => Kept(d, WithId(d, r))
         /\ ~RowConflicts(d, "gr_findings", r) =>
              Kept(InsertRow(d, "gr_findings", r), WithId(d, r))
<1>0. /\ WithId(d, r).hash = r.hash /\ WithId(d, r).body = r.body
      /\ WithId(d, r).id = RowId(d, r)
  BY DEF WithId, FindingRow
<1>1. ASSUME RowConflicts(d, "gr_findings", r) PROVE Kept(d, WithId(d, r))
  <2>1. CASE \E i \in Stored(d) : d.findings[i].hash = r.hash
    <3>1. PICK i \in Stored(d) : d.findings[i].hash = r.hash
      BY <2>1
    <3>2. ~dedupConflict(d, r)
      BY DEF RowRejected
    <3>. QED
      BY <1>0, <3>1, <3>2 DEF dedupConflict, Holds, Kept
  <2>2. CASE ~\E i \in Stored(d) : d.findings[i].hash = r.hash
    <3>1. RowId(d, r) \in Stored(d)
      BY <1>1, <2>2 DEF RowConflicts
    <3>. QED
      BY <1>0, <2>2, <3>1 DEF IdTaken, Kept
  <2>. QED
    BY <2>1, <2>2
<1>2. ASSUME ~RowConflicts(d, "gr_findings", r)
      PROVE  Kept(InsertRow(d, "gr_findings", r), WithId(d, r))
  <2> DEFINE e == InsertRow(d, "gr_findings", r)
             n == RowId(d, r)
  <2>1. NewFinding(r) \in Finding
    BY DEF FindingRow, NewFinding, Finding, Statuses, NotCarried, NoSeverity, PutStatuses,
           RowRejected
  <2>2. e.findings = [d.findings EXCEPT ![n] = NewFinding(r)] /\ n \in Ids
    BY DEF InsertRow, Database
  <2>3. e.findings[n] = NewFinding(r)
    BY <2>2 DEF Database
  <2>4. n \in Stored(e)
    BY <2>1, <2>2, <2>3, NoRowAssumption DEF Stored
  <2>5. NewFinding(r).hash = r.hash /\ NewFinding(r).body = r.body
    BY DEF NewFinding
  <2>. QED
    BY <1>0, <2>3, <2>4, <2>5 DEF Holds, Kept
<1>. QED
  BY <1>1, <1>2

(* A statement of a Put that lands or does nothing. *)
LEMMA AckNextPut ==
  ASSUME IInv, PutInv, AckInv, PutInsert \/ Skips
  PROVE  AckInv'
<1> DEFINE t == call.table
<1>0. /\ db \in Database /\ disk' = disk /\ acked' = acked /\ AtRow /\ SequenceLeft
      /\ ~RowRejected(db, t, Row) /\ Advances
  BY SkipsDoNothing, InsertAdvances DEF IInv, TypeOK, PutInsert, DoNothing
<1>1. /\ t \in PutTables /\ Row \in RowsOf(t)
      /\ t = "gr_findings" => RowId(db, Row) \in Ids
  BY <1>0, RowTyped DEF IInv
<1>2. call'.written = Written
  BY <1>0, CallAdvances DEF IInv
<1>3. SameContent(db, db')
  <2>1. CASE Skips
    BY <1>0, <2>1, SkipsDoNothing, AssignIdGrows DEF DoNothing, SameContent, Stored
  <2>2. CASE PutInsert
    <3> DEFINE e == InsertRow(db, t, Row)
    <3>1. e \in Database /\ Grows(db, e)
      BY <1>0, <1>1, <2>2, InsertRowType, InsertRowGrows DEF PutInsert, IInv, KeysHoldThroughout
    <3>2. db' = AssignId(e, t, Row)
      BY <2>2 DEF PutInsert
    <3>3. db'.findings = e.findings
      BY <3>1, <3>2, AssignIdGrows
    <3>. QED
      BY <3>1, <3>3, GrowsSameContent DEF SameContent, Stored
  <2>. QED
    BY <2>1, <2>2
<1>4. \A r : Kept(db, r) => Kept(db', r)
  BY <1>3, SameContentKept
<1>5. ASSUME t = "gr_findings" PROVE Kept(db', WithId(db, Row))
  <2>1. Row \in FindingRow
    BY <1>1, <1>5 DEF RowsOf
  <2>2. CASE Skips
    <3>1. RowConflicts(db, "gr_findings", Row)
      BY <1>5, <2>2, SkipsDoNothing DEF DoNothing
    <3>. QED
      BY <1>0, <1>1, <1>4, <1>5, <2>1, <3>1, PutRowKept
  <2>3. CASE PutInsert
    <3> DEFINE e == InsertRow(db, t, Row)
    <3>1. ~RowConflicts(db, "gr_findings", Row) /\ db' = AssignId(e, t, Row)
      BY <1>5, <2>3 DEF PutInsert
    <3>2. e \in Database
      BY <1>0, <1>1, InsertRowType
    <3>3. Kept(e, WithId(db, Row))
      BY <1>0, <1>1, <1>5, <2>1, <3>1, PutRowKept
    <3>4. db'.findings = e.findings
      BY <3>1, <3>2, AssignIdGrows
    <3>. QED
      BY <3>3, <3>4 DEF Kept, Holds, IdTaken, Stored
  <2>. QED
    BY <2>2, <2>3
<1>6. \A r \in Written : Kept(db', r)
  BY <1>0, <1>4, <1>5 DEF Written, AckInv, AtRow
<1>. QED
  BY <1>0, <1>2, <1>6 DEF AckInv

LEMMA AckNext ==
  ASSUME IInv, PutInv, AckInv, [Next]_vars
  PROVE  AckInv'
<1>0. disk \in Database /\ db \in Database
  BY DEF IInv, TypeOK
<1>1. CASE PutInsert \/ Skips
  BY <1>1, AckNextPut
<1>2. ASSUME NEW t \in PutTables, PutBegin(t) PROVE AckInv'
  <2>1. PICK rows \in Batches(t) : call' = PutCall(t, rows)
    BY <1>2 DEF PutBegin
  <2>2. call'.written = {}
    BY <2>1 DEF PutCall
  <2>3. disk' = disk /\ db' = db /\ acked' = acked
    BY <1>2 DEF PutBegin
  <2>. QED
    BY <2>2, <2>3 DEF AckInv
<1>3. CASE PutReject
  <2>1. disk'.findings = disk.findings
    BY <1>0, <1>3 DEF PutReject, Rollback, Database
  <2>2. acked' = acked /\ call' = Idle
    BY <1>3 DEF PutReject, Rollback
  <2>. QED
    BY <2>1, <2>2 DEF AckInv, Kept, Holds, IdTaken, Stored, Idle
<1>4. CASE PutCommit
  <2>1. Grows(disk, db) /\ disk' = db /\ call' = Idle /\ call.verb = "put"
    BY <1>4 DEF PutCommit, PutInv
  <2>2. \A r \in acked : Kept(db, r)
    BY <2>1, GrowsSameContent, SameContentKept DEF AckInv
  <2>3. \A r \in acked' : Kept(db, r)
    BY <1>4, <2>1, <2>2 DEF PutCommit, AckInv
  <2>. QED
    BY <2>1, <2>3 DEF AckInv, Idle
<1>5. ASSUME NEW f \in Ids, NEW c \in Consumers, NEW cap \in CapInputs, ImpactProof(f, c, cap)
      PROVE  AckInv'
  <2>1. disk'.findings = disk.findings
    BY <1>0, <1>5 DEF ImpactProof, Database
  <2>2. acked' = acked /\ call' = Idle
    BY <1>5 DEF ImpactProof
  <2>. QED
    BY <2>1, <2>2 DEF AckInv, Kept, Holds, IdTaken, Stored, Idle
<1>6. ASSUME NEW f \in Ids, NEW sev \in SeverityInputs, PromoteFlip(f, sev)
      PROVE  AckInv'
  <2>1. disk' = disk /\ acked' = acked /\ call'.verb = "promote"
    BY <1>6 DEF PromoteFlip, PromoteCall
  <2>. QED
    BY <2>1 DEF AckInv
<1>7. CASE PromoteCommit
  <2> DEFINE f == call.finding
  <2>1. /\ f \in Stored(disk) /\ call.sev \in SeverityInputs
        /\ disk.findings[f] \in Finding
        /\ disk'.findings = [disk.findings EXCEPT
             ![f] = [disk.findings[f] EXCEPT !.status = "confirmed", !.sev = call.sev]]
    BY <1>7, PromoteCommitTables
  <2>2. [disk.findings[f] EXCEPT !.status = "confirmed", !.sev = call.sev] \in Finding
    <3>1. call.sev \in Severities /\ "confirmed" \in Statuses
      BY <2>1, InputAssumption DEF Statuses
    <3> DEFINE old == disk.findings[f]
    <3>2. old \in Finding
      BY <2>1
    <3> HIDE DEF old
    <3>3. [old EXCEPT !.status = "confirmed", !.sev = call.sev] \in Finding
      BY <3>1, <3>2 DEF Finding
    <3>. QED
      BY <3>3 DEF old
  <2>3. SameContent(disk, disk')
    <3> SUFFICES ASSUME NEW i \in Stored(disk)
                 PROVE  /\ i \in Stored(disk')
                        /\ disk'.findings[i].hash = disk.findings[i].hash
                        /\ disk'.findings[i].body = disk.findings[i].body
      BY DEF SameContent
    <3>1. disk.findings[i] \in Finding /\ i \in Ids
      BY <1>0 DEF Database, Stored
    <3>2. CASE i = f
      <4>1. disk'.findings[f] = [disk.findings[f] EXCEPT !.status = "confirmed", !.sev = call.sev]
        BY <1>0, <2>1, <3>1, <3>2 DEF Database
      <4>. QED
        BY <2>1, <2>2, <3>1, <3>2, <4>1, NoRowAssumption DEF Stored, Finding
    <3>3. CASE i # f
      <4>1. disk'.findings[i] = disk.findings[i]
        BY <1>0, <2>1, <3>1, <3>3 DEF Database
      <4>. QED
        BY <3>1, <4>1, NoRowAssumption DEF Stored
    <3>. QED
      BY <3>2, <3>3
  <2>4. acked' = acked /\ call' = Idle
    BY <1>7 DEF PromoteCommit
  <2>. QED
    BY <2>3, <2>4, SameContentKept DEF AckInv, Idle
<1>8. ASSUME NEW f \in Ids, NEW s \in OutOfBand, ExecStatus(f, s) PROVE AckInv'
  <2>1. /\ disk'.findings = [disk.findings EXCEPT ![f] = [disk.findings[f] EXCEPT !.status = s]]
        /\ f \in Stored(disk)
    BY <1>0, <1>8 DEF ExecStatus, Database
  <2>2. disk.findings[f] \in Finding
    BY <1>0, <2>1 DEF Database, Stored
  <2>3. [disk.findings[f] EXCEPT !.status = s] \in Finding
    BY <1>8, <2>2, InputAssumption DEF Finding
  <2>4. SameContent(disk, disk')
    BY <1>0, <2>1, <2>2, <2>3, NoRowAssumption DEF SameContent, Database, Stored, Finding
  <2>5. acked' = acked /\ call' = Idle
    BY <1>8 DEF ExecStatus
  <2>. QED
    BY <2>4, <2>5, SameContentKept DEF AckInv, Idle
<1>9. CASE Crash
  BY <1>9 DEF Crash, AckInv, Idle
<1>10. CASE UNCHANGED vars
  BY <1>10 DEF vars, AckInv
<1>. QED
  BY <1>1, <1>2, <1>3, <1>4, <1>5, <1>6, <1>7, <1>8, <1>9, <1>10 DEF Next, Skips

(* What a Put acknowledged is stored for good with the content it carried,  *)
(* or its id is another finding's: for callers that pass ids and callers    *)
(* that do not, replays, kills and raw status updates included.             *)
THEOREM AckedContentAlwaysStored == Spec => []AckedContentStored
<1>1. Init => AckInv
  BY DEF Init, AckInv, Idle
<1>2. IInv /\ PutInv /\ AckInv /\ [Next]_vars => AckInv'
  BY AckNext
<1>3. AckInv => AckedContentStored
  BY DEF AckInv, AckedContentStored
<1>. QED
  BY <1>1, <1>2, <1>3, InvariantHolds, PutInvHolds, PTL DEF Spec
-------------------------------------------------------------------------------
(***************************************************************************)
(* Refinement.  A committed batch of findings records, a committed batch   *)
(* of evidence or an impact proof gathers, a committed promotion confirms; *)
(* every other step is a stutter of the lifecycle.                         *)
(***************************************************************************)
abstractStatus == [i \in Ids |-> StatusOf(disk, i)]
abstractEvidence == [i \in Ids |-> EvidenceOf(disk, i)]

StatusInv == \A i \in Stored(disk) : disk.findings[i].status # "refuted"

(* The abstract state only looks at findings and evidence. *)
LEMMA SameAbstraction ==
  ASSUME disk'.findings = disk.findings, disk'.refuted = disk.refuted,
         disk'.critic = disk.critic, disk'.proofs = disk.proofs
  PROVE  UNCHANGED <<abstractStatus, abstractEvidence>>
BY DEF abstractStatus, abstractEvidence, StatusOf, EvidenceOf, HasProof, Stored

(* Growing evidence of recorded findings is a Gather. *)
LEMMA GatherStep ==
  ASSUME disk \in Database, disk' \in Database,
         disk'.findings = disk.findings,
         disk.refuted \subseteq disk'.refuted,
         \A i \in Ids : disk.critic[i] # NoVerdict => disk'.critic[i] = disk.critic[i],
         disk.proofs \subseteq disk'.proofs,
         KeysHold(disk')
  PROVE  Lifecycle!Gather
<1>1. Stored(disk') = Stored(disk)
  BY DEF Stored
<1>2. abstractStatus' = abstractStatus
  BY <1>1 DEF abstractStatus, StatusOf
<1>3. ASSUME NEW i \in Ids
      PROVE  /\ EvidenceOf(disk, i) \subseteq EvidenceOf(disk', i)
             /\ i \notin Stored(disk) => EvidenceOf(disk', i) = EvidenceOf(disk, i)
             /\ EvidenceOf(disk', i) \in SUBSET {"refutation", "critic OK", "impact proof"}
  <2>1. HasProof(disk, i) => HasProof(disk', i)
    BY DEF HasProof
  <2>2. disk.critic[i] = "OK" => disk'.critic[i] = "OK"
    BY DEF NoVerdict
  <2>3. i \notin Stored(disk) => i \notin disk'.refuted /\ disk'.critic[i] # "OK"
                                 /\ ~HasProof(disk', i)
    BY <1>1 DEF KeysHold, HasProof, NoVerdict
  <2>. QED
    BY <2>1, <2>2, <2>3 DEF EvidenceOf
<1>4. \A i \in Ids : abstractStatus[i] = "absent" => i \notin Stored(disk)
  BY DEF abstractStatus, StatusOf, Stored, Database, Finding, Statuses
<1>5. abstractEvidence' = [i \in Ids |-> EvidenceOf(disk', i)]
  BY DEF abstractEvidence, EvidenceOf, HasProof
<1>. QED
  BY <1>2, <1>3, <1>4, <1>5 DEF Lifecycle!Gather, abstractStatus, abstractEvidence

(* Without a raw UPDATE nothing is ever refuted. *)
LEMMA StatusInvNext ==
  ASSUME OutOfBand = {}, IInv, PutInv, StatusInv, [Next]_vars
  PROVE  StatusInv'
<1>0. disk \in Database /\ db \in Database
  BY DEF IInv, TypeOK
<1>1. ASSUME disk'.findings = disk.findings PROVE StatusInv'
  BY <1>1 DEF StatusInv, Stored
<1>2. CASE PutCommit
  <2>1. Grows(disk, db) /\ disk' = db
    BY <1>2 DEF PutCommit, PutInv
  <2>2. ASSUME NEW i \in Stored(db) PROVE db.findings[i].status # "refuted"
    <3>1. CASE i \in Stored(disk)
      BY <2>1, <3>1 DEF Grows, StatusInv
    <3>2. CASE i \notin Stored(disk)
      BY <2>1, <2>2, <3>2 DEF Grows, PutStatuses
    <3>. QED
      BY <3>1, <3>2
  <2>. QED
    BY <2>1, <2>2 DEF StatusInv, Stored
<1>3. CASE PromoteCommit
  <2> DEFINE f == call.finding
  <2>1. /\ f \in Stored(disk) /\ disk.findings[f] \in Finding
        /\ disk'.findings = [disk.findings EXCEPT
             ![f] = [disk.findings[f] EXCEPT !.status = "confirmed", !.sev = call.sev]]
    BY <1>3, PromoteCommitTables
  <2>2. \A i \in Ids : i # f => disk'.findings[i] = disk.findings[i]
    BY <1>0, <2>1 DEF Database
  <2>3. disk'.findings[f].status = "confirmed"
    BY <1>0, <2>1 DEF Database, Stored, Finding
  <2>. QED
    BY <2>2, <2>3 DEF StatusInv, Stored
<1>4. ASSUME PutReject \/ \E f \in Ids, c \in Consumers, cap \in Caps \cup {NoCap} :
               ImpactProof(f, c, cap)
      PROVE  disk'.findings = disk.findings
  BY <1>0, <1>4, RollbackTables DEF PutReject, ImpactProof, Database
<1>5. CASE \/ \E t \in PutTables : PutBegin(t)
           \/ PutInsert \/ Skips \/ Crash \/ UNCHANGED vars
           \/ \E f \in Ids, sev \in SeverityInputs : PromoteFlip(f, sev)
  BY <1>1, <1>5 DEF PutBegin, PutInsert, Skips, PutSkip, PutSkipUnreported, DoNothing,
         Crash, PromoteFlip, vars
<1>. QED
  BY <1>1, <1>2, <1>3, <1>4, <1>5 DEF Next, Skips

(* A committed batch of findings is a Record. *)
LEMMA RecordStep ==
  ASSUME IInv, PutInv, StatusInv, PutCommit, call.table = "gr_findings"
  PROVE  Lifecycle!Record
<1>0. disk \in Database /\ db \in Database /\ KeysHold(disk)
  BY DEF IInv, TypeOK, KeysHoldThroughout
<1>1. /\ Grows(disk, db) /\ disk' = db
      /\ db.refuted = disk.refuted /\ db.critic = disk.critic
  BY DEF PutCommit, PutInv
<1>2. \A i \in Ids : EvidenceOf(disk', i) = EvidenceOf(disk, i)
  BY <1>1 DEF EvidenceOf, HasProof, Grows
<1>3. ASSUME NEW i \in Ids
      PROVE  /\ \/ StatusOf(disk', i) = StatusOf(disk, i)
                \/ StatusOf(disk, i) = "absent" /\ StatusOf(disk', i) \in PutStatuses
             /\ StatusOf(disk', i) \in PutStatuses \cup {"absent", "confirmed"}
  <2>1. CASE i \in Stored(disk)
    <3>1. StatusOf(disk, i) \in PutStatuses \cup {"absent", "confirmed"}
      BY <1>0, <2>1 DEF StatusInv, StatusOf, Stored, Database, Finding, Statuses, PutStatuses
    <3>2. StatusOf(disk', i) = StatusOf(disk, i)
      BY <1>1, <2>1 DEF Grows, StatusOf
    <3>. QED
      BY <3>1, <3>2
  <2>2. CASE i \notin Stored(disk)
    BY <1>1, <2>2 DEF Grows, StatusOf
  <2>. QED
    BY <2>1, <2>2
<1>4. abstractStatus' = [i \in Ids |-> StatusOf(disk', i)]
  BY DEF abstractStatus, StatusOf, Stored
<1>5. abstractEvidence' = abstractEvidence
  BY <1>2 DEF abstractEvidence, EvidenceOf, HasProof
<1>. QED
  BY <1>3, <1>4, <1>5
  DEF Lifecycle!Record, Lifecycle!Initial, PutStatuses, abstractStatus, abstractEvidence

(* A committed promotion is a Confirm of its finding. *)
LEMMA ConfirmStep ==
  ASSUME IInv, PromoteCommit
  PROVE  \E s \in Ids : Lifecycle!Confirm(s)
<1> DEFINE f == call.finding
<1>1. /\ f \in Stored(disk) /\ disk.findings[f] \in Finding
      /\ Promotable(disk, f, call.sev)
      /\ disk'.findings = [disk.findings EXCEPT
           ![f] = [disk.findings[f] EXCEPT !.status = "confirmed", !.sev = call.sev]]
      /\ disk'.refuted = disk.refuted /\ disk'.critic = disk.critic
      /\ disk'.proofs = disk.proofs
      /\ disk \in Database /\ disk' \in Database
  BY PromoteCommitTables DEF IInv, TypeOK
<1>2. f \in Ids
  BY <1>1 DEF Stored
<1>3. \A i \in Ids : i # f => disk'.findings[i] = disk.findings[i]
  BY <1>1 DEF Database
<1>4. disk'.findings[f].status = "confirmed" /\ f \in Stored(disk')
  <2>1. disk'.findings[f] = [disk.findings[f] EXCEPT !.status = "confirmed", !.sev = call.sev]
    BY <1>1, <1>2 DEF Database
  <2>2. [disk.findings[f] EXCEPT !.status = "confirmed", !.sev = call.sev] \in Finding
    BY <1>1, PromoteCommitTables DEF Finding, Statuses
  <2>. QED
    BY <1>1, <1>2, <2>1, <2>2 DEF Stored, Finding
<1>5. \A i \in Ids : StatusOf(disk', i) = IF i = f THEN "confirmed" ELSE StatusOf(disk, i)
  BY <1>3, <1>4 DEF StatusOf, Stored
<1>6. StatusOf(disk, f) = "candidate"
  BY <1>1 DEF StatusOf, Promotable
<1>7. EvidenceOf(disk, f) = {"refutation", "critic OK", "impact proof"}
  BY <1>1 DEF EvidenceOf, Promotable
<1>8. abstractStatus' = [abstractStatus EXCEPT ![f] = "confirmed"]
  BY <1>2, <1>5 DEF abstractStatus, StatusOf, Stored
<1>9. abstractEvidence' = abstractEvidence
  BY <1>1 DEF abstractEvidence, EvidenceOf, HasProof
<1>10. Lifecycle!Confirm(f)
  BY <1>2, <1>6, <1>7, <1>8, <1>9
  DEF Lifecycle!Confirm, abstractStatus, abstractEvidence
<1>. QED
  BY <1>2, <1>10

LEMMA StepImplements ==
  ASSUME OutOfBand = {}, IInv, IInv', PutInv, StatusInv, [Next]_vars
  PROVE  [Lifecycle!Next]_(Lifecycle!vars)
<1>0. disk \in Database /\ disk' \in Database /\ db \in Database /\ KeysHold(disk')
  BY DEF IInv, TypeOK, KeysHoldThroughout, KeysHold, Stored
<1>1. ASSUME disk'.findings = disk.findings, disk'.refuted = disk.refuted,
             disk'.critic = disk.critic, disk'.proofs = disk.proofs
      PROVE  UNCHANGED Lifecycle!vars
  BY <1>1, SameAbstraction DEF abstractStatus, abstractEvidence, Lifecycle!vars
<1>2. CASE PutReject
  BY <1>0, <1>1, <1>2, RollbackTables DEF PutReject
<1>3. CASE PutCommit
  <2>1. Grows(disk, db) /\ disk' = db /\ (call.table # "gr_findings" => db.findings = disk.findings)
    BY <1>3 DEF PutCommit, PutInv
  <2>2. CASE call.table = "gr_findings"
    BY <1>3, <2>2, RecordStep DEF Lifecycle!Next
  <2>3. CASE call.table # "gr_findings"
    <3>1. Lifecycle!Gather
      BY <1>0, <2>1, <2>3, GatherStep DEF Grows
    <3>. QED
      BY <3>1 DEF Lifecycle!Next
  <2>. QED
    BY <2>2, <2>3
<1>4. ASSUME NEW f \in Ids, NEW c \in Consumers, NEW cap \in CapInputs, ImpactProof(f, c, cap)
      PROVE  Lifecycle!Gather
  <2>1. /\ disk'.findings = disk.findings /\ disk'.refuted = disk.refuted
        /\ disk'.critic = disk.critic /\ disk.proofs \subseteq disk'.proofs
    BY <1>0, <1>4 DEF ImpactProof, Database
  <2>. QED
    BY <1>0, <2>1, GatherStep
<1>5. CASE PromoteCommit
  BY <1>5, ConfirmStep DEF Lifecycle!Next
<1>6. CASE \/ \E t \in PutTables : PutBegin(t)
           \/ PutInsert \/ Skips \/ Crash \/ UNCHANGED vars
           \/ \E f \in Ids, sev \in SeverityInputs : PromoteFlip(f, sev)
  BY <1>1, <1>6 DEF PutBegin, PutInsert, Skips, PutSkip, PutSkipUnreported, DoNothing,
         Crash, PromoteFlip, vars
<1>. QED
  BY <1>2, <1>3, <1>4, <1>5, <1>6 DEF Next, Skips, Lifecycle!Next

(* With no raw status UPDATE the ledger implements the lifecycle: whatever  *)
(* batches are cut short, retried or refused, each finding goes from absent *)
(* to candidate or unconfirmed, only gains evidence, and is confirmed once, *)
(* with all of it.                                                          *)
THEOREM LedgerImplementsLifecycle ==
  ASSUME OutOfBand = {}
  PROVE  Spec => ImplementsLifecycle
<1>1. Init => Lifecycle!Init /\ StatusInv
  <2> SUFFICES ASSUME Init PROVE Lifecycle!Init /\ StatusInv
    OBVIOUS
  <2>1. /\ disk.findings = [i \in Ids |-> NoRow] /\ disk.refuted = {}
        /\ disk.critic = [i \in Ids |-> NoVerdict] /\ disk.proofs = {}
    BY DEF Init, EmptyDatabase
  <2>2. Stored(disk) = {}
    BY <2>1 DEF Stored
  <2>3. \A i \in Ids : StatusOf(disk, i) = "absent"
    BY <2>2 DEF StatusOf
  <2>4. \A i \in Ids : EvidenceOf(disk, i) = {}
    BY <2>1 DEF EvidenceOf, HasProof, NoVerdict
  <2>. QED
    BY <2>2, <2>3, <2>4 DEF Lifecycle!Init, StatusInv
<1>2. IInv /\ PutInv /\ StatusInv /\ [Next]_vars => StatusInv'
  BY StatusInvNext
<1>3. IInv /\ IInv' /\ PutInv /\ StatusInv /\ [Next]_vars => [Lifecycle!Next]_(Lifecycle!vars)
  BY StepImplements
<1>. QED
  BY <1>1, <1>2, <1>3, InvariantHolds, PutInvHolds, PTL
  DEF Spec, ImplementsLifecycle, Lifecycle!Spec
===============================================================================
