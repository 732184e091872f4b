----------------------------- MODULE FindingLedger -----------------------------
(***************************************************************************)
(* The finding tables of a vuln-research audit database and the vrdb verbs *)
(* that write them: PutCounts (a batch of rows in one transaction), the    *)
(* ImpactProof and Promote verbs, and the raw Exec that the docs use for   *)
(* status transitions.                                                     *)
(*                                                                         *)
(* One vrdb process owns the database file at a time, so at most one       *)
(* transaction is open: disk is the committed database, db the view of the *)
(* open transaction and call the verb that runs it.  A process may die     *)
(* between any two statements; what it did not commit is gone.             *)
(***************************************************************************)
EXTENDS Integers, Sequences, FiniteSets

CONSTANTS
  MaxId,          \* bound: ids of gr_findings rows are 1..MaxId
  Hashes,         \* finding_hash values the callers compute
  Bodies,         \* values of a finding's other semantic columns
  Consumers,      \* (consumer_symbol, harm_class) pairs an impact proof names
  PutInputs,      \* confirmation_status values callers try to Put
  SeverityInputs, \* severities callers pass to promote
  CapInputs,      \* mechanism caps callers record in impact proofs, NULL included
  ExplicitIds,    \* ids callers pass in rows instead of leaving them to the sequence
  OutOfBand,      \* statuses callers write with a raw `vrdb exec UPDATE`
  PutTables,      \* tables the callers Put into
  MaxBatch,       \* bound: rows in one Put
  CountMayFail,   \* whether the driver may fail to report RowsAffected
  NoRow           \* an id that holds no row

ASSUME MaxIdAssumption == MaxId \in Nat \ {0}
ASSUME BatchAssumption == MaxBatch \in Nat \ {0}
ASSUME ExplicitAssumption == ExplicitIds \subseteq 1..MaxId
ASSUME CountAssumption == CountMayFail \in BOOLEAN

(***************************************************************************)
(* Data.                                                                   *)
(***************************************************************************)
Ids == 1..MaxId
NoId == 0                      \* the row carries no id column
NotCarried == "not carried"    \* the row carries no such column; stored as NULL
NoSeverity == "null"
NoCap == "null"
NoVerdict == "no row"

Statuses == {"candidate", "unconfirmed", "confirmed", "refuted"}
PutStatuses == {"candidate", "unconfirmed"}
severityRank == [LOW |-> 1, MEDIUM |-> 2, HIGH |-> 3, CRITICAL |-> 4]
Severities == DOMAIN severityRank
Caps == {"dos_only", "leak", "none", "write_what_where"}
Verdicts == {"OK", "CRITICAL"}

ASSUME InputAssumption ==
  /\ PutTables \subseteq {"gr_findings", "refutations", "critic_findings", "mutation_log"}
  /\ PutInputs \subseteq Statuses
  /\ SeverityInputs \subseteq Severities
  /\ CapInputs \subseteq Caps \cup {NoCap}
  /\ OutOfBand \subseteq Statuses

Finding == [hash : Hashes, body : Bodies \cup {NotCarried}, status : Statuses,
            sev : Severities \cup {NoSeverity}]
ASSUME NoRowAssumption == NoRow \notin Finding

Proof == [finding : Ids, consumer : Consumers, cap : Caps \cup {NoCap}]

Database ==
  [findings : [Ids -> Finding \cup {NoRow}],
   seq : Nat,                          \* seq_gr_findings, the next id
   refuted : SUBSET Ids,               \* findings with a refutations row
   critic : [Ids -> Verdicts \cup {NoVerdict}],  \* their eligibility verdict
   proofs : SUBSET Proof,              \* impact_proofs
   flips : [Hashes -> Nat],            \* mutation_log rows written by promote
   notes : SUBSET Hashes]              \* hashes with a mutation_log row from a Put

EmptyDatabase ==
  [findings |-> [i \in Ids |-> NoRow], seq |-> 1, refuted |-> {},
   critic |-> [i \in Ids |-> NoVerdict], proofs |-> {},
   flips |-> [h \in Hashes |-> 0], notes |-> {}]

(* Rows a Put can carry, by table. *)
FindingRow == [id : ExplicitIds \cup {NoId}, hash : Hashes,
               body : Bodies \cup {NotCarried}, status : PutInputs]
WrittenRow == [id : Ids, hash : Hashes,
               body : Bodies \cup {NotCarried}, status : PutInputs]
RefutationRow == [finding : Ids]
CriticRow == [finding : Ids, severity : Verdicts]
MutationRow == [key : Hashes]

RowsOf(t) ==
  CASE t = "gr_findings" -> FindingRow
    [] t = "refutations" -> RefutationRow
    [] t = "critic_findings" -> CriticRow
    [] t = "mutation_log" -> MutationRow
Batches(t) == UNION {[1..n -> RowsOf(t)] : n \in 1..MaxBatch}

Stored(d) == {i \in Ids : d.findings[i] # NoRow}
-------------------------------------------------------------------------------
(***************************************************************************)
(* Statements of the write path, as functions of the database they run on. *)
(***************************************************************************)
RowId(d, r) == IF r.id = NoId THEN d.seq ELSE r.id

(* Mutant of dedupConflict: the semantic columns are not compared. *)
dedupConflictStatusOnly(d, r) ==
  \E i \in Stored(d) :
    d.findings[i].hash = r.hash /\ d.findings[i].status # r.status

(* Only the columns the incoming row carries are compared (T3-04). *)
dedupConflict(d, r) ==
  \E i \in Stored(d) :
    /\ d.findings[i].hash = r.hash
    /\ \/ d.findings[i].status # r.status
       \/ r.body # NotCarried /\ d.findings[i].body # r.body

(* Mutants of RowRejected: no FK pre-validation; no born-confirmed lockout. *)
RowRejectedNoForeignKeys(d, t, r) ==
  t = "gr_findings" /\ (r.status \notin PutStatuses \/ dedupConflict(d, r))
RowRejectedNoLockout(d, t, r) ==
  IF t = "gr_findings" THEN dedupConflict(d, r) ELSE r.finding \notin Stored(d)

(* The row aborts the batch: lockout, hash collision or missing FK parent. *)
RowRejected(d, t, r) ==
  CASE t = "gr_findings" -> r.status \notin PutStatuses \/ dedupConflict(d, r)
    [] t \in {"refutations", "critic_findings"} -> r.finding \notin Stored(d)
    [] t = "mutation_log" -> FALSE

(* ON CONFLICT DO NOTHING: a primary or natural key is already taken. *)
RowConflicts(d, t, r) ==
  CASE t = "gr_findings" -> \/ RowId(d, r) \in Stored(d)
                            \/ \E i \in Stored(d) : d.findings[i].hash = r.hash
    [] t = "refutations" -> r.finding \in d.refuted
    [] t = "critic_findings" -> d.critic[r.finding] # NoVerdict
    [] t = "mutation_log" -> r.key \in d.notes

(* nextval is taken before the insert is tried, so a skipped row uses it up. *)
AssignId(d, t, r) ==
  IF t = "gr_findings" /\ r.id = NoId THEN [d EXCEPT !.seq = @ + 1] ELSE d

NewFinding(r) ==
  [hash |-> r.hash, body |-> r.body, status |-> r.status, sev |-> NoSeverity]

InsertRow(d, t, r) ==
  CASE t = "gr_findings" -> [d EXCEPT !.findings[RowId(d, r)] = NewFinding(r)]
    [] t = "refutations" -> [d EXCEPT !.refuted = @ \cup {r.finding}]
    [] t = "critic_findings" -> [d EXCEPT !.critic[r.finding] = r.severity]
    [] t = "mutation_log" -> [d EXCEPT !.notes = @ \cup {r.key}]

(***************************************************************************)
(* What Promote reads.  MAX(mechanism_cap) compares the cap names as text  *)
(* and ignores NULL.                                                       *)
(***************************************************************************)
HasProof(d, f) == \E p \in d.proofs : p.finding = f
textOrder == [dos_only |-> 1, leak |-> 2, none |-> 3, write_what_where |-> 4]
CapsOf(d, f) == {p.cap : p \in {q \in d.proofs : q.finding = f}} \ {NoCap}

(* Mutant of MaxCap: the cap of some one proof, whatever it is. *)
MaxCapOfOneProof(d, f) ==
  IF HasProof(d, f) THEN (CHOOSE p \in d.proofs : p.finding = f).cap ELSE NoCap

MaxCap(d, f) ==
  IF CapsOf(d, f) = {} THEN NoCap
  ELSE CHOOSE c \in CapsOf(d, f) :
         \A e \in CapsOf(d, f) : textOrder[e] <= textOrder[c]

(* mechanismCapCeiling: only dos_only has a ceiling. *)
WithinCeiling(cap, sev) ==
  cap = "dos_only" => severityRank[sev] <= severityRank["MEDIUM"]

(* Mutant of Promotable: any eligibility verdict will do. *)
PromotableAnyVerdict(d, f, sev) ==
  /\ f \in Stored(d)
  /\ d.findings[f].status = "candidate"
  /\ f \in d.refuted
  /\ d.critic[f] # NoVerdict
  /\ HasProof(d, f)
  /\ WithinCeiling(MaxCap(d, f), sev)

Promotable(d, f, sev) ==
  /\ f \in Stored(d)
  /\ d.findings[f].status = "candidate"
  /\ f \in d.refuted
  /\ d.critic[f] = "OK"
  /\ HasProof(d, f)
  /\ WithinCeiling(MaxCap(d, f), sev)

FlipStatus(d, f, sev) ==
  [d EXCEPT !.findings[f].status = "confirmed", !.findings[f].sev = sev]
LogFlip(d, f) == [d EXCEPT !.flips[d.findings[f].hash] = @ + 1]
-------------------------------------------------------------------------------
VARIABLES
  disk,    \* the committed database
  db,      \* the open transaction's view; equal to disk when none is open
  call,    \* the verb whose transaction is open
  acked    \* gr_findings rows a Put reported as written, each with the id it was
           \* given, as row["id"] holds it: history, no code reads it

vars == <<disk, db, call, acked>>

Idle == [verb |-> "none"]
PutCall(t, rows) ==
  [verb |-> "put", table |-> t, rows |-> rows, next |-> 1,
   inserted |-> 0, skipped |-> 0,
   exact |-> TRUE,     \* no skipped row was counted as inserted: history
   written |-> {}]     \* its gr_findings rows so far, with their ids: history
PromoteCall(f, sev) == [verb |-> "promote", finding |-> f, sev |-> sev]

Init ==
  /\ disk = EmptyDatabase
  /\ db = disk
  /\ call = Idle
  /\ acked = {}

(***************************************************************************)
(* PutCounts: one transaction, one statement per row.                      *)
(***************************************************************************)
PutBegin(t) ==
  /\ call = Idle
  /\ \E rows \in Batches(t) : call' = PutCall(t, rows)
  /\ UNCHANGED <<disk, db, acked>>

AtRow == call.verb = "put" /\ call.next <= Len(call.rows)
Row == call.rows[call.next]

(* Bound: a model run ends its sequence at MaxId. *)
SequenceLeft == call.table = "gr_findings" => RowId(db, Row) \in Ids

(* row["id"] of a row that carries none is set to the id it was given. *)
WithId(d, r) == [r EXCEPT !.id = RowId(d, r)]
Written ==
  IF call.table = "gr_findings" THEN call.written \cup {WithId(db, Row)} ELSE call.written

PutInsert ==
  /\ AtRow /\ SequenceLeft
  /\ ~RowRejected(db, call.table, Row)
  /\ ~RowConflicts(db, call.table, Row)
  /\ db' = AssignId(InsertRow(db, call.table, Row), call.table, Row)
  /\ call' = [call EXCEPT !.next = @ + 1, !.inserted = @ + 1, !.written = Written]
  /\ UNCHANGED <<disk, acked>>

(* ON CONFLICT DO NOTHING: the insert of a conflicting row changes nothing. *)
DoNothing ==
  /\ AtRow /\ SequenceLeft
  /\ ~RowRejected(db, call.table, Row)
  /\ RowConflicts(db, call.table, Row)
  /\ db' = AssignId(db, call.table, Row)
  /\ UNCHANGED <<disk, acked>>

(* Mutant of PutSkip: the driver's count is not looked at. *)
PutSkipCountedInserted ==
  /\ DoNothing
  /\ call' = [call EXCEPT !.next = @ + 1, !.inserted = @ + 1, !.written = Written]

PutSkip ==
  /\ DoNothing
  /\ call' = [call EXCEPT !.next = @ + 1, !.skipped = @ + 1, !.written = Written]

(* RowsAffected fails: the row is assumed to have landed. *)
PutSkipUnreported ==
  /\ CountMayFail
  /\ DoNothing
  /\ call' = [call EXCEPT !.next = @ + 1, !.inserted = @ + 1, !.written = Written,
                         !.exact = FALSE]

(* A hash collision is found after the row took its id, a lockout before. *)
SeqOfRejected ==
  IF call.table = "gr_findings" /\ Row.id = NoId /\ Row.status \in PutStatuses
  THEN db.seq + 1 ELSE db.seq

(* Rollback; the ids nextval gave out may or may not come back. *)
Rollback ==
  /\ disk' \in {disk, [disk EXCEPT !.seq = SeqOfRejected]}
  /\ db' = disk'
  /\ call' = Idle
  /\ UNCHANGED acked

PutReject ==
  /\ AtRow /\ SequenceLeft
  /\ RowRejected(db, call.table, Row)
  /\ Rollback

PutCommit ==
  /\ call.verb = "put" /\ call.next = Len(call.rows) + 1
  /\ disk' = db
  /\ acked' = acked \cup call.written
  /\ call' = Idle
  /\ UNCHANGED db

(***************************************************************************)
(* The transactional verbs.                                                *)
(***************************************************************************)

(* ImpactProof: one proof per (finding, consumer, harm); a second one is an *)
(* acknowledged no-op, whatever cap it carries.                             *)
ImpactProof(f, consumer, cap) ==
  /\ call = Idle
  /\ f \in Stored(disk)
  /\ ~\E p \in disk.proofs : p.finding = f /\ p.consumer = consumer
  /\ disk' = [disk EXCEPT !.proofs =
                @ \cup {[finding |-> f, consumer |-> consumer, cap |-> cap]}]
  /\ db' = disk'
  /\ UNCHANGED <<call, acked>>

(* Promote, the checks and the UPDATE of gr_findings. *)
PromoteFlip(f, sev) ==
  /\ call = Idle
  /\ Promotable(disk, f, sev)
  /\ db' = FlipStatus(disk, f, sev)
  /\ call' = PromoteCall(f, sev)
  /\ UNCHANGED <<disk, acked>>

(* Promote, the INSERT into mutation_log and the commit. *)
PromoteCommit ==
  /\ call.verb = "promote"
  /\ disk' = LogFlip(db, call.finding)
  /\ db' = disk'
  /\ call' = Idle
  /\ UNCHANGED acked

(* Exec of UPDATE gr_findings SET confirmation_status = s WHERE id = f. *)
ExecStatus(f, s) ==
  /\ call = Idle
  /\ f \in Stored(disk)
  /\ disk' = [disk EXCEPT !.findings[f].status = s]
  /\ db' = disk'
  /\ UNCHANGED <<call, acked>>

(* The process dies inside a transaction. *)
Crash ==
  /\ call # Idle
  /\ disk' = disk
  /\ db' = disk
  /\ call' = Idle
  /\ UNCHANGED acked

Next ==
  \/ \E t \in PutTables : PutBegin(t)
  \/ PutInsert
  \/ PutSkip
  \/ PutSkipUnreported
  \/ PutReject
  \/ PutCommit
  \/ \E f \in Ids, c \in Consumers, cap \in CapInputs : ImpactProof(f, c, cap)
  \/ \E f \in Ids, sev \in SeverityInputs : PromoteFlip(f, sev)
  \/ PromoteCommit
  \/ \E f \in Ids, s \in OutOfBand : ExecStatus(f, s)
  \/ Crash

Spec == Init /\ [][Next]_vars
-------------------------------------------------------------------------------
PutCalls(t) ==
  [verb : {"put"}, table : {t}, rows : Batches(t), next : 1..(MaxBatch + 1),
   inserted : 0..MaxBatch, skipped : 0..MaxBatch,
   exact : BOOLEAN, written : SUBSET WrittenRow]

(* Types of every table, of the open transaction's view and of its call. *)
TypeOK ==
  /\ disk \in Database
  /\ db \in Database
  /\ acked \subseteq WrittenRow
  /\ \/ call = Idle
     \/ call \in [verb : {"promote"}, finding : Ids, sev : SeverityInputs]
     \/ \E t \in PutTables : call \in PutCalls(t)

(* Keys and foreign keys of one database: no finding_hash twice, no child   *)
(* row of a finding that does not exist.                                    *)
KeysHold(d) ==
  /\ \A i, j \in Stored(d) : d.findings[i].hash = d.findings[j].hash => i = j
  /\ d.refuted \subseteq Stored(d)
  /\ \A i \in Ids : d.critic[i] # NoVerdict => i \in Stored(d)
  /\ \A p \in d.proofs : p.finding \in Stored(d)

(* The UNIQUE and REFERENCES constraints hold in what is committed and, at  *)
(* every statement, in what an open transaction sees: the pre-checks of     *)
(* PutCounts and ImpactProof leave nothing for the database to refuse.      *)
KeysHoldThroughout == KeysHold(disk) /\ KeysHold(db)

Confirmed(d) == {i \in Stored(d) : d.findings[i].status = "confirmed"}

Justified(d, i) ==
  /\ i \in d.refuted
  /\ d.critic[i] = "OK"
  /\ HasProof(d, i)
  /\ d.findings[i].sev # NoSeverity
  /\ d.flips[d.findings[i].hash] > 0

(* Every committed confirmed finding survived a refutation pass, has the    *)
(* critic's eligibility OK, an impact proof, a severity and the mutation    *)
(* log row of its flip, and keeps them (the doc comment of Promote: a       *)
(* born-confirmed or consumer-less row is impossible through the harness).  *)
ConfirmedIsJustified == \A i \in Confirmed(disk) : Justified(disk, i)

(* The audit log tells the status exactly: a finding is confirmed if and    *)
(* only if promote logged one flip of its hash - never a flip without its   *)
(* log row, a log row without its flip, or two of them after a retry.       *)
LogMatchesStatus ==
  \A h \in Hashes :
    disk.flips[h] = IF \E i \in Confirmed(disk) : disk.findings[i].hash = h THEN 1 ELSE 0

Holds(d, r) ==
  \E i \in Stored(d) :
    /\ d.findings[i].hash = r.hash
    /\ r.body # NotCarried => d.findings[i].body = r.body

(* Another finding was stored under the id before the row was tried. *)
IdTaken(d, r) == r.id \in Stored(d) /\ d.findings[r.id].hash # r.hash
Kept(d, r) == Holds(d, r) \/ IdTaken(d, r)

(* What a Put acknowledged is in the database, for good, with one           *)
(* exception: a row is counted as a replay although its content was never   *)
(* stored only when its id, its own or the one the sequence gave it, is     *)
(* that of another finding.  So every row of a caller whose ids are never   *)
(* taken is stored with the content it carries, through replays, hash       *)
(* collisions and kills (T3-04, T3-08; put.go takes every conflict for an   *)
(* idempotent replay).                                                      *)
AckedContentStored == \A r \in acked : Kept(disk, r)

TableRows(d, t) ==
  CASE t = "gr_findings" -> Stored(d)
    [] t = "refutations" -> d.refuted
    [] t = "critic_findings" -> {i \in Ids : d.critic[i] # NoVerdict}
    [] t = "mutation_log" -> d.notes

(* The counts Put prints are true: inserted + skipped is the batch, no more *)
(* rows are new in the table than inserted says, and exactly so many unless *)
(* the driver failed to report the count of a skipped row.                  *)
PutCountsAreTrue ==
  [][PutCommit =>
       LET before == Cardinality(TableRows(disk, call.table))
           after == Cardinality(TableRows(disk', call.table)) IN
       /\ call.inserted + call.skipped = Len(call.rows)
       /\ after <= before + call.inserted
       /\ call.exact => after = before + call.inserted]_vars

BecomesConfirmed(i) == i \notin Confirmed(disk) /\ i \in Confirmed(disk)'

(* A finding with a dos_only proof is promoted above MEDIUM only when       *)
(* another of its proofs names another cap: proofs recorded without a cap,  *)
(* before or after it and for any consumers, never lift the ceiling.  (A    *)
(* proof that names a cap does lift it, even "none": Promote takes the MAX  *)
(* of the names as text, where the comment has it that a cap only LOWERS.)  *)
DosOnlyCapsSeverity ==
  [][\A i \in Ids :
       /\ BecomesConfirmed(i)
       /\ \E p \in disk.proofs : p.finding = i /\ p.cap = "dos_only"
       /\ severityRank[disk'.findings[i].sev] > severityRank["MEDIUM"]
       => \E p \in disk.proofs : p.finding = i /\ p.cap \notin {"dos_only", NoCap}]_vars
-------------------------------------------------------------------------------
(***************************************************************************)
(* The abstract view: the status and evidence of each committed finding.   *)
(***************************************************************************)
EvidenceOf(d, i) ==
  (IF i \in d.refuted THEN {"refutation"} ELSE {})
  \cup (IF d.critic[i] = "OK" THEN {"critic OK"} ELSE {})
  \cup (IF HasProof(d, i) THEN {"impact proof"} ELSE {})

StatusOf(d, i) == IF i \in Stored(d) THEN d.findings[i].status ELSE "absent"

Lifecycle ==
  INSTANCE FindingLifecycle
    WITH Slots <- Ids,
         Required <- {"refutation", "critic OK", "impact proof"},
         status <- [i \in Ids |-> StatusOf(disk, i)],
         evidence <- [i \in Ids |-> EvidenceOf(disk, i)]

(* The ledger implements the lifecycle: with no raw status UPDATE, what     *)
(* batches, crashes, retries and promotions commit is a lifecycle of every  *)
(* finding.                                                                 *)
ImplementsLifecycle == Lifecycle!Spec
===============================================================================
