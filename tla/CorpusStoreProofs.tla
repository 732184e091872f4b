--------------------------- MODULE CorpusStoreProofs ---------------------------
(***************************************************************************)
(* What CorpusStore keeps for any pages, judgments and scouts.  The        *)
(* inductive invariant says what a command still knows of the database it  *)
(* read: what it belongs to is there, a re-judgment is one in              *)
(* corpus.sqlite, and, while it has not been raced, its excerpt is there.  *)
(***************************************************************************)
EXTENDS CorpusStore, Integers, FiniteSetTheorems, TLAPS

IngestKnows(x) ==
  x.stage = "ingest" =>
    /\ x.judged.same # Original => docs[Home(x.judged)][x.judged.same] # NoDoc
    /\ x.replace => Home(x.judged) = "corpus"

RecoverKnows(x) ==
  x.stage \in {"recover", "recovered"} =>
    /\ docs["corpus"][x.doc] # NoDoc
    /\ ~x.raced => \E i \in cases : Compared(x, i)

JobOK(x) == IngestKnows(x) /\ RecoverKnows(x)

(* Code belongs to a document, recovered code to one in corpus.sqlite. *)
CasesHaveDocs ==
  \A k \in cases :
    /\ docs[k.db][k.doc] # NoDoc
    /\ k.kind = "linked" => k.db = "corpus"
    /\ k.kind = "inline" => k.code \in Codes

JobsOK == \A s \in Scouts : JobOK(job[s])

Inv == /\ TypeOK /\ CasesHaveDocs /\ JobsOK
       /\ RecoveredFromItsExcerpt /\ NothingDangles
-------------------------------------------------------------------------------
(* What a command knows stays true while others go on.                       *)

LEMMA HomeType == \A j \in Judgment : Home(j) \in Dbs
BY DEF Home, Dbs

LEMMA JobCases ==
  \A x \in Job : 
    \/ x = Idle
    \/ /\ x.stage = "ingest"
       /\ x \in [stage : {"ingest"}, doc : Captures, judged : Judgment,
                 replace : BOOLEAN, raced : BOOLEAN]
    \/ /\ x.stage \in {"recover", "recovered"}
       /\ x \in [stage : {"recover", "recovered"}, doc : Captures, ref : Refs,
                 from : CaseIds, against : Codes, raced : BOOLEAN]
BY DEF Job

(* No document goes away. *)
DocsGrow ==
  \A db \in Dbs, c \in Captures : docs[db][c] # NoDoc => docs'[db][c] # NoDoc

LEMMA JobStays ==
  ASSUME NEW x \in Job, JobOK(x), DocsGrow,
         x # Idle => CasesOf("corpus", x.doc)' = CasesOf("corpus", x.doc)
  PROVE  JobOK(x)'
<1>1. IngestKnows(x)'
  <2>1. SUFFICES ASSUME x.stage = "ingest"
                 PROVE  IngestKnows(x)'
    BY DEF IngestKnows
  <2>2. x # Idle /\ x.doc \in Captures /\ x.judged \in Judgment /\ Home(x.judged) \in Dbs
    BY <2>1, JobCases, HomeType DEF Idle
  <2>3. x.judged.same # Original => x.judged.same \in Captures
    BY <2>2 DEF Judgment
  <2>. QED
    BY <2>1, <2>2, <2>3 DEF JobOK, IngestKnows, DocsGrow, Home
<1>2. RecoverKnows(x)'
  <2>1. SUFFICES ASSUME x.stage \in {"recover", "recovered"}
                 PROVE  RecoverKnows(x)'
    BY DEF RecoverKnows
  <2>2. x # Idle /\ x.doc \in Captures
    BY <2>1, JobCases DEF Idle
  <2>3. \A i \in cases : Compared(x, i) => i \in CasesOf("corpus", x.doc)
    BY DEF Compared, CasesOf
  <2>4. \A i \in CasesOf("corpus", x.doc) : i \in cases'
    BY <2>2 DEF CasesOf
  <2>5. (\E i \in cases : Compared(x, i)) => \E i \in cases' : Compared(x, i)
    BY <2>3, <2>4
  <2>6. docs'["corpus"][x.doc] # NoDoc
    BY <2>1, <2>2 DEF JobOK, RecoverKnows, DocsGrow, Dbs
  <2>. QED
    BY <2>1, <2>5, <2>6 DEF JobOK, RecoverKnows, Compared
<1>. QED
  BY <1>1, <1>2 DEF JobOK

Raced(x) == [x EXCEPT !.raced = TRUE]

LEMMA JobRaced ==
  ASSUME NEW x \in Job, x # Idle, JobOK(x), DocsGrow
  PROVE  Raced(x) \in Job /\ JobOK(Raced(x))'
<1>1. CASE x.stage = "ingest"
  <2>1. x \in [stage : {"ingest"}, doc : Captures, judged : Judgment,
               replace : BOOLEAN, raced : BOOLEAN]
    BY <1>1, JobCases DEF Idle
  <2>2. Raced(x) \in [stage : {"ingest"}, doc : Captures, judged : Judgment,
                      replace : BOOLEAN, raced : BOOLEAN]
    BY <2>1 DEF Raced
  <2>3. /\ Raced(x).stage = "ingest" /\ Raced(x).raced
        /\ Raced(x).judged = x.judged /\ Raced(x).replace = x.replace
    BY <2>1 DEF Raced
  <2>4. /\ Home(x.judged) \in Dbs
        /\ x.judged.same # Original => x.judged.same \in Captures
    BY <2>1, HomeType DEF Judgment
  <2>5. IngestKnows(Raced(x))'
    BY <1>1, <2>3, <2>4 DEF JobOK, IngestKnows, DocsGrow, Home
  <2>6. RecoverKnows(Raced(x))'
    BY <2>3 DEF RecoverKnows
  <2>. QED
    BY <2>2, <2>5, <2>6 DEF JobOK, Job
<1>2. CASE x.stage \in {"recover", "recovered"}
  <2>1. x \in [stage : {"recover", "recovered"}, doc : Captures, ref : Refs,
               from : CaseIds, against : Codes, raced : BOOLEAN]
    BY <1>2, JobCases DEF Idle
  <2>2. Raced(x) \in [stage : {"recover", "recovered"}, doc : Captures, ref : Refs,
                      from : CaseIds, against : Codes, raced : BOOLEAN]
    BY <2>1 DEF Raced
  <2>3. Raced(x).stage = x.stage /\ Raced(x).raced /\ Raced(x).doc = x.doc
    BY <2>1 DEF Raced
  <2>4. IngestKnows(Raced(x))'
    BY <1>2, <2>3 DEF IngestKnows
  <2>5. RecoverKnows(Raced(x))'
    BY <1>2, <2>1, <2>3 DEF JobOK, RecoverKnows, DocsGrow, Dbs
  <2>. QED
    BY <2>2, <2>4, <2>5 DEF JobOK, Job
<1>. QED
  BY <1>1, <1>2, JobCases

LEMMA IdleOK == Idle \in Job /\ JobOK(Idle)
BY DEF Job, Idle, JobOK, IngestKnows, RecoverKnows

(* A command that writes nothing for documents. *)
LEMMA OneStep ==
  ASSUME job \in [Scouts -> Job], JobsOK, NEW s \in Scouts, NEW x \in Job, JobOK(x),
         docs' = docs, cases' = cases, job' = [job EXCEPT ![s] = x]
  PROVE  job' \in [Scouts -> Job] /\ JobsOK'
<1>1. DocsGrow
  BY DEF DocsGrow
<1>2. \A y \in Job : JobOK(y) => JobOK(y)'
  <2>1. SUFFICES ASSUME NEW y \in Job, JobOK(y)
                 PROVE  JobOK(y)'
    OBVIOUS
  <2>2. CasesOf("corpus", y.doc)' = CasesOf("corpus", y.doc)
    BY DEF CasesOf
  <2>. QED
    BY <1>1, <2>1, <2>2, JobStays
<1>3. SUFFICES ASSUME NEW q \in Scouts
               PROVE  JobOK(job[q])'
  BY DEF JobsOK
<1>4. PICK y \in Job : y = job'[q] /\ JobOK(y)
  BY DEF JobsOK
<1>. QED
  BY <1>2, <1>4

(* A commit for one capture. *)
LEMMA CommitStep ==
  ASSUME job \in [Scouts -> Job], JobsOK, NEW s \in Scouts, NEW c \in Captures,
         Commits(s, c), DocsGrow,
         \A d \in Captures \ {c} : CasesOf("corpus", d)' = CasesOf("corpus", d)
  PROVE  job' \in [Scouts -> Job] /\ JobsOK'
<1>1. \A q \in Scouts : \E y \in Job : y = job'[q] /\ JobOK(y)'
  <2>1. SUFFICES ASSUME NEW q \in Scouts
                 PROVE  \E y \in Job : y = job'[q] /\ JobOK(y)'
    OBVIOUS
  <2>2. PICK x \in Job : x = job[q] /\ JobOK(x)
    BY DEF JobsOK
  <2>3. job'[q] = IF q = s THEN Idle
                  ELSE IF x.stage # "idle" /\ x.doc = c THEN Raced(x) ELSE x
    BY <2>2 DEF Commits, Busy, Raced
  <2>4. CASE q = s
    <3>1. JobOK(Idle)'
      BY DEF Idle, JobOK, IngestKnows, RecoverKnows
    <3>. QED
      BY <2>3, <2>4, <3>1, IdleOK
  <2>5. CASE q # s /\ x.stage # "idle" /\ x.doc = c
    <3>1. x # Idle
      BY <2>5 DEF Idle
    <3>2. Raced(x) \in Job /\ JobOK(Raced(x))'
      BY <2>2, <3>1, JobRaced
    <3>. QED
      BY <2>3, <2>5, <3>2
  <2>6. CASE q # s /\ ~(x.stage # "idle" /\ x.doc = c)
    <3>1. x # Idle => x.doc \in Captures \ {c}
      BY <2>6, JobCases DEF Idle
    <3>2. JobOK(x)'
      BY <2>2, <3>1, JobStays
    <3>. QED
      BY <2>3, <2>6, <3>2
  <2>. QED
    BY <2>4, <2>5, <2>6
<1>2. job' \in [Scouts -> Job]
  BY <1>1 DEF Commits
<1>3. \A q \in Scouts : JobOK(job[q])'
  BY <1>1
<1>. QED
  BY <1>2, <1>3 DEF JobsOK
-------------------------------------------------------------------------------
(* Init, and the steps that write no document and no code.                   *)

LEMMA InitOK == Init => Inv
<1>1. SUFFICES ASSUME Init PROVE Inv
  OBVIOUS
<1>2. TypeOK
  BY <1>1, IdleOK, StoreBoundAssumption DEF Init, TypeOK
<1>3. CasesHaveDocs /\ RecoveredFromItsExcerpt /\ NothingDangles
  BY <1>1 DEF Init, CasesHaveDocs, RecoveredFromItsExcerpt, NothingDangles
<1>4. JobsOK
  BY <1>1, IdleOK DEF Init, JobsOK
<1>. QED
  BY <1>2, <1>3, <1>4 DEF Inv

LEMMA SameStore ==
  ASSUME Inv, docs' = docs, cases' = cases, reports' = reports, TypeOK', JobsOK'
  PROVE  Inv'
<1>1. CasesHaveDocs'
  BY DEF Inv, CasesHaveDocs
<1>2. RecoveredFromItsExcerpt'
  BY DEF Inv, RecoveredFromItsExcerpt, Compared
<1>3. NothingDangles'
  BY DEF Inv, NothingDangles, IdsIn
<1>. QED
  BY <1>1, <1>2, <1>3 DEF Inv

LEMMA IngestReadsOK ==
  ASSUME Inv, NEW s \in Scouts, NEW c \in Captures, NEW replace \in BOOLEAN,
         NEW j \in Judgments[c], IngestReads(s, c, j, replace)
  PROVE  Inv'
<1> DEFINE x == [stage |-> "ingest", doc |-> c, judged |-> j,
                 replace |-> replace, raced |-> FALSE]
<1>1. j \in Judgment
  BY StoreAssumption
<1>2. x \in Job
  BY <1>1 DEF Job
<1>3. JobOK(x)
  <2>1. IngestKnows(x)
    BY DEF IngestReads, IngestKnows, Home
  <2>. QED
    BY <2>1 DEF JobOK, RecoverKnows
<1>4. job' = [job EXCEPT ![s] = x] /\ docs' = docs /\ cases' = cases
  BY DEF IngestReads
<1>5. job' \in [Scouts -> Job] /\ JobsOK'
  <2>1. job \in [Scouts -> Job] /\ JobsOK
    BY DEF Inv, TypeOK
  <2>. HIDE DEF x
  <2>. QED
    BY <1>2, <1>3, <1>4, <2>1, OneStep
<1>6. TypeOK'
  BY <1>5, StoreBoundAssumption DEF Inv, TypeOK, IngestReads
<1>. QED
  BY <1>5, <1>6, SameStore DEF IngestReads

LEMMA RecoverReadsOK ==
  ASSUME Inv, NEW s \in Scouts, NEW k \in cases, NEW ref \in Refs, RecoverReads(s, k, ref)
  PROVE  Inv'
<1> DEFINE x == [stage |-> "recover", doc |-> k.doc, ref |-> ref,
                 from |-> k.id, against |-> k.code, raced |-> FALSE]
<1>1. k \in Case /\ k.db = "corpus" /\ k.kind = "inline"
  BY DEF Inv, TypeOK, RecoverReads
<1>2. k.code \in Codes
  BY <1>1 DEF Inv, CasesHaveDocs
<1>3. x \in Job
  BY <1>1, <1>2 DEF Case, Job
<1>4. JobOK(x)
  <2>1. Compared(x, k)
    BY <1>1 DEF Compared
  <2>2. RecoverKnows(x)
    BY <1>1, <2>1 DEF RecoverKnows, Inv, CasesHaveDocs
  <2>. QED
    BY <2>2 DEF JobOK, IngestKnows
<1>5. job' = [job EXCEPT ![s] = x] /\ docs' = docs /\ cases' = cases
  BY DEF RecoverReads
<1>6. job' \in [Scouts -> Job] /\ JobsOK'
  <2>1. job \in [Scouts -> Job] /\ JobsOK
    BY DEF Inv, TypeOK
  <2>. HIDE DEF x
  <2>. QED
    BY <1>3, <1>4, <1>5, <2>1, OneStep
<1>7. TypeOK'
  BY <1>6, StoreBoundAssumption DEF Inv, TypeOK, RecoverReads
<1>. QED
  BY <1>6, <1>7, SameStore DEF RecoverReads

LEMMA RecoverComparesOK ==
  ASSUME Inv, NEW s \in Scouts, RecoverCompares(s)
  PROVE  Inv'
<1> DEFINE x == [job[s] EXCEPT !.stage = "recovered"]
<1>1. job[s] \in Job /\ JobOK(job[s]) /\ job[s].stage = "recover"
  BY DEF Inv, TypeOK, JobsOK, RecoverCompares
<1>2. job[s] \in [stage : {"recover", "recovered"}, doc : Captures, ref : Refs,
                  from : CaseIds, against : Codes, raced : BOOLEAN]
  BY <1>1, JobCases DEF Idle
<1>3. x \in [stage : {"recover", "recovered"}, doc : Captures, ref : Refs,
             from : CaseIds, against : Codes, raced : BOOLEAN]
  BY <1>2
<1>4. x \in Job
  BY <1>3 DEF Job
<1>5. JobOK(x)
  <2>1. /\ x.stage = "recovered" /\ x.doc = job[s].doc /\ x.from = job[s].from
        /\ x.against = job[s].against /\ x.raced = job[s].raced
    BY <1>2
  <2>2. RecoverKnows(x)
    BY <1>1, <2>1 DEF JobOK, RecoverKnows, Compared
  <2>. QED
    BY <2>1, <2>2 DEF JobOK, IngestKnows
<1>6. job' = [job EXCEPT ![s] = x] /\ docs' = docs /\ cases' = cases
  BY DEF RecoverCompares
<1>7. job' \in [Scouts -> Job] /\ JobsOK'
  <2>1. job \in [Scouts -> Job] /\ JobsOK
    BY DEF Inv, TypeOK
  <2>. HIDE DEF x
  <2>. QED
    BY <1>4, <1>5, <1>6, <2>1, OneStep
<1>8. TypeOK'
  BY <1>7 DEF Inv, TypeOK, RecoverCompares
<1>. QED
  BY <1>7, <1>8, SameStore DEF RecoverCompares

(* Refusals, and what a command leaves when it is abandoned. *)
LEMMA EndsOK ==
  ASSUME Inv, NEW s \in Scouts, Ends(s),
         UNCHANGED <<docs, cases, reviews, reports, commands, reviewed>>
  PROVE  Inv'
<1>1. job' \in [Scouts -> Job] /\ JobsOK'
  BY IdleOK, OneStep DEF Inv, TypeOK, Ends
<1>2. TypeOK'
  BY <1>1 DEF Inv, TypeOK
<1>. QED
  BY <1>1, <1>2, SameStore

LEMMA SameJobs ==
  ASSUME Inv, docs' = docs, cases' = cases, job' = job
  PROVE  JobsOK'
<1>1. DocsGrow
  BY DEF DocsGrow
<1>2. SUFFICES ASSUME NEW q \in Scouts
               PROVE  JobOK(job[q])'
  BY DEF JobsOK
<1>3. PICK y \in Job : y = job[q] /\ JobOK(y)
  BY DEF Inv, TypeOK, JobsOK
<1>4. CasesOf("corpus", y.doc)' = CasesOf("corpus", y.doc)
  BY DEF CasesOf
<1>5. JobOK(y)'
  BY <1>1, <1>3, <1>4, JobStays
<1>. QED
  BY <1>3, <1>5

LEMMA ReviewOK ==
  ASSUME Inv, NEW c \in Captures, NEW r \in Review, review(c, r)
  PROVE  Inv'
<1>1. TypeOK'
  BY StoreBoundAssumption DEF Inv, TypeOK, review
<1>. QED
  BY <1>1, SameJobs, SameStore DEF review

LEMMA ReportOK ==
  ASSUME Inv, NEW k \in cases, Report(k)
  PROVE  Inv'
<1>1. k \in Case /\ k.db = "corpus" /\ reports' = reports \cup {k.id} /\ cases' = cases
  BY DEF Inv, TypeOK, Report
<1>2. k.id \in CaseIds /\ k.id \in IdsIn("corpus", cases)
  BY <1>1 DEF Case, IdsIn
<1>3. TypeOK'
  BY <1>1, <1>2 DEF Inv, TypeOK, Report
<1>4. JobsOK'
  BY SameJobs DEF Report
<1>5. NothingDangles'
  BY <1>1, <1>2 DEF Inv, NothingDangles
<1>6. CasesHaveDocs' /\ RecoveredFromItsExcerpt'
  BY DEF Inv, CasesHaveDocs, RecoveredFromItsExcerpt, Compared, Report
<1>. QED
  BY <1>3, <1>4, <1>5, <1>6 DEF Inv
-------------------------------------------------------------------------------
(* The two transactions.                                                     *)

(* The cases of other documents stay; those of this one are all inline. *)
CaseIn(db, c, k) ==
  /\ k.db = db /\ k.doc = c /\ k.kind = "inline" /\ k.code \in Codes

LEMMA StoredCases ==
  ASSUME Inv, NEW s \in Scouts, NEW db \in Dbs, NEW c \in Captures, NEW j \in Judgment,
         Stored(s, db, c, j)
  PROVE  /\ cases' \subseteq Case
         /\ \A k \in cases : (k.db = db /\ k.doc = c) \/ k \in cases'
         /\ \A k \in cases' : \/ k \in cases /\ ~(k.db = db /\ k.doc = c)
                             \/ CaseIn(db, c, k)
<1>1. cases \subseteq Case
  BY DEF Inv, TypeOK
<1>2. /\ \A k \in Kept(db, c) : k \in cases /\ ~(k.db = db /\ k.doc = c)
      /\ \A k \in cases : (k.db = db /\ k.doc = c) \/ k \in Kept(db, c)
  BY DEF Kept, CasesOf
<1>3. CASE j.code = NoCode
  BY <1>1, <1>2, <1>3 DEF Stored
<1>4. CASE j.code # NoCode
  <2>1. j.code \in Codes /\ j.code \in Texts
    <3>1. j.code \in Codes
      BY <1>4 DEF Judgment
    <3>. QED
      BY <3>1 DEF Texts
  <2>2. PICK id \in CaseIds :
          cases' = Kept(db, c) \cup
                     {[db |-> db, id |-> id, doc |-> c, kind |-> "inline", code |-> j.code,
                       ref |-> NoCode, matched |-> Matching(OnPage[c][j.code]),
                       from |-> 0, against |-> NoCode, raced |-> FALSE]}
    BY <1>4 DEF Stored
  <2> DEFINE n == [db |-> db, id |-> id, doc |-> c, kind |-> "inline", code |-> j.code,
                   ref |-> NoCode, matched |-> Matching(OnPage[c][j.code]),
                   from |-> 0, against |-> NoCode, raced |-> FALSE]
  <2>3. Matching(OnPage[c][j.code]) \in BOOLEAN
    BY DEF Matching
  <2>4. n \in Case /\ CaseIn(db, c, n)
    BY <2>1, <2>3 DEF Case, CaseIn
  <2>. QED
    BY <1>1, <1>2, <2>2, <2>4
<1>. QED
  BY <1>3, <1>4

LEMMA StoredDocs ==
  ASSUME Inv, NEW s \in Scouts, NEW db \in Dbs, NEW c \in Captures, NEW j \in Judgment,
         Stored(s, db, c, j), j.same # Original => docs[db][j.same] # NoDoc
  PROVE  /\ docs' \in [Dbs -> [Captures -> Document \cup {NoDoc}]]
         /\ docs'[db][c] # NoDoc
         /\ \A e \in Dbs, d \in Captures : e # db \/ d # c => docs'[e][d] = docs[e][d]
<1>1. docs \in [Dbs -> [Captures -> Document \cup {NoDoc}]]
  BY DEF Inv, TypeOK
<1>2. j.same # Original => j.same \in Captures
  BY DEF Judgment
<1>3. FamilyOf(db, c, j) \in Captures
  BY <1>1, <1>2 DEF FamilyOf, Document
<1>4. [family |-> FamilyOf(db, c, j), judged |-> j] \in Document
  BY <1>3 DEF Document
<1>. QED
  BY <1>1, <1>4, StoreAssumption DEF Stored

LEMMA IngestWritesOK ==
  ASSUME Inv, NEW s \in Scouts, IngestWrites(s)
  PROVE  Inv'
<1> DEFINE j == job[s].judged  db == Home(j)  c == job[s].doc
<1>1. job[s] \in Job /\ JobOK(job[s]) /\ job[s].stage = "ingest"
  BY DEF Inv, TypeOK, JobsOK, IngestWrites
<1>2. j \in Judgment /\ c \in Captures /\ db \in Dbs
  BY <1>1, JobCases, HomeType DEF Idle
<1>3. /\ Stored(s, db, c, j) /\ UNCHANGED <<reviews, reports, commands, reviewed>>
      /\ IF job[s].replace THEN ~HasReports(c) /\ ~Referred(c) ELSE docs[db][c] = NoDoc
  BY DEF IngestWrites
<1>4. /\ j.same # Original => docs[db][j.same] # NoDoc
      /\ job[s].replace => db = "corpus"
  BY <1>1 DEF JobOK, IngestKnows
<1> HIDE DEF j, db, c
<1>5. /\ docs' \in [Dbs -> [Captures -> Document \cup {NoDoc}]]
      /\ docs'[db][c] # NoDoc
      /\ \A e \in Dbs, d \in Captures : e # db \/ d # c => docs'[e][d] = docs[e][d]
  BY <1>2, <1>3, <1>4, StoredDocs
<1>6. /\ cases' \subseteq Case
      /\ \A k \in cases : (k.db = db /\ k.doc = c) \/ k \in cases'
      /\ \A k \in cases' : \/ k \in cases /\ ~(k.db = db /\ k.doc = c)
                          \/ CaseIn(db, c, k)
  BY <1>2, <1>3, StoredCases
<1>7. job' \in [Scouts -> Job] /\ JobsOK'
  <2>1. DocsGrow
    BY <1>5 DEF DocsGrow
  <2>2. \A d \in Captures \ {c} : CasesOf("corpus", d)' = CasesOf("corpus", d)
    <3>1. SUFFICES ASSUME NEW d \in Captures \ {c}
                   PROVE  CasesOf("corpus", d)' = CasesOf("corpus", d)
      OBVIOUS
    <3>2. \A k : k \in CasesOf("corpus", d)' <=> k \in CasesOf("corpus", d)
      BY <1>6 DEF CasesOf, CaseIn
    <3>. QED
      BY <3>2 DEF CasesOf
  <2>3. Commits(s, c)
    BY <1>3 DEF Stored
  <2>4. job \in [Scouts -> Job] /\ JobsOK
    BY DEF Inv, TypeOK
  <2>. QED
    BY <1>2, <2>1, <2>2, <2>3, <2>4, CommitStep
<1>8. TypeOK'
  BY <1>3, <1>5, <1>6, <1>7 DEF Inv, TypeOK
<1>9. CasesHaveDocs'
  <2>1. SUFFICES ASSUME NEW k \in cases'
                 PROVE  /\ docs'[k.db][k.doc] # NoDoc
                        /\ k.kind = "linked" => k.db = "corpus"
                        /\ k.kind = "inline" => k.code \in Codes
    BY DEF CasesHaveDocs
  <2>2. k.db \in Dbs /\ k.doc \in Captures
    BY <1>6 DEF Case
  <2>. QED
    BY <1>5, <1>6, <2>2 DEF CaseIn, Inv, CasesHaveDocs
<1>10. RecoveredFromItsExcerpt'
  <2>1. SUFFICES ASSUME NEW k \in cases', k.kind = "linked", ~k.raced
                 PROVE  \E i \in cases' : Compared(k, i)
    BY DEF RecoveredFromItsExcerpt, Compared
  <2>2. k \in cases /\ ~(k.db = db /\ k.doc = c) /\ k.db = "corpus"
    BY <1>6, <2>1 DEF CaseIn, Inv, CasesHaveDocs
  <2>3. PICK i \in cases : Compared(k, i)
    BY <2>1, <2>2 DEF Inv, RecoveredFromItsExcerpt
  <2>4. i \in cases'
    BY <1>6, <2>2, <2>3 DEF Compared
  <2>. QED
    BY <2>3, <2>4
<1>11. NothingDangles'
  <2>1. ASSUME NEW n \in IdsIn("corpus", cases), n \notin IdsIn("corpus", CasesOf(db, c))
        PROVE  n \in IdsIn("corpus", cases)'
    <3>1. PICK k \in cases : k.db = "corpus" /\ n = k.id
      BY DEF IdsIn
    <3>2. ~(k.db = db /\ k.doc = c)
      BY <2>1, <3>1 DEF IdsIn, CasesOf
    <3>3. k \in cases'
      BY <1>6, <3>2
    <3>. QED
      BY <3>1, <3>3 DEF IdsIn
  <2>2. \A k \in cases' : k.kind = "linked" => k \in cases /\ k \in Kept(db, c)
    BY <1>6 DEF CaseIn, Kept, CasesOf
  <2>3. CASE job[s].replace
    <3>1. db = "corpus" /\ ~HasReports(c) /\ ~Referred(c)
      BY <1>3, <1>4, <2>3
    <3>2. reports \cap IdsIn("corpus", CasesOf(db, c)) = {}
      BY <3>1 DEF HasReports
    <3>3. \A k \in Kept(db, c) : k.from \notin IdsIn("corpus", CasesOf(db, c))
      BY <3>1 DEF Referred
    <3>. QED
      BY <1>3, <2>1, <2>2, <3>2, <3>3 DEF Inv, NothingDangles
  <2>4. CASE ~job[s].replace
    <3>1. CasesOf(db, c) = {}
      BY <1>3, <2>4 DEF CasesOf, Inv, CasesHaveDocs
    <3>2. IdsIn("corpus", CasesOf(db, c)) = {}
      BY <3>1 DEF IdsIn
    <3>. QED
      BY <1>3, <2>1, <2>2, <3>2 DEF Inv, NothingDangles
  <2>. QED
    BY <2>3, <2>4
<1>. QED
  BY <1>7, <1>8, <1>9, <1>10, <1>11 DEF Inv

LEMMA RecoveredTexts == \A x \in Codes, ref \in Refs : Recovery[ref][x].text \in Texts
<1> DEFINE Of(x) == {Recovery[ref][x].text : ref \in Refs}
<1>1. SUFFICES ASSUME NEW x \in Codes, NEW ref \in Refs
               PROVE  Recovery[ref][x].text \in Texts
  OBVIOUS
<1>2. Recovery[ref][x].text \in Of(x)
  OBVIOUS
<1>3. Texts = Codes \cup UNION {Of(y) : y \in Codes}
  BY DEF Texts
<1>. HIDE DEF Of
<1>. QED
  BY <1>2, <1>3

LEMMA RecoverWritesOK ==
  ASSUME Inv, NEW s \in Scouts, RecoverWrites(s)
  PROVE  Inv'
<1>1. job[s] \in Job /\ JobOK(job[s]) /\ job[s].stage = "recovered"
  BY DEF Inv, TypeOK, JobsOK, RecoverWrites
<1>2. job[s] \in [stage : {"recover", "recovered"}, doc : Captures, ref : Refs,
                  from : CaseIds, against : Codes, raced : BOOLEAN]
  BY <1>1, JobCases DEF Idle
<1> DEFINE answer == Recovery[job[s].ref][job[s].against]
<1>3. PICK id \in CaseIds :
        cases' = cases \cup
          {[db |-> "corpus", id |-> id, doc |-> job[s].doc, kind |-> "linked",
            code |-> answer.text, ref |-> job[s].ref, matched |-> Matching(answer.verdict),
            from |-> job[s].from, against |-> job[s].against, raced |-> job[s].raced]}
  BY DEF RecoverWrites
<1> DEFINE n == [db |-> "corpus", id |-> id, doc |-> job[s].doc, kind |-> "linked",
                 code |-> answer.text, ref |-> job[s].ref,
                 matched |-> Matching(answer.verdict),
                 from |-> job[s].from, against |-> job[s].against, raced |-> job[s].raced]
<1>4. n \in Case
  <2>1. answer.text \in Texts
    <3>1. job[s].against \in Codes /\ job[s].ref \in Refs
      BY <1>2
    <3>. QED
      BY <3>1, RecoveredTexts
  <2>2. Matching(answer.verdict) \in BOOLEAN
    BY DEF Matching
  <2>. HIDE DEF answer
  <2>. QED
    BY <1>2, <2>1, <2>2 DEF Case, Dbs
<1>5. /\ n.db = "corpus" /\ n.kind = "linked" /\ n.doc = job[s].doc /\ n.ref = job[s].ref
      /\ n.from = job[s].from /\ n.against = job[s].against /\ n.raced = job[s].raced
  OBVIOUS
<1>6. cases' = cases \cup {n}
  BY <1>3
<1> HIDE DEF n
<1>7. Commits(s, job[s].doc) /\ UNCHANGED <<docs, reviews, reports, commands, reviewed>>
  BY DEF RecoverWrites
<1>8. job' \in [Scouts -> Job] /\ JobsOK'
  <2>1. DocsGrow
    BY <1>7 DEF DocsGrow
  <2>2. \A d \in Captures \ {job[s].doc} :
          CasesOf("corpus", d)' = CasesOf("corpus", d)
    BY <1>5, <1>6 DEF CasesOf
  <2>3. job \in [Scouts -> Job] /\ JobsOK
    BY DEF Inv, TypeOK
  <2>4. PICK c \in Captures : c = job[s].doc
    BY <1>2
  <2>. QED
    BY <1>7, <2>1, <2>2, <2>3, <2>4, CommitStep
<1>9. TypeOK'
  BY <1>4, <1>6, <1>7, <1>8 DEF Inv, TypeOK
<1>10. CasesHaveDocs'
  <2>1. docs["corpus"][n.doc] # NoDoc
    BY <1>1, <1>5 DEF JobOK, RecoverKnows
  <2>. QED
    BY <1>5, <1>6, <1>7, <2>1 DEF Inv, CasesHaveDocs
<1>11. RecoveredFromItsExcerpt'
  <2>1. ~n.raced => \E i \in cases : Compared(n, i)
    BY <1>1, <1>5 DEF JobOK, RecoverKnows, Compared
  <2>. QED
    BY <1>6, <2>1 DEF Inv, RecoveredFromItsExcerpt, Compared
<1>12. NothingDangles'
  <2>1. n.from \in IdsIn("corpus", cases)
    BY <1>5 DEF RecoverWrites, FromExists
  <2>2. IdsIn("corpus", cases) \subseteq IdsIn("corpus", cases)'
    BY <1>6 DEF IdsIn
  <2>. QED
    BY <1>6, <1>7, <2>1, <2>2 DEF Inv, NothingDangles
<1>. QED
  BY <1>8, <1>9, <1>10, <1>11, <1>12 DEF Inv

LEMMA NextOK == Inv /\ [Next]_vars => Inv'
<1>1. SUFFICES ASSUME Inv, [Next]_vars PROVE Inv'
  OBVIOUS
<1>2. CASE \E s \in Scouts, c \in Captures, replace \in BOOLEAN :
             \E j \in Judgments[c] : IngestReads(s, c, j, replace)
  BY <1>1, <1>2, IngestReadsOK
<1>3. CASE \E s \in Scouts : IngestWrites(s)
  BY <1>1, <1>3, IngestWritesOK
<1>4. CASE \E s \in Scouts : IngestRefused(s) \/ RecoverRefused(s) \/ Abandons(s)
  BY <1>1, <1>4, EndsOK DEF IngestRefused, RecoverRefused, Abandons
<1>5. CASE \E s \in Scouts, k \in cases, ref \in Refs : RecoverReads(s, k, ref)
  BY <1>1, <1>5, RecoverReadsOK
<1>6. CASE \E s \in Scouts : RecoverCompares(s)
  BY <1>1, <1>6, RecoverComparesOK
<1>7. CASE \E s \in Scouts : RecoverWrites(s)
  BY <1>1, <1>7, RecoverWritesOK
<1>8. CASE \E c \in Captures, r \in Review : review(c, r)
  BY <1>1, <1>8, ReviewOK
<1>9. CASE \E k \in cases : Report(k)
  BY <1>1, <1>9, ReportOK
<1>10. CASE UNCHANGED vars
  <2>1. JobsOK'
    BY <1>1, <1>10, SameJobs DEF vars
  <2>2. TypeOK'
    BY <1>1, <1>10 DEF Inv, TypeOK, vars
  <2>. QED
    BY <1>1, <1>10, <2>1, <2>2, SameStore DEF vars
<1>. QED
  BY <1>1, <1>2, <1>3, <1>4, <1>5, <1>6, <1>7, <1>8, <1>9, <1>10 DEF Next
-------------------------------------------------------------------------------
(* The inductive invariant holds in every state. *)
THEOREM StoreInvariantHolds == Spec => []Inv
<1>. QED
  BY InitOK, NextOK, PTL DEF Spec

(* Documents, code cases, reviews, reports and what the commands of the       *)
(* scouts carry have their types: the types of corpus.sqlite and corpus.py.   *)
THEOREM StoreTypeCorrect == Spec => []TypeOK
<1>1. Inv => TypeOK
  BY DEF Inv
<1>. QED
  BY <1>1, StoreInvariantHolds, PTL

(* cmd_recover and cmd_ingest --replace: a recovered case names its own       *)
(* document's excerpt it was compared with, unless the document was judged    *)
(* again while the file was fetched.                                          *)
THEOREM AlwaysRecoveredFromExcerpt == Spec => []RecoveredFromItsExcerpt
<1>1. Inv => RecoveredFromItsExcerpt
  BY DEF Inv
<1>. QED
  BY <1>1, StoreInvariantHolds, PTL

(* The foreign keys on code_cases, with the checks of cmd_ingest --replace:   *)
(* whatever overlaps, no outside report and no recovered case names a row     *)
(* that is gone.                                                              *)
THEOREM NothingEverDangles == Spec => []NothingDangles
<1>1. Inv => NothingDangles
  BY DEF Inv
<1>. QED
  BY <1>1, StoreInvariantHolds, PTL
-------------------------------------------------------------------------------
(* Induction, for sets in the place of predicates.                            *)
LEMMA LeastNumber ==
  ASSUME NEW S, S \subseteq Nat, S # {}
  PROVE  \E n \in S : \A m \in S : n <= m
<1>. DEFINE R == OpToRel(<, Nat)
<1>1. IsWellFoundedOn(R, Nat)
  BY NatLessThanWellFounded
<1>2. \A m, n \in Nat : m < n => <<m, n>> \in R
  BY DEF OpToRel
<1>. HIDE DEF R
<1>3. PICK n \in S : \A m \in S : <<m, n>> \notin R
  BY <1>1, WFMin, Zenon
<1>4. \A m \in S : ~(m < n)
  BY <1>2, <1>3
<1>5. \A m \in S : n <= m
  BY <1>4
<1>. QED
  BY <1>5

LEMMA MinIsLeast ==
  ASSUME NEW S, S \subseteq Nat, S # {}
  PROVE  Min(S) \in S /\ \A m \in S : Min(S) <= m
BY LeastNumber DEF Min

LEMMA Numbers ==
  ASSUME NEW S, 0 \in S, \A n \in Nat : n \in S => n + 1 \in S
  PROVE  Nat \subseteq S
<1>. SUFFICES ASSUME Nat \ S # {} PROVE FALSE
  OBVIOUS
<1>1. PICK n \in Nat \ S : \A m \in Nat \ S : n <= m
  BY LeastNumber
<1>2. n # 0 /\ n - 1 \in Nat
  BY <1>1
<1>3. n - 1 \in S
  BY <1>1, <1>2
<1>. QED
  BY <1>1, <1>2, <1>3

LEMMA MaxIsGreatest ==
  ASSUME NEW S, S \subseteq Nat, S # {}, NEW n \in Nat, \A m \in S : m <= n
  PROVE  Max(S) \in S /\ \A m \in S : m <= Max(S)
<1>. DEFINE D == {n - m : m \in S}
<1>1. D \subseteq Nat /\ D # {}
  <2>1. \A m \in S : n - m \in Nat
    OBVIOUS
  <2>. QED
    BY <2>1
<1>2. PICK d \in D : \A c \in D : d <= c
  BY <1>1, LeastNumber
<1>3. PICK m \in S : d = n - m
  BY <1>2
<1>4. \A k \in S : n - k \in D
  OBVIOUS
<1>5. \A k \in S : n - m <= n - k
  BY <1>2, <1>3, <1>4
<1>6. \A k \in S : k <= m
  BY <1>5
<1>. QED
  BY <1>6 DEF Max

(* Finite sets, from the sets with one element less. *)
LEMMA BySmallerSets ==
  ASSUME NEW S, IsFiniteSet(S), NEW G,
         \A T \in SUBSET S : (\A x \in T : T \ {x} \in G) => T \in G
  PROVE  S \in G
<1>. DEFINE R == StrictSubsetOrdering(S)
            B == FiniteSubsetsOf(S) \ G
<1>. SUFFICES ASSUME S \notin G PROVE FALSE
  OBVIOUS
<1>1. IsWellFoundedOn(R, FiniteSubsetsOf(S))
  BY FS_StrictSubsetOrderingWellFounded
<1>2. S \in B /\ B \subseteq FiniteSubsetsOf(S)
  BY DEF FiniteSubsetsOf
<1>3. \A T, U \in SUBSET S : U \subseteq T /\ U # T => <<U, T>> \in R
  BY DEF StrictSubsetOrdering
<1>4. \A T \in B : T \in SUBSET S /\ T \notin G
  BY DEF FiniteSubsetsOf
<1>5. \A T \in B : \A x \in T : T \ {x} \in B \/ T \ {x} \in G
  <2>. SUFFICES ASSUME NEW T \in B, NEW x \in T PROVE T \ {x} \in FiniteSubsetsOf(S)
    OBVIOUS
  <2>1. T \in SUBSET S /\ IsFiniteSet(T)
    BY DEF FiniteSubsetsOf
  <2>. QED
    BY <2>1, FS_RemoveElement DEF FiniteSubsetsOf
<1>. HIDE DEF R, B
<1>6. PICK T \in B : \A U \in B : <<U, T>> \notin R
  BY <1>1, <1>2, WFMin, Zenon
<1>7. ASSUME NEW x \in T PROVE T \ {x} \in G
  <2>1. <<T \ {x}, T>> \in R
    BY <1>3, <1>4
  <2>2. T \ {x} \notin B
    BY <1>6, <2>1
  <2>. QED
    BY <1>5, <2>2
<1>. QED
  BY <1>4, <1>6, <1>7
-------------------------------------------------------------------------------
(* What a union of sets of families connects. *)
Joins == (IdJoins \cup CodeJoins) \ {{}}
Apart == [f \in counted_families |-> f]

Unjoined(T, S) == \A fs \in T : fs \cap S # {} => fs \subseteq S
Connects(T, f, g) == \A S \in SUBSET counted_families : f \in S /\ Unjoined(T, S) => g \in S

Unites(parent, T) ==
  /\ parent \in [counted_families -> counted_families]
  /\ \A f, g \in counted_families : parent[f] = parent[g] <=> Connects(T, f, g)

LEMMA FamiliesTyped == counted_families \subseteq Captures /\ Captures \subseteq Nat
BY StoreAssumption DEF counted_families

LEMMA ApartUnites == Unites(Apart, {})
<1>1. \A f, g \in counted_families : Connects({}, f, g) <=> f = g
  BY DEF Connects, Unjoined
<1>. QED
  BY <1>1 DEF Unites, Apart

LEMMA JoinedUnites ==
  ASSUME NEW T \in SUBSET SUBSET counted_families,
         NEW fs \in SUBSET counted_families, fs # {}, NEW parent,
         Unites(parent, T)
  PROVE  Unites(joined(parent, fs), T \cup {fs})
<1>. DEFINE CF == counted_families
            P == joined(parent, fs)
            U == T \cup {fs}
            Touched(f) == \E g \in fs : parent[f] = parent[g]
            m == Min(fs)
<1>1. m \in fs
  BY FamiliesTyped, MinIsLeast
<1>2. /\ P \in [CF -> CF]
      /\ \A f \in CF : P[f] = IF Touched(f) THEN parent[m] ELSE parent[f]
  BY <1>1 DEF Unites, joined
<1>3. \A f \in fs : Touched(f)
  OBVIOUS
<1>. HIDE DEF m, P
<1>4. ASSUME NEW f \in CF, NEW g \in CF, P[f] = P[g] PROVE Connects(U, f, g)
  <2>. SUFFICES ASSUME NEW S \in SUBSET CF, f \in S, Unjoined(U, S) PROVE g \in S
    BY DEF Connects
  <2>1. Unjoined(T, S) /\ (fs \cap S # {} => fs \subseteq S)
    BY DEF Unjoined
  <2>2. \A a, b \in CF : parent[a] = parent[b] /\ a \in S => b \in S
    BY <2>1 DEF Unites, Connects
  <2>3. CASE Touched(f)
    <3>1. Touched(g)
      BY <1>1, <1>2, <1>4, <2>3
    <3>2. PICK a \in fs : parent[f] = parent[a]
      BY <2>3
    <3>3. PICK b \in fs : parent[g] = parent[b]
      BY <3>1
    <3>4. a \in S
      BY <2>2, <3>2
    <3>5. b \in S
      BY <2>1, <3>4
    <3>. QED
      BY <2>2, <3>3, <3>5
  <2>4. CASE ~Touched(f)
    <3>1. ~Touched(g)
      BY <1>1, <1>2, <1>4, <2>4
    <3>. QED
      BY <1>2, <1>4, <2>2, <2>4, <3>1
  <2>. QED
    BY <2>3, <2>4
<1>5. ASSUME NEW f \in CF, NEW g \in CF, Connects(U, f, g) PROVE P[f] = P[g]
  <2>. DEFINE S == {h \in CF : P[h] = P[f]}
  <2>1. \A a, b \in CF : parent[a] = parent[b] => P[a] = P[b]
    BY <1>2
  <2>2. \A a, b \in fs : P[a] = P[b]
    BY <1>2, <1>3
  <2>3. ASSUME NEW gs \in T, NEW a \in gs, a \in S PROVE gs \subseteq S
    <3>. SUFFICES ASSUME NEW b \in gs PROVE b \in S
      OBVIOUS
    <3>1. Connects(T, a, b)
      BY DEF Connects, Unjoined
    <3>2. a \in CF /\ b \in CF
      OBVIOUS
    <3>3. parent[a] = parent[b]
      BY <3>1, <3>2 DEF Unites
    <3>4. P[a] = P[b] /\ P[a] = P[f]
      BY <2>1, <2>3, <3>2, <3>3
    <3>. QED
      BY <3>2, <3>4
  <2>4. Unjoined(U, S)
    BY <2>2, <2>3 DEF Unjoined
  <2>5. f \in S /\ S \in SUBSET CF
    OBVIOUS
  <2>6. g \in S
    BY <1>5, <2>4, <2>5 DEF Connects
  <2>. QED
    BY <2>6
<1>6. Unites(P, U)
  BY <1>2, <1>4, <1>5 DEF Unites
<1>. QED
  BY <1>6 DEF P

-------------------------------------------------------------------------------
(* The fold of compute_groups unites all the joins. *)
Fold(S) ==
  CHOOSE iter : iter = [s \in SUBSET S |->
    IF s = {} THEN Apart
    ELSE joined(iter[s \ {CHOOSE x \in s : TRUE}], CHOOSE x \in s : TRUE)]

LEMMA GroupsOfTheFold ==
  compute_groups =
    [f \in counted_families |->
       Min(UNION {DocumentsOf(g) :
                    g \in {h \in counted_families : Fold(Joins)[Joins][h] = Fold(Joins)[Joins][f]}})]
BY Zenon DEF compute_groups, Fold, Joins, Apart, FoldSet, MapThenFoldSet

(* It is defined set by set, smaller ones first. *)
LEMMA FoldIs ==
  ASSUME NEW S, IsFiniteSet(S)
  PROVE  /\ Fold(S)[{}] = Apart
         /\ \A T \in SUBSET S : T # {} =>
              \E x \in T : Fold(S)[T] = joined(Fold(S)[T \ {x}], x)
<1>. DEFINE c(T) == CHOOSE x \in T : TRUE
            F(T, iter) == IF T = {} THEN Apart ELSE joined(iter[T \ {c(T)}], c(T))
            D(n) == {T \in SUBSET S : Cardinality(T) <= n}
            Agrees(n, iter) == iter = [T \in D(n) |-> F(T, iter)]
            N == {n \in Nat : \E iter : Agrees(n, iter)}
<1>1. \A T \in SUBSET S : Cardinality(T) \in Nat /\ IsFiniteSet(T) /\ Cardinality(T) <= Cardinality(S)
  BY FS_Subset, FS_CardinalityType
<1>2. Cardinality({}) = 0 /\ \A T \in SUBSET S : Cardinality(T) = 0 => T = {}
  BY <1>1, FS_EmptySet
<1>3. \A T : T # {} => c(T) \in T
  OBVIOUS
<1>4. ASSUME NEW n \in Nat, NEW T \in D(n + 1), T # {} PROVE T \ {c(T)} \in D(n)
  <2>1. c(T) \in T /\ T \in SUBSET S
    BY <1>3, <1>4
  <2>. HIDE DEF c
  <2>2. Cardinality(T \ {c(T)}) = Cardinality(T) - 1
    BY <1>1, <2>1, FS_RemoveElement
  <2>. QED
    BY <1>1, <2>1, <2>2
<1>5. 0 \in N
  <2>. DEFINE R == [T \in D(0) |-> Apart]
  <2>1. \A T \in D(0) : T = {}
    BY <1>1, <1>2
  <2>2. \A T \in D(0) : F(T, R) = Apart
    BY <2>1
  <2>3. R = [T \in D(0) |-> F(T, R)]
    BY <2>2
  <2>. QED
    BY <2>3
<1>6. ASSUME NEW n \in Nat, n \in N PROVE n + 1 \in N
  <2>1. PICK R : Agrees(n, R)
    BY <1>6
  <2>. DEFINE Q == [T \in D(n + 1) |-> F(T, R)]
  <2>2. ASSUME NEW T \in D(n) PROVE Q[T] = R[T]
    <3>1. T \in D(n + 1)
      BY <1>1
    <3>2. Q[T] = F(T, R)
      BY <3>1
    <3>3. R[T] = F(T, R)
      BY <2>1
    <3>. QED
      BY <3>2, <3>3
  <2>. HIDE DEF Q, D, c
  <2>3. ASSUME NEW T \in D(n + 1) PROVE F(T, R) = F(T, Q)
    BY <1>4, <2>2
  <2>4. Q = [T \in D(n + 1) |-> F(T, Q)]
    BY <2>3 DEF Q
  <2>. QED
    BY <2>4
<1>7. Nat \subseteq N
  <2>. HIDE DEF N
  <2>. QED
    BY <1>5, <1>6, Numbers
<1>8. Cardinality(S) \in Nat /\ D(Cardinality(S)) = SUBSET S
  BY <1>1
<1>9. \E iter : iter = [T \in SUBSET S |-> F(T, iter)]
  <2>1. PICK iter : Agrees(Cardinality(S), iter)
    BY <1>7, <1>8
  <2>. HIDE DEF F, D
  <2>2. iter = [T \in SUBSET S |-> F(T, iter)]
    BY <1>8, <2>1
  <2>. QED
    BY <2>2
<1>. DEFINE f == Fold(S)
<1>10. f = [T \in SUBSET S |-> F(T, f)]
  BY <1>9, Zenon DEF Fold
<1>. HIDE DEF f
<1>11. \A T \in SUBSET S : f[T] = F(T, f)
  BY <1>10
<1>12. f[{}] = Apart
  BY <1>11
<1>13. \A T \in SUBSET S : T # {} => c(T) \in T /\ f[T] = joined(f[T \ {c(T)}], c(T))
  BY <1>3, <1>11
<1>. HIDE DEF c
<1>14. \A T \in SUBSET S : T # {} => \E x \in T : f[T] = joined(f[T \ {x}], x)
  BY <1>13
<1>. QED
  BY <1>12, <1>14 DEF f

LEMMA JoinsTyped == IsFiniteSet(Joins) /\ \A fs \in Joins : fs # {} /\ fs \in SUBSET counted_families
<1>1. \A fs \in Joins : fs # {} /\ fs \in SUBSET counted_families
  BY DEF Joins, IdJoins, CodeJoins
<1>2. IsFiniteSet(SUBSET counted_families)
  BY FamiliesTyped, StoreAssumption, FS_Subset, FS_SUBSET
<1>. QED
  BY <1>1, <1>2, FS_Subset

LEMMA FoldUnites == Unites(Fold(Joins)[Joins], Joins)
<1>. DEFINE f == Fold(Joins)
            G == {T \in SUBSET Joins : Unites(f[T], T)}
<1>1. ASSUME NEW T \in SUBSET Joins, \A x \in T : T \ {x} \in G PROVE T \in G
  <2>1. CASE T = {}
    <3>1. f[{}] = Apart
      BY JoinsTyped, FoldIs
    <3>. QED
      BY <2>1, <3>1, ApartUnites
  <2>2. CASE T # {}
    <3>1. PICK fs \in T : f[T] = joined(f[T \ {fs}], fs)
      BY <2>2, JoinsTyped, FoldIs
    <3>2. Unites(f[T \ {fs}], T \ {fs})
      BY <1>1
    <3>3. fs \in SUBSET counted_families /\ fs # {} /\ T \ {fs} \in SUBSET SUBSET counted_families
      BY JoinsTyped
    <3>4. Unites(joined(f[T \ {fs}], fs), (T \ {fs}) \cup {fs})
      BY <3>2, <3>3, JoinedUnites
    <3>5. (T \ {fs}) \cup {fs} = T
      OBVIOUS
    <3>. QED
      BY <3>1, <3>4, <3>5
  <2>. QED
    BY <2>1, <2>2
<1>. HIDE DEF G
<1>2. Joins \in G
  BY <1>1, JoinsTyped, BySmallerSets
<1>. QED
  BY <1>2 DEF G
-------------------------------------------------------------------------------
(* The joins connect what shares identifiers or code. *)
Shares == {p \in counted_families \X counted_families : Share(p[1], p[2])}

LEMMA SharedAreJoined ==
  ASSUME TypeOK, NEW f \in counted_families, NEW g \in counted_families
  PROVE  Share(f, g) <=> \E fs \in Joins : f \in fs /\ g \in fs
<1>. DEFINE Having(i) == {h \in counted_families : i \in IdsOf(h)}
            With(x) == {h \in counted_families : x \in CodeOf(h)}
<1>1. IdsOf(f) \subseteq Ids
  BY DEF IdsOf, DocumentsOf, TypeOK, Document, Judgment, Dbs
<1>2. CodeOf(f) \subseteq {k.code : k \in cases}
  BY DEF CodeOf, CasesOf
<1>3. \A fs : fs \in IdJoins <=> \E i \in Ids : fs = Having(i)
  BY DEF IdJoins
<1>4. \A fs : fs \in CodeJoins <=>
        \E x \in {k.code : k \in cases} : fs = With(x) /\ Cardinality(With(x)) <= SHARED_CODE_LIMIT
  BY DEF CodeJoins
<1>5. ASSUME Share(f, g) PROVE \E fs \in Joins : f \in fs /\ g \in fs
  <2>1. CASE \E i \in IdsOf(f) : i \in IdsOf(g)
    <3>1. PICK i \in IdsOf(f) : i \in IdsOf(g)
      BY <2>1
    <3>2. Having(i) \in IdJoins /\ f \in Having(i) /\ g \in Having(i)
      BY <1>1, <1>3, <3>1
    <3>. QED
      BY <3>2 DEF Joins
  <2>2. CASE \E x \in CodeOf(f) : x \in CodeOf(g) /\ Cardinality(With(x)) <= SHARED_CODE_LIMIT
    <3>1. PICK x \in CodeOf(f) : x \in CodeOf(g) /\ Cardinality(With(x)) <= SHARED_CODE_LIMIT
      BY <2>2
    <3>2. With(x) \in CodeJoins /\ f \in With(x) /\ g \in With(x)
      BY <1>2, <1>4, <3>1
    <3>. QED
      BY <3>2 DEF Joins
  <2>. QED
    BY <1>5, <2>1, <2>2 DEF Share
<1>6. ASSUME NEW fs \in Joins, f \in fs, g \in fs PROVE Share(f, g)
  <2>1. CASE fs \in IdJoins
    BY <1>3, <1>6, <2>1 DEF Share
  <2>2. CASE fs \in CodeJoins
    <3>1. PICK x : fs = With(x) /\ Cardinality(With(x)) <= SHARED_CODE_LIMIT
      BY <1>4, <2>2
    <3>2. x \in CodeOf(f) \cap CodeOf(g)
      BY <1>6, <3>1
    <3>. QED
      BY <3>1, <3>2 DEF Share
  <2>. QED
    BY <2>1, <2>2 DEF Joins
<1>. QED
  BY <1>5, <1>6

LEMMA ClosedIsUnjoined ==
  ASSUME TypeOK, NEW S \in SUBSET counted_families
  PROVE  (\A p \in Shares : p[1] \in S => p[2] \in S) <=> Unjoined(Joins, S)
<1>1. \A p : p \in Shares <=> \E f, g \in counted_families : p = <<f, g>> /\ Share(f, g)
  BY DEF Shares
<1>2. ASSUME \A p \in Shares : p[1] \in S => p[2] \in S PROVE Unjoined(Joins, S)
  <2>. SUFFICES ASSUME NEW fs \in Joins, NEW f \in fs, f \in S, NEW g \in fs PROVE g \in S
    BY DEF Unjoined
  <2>1. f \in counted_families /\ g \in counted_families
    BY JoinsTyped
  <2>2. <<f, g>> \in Shares
    BY <1>1, <2>1, SharedAreJoined
  <2>. QED
    BY <1>2, <2>2
<1>3. ASSUME Unjoined(Joins, S), NEW p \in Shares, p[1] \in S PROVE p[2] \in S
  <2>1. PICK f, g \in counted_families : p = <<f, g>> /\ Share(f, g)
    BY <1>1
  <2>2. PICK fs \in Joins : f \in fs /\ g \in fs
    BY <2>1, SharedAreJoined
  <2>. QED
    BY <1>3, <2>1, <2>2 DEF Unjoined
<1>. QED
  BY <1>2, <1>3

(* A document is of one family, so that the least capture names the group. *)
LEMMA KeysNameClasses ==
  ASSUME NEW parent \in [counted_families -> counted_families],
         NEW f \in counted_families, NEW g \in counted_families
  PROVE  LET key(h) == Min(UNION {DocumentsOf(q) :
                                    q \in {r \in counted_families : parent[r] = parent[h]}})
         IN  key(f) = key(g) <=> parent[f] = parent[g]
<1>. DEFINE class(h) == {r \in counted_families : parent[r] = parent[h]}
            papers(h) == UNION {DocumentsOf(q) : q \in class(h)}
<1>1. ASSUME NEW h \in counted_families
      PROVE  \E q \in class(h) : Min(papers(h)) \in DocumentsOf(q)
  <2>1. h \in class(h) /\ DocumentsOf(h) # {}
    BY DEF counted_families
  <2>2. \A q : DocumentsOf(q) \subseteq Nat
    BY FamiliesTyped DEF DocumentsOf
  <2>3. papers(h) # {} /\ papers(h) \subseteq Nat
    BY <2>1, <2>2
  <2>4. Min(papers(h)) \in papers(h)
    BY <2>3, MinIsLeast
  <2>. QED
    BY <2>4
<1>2. ASSUME Min(papers(f)) = Min(papers(g)) PROVE parent[f] = parent[g]
  <2>1. PICK q \in class(f) : Min(papers(f)) \in DocumentsOf(q)
    BY <1>1
  <2>2. PICK r \in class(g) : Min(papers(f)) \in DocumentsOf(r)
    BY <1>1, <1>2
  <2>3. q = r
    BY <2>1, <2>2 DEF DocumentsOf
  <2>. QED
    BY <2>3
<1>3. ASSUME parent[f] = parent[g] PROVE papers(f) = papers(g)
  BY <1>3
<1>. QED
  BY <1>2, <1>3

LEMMA GroupsAre == TypeOK => GroupsAreComponents
<1>. SUFFICES ASSUME TypeOK, NEW f \in counted_families, NEW g \in counted_families
              PROVE  compute_groups[f] = compute_groups[g] <=>
                     \A S \in SUBSET counted_families :
                       f \in S /\ (\A p \in Shares : p[1] \in S => p[2] \in S) => g \in S
  BY DEF GroupsAreComponents, Shares
<1>. DEFINE parent == Fold(Joins)[Joins]
            key(h) == Min(UNION {DocumentsOf(q) :
                                   q \in {r \in counted_families : parent[r] = parent[h]}})
<1>1. compute_groups[f] = key(f) /\ compute_groups[g] = key(g)
  BY GroupsOfTheFold
<1>2. Unites(parent, Joins)
  BY FoldUnites
<1>. HIDE DEF parent
<1>3. key(f) = key(g) <=> parent[f] = parent[g]
  BY <1>2, KeysNameClasses DEF Unites
<1>4. parent[f] = parent[g] <=> Connects(Joins, f, g)
  BY <1>2 DEF Unites
<1>5. Connects(Joins, f, g) <=>
        \A S \in SUBSET counted_families :
          f \in S /\ (\A p \in Shares : p[1] \in S => p[2] \in S) => g \in S
  BY ClosedIsUnjoined DEF Connects
<1>. QED
  BY <1>1, <1>3, <1>4, <1>5

(* Splits do not leak: whatever the documents and however many they are, the  *)
(* groups of compute_groups are the components of the families that share     *)
(* identifiers or code that is not boilerplate, and each has its own key.     *)
THEOREM GroupsAlwaysComponents == Spec => []GroupsAreComponents
<1>1. Inv => GroupsAreComponents
  BY GroupsAre DEF Inv
<1>. QED
  BY <1>1, StoreInvariantHolds, PTL
-------------------------------------------------------------------------------
(* Texts and their parts.                                                     *)
LEMMA PartIsText ==
  ASSUME NEW text \in Seq(Line), NEW i \in Nat \ {0}, NEW j \in Int, j <= Len(text)
  PROVE  /\ SubSeq(text, i, j) \in Seq(Line)
         /\ i <= j => /\ Len(SubSeq(text, i, j)) = j - i + 1
                      /\ \A k \in 1..(j - i + 1) : SubSeq(text, i, j)[k] = text[i + k - 1]
OBVIOUS

LEMMA EmptyIsLine == Empty \in Line
BY TextAssumption DEF Empty, Line

LEMMA BlocksAreTexts == \A page \in Seq(Line) : blocks(page) \subseteq Seq(Line)
<1>. SUFFICES ASSUME NEW page \in Seq(Line), NEW x \in blocks(page) PROVE x \in Seq(Line)
  OBVIOUS
<1>. DEFINE fences == {i \in DOMAIN page : Does(page[i], "fence")}
            later(i) == {j \in fences : j > i}
            closed(i) == SubSeq(page, i + 1, Min(later(i)) - 1)
            unclosed(i) == SubSeq(page, i + 1, Len(page))
<1>1. PICK i \in fences :
        x = IF later(i) # {} THEN closed(i) \o <<Empty>> ELSE unclosed(i)
  BY DEF blocks
<1>2. i \in 1..Len(page) /\ later(i) \subseteq 1..Len(page)
  OBVIOUS
<1>3. CASE later(i) # {}
  <2>1. Min(later(i)) \in later(i)
    <3>1. later(i) \subseteq Nat
      BY <1>2
    <3>. HIDE DEF later
    <3>. QED
      BY <1>3, <3>1, MinIsLeast
  <2>2. Min(later(i)) \in 1..Len(page)
    BY <1>2, <2>1
  <2>. HIDE DEF later, fences
  <2>3. i + 1 \in Nat \ {0} /\ Min(later(i)) - 1 \in Int /\ Min(later(i)) - 1 <= Len(page)
    BY <1>2, <2>2
  <2>4. closed(i) \in Seq(Line)
    BY <2>3, PartIsText
  <2>. HIDE DEF closed
  <2>5. <<Empty>> \in Seq(Line)
    BY EmptyIsLine
  <2>. QED
    BY <1>1, <1>3, <2>4, <2>5
<1>4. CASE later(i) = {}
  <2>1. i + 1 \in Nat \ {0} /\ Len(page) \in Int /\ Len(page) <= Len(page)
    BY <1>2
  <2>2. unclosed(i) \in Seq(Line)
    BY <2>1, PartIsText
  <2>. QED
    BY <1>1, <1>4, <2>2
<1>. QED
  BY <1>3, <1>4
-------------------------------------------------------------------------------
(* The search of correspond, line by line.                                    *)
After(x, t, cursor, i) == {j \in DOMAIN keys(t) : j > cursor /\ keys(t)[j] = sought(x)[i]}
Seek(x, t, at, i) ==
  IF i \notin wanted(x) \/ After(x, t, at.cursor, i) = {} THEN at
  ELSE [cursor |-> Min(After(x, t, at.cursor, i)), hits |-> at.hits \cup {i}]
Begin == [cursor |-> 0, hits |-> {}]
Scan(x, t) ==
  CHOOSE at : at = [n \in 0..Len(x) |-> IF n = 0 THEN Begin ELSE Seek(x, t, at[n - 1], n)]

LEMMA FoundByTheScan == \A x, t : found(x, t) = Scan(x, t)[Len(x)].hits
BY Zenon DEF found, Scan, Seek, After, Begin

LEMMA ScanIs ==
  ASSUME NEW x \in Seq(Line), NEW t
  PROVE  /\ Scan(x, t)[0] = Begin
         /\ \A n \in 1..Len(x) : Scan(x, t)[n] = Seek(x, t, Scan(x, t)[n - 1], n)
<1>. DEFINE F(n, at) == IF n = 0 THEN Begin ELSE Seek(x, t, at[n - 1], n)
            Agrees(n, at) == at = [m \in 0..n |-> F(m, at)]
            N == {n \in Nat : \E at : Agrees(n, at)}
<1>1. 0 \in N
  <2>. DEFINE at == [m \in 0..0 |-> Begin]
  <2>1. at = [m \in 0..0 |-> F(m, at)]
    OBVIOUS
  <2>. QED
    BY <2>1
<1>2. ASSUME NEW n \in Nat, n \in N PROVE n + 1 \in N
  <2>1. PICK at : Agrees(n, at)
    BY <1>2
  <2>. DEFINE next == [m \in 0..(n + 1) |-> F(m, at)]
  <2>2. \A m \in 0..n : next[m] = at[m]
    BY <2>1
  <2>3. \A m \in 0..(n + 1) : m # 0 => m - 1 \in 0..n
    OBVIOUS
  <2>4. \A m \in 0..(n + 1) : F(m, at) = F(m, next)
    BY <2>2, <2>3
  <2>. HIDE DEF F
  <2>5. next = [m \in 0..(n + 1) |-> F(m, next)]
    BY <2>4
  <2>6. n + 1 \in Nat /\ Agrees(n + 1, next)
    BY <2>5
  <2>. HIDE DEF next, Agrees
  <2>. QED
    BY <2>6
<1>3. Nat \subseteq N
  <2>. HIDE DEF N
  <2>. QED
    BY <1>1, <1>2, Numbers
<1>4. \E at : at = [n \in 0..Len(x) |-> F(n, at)]
  BY <1>3
<1>. DEFINE s == Scan(x, t)
<1>5. s = [n \in 0..Len(x) |-> F(n, s)]
  BY <1>4, Zenon DEF Scan
<1>. HIDE DEF s
<1>6. \A n \in 0..Len(x) : s[n] = F(n, s)
  BY <1>5
<1>. QED
  BY <1>6 DEF s

LEMMA SeekIs ==
  ASSUME NEW x \in Seq(Line), NEW t \in Seq(Line), NEW at, at.cursor \in Nat, NEW i \in Nat
  PROVE  \/ /\ Seek(x, t, at, i) = at
            /\ i \notin wanted(x) \/ After(x, t, at.cursor, i) = {}
         \/ \E c \in DOMAIN t :
              /\ i \in wanted(x) /\ c > at.cursor /\ keys(t)[c] = sought(x)[i]
              /\ \A j \in After(x, t, at.cursor, i) : c <= j
              /\ Seek(x, t, at, i).cursor = c
              /\ Seek(x, t, at, i).hits = at.hits \cup {i}
<1>. DEFINE A == After(x, t, at.cursor, i)
<1>1. CASE i \notin wanted(x) \/ A = {}
  BY <1>1 DEF Seek
<1>2. CASE i \in wanted(x) /\ A # {}
  <2>1. DOMAIN keys(t) = DOMAIN t /\ A \subseteq Nat
    BY DEF After, keys
  <2>2. Min(A) \in A /\ \A j \in A : Min(A) <= j
    BY <1>2, <2>1, MinIsLeast
  <2>3. Min(A) \in DOMAIN t /\ Min(A) > at.cursor /\ keys(t)[Min(A)] = sought(x)[i]
    BY <2>1, <2>2 DEF After
  <2>4. Seek(x, t, at, i) = [cursor |-> Min(A), hits |-> at.hits \cup {i}]
    BY <1>2 DEF Seek
  <2>. HIDE DEF A
  <2>5. \A j \in After(x, t, at.cursor, i) : Min(A) <= j
    BY <2>2 DEF A
  <2>. QED
    BY <1>2, <2>3, <2>4, <2>5
<1>. QED
  BY <1>1, <1>2

(* Lines of x at places of t, in their order. *)
Places(x, t, lines, at) ==
  /\ \A i \in lines : keys(t)[at[i]] = sought(x)[i]
  /\ \A i, j \in lines : i < j => at[i] < at[j]

LEMMA ScanIsInOrder ==
  ASSUME NEW x \in Seq(Line), NEW t \in Seq(Line)
  PROVE  \A n \in 0..Len(x) :
           /\ Scan(x, t)[n].cursor \in Nat
           /\ Scan(x, t)[n].hits \subseteq wanted(x) \cap (1..n)
           /\ \E at \in [Scan(x, t)[n].hits -> DOMAIN t] :
                /\ Places(x, t, Scan(x, t)[n].hits, at)
                /\ \A i \in Scan(x, t)[n].hits : at[i] <= Scan(x, t)[n].cursor
<1>. DEFINE s == Scan(x, t)
            Good(n) ==
              /\ s[n].cursor \in Nat /\ s[n].hits \subseteq wanted(x) \cap (1..n)
              /\ \E at \in [s[n].hits -> DOMAIN t] :
                   Places(x, t, s[n].hits, at) /\ \A i \in s[n].hits : at[i] <= s[n].cursor
            G == {n \in Nat : n \in 0..Len(x) => Good(n)}
<1>1. s[0] = Begin /\ \A n \in 1..Len(x) : s[n] = Seek(x, t, s[n - 1], n)
  BY ScanIs
<1>. HIDE DEF s
<1>2. 0 \in G
  <2>1. s[0].hits = {} /\ s[0].cursor = 0
    BY <1>1 DEF Begin
  <2>. DEFINE at == [i \in {} |-> 0]
  <2>2. at \in [{} -> DOMAIN t] /\ Places(x, t, {}, at)
    BY DEF Places
  <2>3. \E e \in [s[0].hits -> DOMAIN t] :
          Places(x, t, s[0].hits, e) /\ \A i \in s[0].hits : e[i] <= s[0].cursor
    BY <2>1, <2>2
  <2>4. s[0].cursor \in Nat /\ s[0].hits \subseteq wanted(x) \cap (1..0)
    BY <2>1
  <2>. HIDE DEF at
  <2>5. Good(0)
    BY <2>3, <2>4
  <2>. QED
    BY <2>5
<1>3. ASSUME NEW n \in Nat, n \in G PROVE n + 1 \in G
  <2>. SUFFICES ASSUME n + 1 \in 0..Len(x) PROVE Good(n + 1)
    OBVIOUS
  <2>1. Good(n)
    BY <1>3
  <2>2. s[n + 1] = Seek(x, t, s[n], n + 1)
    BY <1>1
  <2>3. s[n].cursor \in Nat /\ s[n].hits \subseteq wanted(x) \cap (1..n)
    BY <2>1
  <2>4. PICK at \in [s[n].hits -> DOMAIN t] :
               Places(x, t, s[n].hits, at) /\ \A i \in s[n].hits : at[i] <= s[n].cursor
    BY <2>1
  <2>5. CASE s[n + 1] = s[n]
    <3>1. s[n].hits \subseteq wanted(x) \cap (1..(n + 1))
      BY <2>3
    <3>. QED
      BY <2>1, <2>5, <3>1
  <2>6. CASE s[n + 1] # s[n]
    <3>1. PICK c \in DOMAIN t :
            /\ n + 1 \in wanted(x) /\ c > s[n].cursor /\ keys(t)[c] = sought(x)[n + 1]
            /\ s[n + 1].cursor = c /\ s[n + 1].hits = s[n].hits \cup {n + 1}
      BY <2>2, <2>3, <2>6, SeekIs
    <3>. DEFINE H == s[n + 1].hits
                to == [i \in H |-> IF i = n + 1 THEN c ELSE at[i]]
    <3>2. H \subseteq wanted(x) \cap (1..(n + 1)) /\ n + 1 \notin s[n].hits
      BY <2>3, <3>1
    <3>3. to \in [H -> DOMAIN t]
      BY <2>4, <3>1
    <3>4. \A i \in s[n].hits : i \in H /\ i < n + 1 /\ to[i] = at[i] /\ to[i] < c
      BY <2>3, <2>4, <3>1
    <3>5. n + 1 \in H /\ to[n + 1] = c
      BY <3>1
    <3>. HIDE DEF to
    <3>6. \A i \in H : keys(t)[to[i]] = sought(x)[i]
      BY <2>4, <3>1, <3>4, <3>5 DEF Places
    <3>7. \A i, j \in H : i < j => to[i] < to[j]
      BY <2>3, <2>4, <3>1, <3>4, <3>5 DEF Places
    <3>8. \A i \in H : to[i] <= s[n + 1].cursor
      BY <3>1, <3>4, <3>5
    <3>9. s[n + 1].cursor \in Nat
      BY <3>1
    <3>. QED
      BY <3>2, <3>3, <3>6, <3>7, <3>8, <3>9 DEF Places
  <2>. QED
    BY <2>5, <2>6
<1>4. Nat \subseteq G
  <2>. HIDE DEF G
  <2>. QED
    BY <1>2, <1>3, Numbers
<1>5. \A n \in 0..Len(x) : Good(n)
  BY <1>4
<1>. QED
  BY <1>5 DEF s

(* The search takes each line as early as it can be. *)
LEMMA ScanIsGreedy ==
  ASSUME NEW x \in Seq(Line), NEW t \in Seq(Line), NEW at \in [wanted(x) -> DOMAIN t],
         Places(x, t, wanted(x), at)
  PROVE  \A n \in 0..Len(x) : Scan(x, t)[n].hits = wanted(x) \cap (1..n)
<1>. DEFINE s == Scan(x, t)
            Good(n) ==
              /\ s[n].cursor \in Nat /\ s[n].hits = wanted(x) \cap (1..n)
              /\ s[n].cursor = 0 \/ \E i \in wanted(x) \cap (1..n) : s[n].cursor <= at[i]
            G == {n \in Nat : n \in 0..Len(x) => Good(n)}
<1>1. s[0] = Begin /\ \A n \in 1..Len(x) : s[n] = Seek(x, t, s[n - 1], n)
  BY ScanIs
<1>. HIDE DEF s
<1>2. 0 \in G
  BY <1>1 DEF Begin
<1>3. ASSUME NEW n \in Nat, n \in G PROVE n + 1 \in G
  <2>. SUFFICES ASSUME n + 1 \in 0..Len(x) PROVE Good(n + 1)
    OBVIOUS
  <2>1. Good(n)
    BY <1>3
  <2>2. s[n + 1] = Seek(x, t, s[n], n + 1) /\ n + 1 \in Nat
    BY <1>1
  <2>3. CASE n + 1 \notin wanted(x)
    <3>1. wanted(x) \cap (1..(n + 1)) = wanted(x) \cap (1..n)
      BY <2>3
    <3>2. s[n + 1] = s[n]
      BY <2>2, <2>3 DEF Seek
    <3>. QED
      BY <2>1, <3>1, <3>2
  <2>4. CASE n + 1 \in wanted(x)
    <3>1. \A i \in wanted(x) \cap (1..n) : i < n + 1 /\ at[i] < at[n + 1]
      BY <2>4 DEF Places
    <3>2. at[n + 1] \in DOMAIN t /\ keys(t)[at[n + 1]] = sought(x)[n + 1]
      BY <2>4 DEF Places
    <3>3. s[n].cursor < at[n + 1]
      BY <2>1, <3>1, <3>2
    <3>4. at[n + 1] \in After(x, t, s[n].cursor, n + 1)
      BY <3>2, <3>3 DEF After, keys
    <3>5. PICK c \in DOMAIN t :
            /\ \A j \in After(x, t, s[n].cursor, n + 1) : c <= j
            /\ s[n + 1].cursor = c /\ s[n + 1].hits = s[n].hits \cup {n + 1}
      BY <2>1, <2>2, <2>4, <3>4, SeekIs
    <3>6. wanted(x) \cap (1..(n + 1)) = (wanted(x) \cap (1..n)) \cup {n + 1}
      BY <2>4
    <3>7. n + 1 \in wanted(x) \cap (1..(n + 1)) /\ s[n + 1].cursor <= at[n + 1]
      BY <2>4, <3>4, <3>5
    <3>. QED
      BY <2>1, <3>5, <3>6, <3>7
  <2>. QED
    BY <2>3, <2>4
<1>4. Nat \subseteq G
  <2>. HIDE DEF G
  <2>. QED
    BY <1>2, <1>3, Numbers
<1>5. \A n \in 0..Len(x) : Good(n)
  BY <1>4
<1>. QED
  BY <1>5 DEF s

LEMMA FoundInOrder ==
  ASSUME NEW x \in Seq(Line), NEW t \in Seq(Line)
  PROVE  found(x, t) = wanted(x) <=> InOrder(x, t)
<1>1. InOrder(x, t) <=> \E at \in [wanted(x) -> DOMAIN t] : Places(x, t, wanted(x), at)
  BY DEF InOrder, Places
<1>2. Len(x) \in 0..Len(x) /\ wanted(x) \cap (1..Len(x)) = wanted(x)
  BY DEF wanted
<1>3. ASSUME found(x, t) = wanted(x) PROVE InOrder(x, t)
  BY <1>1, <1>2, <1>3, FoundByTheScan, ScanIsInOrder
<1>4. ASSUME InOrder(x, t) PROVE found(x, t) = wanted(x)
  BY <1>1, <1>2, <1>4, FoundByTheScan, ScanIsGreedy
<1>. QED
  BY <1>3, <1>4

LEMMA MatchingIs ==
  ASSUME NEW x \in Seq(Line), NEW t \in Seq(Line)
  PROVE  /\ correspond(x, t) \in {"exact", "normalized", "approximate", "not_found"}
         /\ Matching(correspond(x, t)) <=>
              Verbatim(x, t) \/ (wanted(x) # {} /\ InOrder(x, t))
BY FoundInOrder DEF correspond, Matching

(* Either way the excerpt has lines, and they are there but for the ends. *)
LEMMA MatchingHasLines ==
  ASSUME NEW x \in Seq(Line), NEW t \in Seq(Line), Matching(correspond(x, t))
  PROVE  Solid(x) # {} /\ InOrderButCut(x, t)
<1>1. wanted(x) \subseteq DOMAIN x
  BY DEF wanted
<1>2. CASE Verbatim(x, t)
  <2>1. PICK d \in 0..(Len(t) - Len(x)) :
          \A i \in DOMAIN x : PartOf(x[i], t[i + d], i = 1, i = Len(x))
    BY <1>2 DEF Verbatim
  <2>. DEFINE at == [i \in wanted(x) |-> i + d]
  <2>2. at \in [wanted(x) -> DOMAIN t]
    BY <1>1
  <2>3. \A i \in wanted(x) : PartOf(x[i], t[at[i]], i = 1, i = Len(x))
    BY <1>1, <2>1
  <2>4. \A i, j \in wanted(x) : i < j => at[i] < at[j]
    BY <1>1
  <2>. HIDE DEF at
  <2>5. InOrderButCut(x, t)
    BY <2>2, <2>3, <2>4 DEF InOrderButCut
  <2>. QED
    BY <1>2, <2>5 DEF Verbatim
<1>3. CASE wanted(x) # {} /\ InOrder(x, t)
  <2>1. InOrderButCut(x, t)
    BY <1>3 DEF InOrder, InOrderButCut
  <2>2. PICK i \in wanted(x) : TRUE
    BY <1>3
  <2>3. i \in DOMAIN x /\ x[i] \in Line /\ ~Does(sought(x)[i], "blank")
    BY <2>2 DEF wanted
  <2>4. x[i].word # <<>>
    <3>. SUFFICES ASSUME x[i].word = <<>> PROVE FALSE
      OBVIOUS
    <3>1. sought(x)[i] = [x[i] EXCEPT !.indent = Trimmed(Level(x, i))]
      BY <2>3 DEF sought, Marked, keys
    <3>2. sought(x)[i].word = <<>>
      BY <2>3, <3>1 DEF Line
    <3>. QED
      BY <2>3, <3>2, TextAssumption DEF Does
  <2>5. x[i].word \in Words
    BY <2>3 DEF Line
  <2>6. i \in Solid(x)
    BY <2>3, <2>4, <2>5, TextAssumption DEF Solid, Does
  <2>. QED
    BY <2>1, <2>6
<1>. QED
  BY <1>2, <1>3, MatchingIs
-------------------------------------------------------------------------------
(* What symbol_extents takes for definitions.                                 *)
DefinedAt(source) == {i \in DOMAIN source : Does(source[i], "definition")}
LastLines(source, i) == IF Indented THEN indented_end(source, i) ELSE balanced_end(source, i)

LEMMA ExtentsAre ==
  \A source : symbol_extents(source) =
    UNION {{<<start_of(source, i), j>> : j \in LastLines(source, i)} : i \in DefinedAt(source)}
BY DEF symbol_extents, DefinedAt, LastLines

LEMMA StartIs ==
  ASSUME NEW source \in Seq(Line), NEW i \in DOMAIN source
  PROVE  /\ start_of(source, i) \in 1..i
         /\ ~Indented => \A k \in start_of(source, i)..(i - 1) : Does(source[k], "above")
<1>. DEFINE above(k) == \A j \in k..(i - 1) : Does(source[j], "above")
            S == {k \in 1..i : above(k)}
<1>1. CASE Indented
  <2>1. i \in S /\ S \subseteq Nat
    OBVIOUS
  <2>2. Min(S) \in S
    BY <2>1, MinIsLeast
  <2>. QED
    BY <1>1, <2>2 DEF start_of
<1>2. CASE ~Indented
  BY <1>2 DEF start_of
<1>. QED
  BY <1>1, <1>2

LEMMA EndIs ==
  ASSUME NEW source \in Seq(Line), NEW i \in DefinedAt(source), NEW j \in LastLines(source, i)
  PROVE  j \in i..Len(source)
<1>. DEFINE later == {k \in (i + 1)..Len(source) :
                        ~Does(source[k], "blank") /\ source[k].indent <= source[i].indent}
            stops == later \cup {Len(source) + 1}
            lines == {k \in i..(Min(stops) - 1) : ~Does(source[k], "blank")}
<1>1. i \in 1..Len(source) /\ ~Does(source[i], "blank")
  BY DEF DefinedAt, Does
<1>2. CASE ~Indented
  BY <1>2 DEF LastLines, balanced_end
<1>3. CASE Indented
  <2>1. stops \subseteq Nat /\ Len(source) + 1 \in stops /\ \A k \in stops : k \in (i + 1)..(Len(source) + 1)
    BY <1>1
  <2>2. Min(stops) \in (i + 1)..(Len(source) + 1)
    BY <2>1, MinIsLeast
  <2>3. j = Max(lines)
    BY <1>3 DEF LastLines, indented_end
  <2>. HIDE DEF stops
  <2>4. lines \subseteq Nat /\ i \in lines /\ \A k \in lines : k \in i..Len(source)
    BY <1>1, <2>2
  <2>5. Len(source) \in Nat /\ \A k \in lines : k <= Len(source)
    BY <2>4
  <2>. HIDE DEF lines
  <2>6. Max(lines) \in lines
    BY <2>4, <2>5, MaxIsGreatest
  <2>. QED
    BY <2>3, <2>4, <2>6
<1>. QED
  BY <1>2, <1>3

LEMMA ExtentIs ==
  ASSUME NEW source \in Seq(Line), NEW e \in symbol_extents(source)
  PROVE  /\ e[1] \in Nat \ {0} /\ e[2] \in Nat /\ e[1] <= e[2] /\ e[2] <= Len(source)
         /\ extent(source, e) \in Seq(Line)
<1>1. PICK i \in DefinedAt(source) : \E j \in LastLines(source, i) : e = <<start_of(source, i), j>>
  BY ExtentsAre
<1>0. PICK j \in LastLines(source, i) : e = <<start_of(source, i), j>>
  BY <1>1
<1>2. e[1] \in 1..i /\ e[2] \in i..Len(source) /\ i \in 1..Len(source)
  BY <1>0, StartIs, EndIs DEF DefinedAt
<1>3. e[1] \in Nat \ {0} /\ e[2] \in Nat /\ e[1] <= e[2] /\ e[2] <= Len(source) /\ e[2] \in Int
  BY <1>2
<1>4. SubSeq(source, e[1], e[2]) \in Seq(Line) /\ <<Empty>> \in Seq(Line)
  BY <1>3, PartIsText, EmptyIsLine
<1>5. extent(source, e) \in Seq(Line)
  BY <1>4 DEF extent
<1>. QED
  BY <1>3, <1>5

(* A count of lines does not change with the place they are at. *)
LEMMA ShiftedCount ==
  ASSUME NEW d \in Nat, NEW n \in Nat, NEW S \in SUBSET Int
  PROVE  Cardinality({k \in 1..n : k + d \in S}) = Cardinality({k \in (d + 1)..(d + n) : k \in S})
<1>. DEFINE A == {k \in 1..n : k + d \in S}
            B == {k \in (d + 1)..(d + n) : k \in S}
            f == [k \in A |-> k + d]
<1>1. f \in [A -> B] /\ \A k \in A : f[k] = k + d
  OBVIOUS
<1>2. \A k \in B : k - d \in A /\ f[k - d] = k
  OBVIOUS
<1>3. \A j, k \in A : f[j] = f[k] => j = k
  BY <1>1
<1>4. IsFiniteSet(A)
  <2>1. 1 \in Int /\ n \in Int /\ A \subseteq 1..n
    OBVIOUS
  <2>. HIDE DEF A
  <2>2. IsFiniteSet(1..n)
    BY <2>1, FS_Interval
  <2>. QED
    BY <2>1, <2>2, FS_Subset
<1>. HIDE DEF f, A, B
<1>5. f \in Bijection(A, B)
  <2>1. \A k \in B : \E j \in A : f[j] = k
    BY <1>2
  <2>. QED
    BY <1>1, <1>3, <2>1 DEF Bijection, Injection, Surjection, IsInjective
<1>6. ExistsBijection(A, B)
  BY <1>5 DEF ExistsBijection
<1>7. Cardinality(B) = Cardinality(A)
  BY <1>4, <1>6, FS_Bijection
<1>. QED
  BY <1>7 DEF A, B

LEMMA DefinitionsAreClosed ==
  ASSUME NEW source \in Seq(Line), NEW e \in symbol_extents(source), ~Indented
  PROVE  LET text == extent(source, e)
         IN  Opened(text, 1, Len(text)) = Closed(text, 1, Len(text))
<1>1. PICK i \in DefinedAt(source) : \E j \in LastLines(source, i) : e = <<start_of(source, i), j>>
  BY ExtentsAre
<1>0. PICK j \in LastLines(source, i) : e = <<start_of(source, i), j>>
  BY <1>1
<1>. DEFINE s == e[1]
            text == SubSeq(source, s, j)
            d == s - 1
            n == j - s + 1
            Opens == {k \in DOMAIN source : Does(source[k], "definition") \/ Does(source[k], "open")}
            Closes == {k \in DOMAIN source : Does(source[k], "close")}
<1>2. /\ s \in 1..i /\ j \in i..Len(source) /\ i \in 1..Len(source)
      /\ \A k \in s..(i - 1) : Does(source[k], "above")
  BY <1>0, StartIs, EndIs DEF DefinedAt
<1>3. e[2] = j /\ Opened(source, i, j) = Closed(source, i, j)
  BY <1>0 DEF LastLines, balanced_end
<1>. HIDE DEF s
<1>4. s \in Nat \ {0} /\ j \in Int /\ s <= j /\ j <= Len(source) /\ d \in Nat /\ n \in Nat
  BY <1>2
<1>5. Len(text) = n /\ \A k \in 1..n : text[k] = source[s + k - 1]
  BY <1>4, PartIsText
<1>. HIDE DEF text
<1>6. \A k \in 1..n : s + k - 1 = k + d /\ k + d \in DOMAIN source
  BY <1>2, <1>4
<1>7. \A k \in s..(i - 1) : k \notin Opens /\ k \notin Closes
  BY <1>2 DEF Does
<1>8. \A k : k \in (d + 1)..(d + n) <=> k \in s..j
  BY <1>4
<1>9. \A k \in s..j : k \in DOMAIN source /\ (k \in i..j \/ k \in s..(i - 1))
  BY <1>2
<1>10. \A k \in i..j : k \in s..j
  BY <1>2
<1>11. Opened(text, 1, Len(text)) = Opened(source, i, j)
  <2>1. {k \in 1..n : Does(text[k], "definition") \/ Does(text[k], "open")} = {k \in 1..n : k + d \in Opens}
    BY <1>5, <1>6
  <2>2. {k \in i..j : Does(source[k], "definition") \/ Does(source[k], "open")}
          = {k \in (d + 1)..(d + n) : k \in Opens}
    BY <1>7, <1>8, <1>9, <1>10
  <2>3. Opens \in SUBSET Int
    OBVIOUS
  <2>. HIDE DEF Opens, d, n
  <2>4. Cardinality({k \in 1..n : k + d \in Opens}) = Cardinality({k \in (d + 1)..(d + n) : k \in Opens})
    BY <1>4, <2>3, ShiftedCount
  <2>. QED
    BY <1>5, <2>1, <2>2, <2>4 DEF Opened
<1>12. Closed(text, 1, Len(text)) = Closed(source, i, j)
  <2>1. {k \in 1..n : Does(text[k], "close")} = {k \in 1..n : k + d \in Closes}
    BY <1>5, <1>6
  <2>2. {k \in i..j : Does(source[k], "close")} = {k \in (d + 1)..(d + n) : k \in Closes}
    BY <1>7, <1>8, <1>9, <1>10
  <2>3. Closes \in SUBSET Int
    OBVIOUS
  <2>. HIDE DEF Closes, d, n
  <2>4. Cardinality({k \in 1..n : k + d \in Closes}) = Cardinality({k \in (d + 1)..(d + n) : k \in Closes})
    BY <1>4, <2>3, ShiftedCount
  <2>. QED
    BY <1>5, <2>1, <2>2, <2>4 DEF Closed
<1>13. extent(source, e) = SubSeq(source, e[1], e[2])
  BY DEF extent
<1>. QED
  BY <1>3, <1>11, <1>12, <1>13 DEF text, s
-------------------------------------------------------------------------------
(* The text that cmd_recover takes.                                           *)
Parts(source) == {extent(source, e) : e \in symbol_extents(source)}

LEMMA RecoveredIs ==
  ASSUME NEW x \in Seq(Line), NEW source \in Seq(Line), Matching(recovered(x, source).verdict)
  PROVE  LET text == recovered(x, source).text IN
         /\ text \in Parts(source) /\ Matching(correspond(x, text))
         /\ \A d \in Parts(source) : Matching(correspond(x, d)) => d = text
<1>. DEFINE text(e) == extent(source, e)
            verdict(e) == correspond(x, text(e))
            candidates == symbol_extents(source)
            matching == {e \in candidates : Matching(verdict(e))}
            first(S) == CHOOSE e \in S : \A d \in S : e[1] <= d[1]
            ranks == {i \in DOMAIN Verdicts : \E e \in candidates : verdict(e) = Verdicts[i]}
            best == Min(ranks)
            likely == {e \in candidates : verdict(e) = Verdicts[best]}
<1>1. /\ ~\E d, e \in matching : text(d) # text(e)
      /\ candidates # {}
      /\ recovered(x, source) = [verdict |-> Verdicts[best], text |-> text(first(likely))]
  BY DEF recovered, Matching
<1>2. \A e \in candidates : e[1] \in Nat /\ text(e) \in Seq(Line)
  BY ExtentIs
<1>3. \A e \in candidates : \E i \in DOMAIN Verdicts : verdict(e) = Verdicts[i]
  <2>. SUFFICES ASSUME NEW e \in candidates PROVE \E i \in DOMAIN Verdicts : verdict(e) = Verdicts[i]
    OBVIOUS
  <2>1. correspond(x, text(e)) \in {"exact", "normalized", "approximate", "not_found"}
    BY <1>2, MatchingIs
  <2>. QED
    BY <2>1 DEF Verdicts
<1>4. ranks \subseteq Nat /\ ranks # {}
  <2>1. DOMAIN Verdicts \subseteq Nat
    BY DEF Verdicts
  <2>. HIDE DEF verdict, candidates
  <2>. QED
    BY <1>1, <1>3, <2>1
<1>5. best \in ranks
  BY <1>4, MinIsLeast
<1>. DEFINE starts == {e[1] : e \in likely}
<1>6. starts \subseteq Nat /\ starts # {}
  BY <1>2, <1>5
<1>7. \E e \in likely : \A d \in likely : e[1] <= d[1]
  <2>1. PICK n \in starts : \A m \in starts : n <= m
    BY <1>6, LeastNumber
  <2>2. PICK e \in likely : n = e[1]
    BY <2>1
  <2>. QED
    BY <2>1, <2>2
<1>8. first(likely) \in likely
  BY <1>7
<1>. HIDE DEF first, best, verdict, text, candidates
<1>9. first(likely) \in matching
  <2>1. Matching(Verdicts[best])
    BY <1>1
  <2>. QED
    BY <1>8, <2>1
<1>10. Parts(source) = {text(e) : e \in candidates}
  BY DEF Parts, text, candidates
<1>11. \A d \in candidates : Matching(verdict(d)) => text(d) = text(first(likely))
  BY <1>1, <1>9
<1>. QED
  BY <1>1, <1>9, <1>10, <1>11 DEF verdict
-------------------------------------------------------------------------------
(* What a case says of its comparison.                                        *)
Inlined(k) == k.code \in Codes /\ k.matched = Matching(OnPage[k.doc][k.code])
Linked(k) ==
  /\ k.against \in Codes /\ k.ref \in Refs
  /\ k.code = Recovery[k.ref][k.against].text
  /\ k.matched = Matching(Recovery[k.ref][k.against].verdict)
CasesAreCompared ==
  \A k \in cases : (k.kind = "inline" => Inlined(k)) /\ (k.kind = "linked" => Linked(k))

LEMMA ComparedStep == Inv /\ CasesAreCompared /\ [Next]_vars => CasesAreCompared'
<1>. SUFFICES ASSUME Inv, CasesAreCompared, [Next]_vars PROVE CasesAreCompared'
  OBVIOUS
<1>1. CASE cases' \subseteq cases
  BY <1>1 DEF CasesAreCompared
<1>2. CASE \E s \in Scouts : IngestWrites(s)
  <2>1. PICK s \in Scouts : IngestWrites(s)
    BY <1>2
  <2>. DEFINE j == job[s].judged
              c == job[s].doc
              db == Home(j)
  <2>2. job[s] \in Job /\ job[s].stage = "ingest"
    BY <2>1 DEF Inv, TypeOK, IngestWrites
  <2>3. j \in Judgment
    BY <2>2, JobCases DEF Idle
  <2>4. Stored(s, db, c, j)
    BY <2>1 DEF IngestWrites
  <2>. HIDE DEF j, c, db
  <2>5. Kept(db, c) \subseteq cases
    BY DEF Kept
  <2>6. CASE j.code = NoCode
    BY <2>4, <2>5, <2>6 DEF Stored, CasesAreCompared
  <2>7. CASE j.code # NoCode
    <3>1. j.code \in Codes
      BY <2>3, <2>7 DEF Judgment
    <3>2. PICK id \in CaseIds :
            cases' = Kept(db, c) \cup
                       {[db |-> db, id |-> id, doc |-> c, kind |-> "inline", code |-> j.code,
                         ref |-> NoCode, matched |-> Matching(OnPage[c][j.code]),
                         from |-> 0, against |-> NoCode, raced |-> FALSE]}
      BY <2>4, <2>7 DEF Stored
    <3>. DEFINE n == [db |-> db, id |-> id, doc |-> c, kind |-> "inline", code |-> j.code,
                      ref |-> NoCode, matched |-> Matching(OnPage[c][j.code]),
                      from |-> 0, against |-> NoCode, raced |-> FALSE]
    <3>3. n.kind = "inline" /\ Inlined(n)
      BY <3>1 DEF Inlined
    <3>4. cases' = Kept(db, c) \cup {n}
      BY <3>2
    <3>. HIDE DEF n
    <3>. QED
      BY <2>5, <3>3, <3>4 DEF CasesAreCompared
  <2>. QED
    BY <2>6, <2>7
<1>3. CASE \E s \in Scouts : RecoverWrites(s)
  <2>1. PICK s \in Scouts : RecoverWrites(s)
    BY <1>3
  <2>2. job[s] \in Job /\ job[s].stage = "recovered"
    BY <2>1 DEF Inv, TypeOK, RecoverWrites
  <2>3. job[s].against \in Codes /\ job[s].ref \in Refs
    BY <2>2, JobCases DEF Idle
  <2>. DEFINE answer == Recovery[job[s].ref][job[s].against]
  <2>4. PICK id \in CaseIds :
          cases' = cases \cup
            {[db |-> "corpus", id |-> id, doc |-> job[s].doc, kind |-> "linked",
              code |-> answer.text, ref |-> job[s].ref, matched |-> Matching(answer.verdict),
              from |-> job[s].from, against |-> job[s].against, raced |-> job[s].raced]}
    BY <2>1 DEF RecoverWrites
  <2>. DEFINE n == [db |-> "corpus", id |-> id, doc |-> job[s].doc, kind |-> "linked",
                    code |-> answer.text, ref |-> job[s].ref,
                    matched |-> Matching(answer.verdict),
                    from |-> job[s].from, against |-> job[s].against, raced |-> job[s].raced]
  <2>5. n.kind = "linked" /\ Linked(n)
    BY <2>3 DEF Linked
  <2>6. cases' = cases \cup {n}
    BY <2>4
  <2>. HIDE DEF n
  <2>. QED
    BY <2>5, <2>6 DEF CasesAreCompared
<1>. QED
  BY <1>1, <1>2, <1>3 DEF Next, vars, IngestReads, IngestRefused, RecoverReads, RecoverCompares,
                          RecoverRefused, Abandons, review, Report

LEMMA CodesAreTexts == Codes \subseteq Seq(Line)
BY StoreAssumption, BlocksAreTexts DEF Codes, Blocks

LEMMA OnPageIs == \A x \in Codes, c \in Captures : OnPage[c][x] = correspond(x, Shown[c])
BY DEF OnPage

LEMMA RecoveryIs == \A x \in Codes, ref \in Refs : Recovery[ref][x] = recovered(x, Source[ref])
BY DEF Recovery

LEMMA HasTextIs ==
  ASSUME NEW x \in Codes, NEW t \in Compares, t \in Seq(Line)
  PROVE  /\ <<x, t>> \in HasText <=> Matching(correspond(x, t))
         /\ Matching(correspond(x, t)) => <<x, t>> \in HasLines
<1>. DEFINE TextIn(y) == {q \in Compares : Verbatim(y, q) \/ (wanted(y) # {} /\ InOrder(y, q))}
            LinesIn(y) == {q \in Compares : Solid(y) # {} /\ InOrderButCut(y, q)}
<1>1. x \in Seq(Line)
  BY CodesAreTexts
<1>2. HasText = UNION {{y} \X TextIn(y) : y \in Codes}
  BY DEF HasText
<1>3. HasLines = UNION {{y} \X LinesIn(y) : y \in Codes}
  BY DEF HasLines
<1>4. t \in TextIn(x) <=> Matching(correspond(x, t))
  BY <1>1, MatchingIs
<1>5. Matching(correspond(x, t)) => t \in LinesIn(x)
  BY <1>1, MatchingHasLines
<1>. HIDE DEF TextIn, LinesIn
<1>6. <<x, t>> \in HasText <=> t \in TextIn(x)
  BY <1>2
<1>7. t \in LinesIn(x) => <<x, t>> \in HasLines
  BY <1>3
<1>. QED
  BY <1>4, <1>5, <1>6, <1>7

LEMMA ComparedHaveLines == TypeOK /\ CasesAreCompared => MatchedHasTheLines
<1>. SUFFICES ASSUME TypeOK, CasesAreCompared, NEW k \in cases, k.matched
              PROVE  /\ k.kind = "inline" => <<k.code, Shown[k.doc]>> \in HasLines
                     /\ k.kind = "linked" =>
                          /\ <<k.against, k.code>> \in HasLines
                          /\ Indented \/ Opened(k.code, 1, Len(k.code)) = Closed(k.code, 1, Len(k.code))
                          /\ \A d \in Definitions(k.ref) : <<k.against, d>> \in HasText => d = k.code
  BY DEF MatchedHasTheLines
<1>1. k.doc \in Captures
  BY DEF TypeOK, Case
<1>2. ASSUME k.kind = "inline" PROVE <<k.code, Shown[k.doc]>> \in HasLines
  <2>1. k.code \in Codes /\ Matching(OnPage[k.doc][k.code])
    BY <1>2 DEF CasesAreCompared, Inlined
  <2>2. Matching(correspond(k.code, Shown[k.doc]))
    BY <1>1, <2>1, OnPageIs
  <2>3. Shown[k.doc] \in Compares /\ Shown[k.doc] \in Seq(Line)
    BY <1>1, StoreAssumption DEF Compares
  <2>. QED
    BY <2>1, <2>2, <2>3, HasTextIs
<1>3. ASSUME k.kind = "linked"
      PROVE  /\ <<k.against, k.code>> \in HasLines
             /\ Indented \/ Opened(k.code, 1, Len(k.code)) = Closed(k.code, 1, Len(k.code))
             /\ \A d \in Definitions(k.ref) : <<k.against, d>> \in HasText => d = k.code
  <2>. DEFINE x == k.against
              source == Source[k.ref]
  <2>1. Linked(k)
    BY <1>3 DEF CasesAreCompared
  <2>2. x \in Codes /\ x \in Seq(Line) /\ source \in Seq(Line) /\ k.ref \in Refs
    BY <2>1, CodesAreTexts, StoreAssumption DEF Linked
  <2>3. k.code = recovered(x, source).text /\ Matching(recovered(x, source).verdict)
    BY <2>1, RecoveryIs DEF Linked
  <2>4. Definitions(k.ref) = Parts(source)
    BY DEF Definitions, Parts
  <2>5. Parts(source) \subseteq Compares
    BY <2>2, <2>4 DEF Compares
  <2>. HIDE DEF x, source
  <2>6. Parts(source) \subseteq Seq(Line)
    BY <2>2, ExtentIs DEF Parts
  <2>7. /\ k.code \in Parts(source) /\ Matching(correspond(x, k.code))
        /\ \A d \in Parts(source) : Matching(correspond(x, d)) => d = k.code
    BY <2>2, <2>3, RecoveredIs
  <2>8. <<x, k.code>> \in HasLines
    BY <2>2, <2>5, <2>6, <2>7, HasTextIs
  <2>9. \A d \in Definitions(k.ref) : <<x, d>> \in HasText => d = k.code
    BY <2>2, <2>4, <2>5, <2>6, <2>7, HasTextIs
  <2>10. Indented \/ Opened(k.code, 1, Len(k.code)) = Closed(k.code, 1, Len(k.code))
    <3>. SUFFICES ASSUME ~Indented
                  PROVE  Opened(k.code, 1, Len(k.code)) = Closed(k.code, 1, Len(k.code))
      OBVIOUS
    <3>1. PICK e \in symbol_extents(source) : k.code = extent(source, e)
      BY <2>7 DEF Parts
    <3>. QED
      BY <2>2, <3>1, DefinitionsAreClosed
  <2>. QED
    BY <2>8, <2>9, <2>10 DEF x
<1>. QED
  BY <1>2, <1>3

(* corpus.py correspond and cmd_recover, for any pages and files: what counts *)
(* as found has the lines of its excerpt in order, cut short at the ends at   *)
(* most, and what was recovered is a whole definition, the only one of its    *)
(* symbol in which the excerpt is found.                                      *)
THEOREM MatchedAlwaysHasTheLines == Spec => []MatchedHasTheLines
<1>1. Init => CasesAreCompared
  BY DEF Init, CasesAreCompared
<1>2. Spec => []CasesAreCompared
  BY <1>1, ComparedStep, StoreInvariantHolds, PTL DEF Spec
<1>. QED
  BY <1>2, ComparedHaveLines, StoreTypeCorrect, PTL
===============================================================================
