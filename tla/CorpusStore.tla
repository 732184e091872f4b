------------------------------ MODULE CorpusStore ------------------------------
(***************************************************************************)
(* What the vulnerability corpus holds: corpus.py ingest, recover, review, *)
(* groups and export over corpus.sqlite and other.sqlite.  A capture has   *)
(* at most one document in each database; a document is judged, re-judged  *)
(* with --replace, which rebuilds its code cases, and reviewed by people.  *)
(* A case can be recovered from its repository, and tested by outsiders.   *)
(* Every command reads first, works on what it read, and then writes one   *)
(* transaction; the row ids of deleted cases are given out again.          *)
(***************************************************************************)
EXTENDS CorpusText, FiniteSets

CONSTANTS
  Captures,      \* captured pages: the numbers their sha256 sort by
  Judgments,     \* what scouts judge of each of them
  Markdown,      \* what Defuddle makes of a page
  Shown,         \* html_text: the lines a page shows
  Refs,          \* a symbol, a path, a commit
  Source,        \* the file at that path
  Ids,           \* CVE, GHSA and OSV identifiers
  Original,      \* family relation without another document
  NoCode,        \* a judgment without a code case
  NoDoc, NoReview,
  Scouts,        \* processes that run corpus.py
  SHARED_CODE_LIMIT,
  MaxCommands,   \* bound: ingest and recover commands
  MaxCases,      \* bound: rows of code_cases
  MaxReviews, MaxReports

Dbs == {"corpus", "other"}
Blocks == [c \in Captures |-> blocks(Markdown[c])]
Codes == UNION {Blocks[c] : c \in Captures}
OnPage == [c \in Captures |-> [x \in Codes |-> correspond(x, Shown[c])]]
Recovery == [ref \in Refs |-> [x \in Codes |-> recovered(x, Source[ref])]]
Texts == Codes \cup UNION {{Recovery[ref][x].text : ref \in Refs} : x \in Codes}

(* same: the document whose family it belongs to; complete: it passed every   *)
(* check.                                                                     *)
Judgment == [route : {"target", "other"}, admitted : BOOLEAN, complete : BOOLEAN,
             same : Captures \cup {Original}, code : Codes \cup {NoCode},
             ids : SUBSET Ids]
Review == [route : {"target", "other"}, admitted : BOOLEAN]

(* A family is named by the capture it was made for. *)
Document == [family : Captures, judged : Judgment]

ASSUME StoreAssumption ==
  /\ Captures \subseteq Nat /\ IsFiniteSet(Captures)
  /\ Markdown \in [Captures -> Seq(Line)] /\ Shown \in [Captures -> Seq(Line)]
  /\ Source \in [Refs -> Seq(Line)]
  /\ Judgments \in [Captures -> SUBSET Judgment]
  /\ Original \notin Captures /\ NoCode \notin Texts /\ NoCode \notin Refs
  /\ NoDoc \notin Document /\ NoReview \notin Review
ASSUME StoreBoundAssumption ==
  /\ SHARED_CODE_LIMIT \in Nat /\ MaxCommands \in Nat /\ MaxCases \in Nat
  /\ MaxReviews \in Nat /\ MaxReports \in Nat

CaseIds == 1..MaxCases
(* A linked case was recovered, from the symbol ref: from is compared_with,   *)
(* against the excerpt the comparison read.  raced is history: another        *)
(* command committed for the same capture between its first read and its      *)
(* write.                                                                     *)
Case == [db : Dbs, id : CaseIds, doc : Captures, kind : {"inline", "linked"},
         code : Texts, ref : Refs \cup {NoCode}, matched : BOOLEAN,
         from : CaseIds \cup {0}, against : Codes \cup {NoCode}, raced : BOOLEAN]

Stages == {"idle", "ingest", "recover", "recovered"}

VARIABLES
  docs,      \* per database: documents, and identifiers with them
  cases,     \* code_cases
  reviews,   \* the latest review of each document in corpus.sqlite
  reports,   \* live_test_reports: the cases they name
  job,       \* per process: what the command has read
  commands, reviewed

vars == <<docs, cases, reviews, reports, job, commands, reviewed>>
-------------------------------------------------------------------------------
Idle == [stage |-> "idle"]
Busy(s) == job[s].stage # "idle"

Home(j) == IF j.route = "other" THEN "other" ELSE "corpus"
CasesOf(db, c) == {k \in cases : k.db = db /\ k.doc = c}
IdsIn(db, kept) == {k.id : k \in {q \in kept : q.db = db}}

(* INTEGER PRIMARY KEY: one more than the largest id there is. *)
IsNextId(id, db, kept) ==
  /\ \A n \in IdsIn(db, kept) : n < id
  /\ id = 1 \/ id - 1 \in IdsIn(db, kept)

(* The command of s ends with a commit for capture c. *)
Commits(s, c) ==
  job' = [q \in Scouts |->
            IF q = s THEN Idle
            ELSE IF Busy(q) /\ job[q].doc = c THEN [job[q] EXCEPT !.raced = TRUE]
            ELSE job[q]]
Ends(s) == job' = [job EXCEPT ![s] = Idle]
-------------------------------------------------------------------------------
(* cmd_ingest.                                                                *)

(* What it checks before the write lock; a refusal leaves no trace. *)
IngestReads(s, c, j, replace) ==
  LET db == Home(j) IN
  /\ ~Busy(s) /\ commands < MaxCommands /\ commands' = commands + 1
  /\ replace <=> docs[db][c] # NoDoc
  /\ db = "other" => ~replace /\ docs["corpus"][c] = NoDoc
  /\ j.code \in Blocks[c] \cup {NoCode}
  /\ j.same # Original => docs[db][j.same] # NoDoc
  /\ job' = [job EXCEPT ![s] = [stage |-> "ingest", doc |-> c, judged |-> j,
                                replace |-> replace, raced |-> FALSE]]
  /\ UNCHANGED <<docs, cases, reviews, reports, reviewed>>

HasReports(c) == reports \cap IdsIn("corpus", CasesOf("corpus", c)) # {}

(* The family of the document it belongs with; else its own, and on a         *)
(* re-judgment the one it had.                                                *)
FamilyOf(db, c, j) ==
  IF j.same # Original THEN docs[db][j.same].family
  ELSE IF docs[db][c] # NoDoc THEN docs[db][c].family ELSE c

(* The code cases a re-judgment leaves. *)
Kept(db, c) == cases \ CasesOf(db, c)

(* The transaction: document, identifiers and code case. *)
Stored(s, db, c, j) ==
  /\ docs' = [docs EXCEPT ![db][c] = [family |-> FamilyOf(db, c, j), judged |-> j]]
  /\ IF j.code = NoCode THEN cases' = Kept(db, c)
     ELSE \E id \in CaseIds :
       /\ IsNextId(id, db, Kept(db, c))
       /\ cases' = Kept(db, c) \cup
                     {[db |-> db, id |-> id, doc |-> c, kind |-> "inline", code |-> j.code,
                       ref |-> NoCode, matched |-> Matching(OnPage[c][j.code]),
                       from |-> 0, against |-> NoCode, raced |-> FALSE]}
  /\ Commits(s, c)

(* The foreign keys on code_cases: a report, or another document's recovered  *)
(* case, names one that would go.                                             *)
Referred(c) ==
  \/ HasReports(c)
  \/ \E k \in Kept("corpus", c) : k.from \in IdsIn("corpus", CasesOf("corpus", c))

IngestWrites(s) ==
  LET j == job[s].judged  db == Home(j)  c == job[s].doc IN
  /\ job[s].stage = "ingest"
  /\ IF job[s].replace THEN ~HasReports(c) /\ ~Referred(c) ELSE docs[db][c] = NoDoc
  /\ Stored(s, db, c, j)
  /\ UNCHANGED <<reviews, reports, commands, reviewed>>

(* The capture has got a document (UNIQUE), or its document has been tested,  *)
(* or a foreign key holds its cases: the transaction rolls back.              *)
IngestRefused(s) ==
  LET c == job[s].doc IN
  /\ job[s].stage = "ingest"
  /\ IF job[s].replace THEN HasReports(c) \/ Referred(c)
     ELSE docs[Home(job[s].judged)][c] # NoDoc
  /\ Ends(s)
  /\ UNCHANGED <<docs, cases, reviews, reports, commands, reviewed>>
-------------------------------------------------------------------------------
(* cmd_recover.                                                               *)

(* Mutant of RecoverReads: --case names a case of any document. *)
RecoverReadsElsewhere(s, k, ref) ==
  /\ ~Busy(s) /\ commands < MaxCommands /\ commands' = commands + 1
  /\ k.db = "corpus" /\ k.kind = "inline"
  /\ \E q \in cases :
       job' = [job EXCEPT ![s] = [stage |-> "recover", doc |-> q.doc, ref |-> ref,
                                  from |-> k.id, against |-> k.code, raced |-> FALSE]]
  /\ UNCHANGED <<docs, cases, reviews, reports, reviewed>>

RecoverReads(s, k, ref) ==
  /\ ~Busy(s) /\ commands < MaxCommands /\ commands' = commands + 1
  /\ k.db = "corpus" /\ k.kind = "inline"
  /\ job' = [job EXCEPT ![s] = [stage |-> "recover", doc |-> k.doc, ref |-> ref,
                                from |-> k.id, against |-> k.code, raced |-> FALSE]]
  /\ UNCHANGED <<docs, cases, reviews, reports, reviewed>>

Recorded(c, ref) == \E k \in CasesOf("corpus", c) : k.kind = "linked" /\ k.ref = ref

(* The file has come and the excerpt is compared with the symbol. *)
RecoverCompares(s) ==
  /\ job[s].stage = "recover" /\ ~Recorded(job[s].doc, job[s].ref)
  /\ job' = [job EXCEPT ![s] = [job[s] EXCEPT !.stage = "recovered"]]
  /\ UNCHANGED <<docs, cases, reviews, reports, commands, reviewed>>

(* Mutant of FromExists: a connection on which foreign keys are not enforced. *)
FromExistsOrNot(s) == TRUE

(* REFERENCES code_cases: a case with the id is all the database asks for.    *)
FromExists(s) == job[s].from \in IdsIn("corpus", cases)

RecoverWrites(s) ==
  LET answer == Recovery[job[s].ref][job[s].against] IN
  /\ job[s].stage = "recovered" /\ FromExists(s)
  /\ \E id \in CaseIds :
       /\ IsNextId(id, "corpus", cases)
       /\ cases' = cases \cup
            {[db |-> "corpus", id |-> id, doc |-> job[s].doc, kind |-> "linked",
              code |-> answer.text, ref |-> job[s].ref, matched |-> Matching(answer.verdict),
              from |-> job[s].from, against |-> job[s].against, raced |-> job[s].raced]}
  /\ Commits(s, job[s].doc)
  /\ UNCHANGED <<docs, reviews, reports, commands, reviewed>>

RecoverRefused(s) ==
  /\ \/ job[s].stage = "recover" /\ Recorded(job[s].doc, job[s].ref)
     \/ job[s].stage = "recovered" /\ ~FromExists(s)
  /\ Ends(s)
  /\ UNCHANGED <<docs, cases, reviews, reports, commands, reviewed>>

(* The network fails, a repository, path or commit name is refused, or the    *)
(* command is killed: it has written nothing.                                 *)
Abandons(s) ==
  /\ Busy(s) /\ Ends(s)
  /\ UNCHANGED <<docs, cases, reviews, reports, commands, reviewed>>
-------------------------------------------------------------------------------
(* People, and reports from outside.                                          *)

review(c, r) ==
  /\ docs["corpus"][c] # NoDoc
  /\ reviewed < MaxReviews /\ reviewed' = reviewed + 1
  /\ reviews' = [reviews EXCEPT ![c] = r]
  /\ UNCHANGED <<docs, cases, reports, job, commands>>

Report(k) ==
  /\ k.db = "corpus" /\ Cardinality(reports) < MaxReports
  /\ reports' = reports \cup {k.id}
  /\ UNCHANGED <<docs, cases, reviews, job, commands, reviewed>>
-------------------------------------------------------------------------------
Init ==
  /\ docs = [db \in Dbs |-> [c \in Captures |-> NoDoc]]
  /\ cases = {} /\ reports = {}
  /\ reviews = [c \in Captures |-> NoReview]
  /\ job = [s \in Scouts |-> Idle]
  /\ commands = 0 /\ reviewed = 0

Next ==
  \/ \E s \in Scouts :
       \/ \E c \in Captures, replace \in BOOLEAN :
            \E j \in Judgments[c] : IngestReads(s, c, j, replace)
       \/ IngestWrites(s) \/ IngestRefused(s)
       \/ \E k \in cases, ref \in Refs : RecoverReads(s, k, ref)
       \/ RecoverCompares(s) \/ RecoverWrites(s) \/ RecoverRefused(s) \/ Abandons(s)
  \/ \E c \in Captures, r \in Review : review(c, r)
  \/ \E k \in cases : Report(k)

Spec == Init /\ [][Next]_vars
-------------------------------------------------------------------------------
(* What counts, and the groups an export keeps together.                      *)

(* doc_current: the latest review, else the judgment. *)
InForce(c) ==
  IF reviews[c] # NoReview THEN reviews[c] ELSE docs["corpus"][c].judged

(* doc_state.counted; a person's admission stands in for the checks. *)
counted(c) ==
  /\ docs["corpus"][c] # NoDoc
  /\ InForce(c).route = "target" /\ InForce(c).admitted
  /\ reviews[c] # NoReview \/ docs["corpus"][c].judged.complete
  /\ \E k \in CasesOf("corpus", c) : k.matched

DocumentsOf(f) ==
  {c \in Captures : docs["corpus"][c] # NoDoc /\ docs["corpus"][c].family = f}
counted_families == {f \in Captures : \E c \in DocumentsOf(f) : counted(c)}

IdsOf(f) == UNION {docs["corpus"][c].judged.ids : c \in DocumentsOf(f)}
CodeOf(f) == {k.code : k \in UNION {CasesOf("corpus", c) : c \in DocumentsOf(f)}}

IdJoins == {{f \in counted_families : i \in IdsOf(f)} : i \in Ids}

(* Mutant of CodeJoins: a snippet at the limit counts as boilerplate. *)
CodeJoinsBelow ==
  {fs \in {{f \in counted_families : x \in CodeOf(f)} : x \in {k.code : k \in cases}} :
     Cardinality(fs) < SHARED_CODE_LIMIT}

CodeJoins ==
  {fs \in {{f \in counted_families : x \in CodeOf(f)} : x \in {k.code : k \in cases}} :
     Cardinality(fs) <= SHARED_CODE_LIMIT}

(* Union by the first of the families: parent is kept fully compressed. *)
joined(parent, fs) ==
  [f \in DOMAIN parent |->
     IF \E g \in fs : parent[f] = parent[g] THEN parent[Min(fs)] ELSE parent[f]]

(* A family's group key: the smallest capture of its group's documents. *)
compute_groups ==
  LET parent == FoldSet(LAMBDA fs, p : joined(p, fs),
                        [f \in counted_families |-> f],
                        (IdJoins \cup CodeJoins) \ {{}}) IN
  [f \in counted_families |->
     Min(UNION {DocumentsOf(g) : g \in {h \in counted_families : parent[h] = parent[f]}})]
-------------------------------------------------------------------------------
Job ==
  {Idle}
  \cup [stage : {"ingest"}, doc : Captures, judged : Judgment, replace : BOOLEAN,
        raced : BOOLEAN]
  \cup [stage : {"recover", "recovered"}, doc : Captures, ref : Refs, from : CaseIds,
        against : Codes, raced : BOOLEAN]

(* Types of the state. *)
TypeOK ==
  /\ docs \in [Dbs -> [Captures -> Document \cup {NoDoc}]]
  /\ cases \subseteq Case
  /\ reviews \in [Captures -> Review \cup {NoReview}]
  /\ reports \subseteq CaseIds
  /\ job \in [Scouts -> Job]
  /\ commands \in 0..MaxCommands /\ reviewed \in 0..MaxReviews

Compared(k, i) ==
  i.db = "corpus" /\ i.id = k.from /\ i.doc = k.doc /\ i.kind = "inline" /\ i.code = k.against

(* A recovered case names the case of its own document whose excerpt was      *)
(* compared, though re-judgments delete cases and their ids come back: as     *)
(* long as nothing was committed for the capture while the file was fetched.  *)
RecoveredFromItsExcerpt ==
  \A k \in cases : k.kind = "linked" /\ ~k.raced => \E i \in cases : Compared(k, i)

(* Whatever commands overlap: what a recovered case was compared with, and    *)
(* what an outside report tested, is a row of the table, though re-judgments  *)
(* delete rows, and what a command read may be gone, or be the case of        *)
(* another document, when it writes.                                          *)
NothingDangles ==
  /\ reports \subseteq IdsIn("corpus", cases)
  /\ \A k \in cases : k.kind = "linked" => k.from \in IdsIn("corpus", cases)

Definitions(ref) == {extent(Source[ref], e) : e \in symbol_extents(Source[ref])}
Compares == Texts \cup {Shown[c] : c \in Captures} \cup UNION {Definitions(r) : r \in Refs}
HasLines ==
  UNION {{x} \X {t \in Compares : Solid(x) # {} /\ InOrderButCut(x, t)} : x \in Codes}
HasText ==
  UNION {{x} \X {t \in Compares : Verbatim(x, t) \/ (wanted(x) # {} /\ InOrder(x, t))} :
         x \in Codes}

(* A case that counts as found has the lines of its excerpt, in their order,  *)
(* in the text it was compared with, at most the first and the last of them   *)
(* cut short; the text of a recovered one is whole, and no other definition   *)
(* of its symbol that differs has the excerpt, or all its lines, too.         *)
MatchedHasTheLines ==
  \A k \in cases :
    /\ k.matched /\ k.kind = "inline" => <<k.code, Shown[k.doc]>> \in HasLines
    /\ k.matched /\ k.kind = "linked" =>
         /\ <<k.against, k.code>> \in HasLines
         /\ Indented \/ Opened(k.code, 1, Len(k.code)) = Closed(k.code, 1, Len(k.code))
         /\ \A d \in Definitions(k.ref) : <<k.against, d>> \in HasText => d = k.code

Share(f, g) ==
  \/ IdsOf(f) \cap IdsOf(g) # {}
  \/ \E x \in CodeOf(f) \cap CodeOf(g) :
       Cardinality({h \in counted_families : x \in CodeOf(h)}) <= SHARED_CODE_LIMIT

(* Splits do not leak: two counted families have one key exactly when a chain *)
(* of shared identifiers, or of code that is not boilerplate, connects them.  *)
GroupsAreComponents ==
  LET key == compute_groups
      shares == {p \in counted_families \X counted_families : Share(p[1], p[2])} IN
  \A f, g \in counted_families :
    key[f] = key[g] <=>
      \A S \in SUBSET counted_families :
        f \in S /\ (\A p \in shares : p[1] \in S => p[2] \in S) => g \in S
===============================================================================
