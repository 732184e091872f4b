--------------------------- MODULE CorpusExportProofs --------------------------
(***************************************************************************)
(* What CorpusExport keeps for any number of processes, captures,          *)
(* judgments and versions of Defuddle.  The inductive invariant says what  *)
(* each process has read and still holds: init its checks, extract and     *)
(* ingest the Markdown, export its view.                                   *)
(***************************************************************************)
EXTENDS CorpusExport, FiniteSetTheorems, TLAPS

(* The file that was there when init checked is for the language it was       *)
(* called with; the first file is made before the second.                     *)
InitOK(k) ==
  k.stage \in {"init", "link"} =>
    /\ \A d \in k.seen : target[d] = k.language
    /\ k.db = "other" =>
         target["corpus"] # None /\ (slipped \/ target["corpus"] = k.language)
CorpusFirst == target["other"] # None => target["corpus"] # None

(* Alone on its capture, a process holds the only Markdown there is, or is    *)
(* about to make it.                                                          *)
TextOK(k) ==
  /\ k.stage = "defuddle" => k.doc \in raced \/ markdowns[k.doc] = <<>>
  /\ k.stage = "judge" => k.doc \in raced \/ markdowns[k.doc] = <<k.markdown>>
OneMarkdown ==
  \A c \in Captures \ raced :
    /\ markdowns[c] = <<>> \/ \E v \in Versions : markdowns[c] = <<v>>
    /\ docs[c] # None => markdowns[c] = <<docs[c].markdown>>

(* An export in progress has in the directory what it has written of its view. *)
WriteOK(k) ==
  k.stage = "write" =>
    /\ dir.state = "partial" /\ dir.of = k.view /\ k.todo \subseteq ready(k.view)
    /\ {r.doc : r \in dir.records} = ready(k.view) \ k.todo
OneWriter ==
  \A s, q \in Scouts :
    job[s].stage \in {"export", "write"} /\ job[q].stage \in {"export", "write"} => s = q
RecordsOfTheView ==
  \A r \in dir.records : r.doc \in ready(dir.of) /\ r = export_record(dir.of, r.doc)
CompleteIsWhole == dir.state = "complete" => {r.doc : r \in dir.records} = ready(dir.of)

JobsOK == \A s \in Scouts : InitOK(job[s]) /\ TextOK(job[s]) /\ WriteOK(job[s])

Inv == /\ TypeOK /\ JobsOK /\ CorpusFirst /\ OneMarkdown /\ OneWriter /\ RecordsOfTheView
       /\ CompleteIsWhole /\ OneTarget /\ SpansAreOfTheMarkdown
-------------------------------------------------------------------------------
(* What the stage of a job says of its shape.                                 *)
LEMMA JobShapes ==
  ASSUME NEW k \in Job
  PROVE  /\ k.stage \in {"init", "link"} => k \in InitJob
         /\ k.stage \in {"defuddle", "judge"} => k \in TextJob
         /\ k.stage = "write" => k \in WriteJob
         /\ k.stage \in {"idle", "init", "link", "defuddle", "judge", "export", "write"}
BY DEF Job, Idle, InitJob, TextJob, WriteJob

LEMMA EndsTyped ==
  ASSUME TypeOK, NEW s \in Scouts, Ends(s)
  PROVE  /\ job' \in [Scouts -> Job] /\ job'[s] = Idle
         /\ \A q \in Scouts \ {s} : job'[q] = job[q]
BY DEF Ends, TypeOK, Job

LEMMA MovesTyped ==
  ASSUME TypeOK, NEW s \in Scouts, NEW k \in Job, job' = [job EXCEPT ![s] = k]
  PROVE  /\ job' \in [Scouts -> Job] /\ job'[s] = k
         /\ \A q \in Scouts \ {s} : job'[q] = job[q]
BY DEF TypeOK

(* Idle jobs and jobs of the other kinds hold nothing. *)
LEMMA IdleOK == InitOK(Idle) /\ TextOK(Idle) /\ WriteOK(Idle)
BY DEF InitOK, TextOK, WriteOK, Idle

LEMMA InitInv == Init => Inv
<1>. SUFFICES ASSUME Init PROVE Inv
  OBVIOUS
<1>1. 0 \in 0..MaxInits /\ 0 \in 0..MaxCommands
  BY ExportBoundAssumption
<1>2. TypeOK
  <2>1. markdowns \in [Captures -> Seq(Versions)]
    BY DEF Init
  <2>2. job \in [Scouts -> Job]
    BY DEF Init, Job
  <2>3. target \in [Dbs -> Languages \cup {None}] /\ docs \in [Captures -> Document \cup {None}]
    BY DEF Init
  <2>4. dir = [state |-> "absent", records |-> {}, of |-> None]
    BY DEF Init, Absent
  <2>5. /\ dir = [state |-> dir.state, records |-> dir.records, of |-> dir.of]
        /\ dir.state = "absent" /\ dir.records = {}
    BY <2>4
  <2>6. /\ slipped \in BOOLEAN /\ installed \in Versions /\ raced \subseteq Captures
        /\ inits \in 0..MaxInits /\ commands \in 0..MaxCommands
    BY <1>1 DEF Init
  <2>. QED
    BY <2>1, <2>2, <2>3, <2>5, <2>6 DEF TypeOK
<1>3. JobsOK /\ OneWriter
  BY IdleOK DEF Init, JobsOK, OneWriter, Idle
<1>4. CorpusFirst /\ OneTarget
  BY DEF Init, CorpusFirst, OneTarget, Dbs
<1>5. OneMarkdown /\ SpansAreOfTheMarkdown
  BY DEF Init, OneMarkdown, SpansAreOfTheMarkdown
<1>6. RecordsOfTheView /\ CompleteIsWhole
  BY DEF Init, RecordsOfTheView, CompleteIsWhole, Absent
<1>. QED
  BY <1>2, <1>3, <1>4, <1>5, <1>6 DEF Inv
-------------------------------------------------------------------------------
(* Types.                                                                     *)
LEMMA TextTyped ==
  ASSUME NEW stage \in {"defuddle", "judge"}, NEW c \in Captures, NEW j \in Judgment,
         NEW replace \in BOOLEAN, NEW markdown \in Versions
  PROVE  [stage |-> stage, doc |-> c, judged |-> j, replace |-> replace,
          markdown |-> markdown] \in Job
BY DEF TextJob, Job

LEMMA InitSteps ==
  ASSUME Inv, NEW s \in Scouts,
         InitSkips(s) \/ InitFills(s) \/ InitLinks(s) \/ InitRefused(s)
  PROVE  /\ job' \in [Scouts -> Job]
         /\ \A q \in Scouts \ {s} : job'[q] = job[q]
         /\ job[s] \in InitJob
         /\ \/ job'[s] = Idle
            \/ /\ job'[s].stage \in {"init", "link"} /\ job'[s].language = job[s].language
               /\ job'[s].seen = job[s].seen
               /\ (InitFills(s) /\ job'[s].db = job[s].db) \/ (job[s].db = "corpus" /\ job'[s].db = "other")
         /\ job'[s].stage \notin {"export", "write", "defuddle", "judge"}
<1>1. TypeOK /\ job[s] \in Job
  BY DEF Inv, TypeOK
<1>2. job[s].stage \in {"init", "link"} /\ job[s] \in InitJob
  BY <1>1, JobShapes DEF InitSkips, InitFills, InitLinks, InitRefused, At
<1>3. CASE Ends(s)
  BY <1>1, <1>2, <1>3, EndsTyped DEF Idle
<1>4. CASE job' = [job EXCEPT ![s] = [job[s] EXCEPT !.stage = "init", !.db = "other"]]
           /\ job[s].db # "other"
  <2>1. [job[s] EXCEPT !.stage = "init", !.db = "other"] \in InitJob
    BY <1>2 DEF InitJob, Dbs
  <2>2. job' \in [Scouts -> Job] /\ \A q \in Scouts \ {s} : job'[q] = job[q]
    BY <1>1, <1>4, <2>1, MovesTyped DEF Job
  <2>3. job'[s] = [job[s] EXCEPT !.stage = "init", !.db = "other"]
    BY <1>1, <1>4 DEF TypeOK
  <2>. QED
    BY <1>2, <1>4, <2>2, <2>3 DEF InitJob, Dbs
<1>5. CASE InitFills(s)
  <2>1. [job[s] EXCEPT !.stage = "link"] \in InitJob
    BY <1>2 DEF InitJob
  <2>2. job' \in [Scouts -> Job] /\ \A q \in Scouts \ {s} : job'[q] = job[q]
    BY <1>1, <1>5, <2>1, MovesTyped DEF Job, InitFills
  <2>3. job'[s] = [job[s] EXCEPT !.stage = "link"]
    BY <1>1, <1>5 DEF TypeOK, InitFills
  <2>. QED
    BY <1>2, <1>5, <2>2, <2>3 DEF InitJob
<1>. QED
  BY <1>3, <1>4, <1>5 DEF InitSkips, InitLinks, InitRefused, NextFile

(* The first step of extract and ingest, and the second. *)
LEMMA ExtractsTyped ==
  ASSUME Inv, NEW s \in Scouts, NEW c \in Captures, NEW j \in Judgments[c],
         NEW replace \in BOOLEAN, Extract(s, c, j, replace)
  PROVE  /\ job' \in [Scouts -> Job] /\ \A q \in Scouts \ {s} : job'[q] = job[q]
         /\ job'[s] \in TextJob /\ job'[s].doc = c /\ job[s].stage = "idle"
         /\ \/ /\ job'[s].stage = "judge" /\ markdowns[c] # <<>>
               /\ job'[s].markdown = Last(markdowns[c])
            \/ job'[s].stage = "defuddle" /\ markdowns[c] = <<>>
<1>1. /\ TypeOK /\ installed \in Versions /\ j \in Judgment
      /\ markdowns[c] \in Seq(Versions) /\ job \in [Scouts -> Job]
  BY ExportAssumption DEF Inv, TypeOK
<1>2. job[s].stage = "idle"
  BY <1>1 DEF Extract, Starts, Busy
<1>3. CASE Extracted(c)
  <2>. DEFINE k == [stage |-> "judge", doc |-> c, judged |-> j, replace |-> replace,
                    markdown |-> Last(markdowns[c])]
  <2>1. Last(markdowns[c]) \in Versions
    BY <1>1, <1>3 DEF Extracted, Last
  <2>2. k \in TextJob
    BY <1>1, <2>1 DEF TextJob
  <2>3. job' = [job EXCEPT ![s] = k]
    BY <1>3 DEF Extract
  <2>4. k.stage = "judge" /\ k.doc = c /\ k.markdown = Last(markdowns[c])
    OBVIOUS
  <2>. HIDE DEF k
  <2>. QED
    BY <1>1, <1>2, <1>3, <2>2, <2>3, <2>4, MovesTyped DEF Job, Extracted
<1>4. CASE ~Extracted(c)
  <2>. DEFINE k == [stage |-> "defuddle", doc |-> c, judged |-> j, replace |-> replace,
                    markdown |-> installed]
  <2>1. k \in TextJob
    BY <1>1 DEF TextJob
  <2>2. job' = [job EXCEPT ![s] = k]
    BY <1>4 DEF Extract
  <2>3. k.stage = "defuddle" /\ k.doc = c
    OBVIOUS
  <2>. HIDE DEF k
  <2>. QED
    BY <1>1, <1>2, <1>4, <2>1, <2>2, <2>3, MovesTyped DEF Job, Extracted
<1>. QED
  BY <1>3, <1>4

LEMMA ExtractEndsTyped ==
  ASSUME Inv, NEW s \in Scouts, ExtractEnds(s)
  PROVE  /\ job' \in [Scouts -> Job] /\ \A q \in Scouts \ {s} : job'[q] = job[q]
         /\ job[s] \in TextJob /\ job[s].stage = "defuddle"
         /\ job'[s] \in TextJob /\ job'[s].stage = "judge"
         /\ job'[s].doc = job[s].doc /\ job'[s].markdown = job[s].markdown
         /\ markdowns' = [markdowns EXCEPT ![job[s].doc] = Append(@, job[s].markdown)]
         /\ markdowns' \in [Captures -> Seq(Versions)]
<1>1. TypeOK /\ job[s] \in Job /\ markdowns \in [Captures -> Seq(Versions)]
  BY DEF Inv, TypeOK
<1>2. job[s] \in TextJob /\ job[s].stage = "defuddle"
  BY <1>1, JobShapes DEF ExtractEnds, At
<1>3. [job[s] EXCEPT !.stage = "judge"] \in TextJob
  BY <1>2 DEF TextJob
<1>4. job' = [job EXCEPT ![s] = [job[s] EXCEPT !.stage = "judge"]]
  BY DEF ExtractEnds
<1>5. /\ job' \in [Scouts -> Job] /\ \A q \in Scouts \ {s} : job'[q] = job[q]
      /\ job'[s] = [job[s] EXCEPT !.stage = "judge"]
  BY <1>1, <1>3, <1>4, MovesTyped DEF Job
<1>6. markdowns' = [markdowns EXCEPT ![job[s].doc] = Append(@, job[s].markdown)]
  BY DEF ExtractEnds
<1>7. job[s].doc \in Captures /\ Append(markdowns[job[s].doc], job[s].markdown) \in Seq(Versions)
  BY <1>1, <1>2 DEF TextJob
<1>8. markdowns' \in [Captures -> Seq(Versions)]
  BY <1>1, <1>6, <1>7
<1>. QED
  BY <1>2, <1>3, <1>5, <1>6, <1>8 DEF TextJob

LEMMA ChecksTyped ==
  ASSUME Inv, NEW s \in Scouts, NEW l \in Languages, InitChecks(s, l)
  PROVE  /\ job' \in [Scouts -> Job] /\ \A q \in Scouts \ {s} : job'[q] = job[q]
         /\ job'[s].stage = "init" /\ job'[s].db = "corpus" /\ job'[s].language = l
         /\ job'[s].seen = {d \in Dbs : target[d] # None}
<1>. DEFINE k == [stage |-> "init", db |-> "corpus", language |-> l,
                  seen |-> {d \in Dbs : target[d] # None}]
<1>1. k \in InitJob
  BY DEF InitJob, Dbs
<1>2. job' = [job EXCEPT ![s] = k]
  BY DEF InitChecks
<1>3. /\ k.stage = "init" /\ k.db = "corpus" /\ k.language = l
      /\ k.seen = {d \in Dbs : target[d] # None}
  OBVIOUS
<1>. HIDE DEF k
<1>. QED
  BY <1>1, <1>2, <1>3, MovesTyped DEF Job, Inv

LEMMA IngestTyped ==
  ASSUME Inv, NEW s \in Scouts, Ingest(s)
  PROVE  /\ job[s] \in TextJob /\ job[s].stage = "judge"
         /\ docs' \in [Captures -> Document \cup {None}]
         /\ \A c \in Captures \ {job[s].doc} : docs'[c] = docs[c]
         /\ docs'[job[s].doc].judged = job[s].judged
         /\ docs'[job[s].doc].spans = job[s].markdown
         /\ docs'[job[s].doc].markdown = IF docs[job[s].doc] = None THEN job[s].markdown
                                         ELSE docs[job[s].doc].markdown
<1>1. TypeOK /\ job[s] \in Job /\ docs \in [Captures -> Document \cup {None}]
  BY DEF Inv, TypeOK
<1>2. job[s] \in TextJob /\ job[s].stage = "judge"
  BY <1>1, JobShapes DEF Ingest, At
<1>. DEFINE c == job[s].doc
            m == IF docs[c] = None THEN job[s].markdown ELSE docs[c].markdown
            d == [judged |-> job[s].judged, spans |-> job[s].markdown, markdown |-> m]
<1>3. c \in Captures /\ job[s].judged \in Judgment /\ job[s].markdown \in Versions
  BY <1>2 DEF TextJob
<1>4. m \in Versions
  BY <1>1, <1>3 DEF Document
<1>5. d \in Document
  <2>. HIDE DEF m
  <2>. QED
    BY <1>3, <1>4 DEF Document
<1>6. docs' = [docs EXCEPT ![c] = d]
  BY DEF Ingest
<1>7. d.judged = job[s].judged /\ d.spans = job[s].markdown /\ d.markdown = m
  OBVIOUS
<1>8. /\ docs' \in [Captures -> Document \cup {None}] /\ docs'[c] = d
      /\ \A b \in Captures \ {c} : docs'[b] = docs[b]
  <2>. HIDE DEF c, d
  <2>. QED
    BY <1>1, <1>3, <1>5, <1>6
<1>. QED
  BY <1>2, <1>7, <1>8

LEMMA WritersTyped ==
  ASSUME Inv, NEW s \in Scouts, At(s, "write")
  PROVE  /\ job[s] \in WriteJob /\ dir.of = job[s].view /\ dir.state = "partial"
         /\ job[s].todo \subseteq ready(job[s].view)
         /\ {r.doc : r \in dir.records} = ready(job[s].view) \ job[s].todo
BY JobShapes DEF Inv, TypeOK, JobsOK, WriteOK, At

LEMMA ReadsTyped ==
  ASSUME Inv, NEW s \in Scouts, ExportReads(s)
  PROVE  /\ job' \in [Scouts -> Job] /\ \A q \in Scouts \ {s} : job'[q] = job[q]
         /\ job'[s].stage = "write" /\ job'[s].view = docs /\ job'[s].todo = ready(docs)
         /\ dir'.state = "partial" /\ dir'.of = docs /\ dir'.records = {}
         /\ dir' = [state |-> dir'.state, records |-> dir'.records, of |-> dir'.of]
<1>. DEFINE k == [stage |-> "write", view |-> docs, todo |-> ready(docs)]
<1>1. docs \in [Captures -> Document \cup {None}] /\ ready(docs) \subseteq Captures
  BY DEF Inv, TypeOK, ready, Families
<1>2. k \in WriteJob
  BY <1>1 DEF WriteJob
<1>3. job' = [job EXCEPT ![s] = k] /\ dir' = [state |-> "partial", records |-> {}, of |-> docs]
  BY DEF ExportReads
<1>4. k.stage = "write" /\ k.view = docs /\ k.todo = ready(docs)
  OBVIOUS
<1>5. /\ dir'.state = "partial" /\ dir'.of = docs /\ dir'.records = {}
      /\ dir' = [state |-> dir'.state, records |-> dir'.records, of |-> dir'.of]
  BY <1>3
<1>. HIDE DEF k
<1>. QED
  BY <1>2, <1>3, <1>4, <1>5, MovesTyped DEF Job, Inv

LEMMA WritesTyped ==
  ASSUME Inv, NEW s \in Scouts, ExportWrites(s)
  PROVE  /\ job' \in [Scouts -> Job] /\ \A q \in Scouts \ {s} : job'[q] = job[q]
         /\ job'[s].stage = "write" /\ job'[s].view = job[s].view
         /\ dir'.state = dir.state /\ dir'.of = dir.of
         /\ dir' = [state |-> dir'.state, records |-> dir'.records, of |-> dir'.of]
         /\ \E c \in job[s].todo :
              /\ job'[s].todo = job[s].todo \ {c}
              /\ dir'.records = dir.records \cup {export_record(job[s].view, c)}
<1>1. PICK c \in job[s].todo :
        /\ dir' = [dir EXCEPT !.records = @ \cup {export_record(job[s].view, c)}]
        /\ job' = [job EXCEPT ![s] = [job[s] EXCEPT !.todo = @ \ {c}]]
  BY DEF ExportWrites
<1>2. job[s] \in WriteJob /\ TypeOK
  BY WritersTyped DEF ExportWrites, Inv
<1>3. /\ [job[s] EXCEPT !.todo = @ \ {c}] \in WriteJob
      /\ [job[s] EXCEPT !.todo = @ \ {c}].view = job[s].view
      /\ [job[s] EXCEPT !.todo = @ \ {c}].stage = "write"
      /\ [job[s] EXCEPT !.todo = @ \ {c}].todo = job[s].todo \ {c}
  BY <1>2 DEF WriteJob
<1>4. /\ job' \in [Scouts -> Job] /\ \A q \in Scouts \ {s} : job'[q] = job[q]
      /\ job'[s] = [job[s] EXCEPT !.todo = @ \ {c}]
  BY <1>1, <1>2, <1>3, MovesTyped DEF Job
<1>5. dir = [state |-> dir.state, records |-> dir.records, of |-> dir.of]
  BY <1>2 DEF TypeOK
<1>6. dir' = [state |-> dir.state, of |-> dir.of,
              records |-> dir.records \cup {export_record(job[s].view, c)}]
  BY <1>1, <1>5
<1>7. /\ dir'.state = dir.state /\ dir'.of = dir.of
      /\ dir' = [state |-> dir'.state, records |-> dir'.records, of |-> dir'.of]
      /\ dir'.records = dir.records \cup {export_record(job[s].view, c)}
  BY <1>6
<1>. QED
  BY <1>3, <1>4, <1>7
-------------------------------------------------------------------------------
(* The steps by what they change: the database files, the Markdown, the       *)
(* documents, the directory, or nothing but the job.                          *)
InitStep(s) ==
  \/ \E l \in Languages : InitChecks(s, l)
  \/ InitSkips(s) \/ InitFills(s) \/ InitLinks(s) \/ InitRefused(s)
Extracts(s) ==
  \E c \in Captures, replace \in BOOLEAN : \E j \in Judgments[c] : Extract(s, c, j, replace)
EndStep(s) == Shows(s) \/ IngestRefused(s) \/ Dies(s)
DirStep(s) ==
  ExportStarts(s) \/ ExportReads(s) \/ ExportWrites(s) \/ ExportEnds(s) \/ ExportFails(s)

LEMMA StepCases ==
  ASSUME [Next]_vars
  PROVE  \/ \E s \in Scouts : \/ InitStep(s) \/ Extracts(s) \/ ExtractEnds(s) \/ EndStep(s)
                              \/ Ingest(s) \/ DirStep(s)
         \/ Upgrade \/ Clear \/ UNCHANGED vars
BY DEF Next, InitStep, Extracts, EndStep, DirStep

(* Who moves, where to, and what stays. *)
LEMMA Moves ==
  ASSUME Inv, NEW s \in Scouts,
         InitStep(s) \/ Extracts(s) \/ ExtractEnds(s) \/ EndStep(s) \/ Ingest(s) \/ DirStep(s)
  PROVE  /\ job' \in [Scouts -> Job] /\ \A q \in Scouts \ {s} : job'[q] = job[q]
         /\ InitStep(s) =>
              /\ job'[s].stage \notin {"export", "write", "defuddle", "judge"}
              /\ UNCHANGED <<installed, markdowns, raced, docs, dir>>
         /\ ~InitStep(s) => UNCHANGED <<target, slipped>>
         /\ Extracts(s) => UNCHANGED <<installed, markdowns, raced, docs, dir>>
         /\ ExtractEnds(s) => UNCHANGED <<installed, docs, dir>>
         /\ EndStep(s) => job'[s] = Idle /\ UNCHANGED <<installed, markdowns, raced, docs, dir>>
         /\ Ingest(s) => job'[s] = Idle /\ UNCHANGED <<installed, markdowns, raced, dir>>
         /\ DirStep(s) => /\ job'[s].stage \in {"idle", "export", "write"}
                          /\ UNCHANGED <<installed, markdowns, raced, docs>>
<1>. USE DEF base, text
<1>1. TypeOK /\ job \in [Scouts -> Job]
  BY DEF Inv, TypeOK
<1>2. InitStep(s) => /\ job' \in [Scouts -> Job] /\ \A q \in Scouts \ {s} : job'[q] = job[q]
                     /\ job'[s].stage \notin {"export", "write", "defuddle", "judge"}
                     /\ UNCHANGED <<installed, markdowns, raced, docs, dir>>
  BY InitSteps, ChecksTyped
  DEF InitStep, InitChecks, InitSkips, InitFills, InitLinks, InitRefused
<1>3. Extracts(s) => /\ job' \in [Scouts -> Job] /\ \A q \in Scouts \ {s} : job'[q] = job[q]
                     /\ UNCHANGED <<target, slipped, installed, markdowns, raced, docs, dir>>
  BY ExtractsTyped DEF Extracts, Extract
<1>4. ExtractEnds(s) => /\ job' \in [Scouts -> Job] /\ \A q \in Scouts \ {s} : job'[q] = job[q]
                        /\ UNCHANGED <<target, slipped, installed, docs, dir>>
  BY ExtractEndsTyped DEF ExtractEnds
<1>5. EndStep(s) => /\ job' \in [Scouts -> Job] /\ \A q \in Scouts \ {s} : job'[q] = job[q]
                    /\ job'[s] = Idle
                    /\ UNCHANGED <<target, slipped, installed, markdowns, raced, docs, dir>>
  BY <1>1, EndsTyped DEF EndStep, Shows, IngestRefused, Dies
<1>6. Ingest(s) => /\ job' \in [Scouts -> Job] /\ \A q \in Scouts \ {s} : job'[q] = job[q]
                   /\ job'[s] = Idle
                   /\ UNCHANGED <<target, slipped, installed, markdowns, raced, dir>>
  BY <1>1, EndsTyped DEF Ingest
<1>7. DirStep(s) => /\ job' \in [Scouts -> Job] /\ \A q \in Scouts \ {s} : job'[q] = job[q]
                    /\ job'[s].stage \in {"idle", "export", "write"}
                    /\ UNCHANGED <<target, slipped, installed, markdowns, raced, docs>>
  <2>1. CASE ExportStarts(s)
    <3>1. [stage |-> "export"] \in Job /\ [stage |-> "export"].stage = "export"
      BY DEF Job
    <3>. QED
      BY <1>1, <2>1, <3>1, MovesTyped DEF ExportStarts
  <2>2. CASE ExportReads(s)
    BY <2>2, ReadsTyped DEF ExportReads
  <2>3. CASE ExportWrites(s)
    BY <2>3, WritesTyped DEF ExportWrites
  <2>4. CASE ExportEnds(s) \/ ExportFails(s)
    BY <1>1, <2>4, EndsTyped DEF ExportEnds, ExportFails, Idle
  <2>. QED
    BY <2>1, <2>2, <2>3, <2>4 DEF DirStep
<1>. QED
  BY <1>2, <1>3, <1>4, <1>5, <1>6, <1>7

LEMMA TypeStep == Inv /\ [Next]_vars => TypeOK'
<1>. SUFFICES ASSUME Inv, [Next]_vars PROVE TypeOK'
  OBVIOUS
<1>. USE DEF base, text
<1>1. TypeOK /\ MaxInits \in Nat /\ MaxCommands \in Nat
  BY ExportBoundAssumption DEF Inv
<1>2. job' \in [Scouts -> Job]
  BY <1>1, StepCases, Moves DEF Upgrade, Clear, vars, TypeOK
<1>3. target' \in [Dbs -> Languages \cup {None}] /\ slipped' \in BOOLEAN
  <2>1. CASE \E s \in Scouts : InitStep(s)
    <3>1. PICK s \in Scouts : InitStep(s)
      BY <2>1
    <3>2. CASE InitLinks(s)
      <4>1. job[s] \in InitJob
        BY <3>2, InitSteps
      <4>2. job[s].db \in Dbs /\ job[s].language \in Languages
        BY <4>1 DEF InitJob
      <4>. QED
        BY <1>1, <3>2, <4>2 DEF InitLinks, TypeOK
    <3>3. CASE ~InitLinks(s)
      BY <1>1, <3>1, <3>3 DEF InitStep, InitChecks, InitSkips, InitFills, InitRefused, TypeOK
    <3>. QED
      BY <3>2, <3>3
  <2>2. CASE UNCHANGED <<target, slipped>>
    BY <1>1, <2>2 DEF TypeOK
  <2>. QED
    BY <2>1, <2>2, StepCases, Moves DEF Upgrade, Clear, vars
<1>4. installed' \in Versions
  BY <1>1, StepCases, Moves DEF Upgrade, Clear, vars, TypeOK
<1>5. markdowns' \in [Captures -> Seq(Versions)] /\ raced' \subseteq Captures
  <2>1. ASSUME NEW s \in Scouts, ExtractEnds(s)
        PROVE  markdowns' \in [Captures -> Seq(Versions)] /\ raced' \subseteq Captures
    BY <1>1, <2>1, ExtractEndsTyped DEF ExtractEnds, TextJob, TypeOK
  <2>2. CASE UNCHANGED <<markdowns, raced>>
    BY <1>1, <2>2 DEF TypeOK
  <2>. QED
    BY <2>1, <2>2, StepCases, Moves DEF Upgrade, Clear, vars
<1>6. docs' \in [Captures -> Document \cup {None}]
  <2>1. CASE UNCHANGED docs
    BY <1>1, <2>1 DEF TypeOK
  <2>. QED
    BY <2>1, IngestTyped, StepCases, Moves DEF Upgrade, Clear, vars
<1>7. /\ dir' = [state |-> dir'.state, records |-> dir'.records, of |-> dir'.of]
      /\ dir'.state \in {"absent", "partial", "complete"}
      /\ \A r \in dir'.records : r.doc \in Captures
  <2>1. CASE UNCHANGED dir
    BY <1>1, <2>1 DEF TypeOK
  <2>2. CASE dir' = Absent
    BY <2>2 DEF Absent
  <2>3. ASSUME NEW s \in Scouts, ExportReads(s)
        PROVE  /\ dir' = [state |-> dir'.state, records |-> dir'.records, of |-> dir'.of]
               /\ dir'.state = "partial" /\ dir'.records = {}
    BY <2>3, ReadsTyped
  <2>4. ASSUME NEW s \in Scouts, ExportWrites(s)
        PROVE  /\ dir' = [state |-> dir'.state, records |-> dir'.records, of |-> dir'.of]
               /\ dir'.state = dir.state /\ \A r \in dir'.records : r.doc \in Captures
    <3>1. PICK c \in job[s].todo :
            dir'.records = dir.records \cup {export_record(job[s].view, c)}
      BY <2>4, WritesTyped
    <3>2. c \in Captures
      BY <2>4, <3>1, WritersTyped DEF ExportWrites, WriteJob
    <3>3. export_record(job[s].view, c).doc = c
      BY DEF export_record
    <3>. QED
      BY <1>1, <2>4, <3>1, <3>2, <3>3, WritesTyped DEF TypeOK
  <2>5. ASSUME NEW s \in Scouts, ExportEnds(s)
        PROVE  /\ dir' = [state |-> dir'.state, records |-> dir'.records, of |-> dir'.of]
               /\ dir'.state = "complete" /\ dir'.records = dir.records
    <3>1. /\ dir = [state |-> dir.state, records |-> dir.records, of |-> dir.of]
          /\ dir' = [dir EXCEPT !.state = "complete"]
      BY <1>1, <2>5 DEF ExportEnds, TypeOK
    <3>2. dir' = [state |-> "complete", records |-> dir.records, of |-> dir.of]
      BY <3>1
    <3>. QED
      BY <3>2
  <2>6. ASSUME NEW s \in Scouts, DirStep(s)
        PROVE  \/ UNCHANGED dir \/ dir' = Absent \/ ExportReads(s) \/ ExportWrites(s)
               \/ ExportEnds(s)
    BY <2>6 DEF DirStep, ExportStarts, ExportFails
  <2>7. \/ UNCHANGED dir \/ dir' = Absent \/ \E s \in Scouts : DirStep(s)
    BY StepCases, Moves DEF Upgrade, Clear, vars
  <2>. QED
    BY <1>1, <2>1, <2>2, <2>3, <2>4, <2>5, <2>6, <2>7 DEF TypeOK
<1>8. inits' \in 0..MaxInits /\ commands' \in 0..MaxCommands
  <2>1. inits \in 0..MaxInits /\ commands \in 0..MaxCommands
    BY <1>1 DEF TypeOK
  <2>2. inits' = inits \/ (inits < MaxInits /\ inits' = inits + 1)
    BY DEF Next, InitChecks, InitSkips, InitFills, InitLinks, InitRefused, Extract, ExtractEnds,
           Shows, Ingest, IngestRefused, ExportStarts, ExportReads, ExportWrites, ExportEnds,
           ExportFails, Dies, Upgrade, Clear, vars
  <2>3. commands' = commands \/ (commands < MaxCommands /\ commands' = commands + 1)
    BY DEF Next, InitChecks, InitSkips, InitFills, InitLinks, InitRefused, Extract, ExtractEnds,
           Shows, Ingest, IngestRefused, ExportStarts, ExportReads, ExportWrites, ExportEnds,
           ExportFails, Dies, Upgrade, Clear, Starts, vars
  <2>. QED
    BY <1>1, <2>1, <2>2, <2>3
<1>. QED
  BY <1>2, <1>3, <1>4, <1>5, <1>6, <1>7, <1>8 DEF TypeOK
-------------------------------------------------------------------------------
(* The database files. *)
InitsOK == \A s \in Scouts : InitOK(job[s])

LEMMA TargetStep == Inv /\ [Next]_vars => InitsOK' /\ CorpusFirst' /\ OneTarget'
<1>. SUFFICES ASSUME Inv, [Next]_vars PROVE InitsOK' /\ CorpusFirst' /\ OneTarget'
  OBVIOUS
<1>. USE DEF base, text
<1>1. /\ TypeOK /\ CorpusFirst /\ OneTarget /\ target \in [Dbs -> Languages \cup {None}]
      /\ None \notin Languages /\ \A s \in Scouts : InitOK(job[s]) /\ job[s] \in Job
  BY ExportAssumption DEF Inv, JobsOK, TypeOK
<1>2. ASSUME UNCHANGED <<target, slipped>>,
             \A s \in Scouts : InitOK(job[s]) => InitOK(job[s])'
      PROVE  InitsOK' /\ CorpusFirst' /\ OneTarget'
  BY <1>1, <1>2 DEF InitsOK, CorpusFirst, OneTarget
<1>3. ASSUME NEW s \in Scouts, Extracts(s) \/ ExtractEnds(s) \/ EndStep(s) \/ Ingest(s) \/ DirStep(s)
      PROVE  InitsOK' /\ CorpusFirst' /\ OneTarget'
  <2>1. job'[s].stage \notin {"init", "link"}
    <3>1. CASE Extracts(s)
      <4>1. job'[s] \in TextJob
        BY <3>1, ExtractsTyped DEF Extracts
      <4>. QED
        BY <4>1 DEF TextJob
    <3>2. CASE ExtractEnds(s)
      BY <3>2, ExtractEndsTyped
    <3>3. CASE EndStep(s) \/ Ingest(s)
      <4>1. job'[s] = Idle
        BY <3>3, Moves
      <4>. QED
        BY <4>1 DEF Idle
    <3>4. CASE DirStep(s)
      <4>1. job'[s].stage \in {"idle", "export", "write"}
        BY <3>4, Moves
      <4>. QED
        BY <4>1
    <3>. QED
      BY <1>3, <3>1, <3>2, <3>3, <3>4
  <2>3. UNCHANGED <<target, slipped>>
    BY <1>3 DEF Extracts, Extract, ExtractEnds, EndStep, Shows, IngestRefused, Dies, Ingest,
       DirStep, ExportStarts, ExportReads, ExportWrites, ExportEnds, ExportFails
  <2>4. InitOK(job[s])'
    BY <2>1 DEF InitOK
  <2>. QED
    BY <1>2, <1>3, <2>3, <2>4, Moves DEF InitOK
<1>4. ASSUME NEW s \in Scouts, NEW l \in Languages, InitChecks(s, l)
      PROVE  InitsOK' /\ CorpusFirst' /\ OneTarget'
  <2>1. UNCHANGED <<target, slipped>> /\ \A d \in Dbs : target[d] \in {None, l}
    BY <1>4 DEF InitChecks
  <2>2. InitOK(job[s])'
    BY <1>4, <2>1, ChecksTyped DEF InitOK
  <2>. QED
    BY <1>2, <1>4, <2>1, <2>2, ChecksTyped DEF InitOK
<1>5. ASSUME NEW s \in Scouts, InitFills(s) \/ InitRefused(s)
      PROVE  InitsOK' /\ CorpusFirst' /\ OneTarget'
  <2>1. UNCHANGED <<target, slipped>>
    BY <1>5 DEF InitFills, InitRefused
  <2>2. job[s].stage \in {"init", "link"} /\ InitOK(job[s])
    BY <1>1, <1>5 DEF InitFills, InitRefused, At
  <2>3. InitOK(job[s])'
    <3>1. CASE job'[s] = Idle
      BY <3>1 DEF InitOK, Idle
    <3>2. CASE InitFills(s)
      <4>1. job[s] \in InitJob /\ job'[s] = [job[s] EXCEPT !.stage = "link"]
        BY <1>1, <1>5, <3>2, InitSteps DEF InitFills, TypeOK
      <4>2. /\ job'[s].db = job[s].db /\ job'[s].language = job[s].language
            /\ job'[s].seen = job[s].seen
        BY <4>1 DEF InitJob
      <4>. QED
        BY <2>1, <2>2, <4>2 DEF InitOK
    <3>3. CASE InitRefused(s)
      BY <1>1, <3>1, <3>3, EndsTyped DEF InitRefused
    <3>. QED
      BY <1>5, <3>2, <3>3
  <2>. QED
    BY <1>2, <1>5, <2>1, <2>3, InitSteps DEF InitOK
<1>6. ASSUME NEW s \in Scouts, InitSkips(s)
      PROVE  InitsOK' /\ CorpusFirst' /\ OneTarget'
  <2>1. /\ job[s] \in InitJob /\ InitOK(job[s]) /\ job[s].stage = "init"
        /\ target[job[s].db] # None /\ UNCHANGED target
        /\ slipped' = (slipped \/ job[s].db \notin job[s].seen)
        /\ job'[s] = Idle \/ (job[s].db = "corpus" /\ job'[s].db = "other"
                               /\ job'[s].language = job[s].language
                               /\ job'[s].seen = job[s].seen)
    BY <1>1, <1>6, InitSteps DEF InitSkips, InitFills, At
  <2>2. slipped => slipped'
    BY <2>1
  <2>3. job[s].db = "corpus" => slipped' \/ target["corpus"] = job[s].language
    BY <2>1 DEF InitOK
  <2>4. InitOK(job[s])'
    BY <2>1, <2>3, IdleOK DEF InitOK, Idle
  <2>5. \A q \in Scouts \ {s} : InitOK(job[q])'
    BY <1>1, <1>6, <2>1, <2>2, InitSteps DEF InitOK
  <2>. QED
    BY <1>1, <2>1, <2>2, <2>4, <2>5 DEF InitsOK, CorpusFirst, OneTarget
<1>7. ASSUME NEW s \in Scouts, InitLinks(s)
      PROVE  InitsOK' /\ CorpusFirst' /\ OneTarget'
  <2>1. /\ job[s] \in InitJob /\ InitOK(job[s]) /\ job[s].stage = "link" /\ UNCHANGED slipped
        /\ target[job[s].db] \in {None, job[s].language}
        /\ target' = [target EXCEPT ![job[s].db] = job[s].language]
        /\ job'[s] = Idle \/ (job[s].db = "corpus" /\ job'[s].db = "other"
                               /\ job'[s].language = job[s].language
                               /\ job'[s].seen = job[s].seen)
    BY <1>1, <1>7, InitSteps DEF InitLinks, InitFills, At
  <2>2. job[s].db \in {"corpus", "other"} /\ job[s].language \in Languages /\ job[s].seen \subseteq Dbs
    BY <2>1 DEF InitJob, Dbs
  <2>3. \A d \in Dbs : /\ d = job[s].db => target'[d] = job[s].language
                       /\ d # job[s].db => target'[d] = target[d]
                       /\ target[d] # None => target'[d] = target[d]
    BY <1>1, <2>1, <2>2 DEF Dbs
  <2>4. "corpus" \in Dbs /\ "other" \in Dbs
    BY DEF Dbs
  <2>5. InitOK(job[s])'
    <3>1. CASE job'[s] = Idle
      BY <3>1 DEF InitOK, Idle
    <3>2. CASE job[s].db = "corpus" /\ job'[s].db = "other"
               /\ job'[s].language = job[s].language /\ job'[s].seen = job[s].seen
      BY <1>1, <2>1, <2>2, <2>3, <2>4, <3>2 DEF InitOK
    <3>. QED
      BY <2>1, <3>1, <3>2
  <2>6. \A q \in Scouts \ {s} : InitOK(job[q])'
    <3>1. ASSUME NEW q \in Scouts \ {s}, job[q].stage \in {"init", "link"} PROVE InitOK(job[q])'
      <4>1. /\ job'[q] = job[q] /\ job[q] \in InitJob /\ InitOK(job[q])
        BY <1>1, <1>7, <3>1, InitSteps, JobShapes
      <4>2. job[q].seen \subseteq Dbs /\ job[q].language # None
        BY <1>1, <4>1 DEF InitJob
      <4>3. \A d \in job[q].seen : target'[d] = job[q].language
        BY <2>3, <3>1, <4>1, <4>2 DEF InitOK
      <4>4. job[q].db = "other" =>
              target'["corpus"] # None /\ (slipped' \/ target'["corpus"] = job[q].language)
        BY <2>1, <2>3, <2>4, <3>1, <4>1 DEF InitOK
      <4>. QED
        BY <4>1, <4>3, <4>4 DEF InitOK
    <3>. QED
      BY <1>7, <3>1, InitSteps DEF InitOK
  <2>7. CorpusFirst' /\ OneTarget'
    BY <1>1, <2>1, <2>2, <2>3, <2>4 DEF CorpusFirst, OneTarget, InitOK
  <2>. QED
    BY <2>5, <2>6, <2>7 DEF InitsOK
<1>8. CASE Upgrade \/ Clear \/ UNCHANGED vars
  <2>1. UNCHANGED <<target, slipped, job>>
    BY <1>8 DEF Upgrade, Clear, vars
  <2>. QED
    BY <1>2, <2>1 DEF InitOK
<1>. QED
  BY <1>3, <1>4, <1>5, <1>6, <1>7, <1>8, StepCases DEF InitStep
-------------------------------------------------------------------------------
(* The Markdown and the documents. *)
TextsOK == \A s \in Scouts : TextOK(job[s])

LEMMA LastOfOne == \A v : Last(<<v>>) = v
BY DEF Last

LEMMA TextStep == Inv /\ [Next]_vars => TextsOK' /\ OneMarkdown' /\ SpansAreOfTheMarkdown'
<1>. SUFFICES ASSUME Inv, [Next]_vars PROVE TextsOK' /\ OneMarkdown' /\ SpansAreOfTheMarkdown'
  OBVIOUS
<1>. USE DEF base, text
<1>1. /\ TypeOK /\ OneMarkdown /\ SpansAreOfTheMarkdown
      /\ markdowns \in [Captures -> Seq(Versions)] /\ docs \in [Captures -> Document \cup {None}]
      /\ None \notin Document /\ \A s \in Scouts : TextOK(job[s]) /\ job[s] \in Job
  BY ExportAssumption DEF Inv, JobsOK, TypeOK
<1>2. ASSUME UNCHANGED <<markdowns, raced, docs>>,
             \A s \in Scouts : TextOK(job[s]) => TextOK(job[s])'
      PROVE  TextsOK' /\ OneMarkdown' /\ SpansAreOfTheMarkdown'
  BY <1>1, <1>2 DEF TextsOK, OneMarkdown, SpansAreOfTheMarkdown
<1>3. ASSUME NEW s \in Scouts, InitStep(s) \/ EndStep(s) \/ DirStep(s)
      PROVE  TextsOK' /\ OneMarkdown' /\ SpansAreOfTheMarkdown'
  <2>1. job'[s].stage \notin {"defuddle", "judge"} /\ UNCHANGED <<markdowns, raced, docs>>
    BY <1>3, Moves DEF Idle
  <2>2. TextOK(job[s])'
    BY <2>1 DEF TextOK
  <2>3. \A q \in Scouts \ {s} : job'[q] = job[q]
    BY <1>3, Moves
  <2>. QED
    BY <1>2, <2>1, <2>2, <2>3 DEF TextOK
<1>4. ASSUME NEW s \in Scouts, NEW c \in Captures, NEW j \in Judgments[c],
             NEW replace \in BOOLEAN, Extract(s, c, j, replace)
      PROVE  TextsOK' /\ OneMarkdown' /\ SpansAreOfTheMarkdown'
  <2>1. UNCHANGED <<markdowns, raced, docs>> /\ \A q \in Scouts \ {s} : job'[q] = job[q]
    BY <1>4, ExtractsTyped DEF Extract
  <2>2. TextOK(job[s])'
    <3>1. CASE c \in raced \/ job'[s].stage = "defuddle"
      BY <1>4, <2>1, <3>1, ExtractsTyped DEF TextOK
    <3>2. CASE c \notin raced /\ job'[s].stage # "defuddle"
      <4>1. /\ job'[s].stage = "judge" /\ job'[s].doc = c /\ markdowns[c] # <<>>
            /\ job'[s].markdown = Last(markdowns[c])
        BY <1>4, <3>2, ExtractsTyped
      <4>2. PICK v \in Versions : markdowns[c] = <<v>>
        BY <1>1, <3>2, <4>1 DEF OneMarkdown
      <4>3. job'[s].markdown = v
        BY <4>1, <4>2, LastOfOne
      <4>. QED
        BY <2>1, <4>1, <4>2, <4>3 DEF TextOK
    <3>. QED
      BY <3>1, <3>2
  <2>. QED
    BY <1>2, <2>1, <2>2 DEF TextOK
<1>5. ASSUME NEW s \in Scouts, ExtractEnds(s)
      PROVE  TextsOK' /\ OneMarkdown' /\ SpansAreOfTheMarkdown'
  <2>. DEFINE c == job[s].doc
              m == job[s].markdown
  <2>1. /\ c \in Captures /\ m \in Versions /\ job[s].stage = "defuddle"
        /\ markdowns' = [markdowns EXCEPT ![c] = Append(@, m)]
        /\ job'[s].stage = "judge" /\ job'[s].doc = c /\ job'[s].markdown = m
        /\ \A q \in Scouts \ {s} : job'[q] = job[q]
    BY <1>5, ExtractEndsTyped DEF TextJob
  <2>2. /\ UNCHANGED docs /\ raced \subseteq raced'
        /\ raced' = IF \E q \in Scouts \ {s} : At(q, "defuddle") /\ job[q].doc = c
                    THEN raced \cup {c} ELSE raced
    BY <1>5 DEF ExtractEnds
  <2>. HIDE DEF c, m
  <2>3. c \in raced \/ markdowns[c] = <<>>
    BY <1>1, <2>1 DEF TextOK, c
  <2>4. /\ \A b \in Captures \ {c} : markdowns'[b] = markdowns[b]
        /\ c \in raced \/ markdowns'[c] = <<m>>
    <3>1. \A b \in Captures \ {c} : markdowns'[b] = markdowns[b]
      BY <1>1, <2>1
    <3>2. markdowns'[c] = Append(markdowns[c], m)
      BY <1>1, <2>1
    <3>3. Append(<<>>, m) = <<m>>
      OBVIOUS
    <3>. QED
      BY <2>3, <3>1, <3>2, <3>3
  <2>5. ASSUME NEW q \in Scouts PROVE TextOK(job[q])'
    <3>1. CASE q = s
      BY <2>1, <2>2, <2>4, <3>1 DEF TextOK
    <3>2. CASE q # s /\ job[q].stage \in {"defuddle", "judge"}
      <4>1. job'[q] = job[q] /\ TextOK(job[q]) /\ job[q].doc \in Captures
        BY <1>1, <2>1, <3>2, JobShapes DEF TextJob
      <4>2. CASE job[q].doc # c
        BY <2>2, <2>4, <4>1, <4>2 DEF TextOK
      <4>3. CASE job[q].doc = c /\ job[q].stage = "defuddle"
        BY <2>2, <3>2, <4>1, <4>3 DEF At, TextOK
      <4>4. CASE job[q].doc = c /\ job[q].stage = "judge"
        <5>1. <<job[q].markdown>> # <<>>
          OBVIOUS
        <5>. QED
          BY <2>2, <2>3, <4>1, <4>4, <5>1 DEF TextOK
      <4>. QED
        BY <3>2, <4>2, <4>3, <4>4
    <3>3. CASE q # s /\ job[q].stage \notin {"defuddle", "judge"}
      BY <2>1, <3>3 DEF TextOK
    <3>. QED
      BY <3>1, <3>2, <3>3
  <2>6. c \in raced \/ docs[c] = None
    <3>1. ASSUME c \notin raced, docs[c] # None PROVE FALSE
      <4>1. markdowns[c] = <<docs[c].markdown>>
        BY <1>1, <2>1, <3>1 DEF OneMarkdown
      <4>. QED
        BY <2>3, <3>1, <4>1
    <3>. QED
      BY <3>1
  <2>7. OneMarkdown'
    BY <1>1, <2>1, <2>2, <2>4, <2>6 DEF OneMarkdown
  <2>8. SpansAreOfTheMarkdown'
    BY <1>1, <2>2 DEF SpansAreOfTheMarkdown
  <2>. QED
    BY <2>5, <2>7, <2>8 DEF TextsOK
<1>6. ASSUME NEW s \in Scouts, Ingest(s)
      PROVE  TextsOK' /\ OneMarkdown' /\ SpansAreOfTheMarkdown'
  <2>. DEFINE c == job[s].doc
              m == job[s].markdown
  <2>1. /\ c \in Captures /\ job[s].stage = "judge" /\ m \in Versions
        /\ \A b \in Captures \ {c} : docs'[b] = docs[b]
        /\ docs'[c].judged = job[s].judged /\ docs'[c].spans = m
        /\ docs'[c].markdown = IF docs[c] = None THEN m ELSE docs[c].markdown
    BY <1>6, IngestTyped DEF TextJob
  <2>2. /\ UNCHANGED <<markdowns, raced>> /\ job'[s] = Idle
        /\ \A q \in Scouts \ {s} : job'[q] = job[q]
    BY <1>6, Moves
  <2>3. m \in Quoted[job[s].judged]
    BY <1>6 DEF Ingest, Located
  <2>4. c \notin raced => markdowns[c] = <<m>>
    BY <1>1, <2>1 DEF TextOK
  <2>. HIDE DEF c, m
  <2>5. c \notin raced => docs'[c].markdown = m
    <3>1. ASSUME c \notin raced, docs[c] # None PROVE docs[c].markdown = m
      <4>1. markdowns[c] = <<docs[c].markdown>> /\ markdowns[c] = <<m>>
        BY <1>1, <2>1, <2>4, <3>1 DEF OneMarkdown
      <4>2. <<docs[c].markdown>>[1] = <<m>>[1]
        BY <4>1
      <4>. QED
        BY <4>2
    <3>. QED
      BY <2>1, <3>1
  <2>6. TextsOK'
    BY <1>1, <2>2, IdleOK DEF TextsOK, TextOK, Idle
  <2>7. OneMarkdown'
    BY <1>1, <2>1, <2>2, <2>4, <2>5 DEF OneMarkdown
  <2>8. SpansAreOfTheMarkdown'
    BY <1>1, <2>1, <2>2, <2>3, <2>5 DEF SpansAreOfTheMarkdown
  <2>. QED
    BY <2>6, <2>7, <2>8
<1>7. CASE Upgrade \/ Clear \/ UNCHANGED vars
  <2>1. UNCHANGED <<markdowns, raced, docs, job>>
    BY <1>7 DEF Upgrade, Clear, vars
  <2>. QED
    BY <1>2, <2>1 DEF TextOK
<1>. QED
  BY <1>3, <1>4, <1>5, <1>6, <1>7, StepCases DEF Extracts
-------------------------------------------------------------------------------
(* The directory. *)
WritesOK == \A s \in Scouts : WriteOK(job[s])

LEMMA WriteStep ==
  Inv /\ [Next]_vars => WritesOK' /\ OneWriter' /\ RecordsOfTheView' /\ CompleteIsWhole'
<1>. SUFFICES ASSUME Inv, [Next]_vars
              PROVE  WritesOK' /\ OneWriter' /\ RecordsOfTheView' /\ CompleteIsWhole'
  OBVIOUS
<1>. DEFINE Writer(q) == job[q].stage \in {"export", "write"}
<1>1. /\ TypeOK /\ OneWriter /\ RecordsOfTheView /\ CompleteIsWhole
      /\ \A s \in Scouts : WriteOK(job[s])
  BY DEF Inv, JobsOK
<1>2. ASSUME UNCHANGED dir, NEW s \in Scouts, job'[s].stage \notin {"export", "write"},
             \A q \in Scouts \ {s} : job'[q] = job[q]
      PROVE  WritesOK' /\ OneWriter' /\ RecordsOfTheView' /\ CompleteIsWhole'
  BY <1>1, <1>2 DEF WritesOK, WriteOK, OneWriter, RecordsOfTheView, CompleteIsWhole
<1>3. ASSUME NEW s \in Scouts,
             InitStep(s) \/ Extracts(s) \/ ExtractEnds(s) \/ EndStep(s) \/ Ingest(s)
      PROVE  WritesOK' /\ OneWriter' /\ RecordsOfTheView' /\ CompleteIsWhole'
  <2>1. UNCHANGED dir /\ \A q \in Scouts \ {s} : job'[q] = job[q]
    BY <1>3, Moves
  <2>2. job'[s].stage \notin {"export", "write"}
    <3>1. CASE Extracts(s)
      <4>1. job'[s] \in TextJob
        BY <3>1, ExtractsTyped DEF Extracts
      <4>. QED
        BY <4>1 DEF TextJob
    <3>2. CASE ExtractEnds(s)
      BY <3>2, ExtractEndsTyped
    <3>3. CASE InitStep(s)
      BY <3>3, Moves
    <3>4. CASE EndStep(s) \/ Ingest(s)
      BY <3>4, Moves DEF Idle
    <3>. QED
      BY <1>3, <3>1, <3>2, <3>3, <3>4
  <2>. QED
    BY <1>2, <2>1, <2>2
<1>4. ASSUME NEW s \in Scouts, ExportStarts(s)
      PROVE  WritesOK' /\ OneWriter' /\ RecordsOfTheView' /\ CompleteIsWhole'
  <2>1. /\ UNCHANGED dir /\ \A q \in Scouts : ~Writer(q)
        /\ job' = [job EXCEPT ![s] = [stage |-> "export"]]
    BY <1>4 DEF ExportStarts
  <2>2. job'[s] = [stage |-> "export"] /\ \A q \in Scouts \ {s} : job'[q] = job[q]
    BY <1>1, <2>1 DEF TypeOK
  <2>3. job'[s].stage = "export"
    BY <2>2
  <2>4. WritesOK' /\ OneWriter'
    BY <2>1, <2>2, <2>3 DEF WritesOK, WriteOK, OneWriter
  <2>. QED
    BY <1>1, <2>1, <2>4 DEF RecordsOfTheView, CompleteIsWhole
<1>5. ASSUME NEW s \in Scouts, Writer(s), DirStep(s)
      PROVE  /\ \A q \in Scouts \ {s} : job'[q] = job[q] /\ ~Writer(q)
             /\ OneWriter'
  <2>1. \A q \in Scouts \ {s} : job'[q] = job[q] /\ ~Writer(q)
    BY <1>1, <1>5, Moves DEF OneWriter
  <2>. QED
    BY <2>1 DEF OneWriter
<1>6. ASSUME NEW s \in Scouts, ExportReads(s)
      PROVE  WritesOK' /\ OneWriter' /\ RecordsOfTheView' /\ CompleteIsWhole'
  <2>1. Writer(s) /\ DirStep(s)
    BY <1>6 DEF ExportReads, At, DirStep
  <2>2. WriteOK(job[s])'
    <3>1. {r.doc : r \in {}} = ready(docs) \ ready(docs)
      OBVIOUS
    <3>. QED
      BY <1>6, <3>1, ReadsTyped DEF WriteOK
  <2>3. \A q \in Scouts \ {s} : WriteOK(job[q])'
    BY <1>5, <2>1 DEF WriteOK
  <2>. QED
    BY <1>5, <1>6, <2>1, <2>2, <2>3, ReadsTyped DEF WritesOK, RecordsOfTheView, CompleteIsWhole
<1>7. ASSUME NEW s \in Scouts, ExportWrites(s)
      PROVE  WritesOK' /\ OneWriter' /\ RecordsOfTheView' /\ CompleteIsWhole'
  <2>1. Writer(s) /\ DirStep(s) /\ At(s, "write")
    BY <1>7 DEF ExportWrites, At, DirStep
  <2>2. PICK c \in job[s].todo :
          /\ job'[s].todo = job[s].todo \ {c}
          /\ dir'.records = dir.records \cup {export_record(job[s].view, c)}
    BY <1>7, WritesTyped
  <2>3. /\ dir.of = job[s].view /\ dir.state = "partial" /\ job[s].todo \subseteq ready(job[s].view)
        /\ {r.doc : r \in dir.records} = ready(job[s].view) \ job[s].todo
        /\ job'[s].view = job[s].view /\ job'[s].stage = "write"
        /\ dir'.of = dir.of /\ dir'.state = dir.state
    BY <1>7, <2>1, WritersTyped, WritesTyped
  <2>4. export_record(job[s].view, c).doc = c
    BY DEF export_record
  <2>5. {r.doc : r \in dir'.records} = ready(job[s].view) \ (job[s].todo \ {c})
    <3>1. {r.doc : r \in dir'.records} = {r.doc : r \in dir.records} \cup {c}
      BY <2>2, <2>4
    <3>. QED
      BY <2>2, <2>3, <3>1
  <2>6. WriteOK(job[s])'
    BY <2>2, <2>3, <2>5 DEF WriteOK
  <2>7. \A q \in Scouts \ {s} : WriteOK(job[q])'
    BY <1>5, <2>1 DEF WriteOK
  <2>8. RecordsOfTheView'
    <3>1. c \in ready(dir'.of) /\ dir'.of = job[s].view
      BY <2>3
    <3>. QED
      BY <1>1, <2>2, <2>3, <2>4, <3>1 DEF RecordsOfTheView
  <2>. QED
    BY <1>5, <2>1, <2>3, <2>6, <2>7, <2>8 DEF WritesOK, CompleteIsWhole
<1>8. ASSUME NEW s \in Scouts, ExportEnds(s) \/ ExportFails(s)
      PROVE  WritesOK' /\ OneWriter' /\ RecordsOfTheView' /\ CompleteIsWhole'
  <2>1. Writer(s) /\ DirStep(s) /\ At(s, "write") /\ job'[s] = Idle
    BY <1>1, <1>8, EndsTyped DEF ExportEnds, ExportFails, At, DirStep
  <2>2. WritesOK'
    BY <1>5, <2>1, IdleOK DEF WritesOK, WriteOK, Idle
  <2>3. RecordsOfTheView' /\ CompleteIsWhole'
    <3>1. CASE ExportFails(s)
      BY <3>1 DEF ExportFails, Absent, RecordsOfTheView, CompleteIsWhole
    <3>2. CASE ExportEnds(s)
      <4>1. /\ dir = [state |-> dir.state, records |-> dir.records, of |-> dir.of]
            /\ dir' = [dir EXCEPT !.state = "complete"] /\ job[s].todo = {}
        BY <1>1, <3>2 DEF ExportEnds, TypeOK
      <4>2. dir' = [state |-> "complete", records |-> dir.records, of |-> dir.of]
        BY <4>1
      <4>3. dir'.records = dir.records /\ dir'.of = dir.of
        BY <4>2
      <4>4. {r.doc : r \in dir.records} = ready(dir.of)
        BY <2>1, <4>1, WritersTyped
      <4>. QED
        BY <1>1, <4>3, <4>4 DEF RecordsOfTheView, CompleteIsWhole
    <3>. QED
      BY <1>8, <3>1, <3>2
  <2>. QED
    BY <1>5, <2>1, <2>2, <2>3
<1>9. CASE Clear
  <2>1. UNCHANGED job /\ dir' = Absent /\ \A s \in Scouts : ~At(s, "write")
    BY <1>9 DEF Clear
  <2>. QED
    BY <1>1, <2>1 DEF Absent, At, WritesOK, WriteOK, OneWriter, RecordsOfTheView, CompleteIsWhole
<1>10. CASE Upgrade \/ UNCHANGED vars
  <2>1. UNCHANGED <<job, dir>>
    BY <1>10 DEF Upgrade, vars
  <2>. QED
    BY <1>1, <2>1 DEF WritesOK, WriteOK, OneWriter, RecordsOfTheView, CompleteIsWhole
<1>. QED
  BY <1>3, <1>4, <1>6, <1>7, <1>8, <1>9, <1>10, StepCases DEF DirStep
-------------------------------------------------------------------------------
(* Induction, for sets in the place of predicates.                            *)
LEMMA LeastNumber ==
  ASSUME NEW S, S \subseteq Nat, S # {}
  PROVE  \E n \in S : \A m \in S : n <= m
<1>. DEFINE R == OpToRel(<, Nat)
<1>1. IsWellFoundedOn(R, Nat)
  BY NatLessThanWellFounded
<1>2. \A m, n \in Nat : m < n => <<m, n>> \in R
  BY DEF OpToRel
<1>. HIDE DEF R
<1>3. PICK n \in S : \A m \in S : <<m, n>> \notin R
  BY <1>1, WFMin, Zenon
<1>4. \A m \in S : ~(m < n)
  BY <1>2, <1>3
<1>5. \A m \in S : n <= m
  BY <1>4
<1>. QED
  BY <1>5

LEMMA Numbers ==
  ASSUME NEW S, 0 \in S, \A n \in Nat : n \in S => n + 1 \in S
  PROVE  Nat \subseteq S
<1>. SUFFICES ASSUME Nat \ S # {} PROVE FALSE
  OBVIOUS
<1>1. PICK n \in Nat \ S : \A m \in Nat \ S : n <= m
  BY LeastNumber
<1>2. n # 0 /\ n - 1 \in Nat
  BY <1>1
<1>3. n - 1 \in S
  BY <1>1, <1>2
<1>. QED
  BY <1>1, <1>2, <1>3
-------------------------------------------------------------------------------
(* The groups of a view. *)
Steps == Cardinality(Captures)
Next1(view, c, R, n) == IF n = 0 THEN {c} ELSE Linked(view, R[n - 1])
Reached(view, c) == CHOOSE R : R = [n \in 0..Steps |-> Next1(view, c, R, n)]

LEMMA KeyOfReached ==
  ASSUME NEW view, NEW c
  PROVE  GroupKey(view, c) = Min(Reached(view, c)[Steps])
BY Zenon DEF GroupKey, Reached, Steps, Next1

LEMMA StepsTyped == Steps \in Nat
BY FS_CardinalityType, ExportAssumption DEF Steps

LEMMA ReachedIs ==
  ASSUME NEW view, NEW c
  PROVE  /\ Reached(view, c)[0] = {c}
         /\ \A n \in 0..Steps : n > 0 => Reached(view, c)[n] = Linked(view, Reached(view, c)[n - 1])
<1>. DEFINE Is(R, m) == R = [n \in 0..m |-> Next1(view, c, R, n)]
            S == {m \in Nat : \E R : Is(R, m)}
<1>1. 0 \in S
  <2>. DEFINE R == [n \in 0..0 |-> {c}]
  <2>1. \A n \in 0..0 : Next1(view, c, R, n) = {c}
    BY DEF Next1
  <2>2. Is(R, 0)
    BY <2>1
  <2>. QED
    BY <2>2
<1>2. ASSUME NEW m \in Nat, m \in S PROVE m + 1 \in S
  <2>1. PICK R : Is(R, m)
    BY <1>2
  <2>. DEFINE Q == [n \in 0..(m + 1) |-> Next1(view, c, R, n)]
  <2>2. ASSUME NEW n \in 0..m PROVE Q[n] = R[n]
    <3>1. Q[n] = Next1(view, c, R, n)
      BY n \in 0..(m + 1)
    <3>2. R[n] = Next1(view, c, R, n)
      BY <2>1
    <3>. QED
      BY <3>1, <3>2
  <2>. HIDE DEF Q
  <2>3. ASSUME NEW n \in 0..(m + 1) PROVE Next1(view, c, R, n) = Next1(view, c, Q, n)
    BY <2>2 DEF Next1
  <2>4. Q = [n \in 0..(m + 1) |-> Next1(view, c, Q, n)]
    BY <2>3 DEF Q
  <2>. QED
    BY <2>4
<1>. HIDE DEF S
<1>3. Steps \in S
  BY <1>1, <1>2, Numbers, StepsTyped
<1>4. Is(Reached(view, c), Steps)
  BY <1>3, Zenon DEF Reached, S
<1>. DEFINE T == Reached(view, c)
<1>5. T = [n \in 0..Steps |-> Next1(view, c, T, n)]
  BY <1>4
<1>. HIDE DEF T
<1>6. \A n \in 0..Steps : T[n] = Next1(view, c, T, n)
  BY <1>5
<1>7. T[0] = {c}
  BY <1>6, StepsTyped DEF Next1
<1>8. \A n \in 0..Steps : n > 0 => T[n] = Linked(view, T[n - 1])
  BY <1>6, StepsTyped DEF Next1
<1>. QED
  BY <1>7, <1>8 DEF T

Closed(view, S) == Linked(view, S) = S

LEMMA ReachedTyped ==
  ASSUME NEW view, NEW c \in Captures
  PROVE  \A n \in 0..Steps : Reached(view, c)[n] \subseteq Captures /\ c \in Reached(view, c)[n]
<1>. DEFINE R == Reached(view, c)
            S == {n \in Nat : n <= Steps => R[n] \subseteq Captures /\ c \in R[n]}
<1>1. 0 \in S
  BY ReachedIs
<1>2. ASSUME NEW n \in Nat, n \in S PROVE n + 1 \in S
  <2>1. CASE n + 1 <= Steps
    <3>1. n <= Steps /\ R[n] \subseteq Captures /\ c \in R[n]
      BY <1>2, <2>1, StepsTyped
    <3>2. R[n + 1] = Linked(view, R[(n + 1) - 1])
      BY <2>1, ReachedIs, StepsTyped
    <3>3. R[n + 1] = Linked(view, R[n])
      BY <3>2
    <3>. QED
      BY <3>1, <3>3 DEF Linked, Families
  <2>. QED
    BY <2>1
<1>. HIDE DEF S
<1>3. Nat \subseteq S
  BY <1>1, <1>2, Numbers
<1>. QED
  BY <1>3, StepsTyped DEF S

(* As many steps as there are captures are enough. *)
LEMMA ReachedClosed ==
  ASSUME NEW view, NEW c \in Captures
  PROVE  Closed(view, Reached(view, c)[Steps])
<1>. DEFINE R == Reached(view, c)
            S == {n \in Nat : n <= Steps => Closed(view, R[n]) \/ Cardinality(R[n]) >= n + 1}
<1>0. \A n \in 0..Steps : R[n] \subseteq Captures /\ IsFiniteSet(R[n]) /\ Cardinality(R[n]) \in Nat /\ Cardinality(R[n]) <= Steps
  BY ReachedTyped, ExportAssumption, FS_Subset, FS_CardinalityType DEF Steps
<1>1. 0 \in S
  <2>1. R[0] = {c} /\ Cardinality({c}) = 1
    BY ReachedIs, FS_Singleton
  <2>. QED
    BY <2>1
<1>2. ASSUME NEW n \in Nat, n \in S PROVE n + 1 \in S
  <2>. SUFFICES ASSUME n + 1 <= Steps PROVE Closed(view, R[n + 1]) \/ Cardinality(R[n + 1]) >= n + 2
    OBVIOUS
  <2>1. n \in 0..Steps /\ n + 1 \in 0..Steps
    BY StepsTyped
  <2>2. R[n + 1] = Linked(view, R[(n + 1) - 1])
    BY <2>1, ReachedIs
  <2>3. R[n + 1] = Linked(view, R[n])
    BY <2>2
  <2>4. CASE Closed(view, R[n])
    BY <2>3, <2>4 DEF Closed
  <2>5. CASE ~Closed(view, R[n]) /\ Cardinality(R[n]) >= n + 1
    <3>1. R[n] \subseteq R[n + 1] /\ R[n] # R[n + 1]
      BY <2>3, <2>5 DEF Closed, Linked
    <3>2. Cardinality(R[n]) <= Cardinality(R[n + 1]) /\ Cardinality(R[n]) # Cardinality(R[n + 1])
      BY <1>0, <2>1, <3>1, FS_Subset
    <3>. QED
      BY <1>0, <2>1, <2>5, <3>2
  <2>. QED
    BY <1>2, <2>1, <2>4, <2>5
<1>. HIDE DEF S
<1>3. Steps \in S
  BY <1>1, <1>2, Numbers, StepsTyped
<1>4. Closed(view, R[Steps]) \/ Cardinality(R[Steps]) >= Steps + 1
  BY <1>3, StepsTyped DEF S
<1>. QED
  BY <1>0, <1>4, StepsTyped

(* It is the least closed set. *)
LEMMA ReachedLeast ==
  ASSUME NEW view, NEW c \in Captures, NEW T, c \in T, Closed(view, T)
  PROVE  Reached(view, c)[Steps] \subseteq T
<1>. DEFINE R == Reached(view, c)
            S == {n \in Nat : n <= Steps => R[n] \subseteq T}
<1>1. 0 \in S
  BY ReachedIs
<1>2. ASSUME NEW n \in Nat, n \in S PROVE n + 1 \in S
  <2>. SUFFICES ASSUME n + 1 <= Steps PROVE R[n + 1] \subseteq T
    OBVIOUS
  <2>1. n <= Steps /\ R[n] \subseteq T
    BY <1>2, StepsTyped
  <2>2. R[n + 1] = Linked(view, R[(n + 1) - 1])
    BY ReachedIs, StepsTyped
  <2>3. R[n + 1] = Linked(view, R[n])
    BY <2>2
  <2>. QED
    BY <2>1, <2>3 DEF Closed, Linked
<1>. HIDE DEF S
<1>3. Steps \in S
  BY <1>1, <1>2, Numbers, StepsTyped
<1>. QED
  BY <1>3, StepsTyped DEF S

(* Families of a view that share an identifier have one key. *)
LEMMA LinkedHaveOneKey ==
  ASSUME NEW view, NEW c \in Families(view), NEW f \in Families(view),
         view[c].judged.ids \cap view[f].judged.ids # {}
  PROVE  GroupKey(view, c) = GroupKey(view, f)
<1>. DEFINE C == Reached(view, c)[Steps]
            F == Reached(view, f)[Steps]
<1>1. c \in Captures /\ f \in Captures /\ Steps \in 0..Steps
  BY StepsTyped DEF Families
<1>2. Closed(view, C) /\ Closed(view, F) /\ c \in C /\ f \in F
  BY <1>1, ReachedClosed, ReachedTyped
<1>3. f \in C /\ c \in F
  BY <1>2 DEF Closed, Linked
<1>4. C = F
  BY <1>1, <1>2, <1>3, ReachedLeast
<1>. QED
  BY <1>4, KeyOfReached
-------------------------------------------------------------------------------
LEMMA InvHolds == Spec => []Inv
<1>1. Inv /\ [Next]_vars => Inv'
  BY TypeStep, TargetStep, TextStep, WriteStep
  DEF Inv, JobsOK, InitsOK, TextsOK, WritesOK
<1>. QED
  BY InitInv, <1>1, PTL DEF Spec

(* The variables keep their types. *)
THEOREM ExportTypeCorrect == Spec => []TypeOK
<1>1. Inv => TypeOK
  BY DEF Inv
<1>. QED
  BY <1>1, InvHolds, PTL

(* The two databases are for one language, for any number of inits at a time  *)
(* and wherever they die, unless one passed over a file made after its check  *)
(* (cmd_init, require_languages).                                             *)
THEOREM AlwaysOneTarget == Spec => []OneTarget
<1>1. Inv => OneTarget
  BY DEF Inv
<1>. QED
  BY <1>1, InvHolds, PTL

(* A document's spans point into the Markdown it names, which has the quotes, *)
(* through any re-judgment and any upgrade of Defuddle, unless two processes  *)
(* extracted the capture at a time (ensure_markdown, cmd_ingest).             *)
THEOREM SpansAlwaysOfTheMarkdown == Spec => []SpansAreOfTheMarkdown
<1>1. Inv => SpansAreOfTheMarkdown
  BY DEF Inv
<1>. QED
  BY <1>1, InvHolds, PTL

(* An export with a manifest has each family that was ready in the one state  *)
(* it was read in, once, and no other (cmd_export).                           *)
THEOREM ExportsAlwaysWhole == Spec => []ExportIsWhole
<1>1. Inv => ExportIsWhole
  BY DEF Inv, CompleteIsWhole, RecordsOfTheView, ExportIsWhole
<1>. QED
  BY <1>1, InvHolds, PTL

(* Two records of an export that share an identifier are of one group of its  *)
(* view, so that they are in one split, whatever is judged while the export   *)
(* writes and however long the chain of identifiers between them              *)
(* (compute_groups, cmd_export).                                              *)
THEOREM ExportsNeverLeak == Spec => []NoLeakInAnExport
<1>1. ASSUME Inv PROVE NoLeakInAnExport
  <2>. SUFFICES ASSUME NEW r \in dir.records, NEW q \in dir.records, r.ids \cap q.ids # {}
                PROVE  r.split = q.split
    BY DEF NoLeakInAnExport
  <2>. DEFINE view == dir.of
  <2>1. /\ r = export_record(view, r.doc) /\ q = export_record(view, q.doc)
        /\ r.doc \in ready(view) /\ q.doc \in ready(view)
    BY <1>1 DEF Inv, RecordsOfTheView
  <2>2. /\ r.ids = view[r.doc].judged.ids /\ r.split = Split[GroupKey(view, r.doc)]
        /\ q.ids = view[q.doc].judged.ids /\ q.split = Split[GroupKey(view, q.doc)]
    <3>1. \A v, c : /\ export_record(v, c).ids = v[c].judged.ids
                    /\ export_record(v, c).split = Split[GroupKey(v, c)]
      BY DEF export_record
    <3>. QED
      BY <2>1, <3>1, Zenon
  <2>. HIDE DEF view
  <2>3. r.doc \in Families(view) /\ q.doc \in Families(view)
    BY <2>1 DEF ready
  <2>4. GroupKey(view, r.doc) = GroupKey(view, q.doc)
    BY <2>2, <2>3, LinkedHaveOneKey
  <2>. QED
    BY <2>2, <2>4
<1>. QED
  BY <1>1, InvHolds, PTL
===============================================================================
