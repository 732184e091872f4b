------------------------------ MODULE CorpusExport -----------------------------
(***************************************************************************)
(* From an empty directory to a training export: corpus.py init, extract,  *)
(* ingest and export, run by several processes at a time.                  *)
(* What matters here is where a value comes from: the languages of the two *)
(* database files, the Markdown a span points into, and the one state of   *)
(* the database an export is of.                                           *)
(* CorpusStore has the rules of documents and code cases.                  *)
(***************************************************************************)
EXTENDS Naturals, Sequences, FiniteSetsExt, SequencesExt

CONSTANTS
  Languages,     \* target languages, as init is called with them
  Captures,      \* captured pages: the numbers their sha256 sort by
  Judgments,     \* what scouts judge of each of them
  Quoted,        \* by judgment: the versions of the Markdown with its quotes
  Ids,           \* CVE, GHSA and OSV identifiers
  Splits, Split, \* split_of: the split of a group key
  None,
  Scouts,        \* processes that run corpus.py
  Versions,      \* bound: versions of Defuddle, whose Markdown differs
  MaxInits, MaxCommands

Dbs == {"corpus", "other"}

(* ready: its family may be exported; held: it counts, but its rights or its  *)
(* weakness are open; out: it does not count.                                 *)
Judgment == [ids : SUBSET Ids, use : {"ready", "held", "out"}]
Document == [judged : Judgment, markdown : Versions, spans : Versions]

ASSUME ExportAssumption ==
  /\ Captures \subseteq Nat /\ IsFiniteSet(Captures) /\ Versions \subseteq Nat \ {0}
  /\ Judgments \in [Captures -> SUBSET Judgment]
  /\ Quoted \in [UNION {Judgments[c] : c \in Captures} -> SUBSET Versions]
  /\ Split \in [Captures -> Splits]
  /\ None \notin Document /\ None \notin Languages /\ None \notin Judgment
ASSUME ExportBoundAssumption ==
  MaxInits \in Nat /\ MaxCommands \in Nat

VARIABLES
  target,     \* per database file: the language it was made for
  slipped,    \* history: an init took a file as checked that came after its check
  installed,  \* the version of Defuddle
  markdowns,  \* per capture: the Markdown of its ok Defuddle runs, oldest first
  raced,      \* history: captures that two processes extracted at a time
  docs,       \* documents of corpus.sqlite
  job,        \* per process: what its command has read
  dir,        \* the directory --out names
  inits, commands

base == <<target, slipped>>
text == <<installed, markdowns, raced>>
vars == <<base, text, docs, job, dir, inits, commands>>
-------------------------------------------------------------------------------
Idle == [stage |-> "idle"]
Busy(s) == job[s].stage # "idle"
At(s, stage) == job[s].stage = stage
Ends(s) == job' = [job EXCEPT ![s] = Idle]

(* connect: no command works before init has made the database.  init shares  *)
(* nothing else with the commands, so that all inits come first (a bound).    *)
Starts(s) ==
  /\ ~Busy(s) /\ target["corpus"] # None
  /\ inits = MaxInits /\ \A q \in Scouts : job[q].stage \notin {"init", "link"}
  /\ commands < MaxCommands /\ commands' = commands + 1
-------------------------------------------------------------------------------
(* cmd_init.                                                                  *)

(* Both files are checked before either is made. *)
InitChecks(s, l) ==
  /\ ~Busy(s) /\ inits < MaxInits /\ inits' = inits + 1
  /\ (\A d \in Dbs : target[d] \in {None, l})
  /\ job' = [job EXCEPT ![s] =
               [stage |-> "init", db |-> "corpus", language |-> l,
                seen |-> {d \in Dbs : target[d] # None}]]
  /\ UNCHANGED <<base, text, docs, dir, commands>>

NextFile(s) ==
  IF job[s].db = "other" THEN Ends(s)
  ELSE job' = [job EXCEPT ![s] = [job[s] EXCEPT !.stage = "init", !.db = "other"]]

(* path.exists(): "exists, unchanged". *)
InitSkips(s) ==
  /\ At(s, "init") /\ target[job[s].db] # None
  /\ slipped' = (slipped \/ job[s].db \notin job[s].seen)
  /\ NextFile(s)
  /\ UNCHANGED <<target, text, docs, dir, inits, commands>>

(* The CWE catalog is loaded and a temporary file filled. *)
InitFills(s) ==
  /\ At(s, "init") /\ target[job[s].db] = None
  /\ job' = [job EXCEPT ![s] = [job[s] EXCEPT !.stage = "link"]]
  /\ UNCHANGED <<base, text, docs, dir, inits, commands>>

(* Mutant of InitLinks: the loser of the link goes on. *)
InitLinksAny(s) ==
  /\ At(s, "link")
  /\ target' = [target EXCEPT ![job[s].db] = IF @ = None THEN job[s].language ELSE @]
  /\ NextFile(s)
  /\ UNCHANGED <<slipped, text, docs, dir, inits, commands>>

(* os.link; when another process was first, require_languages. *)
InitLinks(s) ==
  /\ At(s, "link") /\ target[job[s].db] \in {None, job[s].language}
  /\ target' = [target EXCEPT ![job[s].db] = job[s].language]
  /\ NextFile(s)
  /\ UNCHANGED <<slipped, text, docs, dir, inits, commands>>

InitRefused(s) ==
  /\ At(s, "link") /\ target[job[s].db] \notin {None, job[s].language}
  /\ Ends(s)
  /\ UNCHANGED <<base, text, docs, dir, inits, commands>>
-------------------------------------------------------------------------------
(* ensure_markdown.                                                           *)

Upgrade ==
  /\ commands > 0 /\ installed + 1 \in Versions /\ installed' = installed + 1
  /\ UNCHANGED <<base, markdowns, raced, docs, job, dir, inits, commands>>

(* Mutant of Extracted: what an earlier run made is not looked for. *)
ExtractedNever(c) == FALSE

(* extract_run: the newest ok run of the capture. *)
Extracted(c) == markdowns[c] # <<>>

(* The first step of extract and of ingest: the newest run, or a new one.     *)
Extract(s, c, j, replace) ==
  LET with(stage, markdown) ==
        [stage |-> stage, doc |-> c, judged |-> j, replace |-> replace, markdown |-> markdown]
  IN
  /\ Starts(s)
  /\ job' = [job EXCEPT ![s] = IF Extracted(c) THEN with("judge", Last(markdowns[c]))
                               ELSE with("defuddle", installed)]
  /\ UNCHANGED <<base, text, docs, dir, inits>>

(* Defuddle has ended well; its run is added whoever else has added one.      *)
ExtractEnds(s) ==
  LET c == job[s].doc IN
  /\ At(s, "defuddle")
  /\ markdowns' = [markdowns EXCEPT ![c] = Append(@, job[s].markdown)]
  /\ raced' = IF \E q \in Scouts \ {s} : At(q, "defuddle") /\ job[q].doc = c
              THEN raced \cup {c} ELSE raced
  /\ job' = [job EXCEPT ![s] = [job[s] EXCEPT !.stage = "judge"]]
  /\ UNCHANGED <<base, installed, docs, dir, inits, commands>>
-------------------------------------------------------------------------------
(* cmd_extract shows the page and changes nothing more. *)
Shows(s) ==
  /\ At(s, "judge")
  /\ Ends(s)
  /\ UNCHANGED <<base, text, docs, dir, inits, commands>>

(* cmd_ingest: the spans of the quotes are found in the Markdown it was given,  *)
(* and refused if one is not there word for word; a re-judgment keeps the     *)
(* document's own Markdown.                                                   *)
Located(s) == job[s].markdown \in Quoted[job[s].judged]

Ingest(s) ==
  LET c == job[s].doc IN
  /\ At(s, "judge") /\ Located(s) /\ (job[s].replace <=> docs[c] # None)
  /\ docs' = [docs EXCEPT ![c] =
                [judged |-> job[s].judged, spans |-> job[s].markdown,
                 markdown |-> IF docs[c] = None THEN job[s].markdown ELSE docs[c].markdown]]
  /\ Ends(s)
  /\ UNCHANGED <<base, text, dir, inits, commands>>

(* A quote is not found, the capture has a document already, or has none to   *)
(* replace.                                                                   *)
IngestRefused(s) ==
  /\ At(s, "judge")
  /\ ~Located(s) \/ (job[s].replace <=> docs[job[s].doc] = None)
  /\ Ends(s)
  /\ UNCHANGED <<base, text, docs, dir, inits, commands>>
-------------------------------------------------------------------------------
(* cmd_export.                                                                *)
Families(view) == {c \in Captures : view[c] # None /\ view[c].judged.use # "out"}
ready(view) == {c \in Families(view) : view[c].judged.use = "ready"}

Linked(view, S) ==
  S \cup {f \in Families(view) :
            \E c \in S : view[c].judged.ids \cap view[f].judged.ids # {}}

(* compute_groups: the least capture of a family's group. *)
GroupKey(view, c) ==
  LET Reach[n \in 0..Cardinality(Captures)] ==
        IF n = 0 THEN {c} ELSE Linked(view, Reach[n - 1])
  IN Min(Reach[Cardinality(Captures)])

(* Mutant of export_record: the record is read after the snapshot. *)
export_recordLate(view, c) ==
  [doc |-> c, ids |-> IF docs[c] = None THEN {} ELSE docs[c].judged.ids,
   split |-> Split[GroupKey(view, c)]]

export_record(view, c) ==
  [doc |-> c, ids |-> view[c].judged.ids, split |-> Split[GroupKey(view, c)]]

Absent == [state |-> "absent", records |-> {}, of |-> None]

(* The directory is new or empty.  One export writes into it at a time. *)
ExportStarts(s) ==
  /\ Starts(s) /\ dir = Absent
  /\ \A q \in Scouts : job[q].stage \notin {"export", "write"}
  /\ job' = [job EXCEPT ![s] = [stage |-> "export"]]
  /\ UNCHANGED <<base, text, docs, dir, inits>>

(* BEGIN, the groups and the files. *)
ExportReads(s) ==
  /\ At(s, "export")
  /\ job' = [job EXCEPT ![s] = [stage |-> "write", view |-> docs, todo |-> ready(docs)]]
  /\ dir' = [state |-> "partial", records |-> {}, of |-> docs]
  /\ UNCHANGED <<base, text, docs, inits, commands>>

(* In an order that does not matter. *)
ExportWrites(s) ==
  /\ At(s, "write")
  /\ \E c \in job[s].todo :
       /\ dir' = [dir EXCEPT !.records = @ \cup {export_record(job[s].view, c)}]
       /\ job' = [job EXCEPT ![s] = [job[s] EXCEPT !.todo = @ \ {c}]]
  /\ UNCHANGED <<base, text, docs, inits, commands>>

(* Mutant of ExportEnds: the manifest is written whatever stopped the loop. *)
ExportEndsAnyway(s) ==
  /\ At(s, "write")
  /\ dir' = [dir EXCEPT !.state = "complete"]
  /\ Ends(s)
  /\ UNCHANGED <<base, text, docs, inits, commands>>

(* manifest.json comes last. *)
ExportEnds(s) ==
  /\ At(s, "write") /\ job[s].todo = {}
  /\ dir' = [dir EXCEPT !.state = "complete"]
  /\ Ends(s)
  /\ UNCHANGED <<base, text, docs, inits, commands>>

(* An error, or an interrupt: the directory is removed. *)
ExportFails(s) ==
  /\ At(s, "write")
  /\ dir' = Absent
  /\ Ends(s)
  /\ UNCHANGED <<base, text, docs, inits, commands>>

(* Killed, or refused on the way (Defuddle fails): transactions roll back,    *)
(* files stay as they are.                                                    *)
Dies(s) ==
  /\ Busy(s) /\ Ends(s)
  /\ UNCHANGED <<base, text, docs, dir, inits, commands>>

(* A person moves what an export has left. *)
Clear ==
  /\ dir # Absent /\ (\A s \in Scouts : ~At(s, "write"))
  /\ dir' = Absent
  /\ UNCHANGED <<base, text, docs, job, inits, commands>>
-------------------------------------------------------------------------------
Init ==
  /\ target = [d \in Dbs |-> None] /\ slipped = FALSE
  /\ installed \in Versions
  /\ markdowns = [c \in Captures |-> <<>>] /\ raced = {}
  /\ docs = [c \in Captures |-> None]
  /\ job = [s \in Scouts |-> Idle]
  /\ dir = Absent /\ inits = 0 /\ commands = 0

Next ==
  \/ \E s \in Scouts :
       \/ \E l \in Languages : InitChecks(s, l)
       \/ InitSkips(s) \/ InitFills(s) \/ InitLinks(s) \/ InitRefused(s)
       \/ \E c \in Captures, replace \in BOOLEAN :
            \E j \in Judgments[c] : Extract(s, c, j, replace)
       \/ ExtractEnds(s) \/ Shows(s) \/ Ingest(s) \/ IngestRefused(s)
       \/ ExportStarts(s) \/ ExportReads(s) \/ ExportWrites(s)
       \/ ExportEnds(s) \/ ExportFails(s) \/ Dies(s)
  \/ Upgrade \/ Clear

Spec == Init /\ [][Next]_vars
-------------------------------------------------------------------------------
InitJob == [stage : {"init", "link"}, db : Dbs, language : Languages, seen : SUBSET Dbs]
TextJob == [stage : {"defuddle", "judge"}, doc : Captures, judged : Judgment,
            replace : BOOLEAN, markdown : Versions]
WriteJob == [stage : {"write"}, view : [Captures -> Document \cup {None}],
             todo : SUBSET Captures]
Job == {Idle} \cup InitJob \cup TextJob \cup [stage : {"export"}] \cup WriteJob

(* Types of the state. *)
TypeOK ==
  /\ target \in [Dbs -> Languages \cup {None}] /\ slipped \in BOOLEAN
  /\ installed \in Versions /\ markdowns \in [Captures -> Seq(Versions)]
  /\ raced \subseteq Captures
  /\ docs \in [Captures -> Document \cup {None}]
  /\ job \in [Scouts -> Job]
  /\ dir = [state |-> dir.state, records |-> dir.records, of |-> dir.of]
  /\ dir.state \in {"absent", "partial", "complete"}
  /\ \A r \in dir.records : r.doc \in Captures
  /\ inits \in 0..MaxInits /\ commands \in 0..MaxCommands

(* The two databases are for one language, whoever calls init at a time and   *)
(* wherever one dies, unless an init passed over a file that was made after   *)
(* its check.                                                                 *)
OneTarget ==
  slipped \/ target["corpus"] = None \/ target["other"] = None
          \/ target["corpus"] = target["other"]

(* Spans are offsets into the Markdown the document names, and the quotes     *)
(* they stand for are in it, through any re-judgment and any upgrade of       *)
(* Defuddle, unless two processes extracted the capture at a time.            *)
SpansAreOfTheMarkdown ==
  \A c \in Captures \ raced : docs[c] # None =>
    docs[c].spans = docs[c].markdown /\ docs[c].markdown \in Quoted[docs[c].judged]

(* Two records of one export that share an identifier are in one split,       *)
(* whatever is judged while it is written.                                    *)
NoLeakInAnExport ==
  \A r, q \in dir.records : r.ids \cap q.ids # {} => r.split = q.split

(* An export with a manifest has each family that was ready in one state of   *)
(* the database, once, and no other.                                          *)
ExportIsWhole ==
  dir.state = "complete" =>
    /\ {r.doc : r \in dir.records} = ready(dir.of)
    /\ \A r, q \in dir.records : r.doc = q.doc => r = q
===============================================================================
