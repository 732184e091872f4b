-------------------------------- MODULE FixHunt --------------------------------
(***************************************************************************)
(* The hunts of tools/codeql_validation.  incomplete_fix_hunt.sh takes a   *)
(* worklist of security fixes; it checks out each fix and its parent,      *)
(* builds and analyses both, and appends the verdict that verdict.py makes *)
(* of the ranges snapshot_select.py kept.  full_variant_hunt.sh analyses   *)
(* HEAD, a category at a time, for sarif_to_findings.py.  Queries are      *)
(* edited, steps fail, and a run may be killed.  Git and CodeQL are the    *)
(* outside, and so are the people who run the scripts again.               *)
(***************************************************************************)
EXTENDS Naturals, Sequences, FiniteSets, Functions

CONSTANTS
  Worklist,       \* the fixes to verify, in order
  Limit,          \* how many of them a run takes
  Scope,          \* those the filter of snapshot_select.py lets through
  Hunks,          \* what each of them changed
  Suites,         \* the categories run on HEAD, in order
  Files, Gone,    \* paths, and what a diff calls the new path of a deleted file
  Ruby, Test,     \* files the extractor sees, files is_test takes for tests
  Found,          \* what a version of the queries reports on a tree
  Window,         \* --window
  MaxVersion,     \* bound: versions of the queries
  MaxFaults,      \* bound: steps that fail and runs that are killed
  MaxHeadRuns,    \* bound: runs of full_variant_hunt.sh
  MaxLine         \* bound: line numbers of a tree

Commits == Range(Worklist)
Sides == {"before", "after"}
Trees == Commits \X Sides
Targets == Trees \cup Range(Suites)
Versions == 1..MaxVersion
Result ==
  {r \in [file : Ruby, start : 1..MaxLine, end : 1..MaxLine] : r.start <= r.end}
Hunk == [old : Files, new : Files \cup {Gone}, ps : 0..MaxLine, pl : 0..MaxLine,
         fs : 0..MaxLine, fl : 0..MaxLine]

ASSUME HuntAssumption ==
  /\ Worklist \in Seq(Range(Worklist)) /\ Suites \in Seq(Range(Suites))
  /\ Gone \notin Files /\ Ruby \subseteq Files /\ Test \subseteq Files
  /\ Trees \cap Range(Suites) = {} /\ Window \in Nat
  /\ Limit \in Nat /\ Scope \subseteq Commits
  /\ \A i, j \in DOMAIN Worklist : Worklist[i] = Worklist[j] => i = j
  /\ \A i, j \in DOMAIN Suites : Suites[i] = Suites[j] => i = j
  /\ Hunks \in [Commits -> SUBSET Hunk]
  /\ Found \in [Versions -> [Targets -> SUBSET Result]]
ASSUME HuntBoundAssumption ==
  /\ MaxVersion \in Nat \ {0} /\ MaxFaults \in Nat
  /\ MaxHeadRuns \in Nat /\ MaxLine \in Nat

(* A line of the verdicts file; of, edited (history): the versions of the     *)
(* queries it comes from, and whether they were edited during its job.        *)
Verdict == [tp : BOOLEAN, residual : BOOLEAN, of : [Sides -> Versions], edited : BOOLEAN]
Finding == [suite : Range(Suites), of : Versions, file : Files, line : 1..MaxLine]
Stages == {"check", "tree after", "tree before", "build before", "build after",
           "analyze before", "analyze after", "verdict", "clean up"}

VARIABLES
  version,    \* of the .ql files
  manifest,   \* snapshots.jsonl: the ranges of the fixes it lists
  verdicts,   \* incomplete-fix-verdicts.jsonl: the lines of each fix
  trees,      \* worktrees that exist
  dbs,        \* databases on disk
  sarif,      \* SARIF files: the version each is of, 0 without a file
  hunt,       \* incomplete_fix_hunt.sh: the job, its stage
  head,       \* full_variant_hunt.sh: the suite; those that failed, and the version
              \* of the queries when the run began (history)
  findings,   \* variants-existing.jsonl; the same two of the run that wrote it
  headRuns, faults

disk == <<trees, dbs, sarif>>
vars == <<version, manifest, verdicts, disk, hunt, head, findings, headRuns, faults>>
-------------------------------------------------------------------------------
(* snapshot_select.py and verdict.py.                                         *)

(* The hunks of Ruby files, under the path after the fix. *)
parse_diff(c) == {h \in Hunks[c] : h.new \in Ruby}

overlaps(r, lo, hi) == r.start <= hi /\ lo <= r.end

(* A range without lines stands for the lines around it. *)
Hits(r, start, len) ==
  IF len = 0 THEN overlaps([r EXCEPT !.end = @ + Window], start, start + Window)
  ELSE overlaps(r, start, start + len - 1)

OnParent(results, row) ==
  {r \in results : r.file \notin Test /\ \E h \in row : h.new = r.file /\ Hits(r, h.ps, h.pl)}
OnFix(results, row) ==
  {r \in results : r.file \notin Test /\ \E h \in row : h.new = r.file /\ Hits(r, h.fs, h.fl)}

VerdictOf(c, of, edited) ==
  [tp |-> OnParent(Found[of["before"]][<<c, "before">>], manifest[c]) # {},
   residual |-> OnFix(Found[of["after"]][<<c, "after">>], manifest[c]) # {},
   of |-> of, edited |-> edited]
-------------------------------------------------------------------------------
(* incomplete_fix_hunt.sh.                                                    *)
FromJob(n) == [job |-> n, stage |-> "check", edited |-> FALSE]
Resting == FromJob(0)
Hunting == hunt.job # 0
LastJob == IF Limit < Len(Worklist) THEN Limit ELSE Len(Worklist)
Job == Worklist[hunt.job]
TreesOf(c) == {c} \X Sides
At(stage) == Hunting /\ hunt.stage = stage
Go(stage) == hunt' = [hunt EXCEPT !.stage = stage]

(* The steps that are done once for the fix and once for its parent. *)
Adding(side) == IF side = "before" THEN "tree before" ELSE "tree after"
Building(side) == IF side = "before" THEN "build before" ELSE "build after"
Analyzing(side) == IF side = "before" THEN "analyze before" ELSE "analyze after"

NextJob ==
  hunt' = IF hunt.job < LastJob THEN FromJob(hunt.job + 1) ELSE Resting

(* Something goes wrong that the script does not decide. *)
Fault == faults < MaxFaults /\ faults' = faults + 1
NoFault == UNCHANGED faults
Elsewhere == UNCHANGED <<version, manifest, head, findings, headRuns>>

StartHunt ==
  /\ ~Hunting /\ head.suite = 0 /\ LastJob # 0
  /\ hunt' = FromJob(1)
  /\ UNCHANGED <<disk, verdicts>> /\ NoFault /\ Elsewhere

(* Mutant of sha_in_verdicts: the lines are written with a space the search   *)
(* does not have.                                                             *)
sha_in_verdictsExact(c) == FALSE

sha_in_verdicts(c) == verdicts[c] # <<>>

Check ==
  /\ At("check")
  /\ IF sha_in_verdicts(Job) THEN NextJob ELSE Go("tree after")
  /\ UNCHANGED <<disk, verdicts>> /\ NoFault /\ Elsewhere

AddTree(side, next) ==
  /\ At(Adding(side))
  /\ <<Job, side>> \notin trees /\ trees' = trees \cup {<<Job, side>>}
  /\ Go(next)
  /\ UNCHANGED <<dbs, sarif, verdicts>> /\ NoFault /\ Elsewhere

(* Mutant of TreeFails: the run ends there. *)
TreeFailsStops(side) ==
  /\ At(Adding(side))
  /\ \/ <<Job, side>> \in trees /\ NoFault
     \/ Fault
  /\ trees' = IF side = "before" THEN trees \ {<<Job, "after">>} ELSE trees
  /\ hunt' = Resting
  /\ UNCHANGED <<dbs, sarif, verdicts>> /\ Elsewhere

(* git refuses a path that is there already, or a commit it has not.          *)
TreeFails(side) ==
  /\ At(Adding(side))
  /\ \/ <<Job, side>> \in trees /\ NoFault
     \/ Fault
  /\ trees' = IF side = "before" THEN trees \ {<<Job, "after">>} ELSE trees
  /\ NextJob
  /\ UNCHANGED <<dbs, sarif, verdicts>> /\ Elsewhere

Build(side, next) ==
  /\ At(Building(side))
  /\ dbs' = dbs \cup {<<Job, side>>} /\ Go(next)
  /\ UNCHANGED <<trees, sarif, verdicts>> /\ NoFault /\ Elsewhere

(* What a failed build leaves on disk goes with the databases, of which the   *)
(* first failure removes none.                                                *)
BuildFails(side) ==
  /\ At(Building(side)) /\ Fault
  /\ trees' = trees \ TreesOf(Job)
  /\ IF side = "before" THEN dbs' \in {dbs \ {<<Job, side>>}, dbs \cup {<<Job, side>>}}
     ELSE dbs' = dbs \ TreesOf(Job)
  /\ NextJob
  /\ UNCHANGED <<sarif, verdicts>> /\ Elsewhere

Analyze(side, next) ==
  /\ At(Analyzing(side))
  /\ sarif' = [sarif EXCEPT ![<<Job, side>>] = version] /\ Go(next)
  /\ UNCHANGED <<trees, dbs, verdicts>> /\ NoFault /\ Elsewhere

(* Mutant of AnalyzeFails: a SARIF file that is there counts as an answer.    *)
AnalyzeFailsUnnoticed(side) ==
  /\ At(Analyzing(side)) /\ Fault
  /\ IF sarif[<<Job, side>>] # 0
     THEN /\ Go(IF side = "before" THEN "analyze after" ELSE "verdict")
          /\ UNCHANGED <<trees, dbs>>
     ELSE /\ trees' = trees \ TreesOf(Job) /\ dbs' = dbs \ TreesOf(Job) /\ NextJob
  /\ UNCHANGED <<sarif, verdicts>> /\ Elsewhere

(* No SARIF, or one and an exit code that is not 0: an older one stays. *)
AnalyzeFails(side) ==
  /\ At(Analyzing(side)) /\ Fault
  /\ trees' = trees \ TreesOf(Job) /\ dbs' = dbs \ TreesOf(Job) /\ NextJob
  /\ UNCHANGED <<sarif, verdicts>> /\ Elsewhere

(* A fix the manifest does not list gets a line of text that is no verdict.   *)
Judge ==
  /\ At("verdict")
  /\ verdicts' =
       IF Job \notin DOMAIN manifest THEN verdicts
       ELSE [verdicts EXCEPT ![Job] =
               Append(@, VerdictOf(Job, [s \in Sides |-> sarif[<<Job, s>>]], hunt.edited))]
  /\ Go("clean up")
  /\ UNCHANGED disk /\ NoFault /\ Elsewhere

(* Mutant of CleanUp: the databases stay. *)
CleanUpTrees ==
  /\ At("clean up")
  /\ trees' = trees \ TreesOf(Job) /\ NextJob
  /\ UNCHANGED <<dbs, sarif, verdicts>> /\ NoFault /\ Elsewhere

CleanUp ==
  /\ At("clean up")
  /\ trees' = trees \ TreesOf(Job) /\ dbs' = dbs \ TreesOf(Job) /\ NextJob
  /\ UNCHANGED <<sarif, verdicts>> /\ NoFault /\ Elsewhere

(* The run dies and cleans up nothing. *)
Kill ==
  /\ Hunting /\ Fault /\ hunt' = Resting
  /\ UNCHANGED <<disk, verdicts>> /\ Elsewhere
-------------------------------------------------------------------------------
(* full_variant_hunt.sh and sarif_to_findings.py, when no fix hunt runs.      *)
Suite == Suites[head.suite]
HeadRest == [suite |-> 0, failed |-> {}, since |-> 0]
ForHead == UNCHANGED <<version, manifest, verdicts, trees, dbs, hunt>>

StartHead ==
  /\ ~Hunting /\ head.suite = 0 /\ headRuns < MaxHeadRuns /\ headRuns' = headRuns + 1
  /\ head' = [suite |-> 1, failed |-> {}, since |-> version]
  /\ UNCHANGED <<sarif, findings>> /\ NoFault /\ ForHead

(* Mutant of HeadAnalyze: without --rerun the results of before are taken. *)
HeadAnalyzeCached ==
  /\ head.suite \in DOMAIN Suites
  /\ sarif' = [sarif EXCEPT ![Suite] = IF @ = 0 THEN version ELSE @]
  /\ head' = [head EXCEPT !.suite = @ + 1]
  /\ UNCHANGED <<findings, headRuns>> /\ NoFault /\ ForHead

HeadAnalyze ==
  /\ head.suite \in DOMAIN Suites
  /\ sarif' = [sarif EXCEPT ![Suite] = version]
  /\ head' = [head EXCEPT !.suite = @ + 1]
  /\ UNCHANGED <<findings, headRuns>> /\ NoFault /\ ForHead

HeadFails ==
  /\ head.suite \in DOMAIN Suites /\ Fault
  /\ head' = [head EXCEPT !.suite = @ + 1, !.failed = @ \cup {Suite}]
  /\ UNCHANGED <<sarif, findings, headRuns>> /\ ForHead

(* A rule, a file and a line make one finding; tests are left out. *)
Reported(s, v) ==
  IF v = 0 THEN {}
  ELSE {[suite |-> s, of |-> v, file |-> r.file, line |-> r.start] :
          r \in {q \in Found[v][s] : q.file \notin Test}}

(* Every SARIF file that is there is parsed, whether this run wrote it or an  *)
(* earlier one; without any the findings stay as they are.                    *)
HeadParse ==
  /\ head.suite = Len(Suites) + 1
  /\ findings' =
       IF \A s \in Range(Suites) : sarif[s] = 0 THEN findings
       ELSE [rows |-> UNION {Reported(s, sarif[s]) : s \in Range(Suites)},
             failed |-> head.failed, since |-> head.since]
  /\ head' = HeadRest
  /\ UNCHANGED <<sarif, headRuns>> /\ NoFault /\ ForHead

HeadKill ==
  /\ head.suite # 0 /\ Fault /\ head' = HeadRest
  /\ UNCHANGED <<sarif, findings, headRuns>> /\ ForHead
-------------------------------------------------------------------------------
(* Around the runs.                                                           *)

(* An author edits the queries, also while a run goes on. *)
Edit ==
  /\ version < MaxVersion /\ version' = version + 1
  /\ hunt' = [hunt EXCEPT !.edited = Hunting]
  /\ UNCHANGED <<manifest, verdicts, disk, head, findings, headRuns, faults>>

Rows(S) == [c \in S |-> parse_diff(c)]

(* snapshot_select.py writes the fixes in its scope over the last manifest. *)
Select ==
  /\ manifest' = Rows(Scope) /\ manifest' # manifest
  /\ UNCHANGED <<version, verdicts, disk, hunt, head, findings, headRuns, faults>>

(* It dies on the way, or a half-written manifest is read. *)
SelectPart(S) ==
  /\ Fault /\ manifest' = Rows(S)
  /\ UNCHANGED <<version, verdicts, disk, hunt, head, findings, headRuns>>
-------------------------------------------------------------------------------
Init ==
  /\ version = 1 /\ faults = 0 /\ headRuns = 0
  /\ manifest = Rows({})
  /\ verdicts = [c \in Commits |-> <<>>]
  /\ trees = {} /\ dbs = {} /\ sarif = [t \in Targets |-> 0]
  /\ hunt = Resting /\ head = HeadRest
  /\ findings = [rows |-> {}, failed |-> {}, since |-> 0]

Work ==
  \/ StartHunt \/ Check \/ AddTree("after", "tree before") \/ AddTree("before", "build before")
  \/ TreeFails("after") \/ TreeFails("before")
  \/ Build("before", "build after") \/ Build("after", "analyze before")
  \/ Analyze("before", "analyze after") \/ Analyze("after", "verdict")
  \/ Judge \/ CleanUp \/ HeadAnalyze \/ HeadParse

Next ==
  \/ Work \/ StartHead \/ HeadFails \/ HeadKill \/ Kill
  \/ \E side \in Sides : BuildFails(side) \/ AnalyzeFails(side)
  \/ Edit \/ Select \/ \E S \in SUBSET Scope : SelectPart(S)

(* A run goes on, people start the next one, and the manifest gets written.   *)
Fairness == WF_vars(Work) /\ WF_vars(Select)
Spec == Init /\ [][Next]_vars
FairSpec == Spec /\ Fairness
-------------------------------------------------------------------------------
(* Types of the state. *)
TypeOK ==
  /\ version \in Versions
  /\ DOMAIN manifest \subseteq Scope /\ \A c \in DOMAIN manifest : manifest[c] \subseteq Hunk
  /\ verdicts \in [Commits -> Seq(Verdict)]
  /\ trees \subseteq Trees /\ dbs \subseteq Trees
  /\ sarif \in [Targets -> 0..MaxVersion]
  /\ hunt \in [job : 0..Len(Worklist), stage : Stages, edited : BOOLEAN]
  /\ head \in [suite : 0..(Len(Suites) + 1), failed : SUBSET Range(Suites), since : 0..MaxVersion]
  /\ findings \in [rows : SUBSET Finding, failed : SUBSET Range(Suites), since : 0..MaxVersion]
  /\ headRuns \in 0..MaxHeadRuns /\ faults \in 0..MaxFaults

(* What the header of verdict.py calls a true positive and a residual, on the *)
(* lines of the two trees.                                                    *)
LinesOf(start, len) ==
  IF len = 0 THEN {n \in 1..MaxLine : n + Window >= start /\ n <= start + Window}
  ELSE start..(start + len - 1)
Touches(r, file, lines) == r.file = file /\ file \notin Test /\ (r.start..r.end) \cap lines # {}
TruePositive(c, v) ==
  \E r \in Found[v][<<c, "before">>], h \in Hunks[c] : Touches(r, h.old, LinesOf(h.ps, h.pl))
Residual(c, v) ==
  \E r \in Found[v][<<c, "after">>], h \in Hunks[c] : Touches(r, h.new, LinesOf(h.fs, h.fl))

(* A verdict is what one version of the queries says of the parent and of the *)
(* fix, whatever SARIF files earlier runs left: unless the queries were       *)
(* edited during the job, or the fix renames or deletes a file.               *)
VerdictIsOfItsQueries ==
  \A c \in Commits : \A i \in DOMAIN verdicts[c] :
    LET v == verdicts[c][i] IN
    ~v.edited => /\ v.of["before"] = v.of["after"]
                 /\ (\A h \in Hunks[c] : h.old = h.new) =>
                      /\ v.tp = TruePositive(c, v.of["before"])
                      /\ v.residual = Residual(c, v.of["after"])

(* However often the worklist is run again, a fix has one verdict. *)
VerdictedOnce == \A c \in Commits : Len(verdicts[c]) <= 1

(* Between runs no worktree stays of a job that was not cut off, nor a        *)
(* database unless its build failed: what is on disk was paid by a fault.     *)
DiskIsReclaimed ==
  ~Hunting => Cardinality({t[1] : t \in trees \cup dbs}) <= faults

FindingsGoOn ==
  \A s \in Range(Suites) :
    \E v \in 0..version :
      /\ {f \in findings'.rows : f.suite = s} = Reported(s, v)
      /\ \A f \in findings.rows : f.suite = s => f.of <= v
      /\ s \in findings'.failed \/ findings'.since <= v

(* The findings on HEAD never go back.  Of each suite they are all that one   *)
(* version of its queries reports, never of two; that version is no older than *)
(* the one the last findings were of, also when the suite failed in between,  *)
(* was killed or was edited during the run; and when the suite did not fail,  *)
(* no older than the queries were at the start of the run.                    *)
FindingsNeverGoBack == [][FindingsGoOn]_findings

(* Every fix that a run takes and the selection lists gets its verdict, but   *)
(* for those whose worktree a killed run left behind: git refuses it in each  *)
(* run that follows.                                                          *)
FixesAreSettled ==
  \A c \in {Worklist[n] : n \in 1..LastJob} \cap Scope :
    <>[](verdicts[c] # <<>> \/ \E t \in trees : t[1] = c)
===============================================================================
