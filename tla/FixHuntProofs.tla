---------------------------- MODULE FixHuntProofs ------------------------------
(***************************************************************************)
(* What the hunts keep for any worklist, any queries, any results and any  *)
(* number of edits, failures and kills.  The inductive invariant says what *)
(* the stage of the job means for the SARIF files, the verdicts and what   *)
(* is on disk.  At the end: how the grade of a query moves when its author *)
(* edits it, for any signals and any number of names.                      *)
(***************************************************************************)
EXTENDS FixHunt, QueryGrade, FiniteSetTheorems, TLAPS

(* The manifest lists fixes with their own ranges. *)
ManifestOK == \A c \in DOMAIN manifest : manifest[c] = parse_diff(c)

(* This side was analysed during the job, by the queries as they are. *)
Fresh(side) ==
  /\ sarif[<<Job, side>>] \in Versions
  /\ ~hunt.edited => sarif[<<Job, side>>] = version
Analyzed ==
  Hunting => /\ hunt.stage \in {"analyze after", "verdict"} => Fresh("before")
             /\ hunt.stage = "verdict" => Fresh("after")

(* A job that is worked on has no verdict yet. *)
Unjudged ==
  Hunting /\ hunt.stage \notin {"check", "clean up"} => verdicts[Job] = <<>>

(* The suites before this one failed or were analysed in this run.           *)
HeadSoFar ==
  /\ head.since <= version
  /\ \A s \in Range(Suites) : sarif[s] <= version
  /\ \A j \in DOMAIN Suites :
       j < head.suite => Suites[j] \in head.failed \/ head.since <= sarif[Suites[j]]

(* No finding is of later queries than the SARIF file of its suite.          *)
FindingsBehind == \A f \in findings.rows : f.of <= sarif[f.suite]

(* What the job will remove; and the fixes of all else that is on disk.      *)
Own ==
  IF ~Hunting \/ hunt.stage \in {"check", "tree after"} THEN {}
  ELSE IF hunt.stage = "tree before" THEN {<<Job, "after">>}
  ELSE TreesOf(Job)
Left == {t[1] : t \in (trees \cup dbs) \ Own}
Paid == IsFiniteSet(Left) /\ Cardinality(Left) <= faults

Inv == /\ TypeOK /\ ManifestOK /\ Analyzed /\ Unjudged /\ HeadSoFar /\ Paid
       /\ VerdictIsOfItsQueries /\ VerdictedOnce /\ FindingsBehind
-------------------------------------------------------------------------------
(* A result lies on a range as the scripts compute it exactly when the two    *)
(* have a line in common.                                                     *)
LEMMA HitsIsTouching ==
  ASSUME NEW r \in Result, NEW start \in 0..MaxLine, NEW len \in 0..MaxLine
  PROVE  Hits(r, start, len) <=> (r.start..r.end) \cap LinesOf(start, len) # {}
<1>1. /\ MaxLine \in Nat /\ Window \in Nat
      /\ r.start \in 1..MaxLine /\ r.end \in 1..MaxLine /\ r.start <= r.end
  BY HuntAssumption, HuntBoundAssumption DEF Result
<1>2. CASE len = 0
  <2>1. LinesOf(start, len)
          = {n \in 1..MaxLine : n + Window >= start /\ n <= start + Window}
    BY <1>2 DEF LinesOf
  <2>2. [r EXCEPT !.end = @ + Window].start = r.start
        /\ [r EXCEPT !.end = @ + Window].end = r.end + Window
    BY DEF Result
  <2>3. Hits(r, start, len) <=> r.start <= start + Window /\ start <= r.end + Window
    BY <1>2, <2>2 DEF Hits, overlaps
  <2>4. ASSUME Hits(r, start, len) PROVE (r.start..r.end) \cap LinesOf(start, len) # {}
    <3>1. CASE r.start + Window >= start
      <4>1. r.start \in (r.start..r.end) \cap LinesOf(start, len)
        BY <1>1, <2>1, <2>3, <2>4, <3>1
      <4>. QED
        BY <4>1
    <3>2. CASE r.start + Window < start
      <4>1. start - Window \in (r.start..r.end) \cap LinesOf(start, len)
        BY <1>1, <2>1, <2>3, <2>4, <3>2
      <4>. QED
        BY <4>1
    <3>. QED
      BY <1>1, <3>1, <3>2
  <2>5. ASSUME NEW n \in (r.start..r.end) \cap LinesOf(start, len)
        PROVE  Hits(r, start, len)
    BY <1>1, <2>1, <2>3
  <2>. QED
    BY <2>4, <2>5
<1>3. CASE len # 0
  <2>1. Hits(r, start, len) <=> r.start <= start + len - 1 /\ start <= r.end
    BY <1>3 DEF Hits, overlaps
  <2>2. LinesOf(start, len) = start..(start + len - 1)
    BY <1>3 DEF LinesOf
  <2>3. ASSUME Hits(r, start, len) PROVE (r.start..r.end) \cap LinesOf(start, len) # {}
    <3>1. CASE r.start >= start
      <4>1. r.start \in (r.start..r.end) \cap LinesOf(start, len)
        BY <1>1, <2>1, <2>2, <2>3, <3>1
      <4>. QED
        BY <4>1
    <3>2. CASE r.start < start
      <4>1. start \in (r.start..r.end) \cap LinesOf(start, len)
        BY <1>1, <1>3, <2>1, <2>2, <2>3, <3>2
      <4>. QED
        BY <4>1
    <3>. QED
      BY <1>1, <3>1, <3>2
  <2>4. ASSUME NEW n \in (r.start..r.end) \cap LinesOf(start, len)
        PROVE  Hits(r, start, len)
    BY <1>1, <1>3, <2>1, <2>2
  <2>. QED
    BY <2>3, <2>4
<1>. QED
  BY <1>2, <1>3

LEMMA JobIsCommit ==
  ASSUME TypeOK, Hunting
  PROVE  /\ hunt.job \in 1..Len(Worklist) /\ Job \in Commits
         /\ \A s \in Sides : <<Job, s>> \in Trees
<1>1. Len(Worklist) \in Nat /\ DOMAIN Worklist = 1..Len(Worklist)
  BY HuntAssumption
<1>2. hunt.job \in 1..Len(Worklist)
  BY <1>1 DEF TypeOK, Hunting
<1>3. Job \in Commits
  BY <1>1, <1>2 DEF Job, Commits, Range
<1>. QED
  BY <1>2, <1>3 DEF Trees

LEMMA ResultsAreTyped ==
  ASSUME NEW v \in Versions, NEW t \in Targets
  PROVE  Found[v][t] \subseteq Result
BY HuntAssumption

(* The verdict of a fix that neither renames nor deletes a file.              *)
LEMMA VerdictIsRight ==
  ASSUME NEW c \in Commits, NEW of \in [Sides -> Versions], NEW edited,
         c \in DOMAIN manifest, manifest[c] = parse_diff(c),
         \A h \in Hunks[c] : h.old = h.new
  PROVE  /\ VerdictOf(c, of, edited).tp = TruePositive(c, of["before"])
         /\ VerdictOf(c, of, edited).residual = Residual(c, of["after"])
<1>1. /\ of["before"] \in Versions /\ of["after"] \in Versions
      /\ <<c, "before">> \in Targets /\ <<c, "after">> \in Targets
      /\ Hunks[c] \subseteq Hunk
  BY HuntAssumption DEF Sides, Targets, Trees
<1>2. /\ Found[of["before"]][<<c, "before">>] \subseteq Result
      /\ Found[of["after"]][<<c, "after">>] \subseteq Result
  BY <1>1, ResultsAreTyped
<1>3. ASSUME NEW r \in Result, NEW h \in Hunks[c]
      PROVE  /\ Touches(r, h.old, LinesOf(h.ps, h.pl))
                  <=> r.file \notin Test /\ h.new = r.file /\ Hits(r, h.ps, h.pl)
             /\ Touches(r, h.new, LinesOf(h.fs, h.fl))
                  <=> r.file \notin Test /\ h.new = r.file /\ Hits(r, h.fs, h.fl)
  <2>1. /\ h.ps \in 0..MaxLine /\ h.pl \in 0..MaxLine
        /\ h.fs \in 0..MaxLine /\ h.fl \in 0..MaxLine
    BY <1>1 DEF Hunk
  <2>. QED
    BY <2>1, HitsIsTouching DEF Touches
<1>4. \A r \in Result : r.file \in Ruby
  BY DEF Result
<1>5. OnParent(Found[of["before"]][<<c, "before">>], manifest[c]) # {}
        <=> TruePositive(c, of["before"])
  BY <1>2, <1>3, <1>4 DEF OnParent, TruePositive, parse_diff
<1>6. OnFix(Found[of["after"]][<<c, "after">>], manifest[c]) # {}
        <=> Residual(c, of["after"])
  BY <1>2, <1>3, <1>4 DEF OnFix, Residual, parse_diff
<1>7. (OnParent(Found[of["before"]][<<c, "before">>], manifest[c]) # {})
        = TruePositive(c, of["before"])
  BY <1>5 DEF TruePositive
<1>8. (OnFix(Found[of["after"]][<<c, "after">>], manifest[c]) # {})
        = Residual(c, of["after"])
  BY <1>6 DEF Residual
<1>9. /\ VerdictOf(c, of, edited).tp
           = (OnParent(Found[of["before"]][<<c, "before">>], manifest[c]) # {})
      /\ VerdictOf(c, of, edited).residual
           = (OnFix(Found[of["after"]][<<c, "after">>], manifest[c]) # {})
  BY DEF VerdictOf
<1>. QED
  BY <1>7, <1>8, <1>9
-------------------------------------------------------------------------------
(* Types.                                                                     *)
Hunt == [job : 0..Len(Worklist), stage : Stages, edited : BOOLEAN]
HeadStates == [suite : 0..(Len(Suites) + 1), failed : SUBSET Range(Suites), since : 0..MaxVersion]
Findings == [rows : SUBSET Finding, failed : SUBSET Range(Suites), since : 0..MaxVersion]

LEMMA FromJobTyped ==
  ASSUME NEW n \in 0..Len(Worklist)
  PROVE  FromJob(n) \in Hunt /\ FromJob(n).stage = "check"
BY DEF FromJob, Hunt, Stages

LEMMA NextJobTyped ==
  ASSUME TypeOK, Hunting, NextJob
  PROVE  hunt' \in Hunt /\ hunt'.stage = "check"
<1>1. hunt.job \in 1..Len(Worklist) /\ Len(Worklist) \in Nat /\ LastJob \in 0..Len(Worklist)
  BY JobIsCommit, HuntAssumption DEF LastJob
<1>2. CASE hunt.job < LastJob
  <2>1. hunt.job + 1 \in 0..Len(Worklist)
    BY <1>1, <1>2
  <2>2. hunt' = FromJob(hunt.job + 1)
    BY <1>2 DEF NextJob
  <2>. QED
    BY <2>1, <2>2, FromJobTyped
<1>3. CASE ~(hunt.job < LastJob)
  <2>1. hunt' = Resting /\ 0 \in 0..Len(Worklist)
    BY <1>1, <1>3 DEF NextJob
  <2>. QED
    BY <2>1, FromJobTyped DEF Resting
<1>. QED
  BY <1>2, <1>3

LEMMA WorkerTyped ==
  ASSUME TypeOK,
         StartHunt \/ Kill \/ (Hunting /\ NextJob)
           \/ (Hunting /\ \E stage \in Stages : Go(stage))
  PROVE  hunt' \in Hunt
<1>1. hunt \in Hunt /\ Len(Worklist) \in Nat /\ (LastJob # 0 => 1 \in 0..Len(Worklist))
  BY HuntAssumption DEF TypeOK, Hunt, LastJob
<1>2. CASE StartHunt
  BY <1>1, <1>2, FromJobTyped DEF StartHunt
<1>5. CASE Kill
  BY <1>1, <1>5, FromJobTyped DEF Kill, Resting
<1>3. CASE Hunting /\ NextJob
  BY <1>3, NextJobTyped
<1>4. CASE Hunting /\ \E stage \in Stages : Go(stage)
  BY <1>1, <1>4 DEF Go, Hunt
<1>. QED
  BY <1>2, <1>3, <1>4, <1>5

LEMMA VerdictTyped ==
  ASSUME NEW c, NEW of \in [Sides -> Versions], NEW edited \in BOOLEAN
  PROVE  VerdictOf(c, of, edited) \in Verdict
BY DEF VerdictOf, Verdict

LEMMA RowsTyped ==
  ASSUME NEW S \in SUBSET Scope
  PROVE  /\ DOMAIN Rows(S) \subseteq Scope
         /\ \A c \in DOMAIN Rows(S) : Rows(S)[c] = parse_diff(c) /\ Rows(S)[c] \subseteq Hunk
BY HuntAssumption DEF Rows, parse_diff

LEMMA InitInv == Init => Inv
<1>. SUFFICES ASSUME Init PROVE Inv
  OBVIOUS
<1>1. 0 \in Nat /\ 1 \in Versions /\ 0 \in 0..MaxVersion /\ 0 \in 0..MaxFaults
      /\ 0 \in 0..MaxHeadRuns /\ Len(Worklist) \in Nat /\ Len(Suites) \in Nat
  BY HuntAssumption, HuntBoundAssumption DEF Versions
<1>2. TypeOK
  <2>1. DOMAIN manifest \subseteq Scope /\ \A c \in DOMAIN manifest : manifest[c] \subseteq Hunk
    BY RowsTyped DEF Init
  <2>2. verdicts \in [Commits -> Seq(Verdict)]
    BY DEF Init
  <2>3. sarif \in [Targets -> 0..MaxVersion]
    BY <1>1 DEF Init
  <2>4. hunt \in [job : 0..Len(Worklist), stage : Stages, edited : BOOLEAN]
    BY <1>1 DEF Init, Resting, FromJob, Stages
  <2>5. head \in HeadStates
    BY <1>1 DEF Init, HeadRest, HeadStates
  <2>6. findings \in Findings
    BY <1>1 DEF Init, Findings
  <2>. QED
    BY <1>1, <2>1, <2>2, <2>3, <2>4, <2>5, <2>6 DEF Init, TypeOK, HeadStates, Findings
<1>3. ManifestOK
  BY RowsTyped DEF Init, ManifestOK
<1>4. ~Hunting
  BY DEF Init, Hunting, Resting, FromJob
<1>5. HeadSoFar
  <2>1. DOMAIN Suites = 1..Len(Suites) /\ Range(Suites) \subseteq Targets
    BY HuntAssumption DEF Targets
  <2>. QED
    BY <1>1, <2>1 DEF Init, HeadSoFar, HeadRest
<1>6. Paid
  <2>1. Left = {}
    BY DEF Left, Init
  <2>. QED
    BY <2>1, FS_EmptySet DEF Paid, Init
<1>7. VerdictIsOfItsQueries /\ VerdictedOnce
  <2>1. \A c \in Commits : verdicts[c] = <<>>
    BY DEF Init
  <2>. QED
    BY <2>1 DEF VerdictIsOfItsQueries, VerdictedOnce
<1>8. FindingsBehind
  BY DEF Init, FindingsBehind
<1>. QED
  BY <1>2, <1>3, <1>4, <1>5, <1>6, <1>7, <1>8 DEF Inv, Analyzed, Unjudged

LEMMA TypeStep == Inv /\ [Next]_vars => TypeOK'
<1>. SUFFICES ASSUME Inv, [Next]_vars PROVE TypeOK'
  OBVIOUS
<1>. USE DEF Elsewhere, ForHead, NoFault, Fault, disk
<1>1. /\ TypeOK
      /\ faults \in 0..MaxFaults /\ MaxFaults \in Nat /\ headRuns \in 0..MaxHeadRuns
      /\ MaxHeadRuns \in Nat /\ version \in 1..MaxVersion /\ MaxVersion \in Nat \ {0}
      /\ Len(Suites) \in Nat /\ DOMAIN Suites = 1..Len(Suites)
      /\ head \in HeadStates /\ findings \in Findings
  BY HuntAssumption, HuntBoundAssumption DEF Inv, TypeOK, Versions, HeadStates, Findings
<1>2. ASSUME Hunting
      PROVE  /\ Job \in Commits
             /\ \A s \in Sides : <<Job, s>> \in Trees /\ <<Job, s>> \in Targets
  BY <1>1, <1>2, JobIsCommit DEF Targets
<1>3. CASE StartHunt \/ Kill \/ Check
  <2>1. hunt' \in Hunt
    BY <1>1, <1>3, WorkerTyped DEF Check, At, Stages
  <2>2. faults' \in 0..MaxFaults
    <3>1. faults' = faults \/ (faults < MaxFaults /\ faults' = faults + 1)
      BY <1>3 DEF StartHunt, Kill, Check
    <3>. QED
      BY <1>1, <3>1
  <2>. QED
    BY <1>1, <1>3, <2>1, <2>2 DEF TypeOK, StartHunt, Kill, Check, Hunt
<1>4. ASSUME NEW side \in Sides, NEW next \in Stages, AddTree(side, next) \/ Build(side, next)
      PROVE  TypeOK'
  <2>1. Hunting /\ Go(next) /\ <<Job, side>> \in Trees
    BY <1>2, <1>4 DEF AddTree, Build, At
  <2>2. hunt' \in Hunt
    BY <1>1, <2>1, WorkerTyped
  <2>3. trees' \subseteq Trees /\ dbs' \subseteq Trees
    BY <1>1, <1>4, <2>1 DEF AddTree, Build, TypeOK
  <2>. QED
    BY <1>1, <1>4, <2>2, <2>3 DEF TypeOK, AddTree, Build, Hunt
<1>5. ASSUME NEW side \in Sides, TreeFails(side) \/ BuildFails(side) \/ AnalyzeFails(side)
      PROVE  TypeOK'
  <2>1. Hunting /\ NextJob /\ <<Job, side>> \in Trees
    BY <1>2, <1>5 DEF TreeFails, BuildFails, AnalyzeFails, At
  <2>2. hunt' \in Hunt
    BY <1>1, <2>1, WorkerTyped
  <2>3. trees' \subseteq Trees /\ dbs' \subseteq Trees
    BY <1>1, <1>5, <2>1 DEF TreeFails, BuildFails, AnalyzeFails, TypeOK
  <2>4. faults' \in 0..MaxFaults
    BY <1>1, <1>5 DEF TreeFails, BuildFails, AnalyzeFails
  <2>5. UNCHANGED <<version, manifest, verdicts, sarif, head, findings, headRuns>>
    BY <1>5 DEF TreeFails, BuildFails, AnalyzeFails
  <2>. QED
    BY <1>1, <2>2, <2>3, <2>4, <2>5 DEF TypeOK, Hunt
<1>6. ASSUME NEW side \in Sides, NEW next \in Stages, Analyze(side, next)
      PROVE  TypeOK'
  <2>1. Hunting /\ Go(next) /\ <<Job, side>> \in Targets
    BY <1>2, <1>6 DEF Analyze, At
  <2>2. hunt' \in Hunt
    BY <1>1, <2>1, WorkerTyped
  <2>3. sarif' \in [Targets -> 0..MaxVersion]
    BY <1>1, <1>6, <2>1 DEF Analyze, TypeOK
  <2>. QED
    BY <1>1, <1>6, <2>2, <2>3 DEF TypeOK, Analyze, Hunt
<1>7. CASE Judge
  <2>1. Hunting /\ Go("clean up") /\ Job \in Commits /\ "clean up" \in Stages
    BY <1>2, <1>7 DEF Judge, At, Stages
  <2>2. hunt' \in Hunt
    BY <1>1, <2>1, WorkerTyped
  <2>3. [s \in Sides |-> sarif[<<Job, s>>]] \in [Sides -> Versions] /\ hunt.edited \in BOOLEAN
    BY <1>7, <2>1 DEF Judge, At, Inv, TypeOK, Analyzed, Fresh, Sides
  <2>4. VerdictOf(Job, [s \in Sides |-> sarif[<<Job, s>>]], hunt.edited) \in Verdict
    BY <2>3, VerdictTyped
  <2>5. verdicts' \in [Commits -> Seq(Verdict)]
    <3>1. verdicts \in [Commits -> Seq(Verdict)]
      BY <1>1 DEF TypeOK
    <3>2. verdicts' = verdicts \/ verdicts' =
            [verdicts EXCEPT ![Job] =
               Append(@, VerdictOf(Job, [s \in Sides |-> sarif[<<Job, s>>]], hunt.edited))]
      BY <1>7 DEF Judge
    <3>3. verdicts[Job] \in Seq(Verdict)
      BY <2>1, <3>1
    <3>4. Append(verdicts[Job],
                 VerdictOf(Job, [s \in Sides |-> sarif[<<Job, s>>]], hunt.edited))
            \in Seq(Verdict)
      BY <2>4, <3>3
    <3>. QED
      BY <3>1, <3>2, <3>4
  <2>. QED
    BY <1>1, <1>7, <2>2, <2>5 DEF TypeOK, Judge, Hunt
<1>8. CASE CleanUp
  <2>1. hunt' \in Hunt
    BY <1>1, <1>8, WorkerTyped DEF CleanUp, At
  <2>. QED
    BY <1>1, <1>8, <2>1 DEF TypeOK, CleanUp, Hunt
<1>9. CASE StartHead \/ HeadFails \/ HeadKill \/ HeadAnalyze
  <2>1. head' \in HeadStates
    <3>1. CASE StartHead
      <4>1. /\ head' = [suite |-> 1, failed |-> {}, since |-> version]
            /\ 1 \in 0..(Len(Suites) + 1) /\ version \in 0..MaxVersion
        BY <1>1, <3>1 DEF StartHead
      <4>. QED
        BY <4>1 DEF HeadStates
    <3>2. CASE HeadFails \/ HeadAnalyze
      <4>1. head.suite \in 1..Len(Suites) /\ Suite \in Range(Suites)
        BY <1>1, <3>2 DEF HeadFails, HeadAnalyze, Suite, Range
      <4>2. head.suite + 1 \in 0..(Len(Suites) + 1)
        BY <1>1, <4>1
      <4>3. /\ head'.suite = head.suite + 1 /\ head'.since = head.since
            /\ head'.failed \in {head.failed, head.failed \cup {Suite}}
            /\ head' = [suite |-> head'.suite, failed |-> head'.failed, since |-> head'.since]
        BY <1>1, <3>2 DEF HeadFails, HeadAnalyze, HeadStates
      <4>4. head'.failed \in SUBSET Range(Suites)
        BY <1>1, <4>1, <4>3 DEF HeadStates
      <4>. QED
        BY <1>1, <4>2, <4>3, <4>4 DEF HeadStates
    <3>3. CASE HeadKill
      BY <1>1, <3>3 DEF HeadKill, HeadRest, HeadStates
    <3>. QED
      BY <1>9, <3>1, <3>2, <3>3
  <2>2. head.suite \in DOMAIN Suites => Suite \in Targets
    BY DEF Suite, Targets, Range
  <2>3. sarif' \in [Targets -> 0..MaxVersion]
    <3>1. version \in 0..MaxVersion /\ sarif \in [Targets -> 0..MaxVersion]
      BY <1>1 DEF TypeOK
    <3>2. sarif' = sarif \/ (Suite \in Targets /\ sarif' = [sarif EXCEPT ![Suite] = version])
      BY <1>9, <2>2 DEF StartHead, HeadFails, HeadKill, HeadAnalyze
    <3>. QED
      BY <3>1, <3>2
  <2>4. headRuns' \in 0..MaxHeadRuns /\ faults' \in 0..MaxFaults
    BY <1>1, <1>9 DEF StartHead, HeadFails, HeadKill, HeadAnalyze
  <2>5. UNCHANGED <<version, manifest, verdicts, trees, dbs, hunt, findings>>
    BY <1>9 DEF StartHead, HeadFails, HeadKill, HeadAnalyze
  <2>. QED
    BY <1>1, <2>1, <2>3, <2>4, <2>5 DEF TypeOK, HeadStates
<1>10. CASE HeadParse
  <2>1. ASSUME NEW v \in 0..MaxVersion, NEW s \in Range(Suites)
        PROVE  Reported(s, v) \subseteq Finding
    <3>1. ASSUME NEW f \in Reported(s, v) PROVE f \in Finding
      <4>1. PICK r \in Found[v][s] :
              v # 0 /\ f = [suite |-> s, of |-> v, file |-> r.file, line |-> r.start]
        BY <3>1 DEF Reported
      <4>2. s \in Targets /\ v \in Versions
        BY <1>1, <4>1 DEF Targets, Versions
      <4>3. r \in Result
        BY <4>1, <4>2, ResultsAreTyped
      <4>. QED
        BY <4>1, <4>2, <4>3, HuntAssumption DEF Result, Finding
    <3>. QED
      BY <3>1
  <2>2. \A s \in Range(Suites) : sarif[s] \in 0..MaxVersion
    BY <1>1 DEF TypeOK, Targets
  <2>3. UNION {Reported(s, sarif[s]) : s \in Range(Suites)} \subseteq Finding
    BY <2>1, <2>2
  <2>4. findings' \in Findings
    BY <1>1, <1>10, <2>3 DEF HeadParse, Findings, HeadStates
  <2>5. head' \in HeadStates
    BY <1>1, <1>10 DEF HeadParse, HeadRest, HeadStates
  <2>. QED
    BY <1>1, <1>10, <2>4, <2>5 DEF TypeOK, HeadParse, HeadStates, Findings
<1>11. CASE Edit
  <2>1. hunt' \in Hunt /\ version' \in Versions
    <3>1. Hunting \in BOOLEAN
      BY DEF Hunting
    <3>2. hunt \in Hunt /\ hunt' = [hunt EXCEPT !.edited = Hunting]
      BY <1>1, <1>11 DEF Edit, TypeOK, Hunt
    <3>3. hunt' \in Hunt
      BY <3>1, <3>2 DEF Hunt
    <3>. QED
      BY <1>1, <1>11, <3>3 DEF Edit, Versions
  <2>. QED
    BY <1>1, <1>11, <2>1 DEF TypeOK, Edit, Hunt
<1>12. CASE Select \/ \E S \in SUBSET Scope : SelectPart(S)
  <2>1. PICK S \in SUBSET Scope : manifest' = Rows(S)
    BY <1>12 DEF Select, SelectPart
  <2>2. /\ DOMAIN manifest' \subseteq Scope
        /\ \A c \in DOMAIN manifest' : manifest'[c] \subseteq Hunk
    BY <2>1, RowsTyped
  <2>3. faults' \in 0..MaxFaults
    BY <1>1, <1>12 DEF Select, SelectPart
  <2>4. UNCHANGED <<version, verdicts, trees, dbs, sarif, hunt, head, findings, headRuns>>
    BY <1>12 DEF Select, SelectPart
  <2>. QED
    BY <1>1, <2>2, <2>3, <2>4 DEF TypeOK
<1>13. CASE UNCHANGED vars
  BY <1>1, <1>13 DEF vars, TypeOK
<1>14. {"tree before", "build before", "build after", "analyze before", "analyze after",
        "verdict"} \subseteq Stages /\ {"before", "after"} \subseteq Sides
  BY DEF Stages, Sides
<1>. QED
  BY <1>3, <1>4, <1>5, <1>6, <1>7, <1>8, <1>9, <1>10, <1>11, <1>12, <1>13, <1>14
  DEF Next, Work
-------------------------------------------------------------------------------
(* The steps, by what they do to the job.                                     *)

(* The run ends, or the next job begins. *)
Leaves ==
  \/ StartHunt \/ CleanUp \/ Kill \/ (Check /\ hunt'.stage = "check")
  \/ \E side \in Sides : TreeFails(side) \/ BuildFails(side) \/ AnalyzeFails(side)

(* The job stays where it is. *)
Aside ==
  \/ HeadAnalyze \/ HeadParse \/ StartHead \/ HeadFails \/ HeadKill
  \/ Select \/ (\E S \in SUBSET Scope : SelectPart(S)) \/ UNCHANGED vars

LEMMA LeavesJob ==
  ASSUME Inv, Leaves
  PROVE  /\ hunt'.stage = "check"
         /\ UNCHANGED <<version, manifest, verdicts, sarif, head, findings>>
<1>. USE DEF Elsewhere, disk
<1>0. TypeOK
  BY DEF Inv
<1>1. CASE StartHunt \/ Kill
  BY <1>1 DEF StartHunt, Kill, Resting, FromJob
<1>2. CASE CleanUp
  BY <1>0, <1>2, NextJobTyped DEF CleanUp, At
<1>3. CASE Check /\ hunt'.stage = "check"
  BY <1>3 DEF Check
<1>4. ASSUME NEW side \in Sides, TreeFails(side)
      PROVE  /\ hunt'.stage = "check"
             /\ UNCHANGED <<version, manifest, verdicts, sarif, head, findings>>
  BY <1>0, <1>4, NextJobTyped DEF TreeFails, At
<1>5. ASSUME NEW side \in Sides, BuildFails(side)
      PROVE  /\ hunt'.stage = "check"
             /\ UNCHANGED <<version, manifest, verdicts, sarif, head, findings>>
  BY <1>0, <1>5, NextJobTyped DEF BuildFails, At
<1>6. ASSUME NEW side \in Sides, AnalyzeFails(side)
      PROVE  /\ hunt'.stage = "check"
             /\ UNCHANGED <<version, manifest, verdicts, sarif, head, findings>>
  BY <1>0, <1>6, NextJobTyped DEF AnalyzeFails, At
<1>. QED
  BY <1>1, <1>2, <1>3, <1>4, <1>5, <1>6 DEF Leaves

LEMMA AsideJob ==
  ASSUME Inv, Aside
  PROVE  /\ UNCHANGED <<version, hunt, verdicts, trees, dbs>>
         /\ \A t \in Trees : sarif'[t] = sarif[t]
         /\ faults' \in {faults, faults + 1}
<1>. USE DEF ForHead, Fault, NoFault, disk
<1>1. /\ Trees \cap Range(Suites) = {} /\ sarif \in [Targets -> 0..MaxVersion]
      /\ (head.suite \in DOMAIN Suites => Suite \in Range(Suites))
  BY HuntAssumption DEF Inv, TypeOK, Suite, Range
<1>2. CASE HeadAnalyze
  BY <1>1, <1>2 DEF HeadAnalyze, Targets
<1>3. CASE HeadParse \/ StartHead \/ HeadFails \/ HeadKill
  BY <1>3 DEF HeadParse, StartHead, HeadFails, HeadKill
<1>4. CASE Select \/ \E S \in SUBSET Scope : SelectPart(S)
  BY <1>4 DEF Select, SelectPart
<1>5. CASE UNCHANGED vars
  BY <1>5 DEF vars
<1>. QED
  BY <1>2, <1>3, <1>4, <1>5 DEF Aside

(* The five ways on. *)
LEMMA StepCases ==
  ASSUME Inv, [Next]_vars
  PROVE  \/ Leaves \/ Aside \/ Edit \/ Judge
         \/ (Check /\ hunt' = [hunt EXCEPT !.stage = "tree after"])
         \/ AddTree("after", "tree before") \/ AddTree("before", "build before")
         \/ Build("before", "build after") \/ Build("after", "analyze before")
         \/ Analyze("before", "analyze after") \/ Analyze("after", "verdict")
<1>1. TypeOK /\ "before" \in Sides /\ "after" \in Sides
  BY DEF Inv, Sides
<1>2. Check => Leaves \/ hunt' = [hunt EXCEPT !.stage = "tree after"]
  <2>1. Check => Hunting /\ (NextJob \/ Go("tree after"))
    BY DEF Check, At
  <2>. QED
    BY <1>1, <2>1, NextJobTyped DEF Leaves, Go
<1>. QED
  BY <1>1, <1>2 DEF Next, Work, Leaves, Aside

(* The stage goes on, with the job. *)
LEMMA GoKeepsJob ==
  ASSUME TypeOK, NEW stage, hunt' = [hunt EXCEPT !.stage = stage]
  PROVE  /\ hunt'.stage = stage /\ hunt'.edited = hunt.edited
         /\ Job' = Job /\ Hunting' = Hunting
BY DEF TypeOK, Job, Hunting
-------------------------------------------------------------------------------
LEMMA ManifestStep == Inv /\ [Next]_vars => ManifestOK'
<1>. SUFFICES ASSUME Inv, [Next]_vars PROVE ManifestOK'
  OBVIOUS
<1>1. ManifestOK
  BY DEF Inv
<1>2. CASE \E S \in SUBSET Scope : manifest' = Rows(S)
  BY <1>2, RowsTyped DEF ManifestOK
<1>3. CASE UNCHANGED manifest
  BY <1>1, <1>3 DEF ManifestOK
<1>4. \/ UNCHANGED manifest
      \/ \E S \in SUBSET Scope : manifest' = Rows(S)
  <2>1. CASE Leaves
    BY <2>1, LeavesJob
  <2>2. CASE Aside
    BY <2>2 DEF Aside, Select, SelectPart, HeadAnalyze, HeadParse, StartHead, HeadFails,
                HeadKill, ForHead, vars
  <2>3. CASE ~Leaves /\ ~Aside
    BY <2>3, StepCases DEF Edit, Judge, Check, AddTree, Build, Analyze, Elsewhere
  <2>. QED
    BY <2>1, <2>2, <2>3
<1>. QED
  BY <1>2, <1>3, <1>4

LEMMA AnalyzedStep == Inv /\ [Next]_vars => Analyzed'
<1>. SUFFICES ASSUME Inv, [Next]_vars PROVE Analyzed'
  OBVIOUS
<1>1. TypeOK /\ Analyzed /\ version \in Versions
  BY DEF Inv, TypeOK
<1>2. Hunting => /\ <<Job, "before">> \in Trees /\ <<Job, "after">> \in Trees
                 /\ <<Job, "before">> \in Targets /\ <<Job, "after">> \in Targets
  BY <1>1, JobIsCommit DEF Targets, Sides
<1>3. CASE Leaves
  BY <1>3, LeavesJob DEF Analyzed
<1>4. CASE Aside
  <2>1. /\ UNCHANGED <<version, hunt>> /\ Job' = Job /\ Hunting' = Hunting
        /\ \A t \in Trees : sarif'[t] = sarif[t]
    BY <1>4, AsideJob DEF Job, Hunting
  <2>. QED
    BY <1>1, <1>2, <2>1 DEF Analyzed, Fresh
<1>5. CASE Edit
  <2>1. hunt' = [hunt EXCEPT !.edited = Hunting] /\ UNCHANGED sarif
    BY <1>5 DEF Edit, disk
  <2>2. /\ Job' = Job /\ Hunting' = Hunting /\ hunt'.stage = hunt.stage
        /\ (Hunting => hunt'.edited)
    BY <1>1, <2>1 DEF TypeOK, Job, Hunting
  <2>3. TypeOK'
    BY TypeStep
  <2>. QED
    BY <1>1, <1>2, <2>1, <2>2, <2>3 DEF Analyzed, Fresh
<1>6. CASE \/ Judge \/ (Check /\ hunt' = [hunt EXCEPT !.stage = "tree after"])
           \/ AddTree("after", "tree before") \/ AddTree("before", "build before")
           \/ Build("before", "build after") \/ Build("after", "analyze before")
  <2>1. hunt'.stage \notin {"analyze after", "verdict"}
    <3>1. \E stage \in Stages \ {"analyze after", "verdict"} :
            hunt' = [hunt EXCEPT !.stage = stage]
      BY <1>6 DEF Judge, AddTree, Build, Go, Stages
    <3>. QED
      BY <1>1, <3>1, GoKeepsJob
  <2>. QED
    BY <2>1 DEF Analyzed
<1>7. CASE Analyze("before", "analyze after")
  <2>1. /\ Hunting /\ hunt'.stage = "analyze after" /\ hunt'.edited = hunt.edited
        /\ Job' = Job /\ Hunting' = Hunting
    BY <1>1, <1>7, GoKeepsJob DEF Analyze, Go, At
  <2>2. sarif'[<<Job, "before">>] = version /\ version' = version
    BY <1>1, <1>2, <1>7, <2>1 DEF Analyze, TypeOK, Elsewhere
  <2>. QED
    BY <1>1, <2>1, <2>2 DEF Analyzed, Fresh
<1>8. CASE Analyze("after", "verdict")
  <2>1. /\ Hunting /\ hunt.stage = "analyze after" /\ hunt'.stage = "verdict"
        /\ hunt'.edited = hunt.edited /\ Job' = Job /\ Hunting' = Hunting
    BY <1>1, <1>8, GoKeepsJob DEF Analyze, Go, At, Analyzing
  <2>2. /\ sarif'[<<Job, "after">>] = version /\ version' = version
        /\ sarif'[<<Job, "before">>] = sarif[<<Job, "before">>]
    BY <1>1, <1>2, <1>8, <2>1 DEF Analyze, TypeOK, Elsewhere
  <2>. QED
    BY <1>1, <2>1, <2>2 DEF Analyzed, Fresh
<1>. QED
  BY <1>3, <1>4, <1>5, <1>6, <1>7, <1>8, StepCases

LEMMA UnjudgedStep == Inv /\ [Next]_vars => Unjudged'
<1>. SUFFICES ASSUME Inv, [Next]_vars PROVE Unjudged'
  OBVIOUS
<1>1. TypeOK /\ Unjudged
  BY DEF Inv
<1>2. CASE Leaves
  BY <1>2, LeavesJob DEF Unjudged
<1>3. CASE Aside
  BY <1>1, <1>3, AsideJob DEF Unjudged, Job, Hunting
<1>4. CASE Edit
  <2>1. Job' = Job /\ Hunting' = Hunting /\ hunt'.stage = hunt.stage /\ UNCHANGED verdicts
    BY <1>1, <1>4 DEF Edit, TypeOK, Job, Hunting
  <2>. QED
    BY <1>1, <2>1 DEF Unjudged
<1>5. CASE Judge
  BY <1>1, <1>5, GoKeepsJob DEF Judge, Go, Unjudged
<1>6. CASE Check /\ hunt' = [hunt EXCEPT !.stage = "tree after"]
  <2>1. verdicts[Job] = <<>>
    <3>1. CASE sha_in_verdicts(Job)
      <4>1. Hunting /\ NextJob
        BY <1>6, <3>1 DEF Check, At
      <4>. QED
        BY <1>1, <1>6, <4>1, NextJobTyped, GoKeepsJob
    <3>. QED
      BY <3>1 DEF sha_in_verdicts
  <2>2. Job' = Job /\ UNCHANGED verdicts
    BY <1>1, <1>6, GoKeepsJob DEF Check
  <2>. QED
    BY <2>1, <2>2 DEF Unjudged
<1>7. CASE \/ AddTree("after", "tree before") \/ AddTree("before", "build before")
           \/ Build("before", "build after") \/ Build("after", "analyze before")
           \/ Analyze("before", "analyze after") \/ Analyze("after", "verdict")
  <2>1. Job' = Job /\ Hunting /\ UNCHANGED verdicts
    BY <1>1, <1>7, GoKeepsJob DEF AddTree, Build, Analyze, Go, At
  <2>2. hunt.stage \notin {"check", "clean up"}
    BY <1>7 DEF AddTree, Build, Analyze, At, Adding, Building, Analyzing
  <2>. QED
    BY <1>1, <2>1, <2>2 DEF Unjudged
<1>. QED
  BY <1>2, <1>3, <1>4, <1>5, <1>6, <1>7, StepCases

LEMMA HeadStep == Inv /\ [Next]_vars => HeadSoFar' /\ FindingsBehind'
<1>. SUFFICES ASSUME Inv, [Next]_vars PROVE HeadSoFar' /\ FindingsBehind'
  OBVIOUS
<1>1. /\ TypeOK /\ HeadSoFar /\ DOMAIN Suites = 1..Len(Suites) /\ Len(Suites) \in Nat
      /\ head \in HeadStates /\ findings \in Findings
      /\ sarif \in [Targets -> 0..MaxVersion] /\ version \in 1..MaxVersion /\ MaxVersion \in Nat
      /\ \A j \in DOMAIN Suites : Suites[j] \in Range(Suites) /\ Suites[j] \in Targets
      /\ \A s \in Range(Suites) : s \in Targets /\ sarif[s] \in Nat
      /\ \A s \in Range(Suites) : sarif[s] <= version
  BY HuntAssumption, HuntBoundAssumption
  DEF Inv, TypeOK, Range, Targets, HeadStates, Findings, Versions, HeadSoFar
<1>2. \A f \in findings.rows : f.suite \in Range(Suites) /\ f.of \in Nat /\ f.of <= sarif[f.suite]
  BY <1>1 DEF Inv, FindingsBehind, Findings, Finding, Versions
<1>3. CASE UNCHANGED <<head, version, findings>> /\ \A t \in Range(Suites) : sarif'[t] = sarif[t]
  BY <1>1, <1>2, <1>3 DEF HeadSoFar, FindingsBehind
<1>4. CASE HeadAnalyze
  <2>1. /\ head.suite \in DOMAIN Suites /\ head'.suite = head.suite + 1
        /\ head'.failed = head.failed /\ head'.since = head.since
        /\ UNCHANGED <<version, findings>>
    BY <1>1, <1>4 DEF HeadAnalyze, ForHead, HeadStates
  <2>2. \A t \in Targets : sarif'[t] = IF t = Suites[head.suite] THEN version ELSE sarif[t]
    BY <1>1, <1>4, <2>1 DEF HeadAnalyze, Suite
  <2>3. HeadSoFar'
    BY <1>1, <2>1, <2>2 DEF HeadSoFar, HeadStates
  <2>4. FindingsBehind'
    <3>1. \A s \in Range(Suites) : sarif[s] <= sarif'[s] /\ sarif'[s] \in Nat
      BY <1>1, <2>2
    <3>. QED
      BY <1>1, <1>2, <2>1, <3>1 DEF FindingsBehind
  <2>. QED
    BY <2>3, <2>4
<1>5. CASE HeadFails
  <2>1. /\ head.suite \in DOMAIN Suites /\ head'.suite = head.suite + 1
        /\ head'.failed = head.failed \cup {Suites[head.suite]} /\ head'.since = head.since
        /\ UNCHANGED <<version, sarif, findings>>
    BY <1>1, <1>5 DEF HeadFails, ForHead, Suite, HeadStates
  <2>. QED
    BY <1>1, <1>2, <2>1 DEF HeadSoFar, HeadStates, FindingsBehind
<1>6. CASE StartHead \/ HeadParse \/ HeadKill
  <2>1. /\ head'.suite \in {0, 1} /\ head'.since \in {0, version} /\ UNCHANGED <<version, sarif>>
    BY <1>6 DEF StartHead, HeadParse, HeadKill, HeadRest, ForHead
  <2>2. HeadSoFar'
    BY <1>1, <2>1 DEF HeadSoFar
  <2>3. CASE UNCHANGED findings
    BY <1>1, <1>2, <2>1, <2>2, <2>3 DEF FindingsBehind
  <2>4. CASE ~UNCHANGED findings
    <3>1. findings'.rows = UNION {Reported(s, sarif[s]) : s \in Range(Suites)}
      BY <1>6, <2>4 DEF StartHead, HeadParse, HeadKill
    <3>2. ASSUME NEW f \in findings'.rows PROVE f.of <= sarif'[f.suite]
      <4>1. PICK s \in Range(Suites) : f \in Reported(s, sarif[s])
        BY <3>1, <3>2
      <4>2. f.suite = s /\ f.of = sarif[s]
        BY <4>1 DEF Reported
      <4>. QED
        BY <1>1, <2>1, <4>2
    <3>. QED
      BY <2>2, <3>2 DEF FindingsBehind
  <2>. QED
    BY <2>3, <2>4
<1>7. CASE Edit
  <2>1. version' = version + 1 /\ UNCHANGED <<head, sarif, findings>>
    BY <1>7 DEF Edit, disk
  <2>. QED
    BY <1>1, <1>2, <2>1 DEF HeadSoFar, FindingsBehind, HeadStates
<1>8. CASE Leaves
  BY <1>3, <1>8, LeavesJob
<1>9. CASE Analyze("before", "analyze after") \/ Analyze("after", "verdict")
  <2>1. PICK side \in Sides : sarif' = [sarif EXCEPT ![<<Job, side>>] = version] /\ Hunting
    BY <1>9 DEF Analyze, At, Sides
  <2>2. <<Job, side>> \in Trees
    BY <1>1, <2>1, JobIsCommit
  <2>3. ASSUME NEW t \in Range(Suites) PROVE sarif'[t] = sarif[t]
    <3>1. t \in Targets /\ t # <<Job, side>>
      BY <2>2, HuntAssumption DEF Targets
    <3>. QED
      BY <1>1, <2>1, <3>1
  <2>. QED
    BY <1>3, <1>9, <2>3 DEF Analyze, Elsewhere
<1>10. CASE \/ Judge \/ Check
            \/ AddTree("after", "tree before") \/ AddTree("before", "build before")
            \/ Build("before", "build after") \/ Build("after", "analyze before")
  BY <1>3, <1>10 DEF Judge, Check, AddTree, Build, Elsewhere, disk
<1>11. CASE Select \/ (\E S \in SUBSET Scope : SelectPart(S)) \/ UNCHANGED vars
  BY <1>3, <1>11 DEF Select, SelectPart, vars, disk
<1>. QED
  BY <1>4, <1>5, <1>6, <1>7, <1>8, <1>9, <1>10, <1>11, StepCases DEF Aside

LEMMA FindingsStep == Inv /\ [Next]_vars => [FindingsGoOn]_findings
<1>. SUFFICES ASSUME Inv, [Next]_vars, ~UNCHANGED findings PROVE FindingsGoOn
  OBVIOUS
<1>1. /\ TypeOK /\ HeadSoFar /\ FindingsBehind /\ sarif \in [Targets -> 0..MaxVersion]
      /\ version \in Nat /\ \A s \in Range(Suites) : sarif[s] \in Nat /\ sarif[s] <= version
  BY DEF Inv, TypeOK, HeadSoFar, Targets, Versions
<1>2. CASE HeadParse
  <2>1. /\ head.suite = Len(Suites) + 1
        /\ findings'.rows = UNION {Reported(s, sarif[s]) : s \in Range(Suites)}
        /\ findings'.failed = head.failed /\ findings'.since = head.since
    BY <1>2 DEF HeadParse
  <2>2. ASSUME NEW s \in Range(Suites)
        PROVE  s \in findings'.failed \/ findings'.since <= sarif[s]
    <3>1. PICK j \in DOMAIN Suites : s = Suites[j]
      BY DEF Range
    <3>2. j < head.suite
      BY <2>1, HuntAssumption
    <3>. QED
      BY <1>1, <2>1, <3>1, <3>2 DEF HeadSoFar
  <2>3. ASSUME NEW s \in Range(Suites)
        PROVE  {f \in findings'.rows : f.suite = s} = Reported(s, sarif[s])
    <3>1. \A u \in Range(Suites) : \A f \in Reported(u, sarif[u]) : f.suite = u
      BY DEF Reported
    <3>. QED
      BY <2>1, <3>1
  <2>4. ASSUME NEW s \in Range(Suites)
        PROVE  \E v \in 0..version :
                 /\ {f \in findings'.rows : f.suite = s} = Reported(s, v)
                 /\ \A f \in findings.rows : f.suite = s => f.of <= v
                 /\ s \in findings'.failed \/ findings'.since <= v
    <3>1. sarif[s] \in 0..version
      BY <1>1
    <3>2. \A f \in findings.rows : f.suite = s => f.of <= sarif[s]
      BY <1>1 DEF FindingsBehind
    <3>. QED
      BY <2>2, <2>3, <3>1, <3>2
  <2>. QED
    BY <2>4 DEF FindingsGoOn
<1>3. CASE Leaves
  BY <1>3, LeavesJob
<1>4. CASE ~Leaves /\ ~HeadParse
  BY <1>4, StepCases DEF Aside, HeadAnalyze, StartHead, HeadFails, HeadKill, Select,
     SelectPart, vars, Edit, Judge, Check, AddTree, Build, Analyze, Elsewhere
<1>. QED
  BY <1>2, <1>3, <1>4

LEMMA VerdictsStep == Inv /\ [Next]_vars => VerdictIsOfItsQueries' /\ VerdictedOnce'
<1>. SUFFICES ASSUME Inv, [Next]_vars PROVE VerdictIsOfItsQueries' /\ VerdictedOnce'
  OBVIOUS
<1>1. /\ TypeOK /\ ManifestOK /\ Analyzed /\ Unjudged
      /\ VerdictIsOfItsQueries /\ VerdictedOnce
      /\ verdicts \in [Commits -> Seq(Verdict)]
  BY DEF Inv, TypeOK
<1>2. CASE UNCHANGED verdicts
  BY <1>1, <1>2 DEF VerdictIsOfItsQueries, VerdictedOnce
<1>3. CASE Judge /\ Job \in DOMAIN manifest
  <2>. DEFINE of == [s \in Sides |-> sarif[<<Job, s>>]]
              v == VerdictOf(Job, of, hunt.edited)
  <2>1. /\ Hunting /\ Job \in Commits /\ verdicts[Job] = <<>>
        /\ Fresh("before") /\ Fresh("after")
    BY <1>1, <1>3, JobIsCommit DEF Judge, At, Unjudged, Analyzed
  <2>2. verdicts' = [verdicts EXCEPT ![Job] = Append(@, v)]
    BY <1>3 DEF Judge
  <2>3. verdicts' = [verdicts EXCEPT ![Job] = <<v>>]
    BY <2>1, <2>2
  <2>4. /\ of \in [Sides -> Versions]
        /\ ~hunt.edited => of["before"] = version /\ of["after"] = version
    BY <2>1 DEF Fresh, Sides
  <2>5. v.of = of /\ v.edited = hunt.edited
    BY DEF VerdictOf
  <2>. HIDE DEF v, of
  <2>6. (\A h \in Hunks[Job] : h.old = h.new) =>
          v.tp = TruePositive(Job, of["before"]) /\ v.residual = Residual(Job, of["after"])
    BY <1>1, <1>3, <2>1, <2>4, VerdictIsRight DEF v, ManifestOK
  <2>7. ASSUME NEW c \in Commits
        PROVE  /\ Len(verdicts'[c]) <= 1
               /\ \A i \in DOMAIN verdicts'[c] :
                    ~verdicts'[c][i].edited =>
                      /\ verdicts'[c][i].of["before"] = verdicts'[c][i].of["after"]
                      /\ (\A h \in Hunks[c] : h.old = h.new) =>
                           /\ verdicts'[c][i].tp = TruePositive(c, verdicts'[c][i].of["before"])
                           /\ verdicts'[c][i].residual
                                = Residual(c, verdicts'[c][i].of["after"])
    <3>1. CASE c = Job
      <4>1. verdicts'[c] = <<v>>
        BY <1>1, <2>1, <2>3, <3>1
      <4>2. Len(verdicts'[c]) = 1 /\ \A i \in DOMAIN verdicts'[c] : verdicts'[c][i] = v
        BY <4>1
      <4>. QED
        BY <2>4, <2>5, <2>6, <3>1, <4>2
    <3>2. CASE c # Job
      <4>1. verdicts'[c] = verdicts[c]
        BY <1>1, <2>3, <3>2
      <4>. QED
        BY <1>1, <4>1 DEF VerdictIsOfItsQueries, VerdictedOnce
    <3>. QED
      BY <3>1, <3>2
  <2>. QED
    BY <2>7 DEF VerdictIsOfItsQueries, VerdictedOnce
<1>4. CASE Judge /\ Job \notin DOMAIN manifest
  BY <1>2, <1>4 DEF Judge
<1>5. CASE Leaves
  BY <1>2, <1>5, LeavesJob
<1>6. CASE Aside
  BY <1>2, <1>6, AsideJob
<1>7. CASE ~Leaves /\ ~Aside /\ ~Judge
  BY <1>2, <1>7, StepCases DEF Edit, Check, AddTree, Build, Analyze
<1>. QED
  BY <1>3, <1>4, <1>5, <1>6, <1>7
-------------------------------------------------------------------------------
(* What is on disk.                                                           *)
LEMMA PaidCases ==
  ASSUME NEW L, NEW M, NEW j, NEW n \in Nat, NEW m \in Nat,
         IsFiniteSet(L), Cardinality(L) <= n,
         (M \subseteq L /\ m >= n) \/ (M \subseteq L \cup {j} /\ m = n + 1)
  PROVE  IsFiniteSet(M) /\ Cardinality(M) <= m
<1>1. Cardinality(L) \in Nat
  BY FS_CardinalityType
<1>2. CASE M \subseteq L /\ m >= n
  <2>1. IsFiniteSet(M) /\ Cardinality(M) <= Cardinality(L) /\ Cardinality(M) \in Nat
    BY <1>2, FS_Subset, FS_CardinalityType
  <2>. QED
    BY <1>1, <1>2, <2>1
<1>3. CASE M \subseteq L \cup {j} /\ m = n + 1
  <2>1. /\ IsFiniteSet(L \cup {j})
        /\ Cardinality(L \cup {j}) = IF j \in L THEN Cardinality(L) ELSE Cardinality(L) + 1
    BY FS_AddElement
  <2>2. /\ IsFiniteSet(M) /\ Cardinality(M) \in Nat
        /\ Cardinality(M) <= Cardinality(L \cup {j}) /\ Cardinality(L \cup {j}) \in Nat
    BY <1>3, <2>1, FS_Subset, FS_CardinalityType
  <2>. QED
    BY <1>1, <1>3, <2>1, <2>2
<1>. QED
  BY <1>2, <1>3

LEMMA LeftIs ==
  /\ \A c : c \in Left <=> \E t \in (trees \cup dbs) \ Own : t[1] = c
  /\ \A c : c \in Left' <=> \E t \in (trees' \cup dbs') \ Own' : t[1] = c
BY DEF Left

LEMMA TreesOfIs ==
  ASSUME NEW c
  PROVE  \A t : t \in TreesOf(c) <=> t \in {<<c, "before">>, <<c, "after">>}
BY DEF TreesOf, Sides

(* A run that goes on to another job, or ends, owes no more than before,      *)
(* unless something failed.                                                   *)
LEMMA LeavesPaid ==
  ASSUME Inv, Leaves
  PROVE  \/ Left' \subseteq Left /\ faults' \in {faults, faults + 1}
         \/ Left' \subseteq Left \cup {Job} /\ faults' = faults + 1
<1>. USE DEF Elsewhere, disk, Fault, NoFault
<1>1. TypeOK /\ Own' = {} /\ trees \subseteq Trees /\ dbs \subseteq Trees
  BY LeavesJob DEF Inv, TypeOK, Own
<1>2. ASSUME NEW t \in Trees PROVE t = <<t[1], t[2]>> /\ t[2] \in {"before", "after"}
  BY DEF Trees, Sides
<1>3. Own \subseteq TreesOf(Job) /\ \A t \in TreesOf(Job) : t[1] = Job
  <2>1. /\ <<Job, "after">> \in TreesOf(Job)
        /\ \A t \in TreesOf(Job) : t \in {<<Job, "before">>, <<Job, "after">>}
    BY TreesOfIs
  <2>2. <<Job, "before">>[1] = Job /\ <<Job, "after">>[1] = Job
    OBVIOUS
  <2>3. Own \subseteq TreesOf(Job)
    BY <2>1 DEF Own
  <2>. QED
    BY <2>1, <2>2, <2>3
<1>4. ASSUME trees' \subseteq trees, dbs' \subseteq dbs, (trees' \cup dbs') \cap Own \subseteq {}
      PROVE  Left' \subseteq Left
  BY <1>1, <1>4, LeftIs
<1>5. ASSUME trees' \subseteq trees, dbs' \subseteq dbs \cup TreesOf(Job)
      PROVE  Left' \subseteq Left \cup {Job}
  BY <1>1, <1>3, <1>5, LeftIs
<1>6. CASE StartHunt \/ Check
  <2>1. Own = {}
    BY <1>6 DEF StartHunt, Check, At, Own
  <2>. QED
    BY <1>4, <1>6, <2>1 DEF StartHunt, Check
<1>7. CASE CleanUp
  <2>1. trees' = trees \ TreesOf(Job) /\ dbs' = dbs \ TreesOf(Job) /\ faults' = faults
    BY <1>7 DEF CleanUp
  <2>. QED
    BY <1>3, <1>4, <2>1
<1>8. CASE Kill
  BY <1>5, <1>8 DEF Kill
<1>9. ASSUME TreeFails("after")
      PROVE  Left' \subseteq Left /\ faults' \in {faults, faults + 1}
  <2>1. Own = {}
    BY <1>9 DEF TreeFails, At, Adding, Own
  <2>2. trees' = trees /\ dbs' = dbs /\ faults' \in {faults, faults + 1}
    BY <1>9 DEF TreeFails
  <2>. QED
    BY <1>4, <2>1, <2>2
<1>10. ASSUME TreeFails("before")
       PROVE  \/ Left' \subseteq Left /\ faults' \in {faults, faults + 1}
              \/ Left' \subseteq Left \cup {Job} /\ faults' = faults + 1
  <2>1. trees' = trees \ {<<Job, "after">>} /\ dbs' = dbs
    BY <1>10 DEF TreeFails
  <2>2. CASE <<Job, "before">> \in trees
    <3>1. Own = {<<Job, "after">>}
      BY <1>10 DEF TreeFails, At, Adding, Own
    <3>2. Job \in Left
      <4>1. <<Job, "before">> \in (trees \cup dbs) \ Own /\ <<Job, "before">>[1] = Job
        BY <2>2, <3>1
      <4>. QED
        BY <4>1, LeftIs
    <3>3. Left' \subseteq Left
      BY <1>5, <2>1, <3>2
    <3>. QED
      BY <1>10, <3>3 DEF TreeFails
  <2>3. CASE <<Job, "before">> \notin trees
    <3>1. faults' = faults + 1
      BY <1>10, <2>3 DEF TreeFails
    <3>. QED
      BY <1>5, <2>1, <3>1
  <2>. QED
    BY <2>2, <2>3
<1>11. ASSUME BuildFails("before")
       PROVE  Left' \subseteq Left \cup {Job} /\ faults' = faults + 1
  <2>1. <<Job, "before">> \in TreesOf(Job)
    BY TreesOfIs
  <2>2. trees' \subseteq trees /\ dbs' \subseteq dbs \cup TreesOf(Job) /\ faults' = faults + 1
    BY <1>11, <2>1 DEF BuildFails
  <2>. QED
    BY <1>5, <2>2
<1>12. ASSUME NEW side \in Sides, BuildFails("after") \/ AnalyzeFails(side)
       PROVE  Left' \subseteq Left /\ faults' = faults + 1
  <2>1. trees' = trees \ TreesOf(Job) /\ dbs' = dbs \ TreesOf(Job) /\ faults' = faults + 1
    BY <1>12 DEF BuildFails, AnalyzeFails
  <2>. QED
    BY <1>3, <1>4, <2>1
<1>. QED
  BY <1>6, <1>7, <1>8, <1>9, <1>10, <1>11, <1>12 DEF Leaves, Sides

LEMMA PaidStep == Inv /\ [Next]_vars => Paid'
<1>. SUFFICES ASSUME Inv, [Next]_vars PROVE Paid'
  OBVIOUS
<1>1. TypeOK /\ Paid /\ faults \in Nat /\ faults' \in Nat
  BY TypeStep, HuntBoundAssumption DEF Inv, TypeOK
<1>2. ASSUME \/ Left' \subseteq Left /\ faults' \in {faults, faults + 1}
             \/ Left' \subseteq Left \cup {Job} /\ faults' = faults + 1
      PROVE  Paid'
  <2>1. (Left' \subseteq Left /\ faults' >= faults)
          \/ (Left' \subseteq Left \cup {Job} /\ faults' = faults + 1)
    BY <1>1, <1>2
  <2>. QED
    BY <1>1, <2>1, PaidCases DEF Paid
<1>3. ASSUME \A t \in (trees' \cup dbs') \ Own' : t \in (trees \cup dbs) \ Own,
             faults' \in {faults, faults + 1}
      PROVE  Paid'
  BY <1>2, <1>3, LeftIs
<1>4. CASE Leaves
  BY <1>2, <1>4, LeavesPaid
<1>5. CASE Aside
  <2>1. Own' = Own
    BY <1>5, AsideJob DEF Own, Job, Hunting, TreesOf
  <2>. QED
    BY <1>3, <1>5, <2>1, AsideJob
<1>6. CASE Edit
  <2>1. Job' = Job /\ Hunting' = Hunting /\ hunt'.stage = hunt.stage
    BY <1>1, <1>6 DEF Edit, TypeOK, Job, Hunting
  <2>2. Own' = Own
    BY <2>1 DEF Own, TreesOf
  <2>. QED
    BY <1>3, <1>6, <2>2 DEF Edit, disk
<1>7. CASE Judge \/ (Check /\ hunt' = [hunt EXCEPT !.stage = "tree after"])
  <2>1. Own' = Own
    BY <1>1, <1>7, GoKeepsJob DEF Judge, Check, At, Go, Own, TreesOf
  <2>. QED
    BY <1>3, <1>7, <2>1 DEF Judge, Check, disk, NoFault
<1>8. CASE AddTree("after", "tree before")
  <2>1. Own' = {<<Job, "after">>}
    <3>1. Hunting' /\ Job' = Job /\ hunt'.stage = "tree before"
      BY <1>1, <1>8, GoKeepsJob DEF AddTree, At, Go
    <3>. QED
      BY <3>1 DEF Own
  <2>2. Own = {}
    BY <1>8 DEF AddTree, At, Adding, Own
  <2>3. trees' = trees \cup {<<Job, "after">>} /\ dbs' = dbs /\ faults' = faults
    BY <1>8 DEF AddTree, NoFault
  <2>. QED
    BY <1>3, <2>1, <2>2, <2>3
<1>9. CASE AddTree("before", "build before")
  <2>1. Own' = TreesOf(Job)
    <3>1. Hunting' /\ Job' = Job /\ hunt'.stage = "build before"
      BY <1>1, <1>9, GoKeepsJob DEF AddTree, At, Go
    <3>. QED
      BY <3>1 DEF Own, TreesOf
  <2>2. Own = {<<Job, "after">>}
    BY <1>9 DEF AddTree, At, Adding, Own
  <2>3. trees' = trees \cup {<<Job, "before">>} /\ dbs' = dbs /\ faults' = faults
    BY <1>9 DEF AddTree, NoFault
  <2>. QED
    BY <1>3, <2>1, <2>2, <2>3, TreesOfIs
<1>10. CASE \/ Build("before", "build after") \/ Build("after", "analyze before")
            \/ Analyze("before", "analyze after") \/ Analyze("after", "verdict")
  <2>1. Own' = TreesOf(Job)
    <3>1. \E stage \in {"build after", "analyze before", "analyze after", "verdict"} :
            Hunting /\ hunt' = [hunt EXCEPT !.stage = stage]
      BY <1>10 DEF Build, Analyze, At, Go
    <3>2. /\ Hunting' /\ Job' = Job
          /\ hunt'.stage \in {"build after", "analyze before", "analyze after", "verdict"}
      BY <1>1, <3>1, GoKeepsJob
    <3>. QED
      BY <3>2 DEF Own, TreesOf
  <2>2. Own = TreesOf(Job)
    BY <1>10 DEF Build, Analyze, At, Building, Analyzing, Own
  <2>3. trees' = trees /\ dbs' \subseteq dbs \cup TreesOf(Job) /\ faults' = faults
    BY <1>10, TreesOfIs DEF Build, Analyze, NoFault
  <2>. QED
    BY <1>3, <2>1, <2>2, <2>3
<1>. QED
  BY <1>4, <1>5, <1>6, <1>7, <1>8, <1>9, <1>10, StepCases
-------------------------------------------------------------------------------
LEMMA InvHolds == Spec => []Inv
<1>1. Inv /\ [Next]_vars => Inv'
  BY TypeStep, ManifestStep, AnalyzedStep, UnjudgedStep, PaidStep, VerdictsStep,
     HeadStep DEF Inv
<1>. QED
  BY InitInv, <1>1, PTL DEF Spec

(* The variables keep their types. *)
THEOREM HuntTypeCorrect == Spec => []TypeOK
<1>1. Inv => TypeOK
  BY DEF Inv
<1>. QED
  BY <1>1, InvHolds, PTL

(* A verdict is what one version of the queries says of the parent and of the *)
(* fix: no SARIF file of an earlier run, of another job or of a failed        *)
(* analysis gets into it (verdict.py, incomplete_fix_hunt.sh).                *)
THEOREM VerdictsAreOfTheirQueries == Spec => []VerdictIsOfItsQueries
<1>1. Inv => VerdictIsOfItsQueries
  BY DEF Inv
<1>. QED
  BY <1>1, InvHolds, PTL

(* However often the worklist is run again, and wherever a run is killed, a   *)
(* fix has one verdict (sha_in_verdicts).                                     *)
THEOREM AlwaysVerdictedOnce == Spec => []VerdictedOnce
<1>1. Inv => VerdictedOnce
  BY DEF Inv
<1>. QED
  BY <1>1, InvHolds, PTL

(* Between runs there are no more fixes with a worktree or a database on disk *)
(* than there were failures and kills (incomplete_fix_hunt.sh).               *)
THEOREM DiskAlwaysReclaimed == Spec => []DiskIsReclaimed
<1>1. Inv => DiskIsReclaimed
  <2>1. ~Hunting => Left = {t[1] : t \in trees \cup dbs}
    BY DEF Left, Own
  <2>. QED
    BY <2>1 DEF Inv, Paid, DiskIsReclaimed
<1>. QED
  BY <1>1, InvHolds, PTL

(* The findings on HEAD never go back: of each suite they are all that one    *)
(* version of its queries reports, no older than the last and, if the suite   *)
(* did not fail, than the start of the run, through failures, kills and edits *)
(* (full_variant_hunt.sh, sarif_to_findings.py).                              *)
THEOREM FindingsNeverEverGoBack == Spec => FindingsNeverGoBack
<1>1. Inv /\ [Next]_vars => [FindingsGoOn]_findings
  BY FindingsStep
<1>. QED
  BY <1>1, InvHolds, PTL DEF Spec, FindingsNeverGoBack
-------------------------------------------------------------------------------
(* grade_query.py.  The scores are sums of points; what a step does to a sum  *)
(* follows from what it does to each of them.                                 *)
GradeTyped == signals \subseteq Signals /\ names \in Nat

(* The parts of AbsenceScore that look at more than one signal. *)
ScopePoints == IF Has("not_exists_scope") THEN 8 ELSE Points("not_exists", 3)
ClassPoints ==
  IF Has("class_is_primary_select") THEN 7
  ELSE IF class_is_secondary THEN 0 ELSE Points("select_class_or_module", 3)
PushPoints == IF Has("from_with_callable_scope") THEN Points("not_is_pred_receiver", 3) ELSE 0

LEMMA PointsAre ==
  ASSUME NEW s, NEW n \in Nat
  PROVE  /\ Points(s, n) \in Nat /\ Points(s, n)' \in Nat
         /\ Points(s, n) <= n /\ Points(s, n)' <= n
BY DEF Points

LEMMA PointsGrow ==
  ASSUME NEW s, NEW n \in Nat, Has(s) => Has(s)'
  PROVE  Points(s, n) <= Points(s, n)'
BY DEF Points

LEMMA PointsStay ==
  ASSUME NEW s, NEW n \in Nat, Has(s)' <=> Has(s)
  PROVE  Points(s, n)' = Points(s, n)
BY DEF Points

LEMMA PartsAre ==
  /\ ScopePoints \in Int /\ ScopePoints' \in Int
  /\ ClassPoints \in Int /\ ClassPoints' \in Int
  /\ PushPoints \in Int /\ PushPoints' \in Int
BY PointsAre DEF ScopePoints, ClassPoints, PushPoints

(* The parts that count whatever else there is. *)
Guards == Points("absence_in_name", 4) + Points("absence_in_description", 3)
          + Points("not_has_guard", 6) + Points("not_guard_on_selected_var", 7)
Others == Points("not_is_pred_receiver", 5) + Points("unscoped_find", 6)
          + Points("not_guard_on_block", 7) + Points("infinite_quantifier", 6)

LEMMA AbsenceIs ==
  /\ AbsenceScore =
       Guards + Others + ScopePoints + ClassPoints + Points("from_with_callable_scope", 6)
  /\ AbsenceScore' =
       Guards' + Others' + ScopePoints' + ClassPoints' + Points("from_with_callable_scope", 6)'
<1>1. AbsenceScore =
        Guards + Others + ScopePoints + ClassPoints + Points("from_with_callable_scope", 6)
  <2>1. AbsenceScore =
          Points("absence_in_name", 4) + Points("absence_in_description", 3) + ScopePoints
          + Points("not_has_guard", 6) + Points("not_guard_on_selected_var", 7)
          + Points("not_is_pred_receiver", 5) + ClassPoints
          + Points("from_with_callable_scope", 6) + Points("unscoped_find", 6)
          + Points("not_guard_on_block", 7) + Points("infinite_quantifier", 6)
    BY DEF AbsenceScore, ScopePoints, ClassPoints
  <2>2. /\ Points("absence_in_name", 4) \in Nat
        /\ Points("absence_in_description", 3) \in Nat
        /\ Points("not_has_guard", 6) \in Nat
        /\ Points("not_guard_on_selected_var", 7) \in Nat
        /\ Points("not_is_pred_receiver", 5) \in Nat
        /\ Points("unscoped_find", 6) \in Nat
        /\ Points("not_guard_on_block", 7) \in Nat
        /\ Points("infinite_quantifier", 6) \in Nat
        /\ Points("from_with_callable_scope", 6) \in Nat
    BY PointsAre
  <2>3. QED  BY <2>1, <2>2, PartsAre DEF Guards, Others
<1>2. AbsenceScore' =
        Guards' + Others' + ScopePoints' + ClassPoints' + Points("from_with_callable_scope", 6)'
  <2>1. AbsenceScore' =
          Points("absence_in_name", 4)' + Points("absence_in_description", 3)' + ScopePoints'
          + Points("not_has_guard", 6)' + Points("not_guard_on_selected_var", 7)'
          + Points("not_is_pred_receiver", 5)' + ClassPoints'
          + Points("from_with_callable_scope", 6)' + Points("unscoped_find", 6)'
          + Points("not_guard_on_block", 7)' + Points("infinite_quantifier", 6)'
    BY DEF AbsenceScore, ScopePoints, ClassPoints
  <2>2. /\ Points("absence_in_name", 4)' \in Nat
        /\ Points("absence_in_description", 3)' \in Nat
        /\ Points("not_has_guard", 6)' \in Nat
        /\ Points("not_guard_on_selected_var", 7)' \in Nat
        /\ Points("not_is_pred_receiver", 5)' \in Nat
        /\ Points("unscoped_find", 6)' \in Nat
        /\ Points("not_guard_on_block", 7)' \in Nat
        /\ Points("infinite_quantifier", 6)' \in Nat
        /\ Points("from_with_callable_scope", 6)' \in Nat
    BY PointsAre
  <2>3. QED  BY <2>1, <2>2, PartsAre DEF Guards, Others
<1>3. QED  BY <1>1, <1>2

LEMMA AbsenceTyped ==
  /\ Guards \in Int /\ Guards' \in Int /\ Others \in Int /\ Others' \in Int
  /\ AbsenceScore \in Int /\ AbsenceScore' \in Int
<1>1. Guards \in Int /\ Guards' \in Int  BY PointsAre DEF Guards
<1>2. Others \in Int /\ Others' \in Int  BY PointsAre DEF Others
<1>3. /\ Points("from_with_callable_scope", 6) \in Nat
      /\ Points("from_with_callable_scope", 6)' \in Nat
  BY PointsAre
<1>4. QED  BY <1>1, <1>2, <1>3, AbsenceIs, PartsAre

(* Absence scores no less if none of its signals goes, and the two parts      *)
(* about what the query selects gain g together.                              *)
LEMMA AbsenceGrows ==
  ASSUME \A s \in Absence : Has(s) => Has(s)', ScopePoints <= ScopePoints', NEW g \in Int,
         ClassPoints + Points("from_with_callable_scope", 6) + g
           <= ClassPoints' + Points("from_with_callable_scope", 6)'
  PROVE  AbsenceScore + g <= AbsenceScore'
<1>1. Guards <= Guards'
  <2>1. /\ Points("absence_in_name", 4) <= Points("absence_in_name", 4)'
        /\ Points("absence_in_description", 3) <= Points("absence_in_description", 3)'
        /\ Points("not_has_guard", 6) <= Points("not_has_guard", 6)'
        /\ Points("not_guard_on_selected_var", 7) <= Points("not_guard_on_selected_var", 7)'
    BY PointsGrow DEF Absence
  <2>2. QED  BY <2>1, PointsAre DEF Guards
<1>2. Others <= Others'
  <2>1. /\ Points("not_is_pred_receiver", 5) <= Points("not_is_pred_receiver", 5)'
        /\ Points("unscoped_find", 6) <= Points("unscoped_find", 6)'
        /\ Points("not_guard_on_block", 7) <= Points("not_guard_on_block", 7)'
        /\ Points("infinite_quantifier", 6) <= Points("infinite_quantifier", 6)'
    BY PointsGrow DEF Absence
  <2>2. QED  BY <2>1, PointsAre DEF Others
<1>3. /\ Points("from_with_callable_scope", 6) \in Nat
      /\ Points("from_with_callable_scope", 6)' \in Nat
  BY PointsAre
<1>4. QED  BY <1>1, <1>2, <1>3, AbsenceIs, AbsenceTyped, PartsAre

(* A text with the same guards, whose class is no longer the selected one.    *)
LEMMA AbsenceShrinks ==
  ASSUME \A s \in Absence : Has(s)' <=> Has(s), ScopePoints' = ScopePoints,
         ClassPoints' <= ClassPoints
  PROVE  AbsenceScore' <= AbsenceScore
<1>1. Guards' = Guards
  BY PointsStay DEF Absence, Guards
<1>2. Others' = Others
  BY PointsStay DEF Absence, Others
<1>3. Points("from_with_callable_scope", 6) \in Nat
      /\ Points("from_with_callable_scope", 6)' = Points("from_with_callable_scope", 6)
  BY PointsAre, PointsStay DEF Absence
<1>4. QED  BY <1>1, <1>2, <1>3, AbsenceIs, AbsenceTyped, PartsAre

(* not x.hasY() counts no less, or no more, with the score it depends on.     *)
Dot == IF AbsenceScore > 0 THEN Points("not_dot_method", 1) ELSE 0

LEMMA DiffIs ==
  /\ Dot \in Int /\ Dot' \in Int
  /\ BaseScore = AbsenceScore + Dot /\ BaseScore' = AbsenceScore' + Dot'
  /\ diff_score = BaseScore + PushPoints /\ diff_score' = BaseScore' + PushPoints'
<1>1. Points("not_dot_method", 1) \in Nat /\ Points("not_dot_method", 1)' \in Nat
  BY PointsAre
<1>2. Dot \in Int /\ Dot' \in Int
  BY <1>1 DEF Dot
<1>3. BaseScore = AbsenceScore + Dot /\ BaseScore' = AbsenceScore' + Dot'
  BY DEF BaseScore, Dot
<1>4. diff_score = BaseScore + PushPoints /\ diff_score' = BaseScore' + PushPoints'
  BY DEF diff_score, PushPoints
<1>5. QED  BY <1>2, <1>3, <1>4

LEMMA DiffTyped ==
  /\ BaseScore \in Int /\ BaseScore' \in Int /\ diff_score \in Int /\ diff_score' \in Int
<1>1. /\ Dot \in Int /\ Dot' \in Int
      /\ AbsenceScore \in Int /\ AbsenceScore' \in Int
      /\ PushPoints \in Int /\ PushPoints' \in Int
  BY DiffIs, AbsenceTyped, PartsAre
<1>2. BaseScore = AbsenceScore + Dot /\ BaseScore' = AbsenceScore' + Dot'
  BY DiffIs
<1>3. diff_score = BaseScore + PushPoints /\ diff_score' = BaseScore' + PushPoints'
  BY DiffIs
<1>4. BaseScore \in Int /\ BaseScore' \in Int
  BY <1>1, <1>2
<1>5. QED  BY <1>1, <1>3, <1>4

LEMMA DiffGrows ==
  ASSUME \A s \in Absence : Has(s) => Has(s)', NEW g \in Nat, AbsenceScore + g <= AbsenceScore'
  PROVE  BaseScore + g <= BaseScore' /\ diff_score + g <= diff_score'
<1>1. Points("not_dot_method", 1) <= Points("not_dot_method", 1)'
      /\ Points("not_is_pred_receiver", 3) <= Points("not_is_pred_receiver", 3)'
  BY PointsGrow DEF Absence
<1>2. /\ Points("not_dot_method", 1) \in Nat /\ Points("not_dot_method", 1)' \in Nat
      /\ Points("not_is_pred_receiver", 3) \in Nat /\ Points("not_is_pred_receiver", 3)' \in Nat
  BY PointsAre
<1>3. Dot <= Dot'
  BY <1>1, <1>2, AbsenceTyped DEF Dot
<1>4. PushPoints <= PushPoints'
  BY <1>1, <1>2 DEF PushPoints, Absence
<1>5. /\ Dot \in Int /\ Dot' \in Int
      /\ AbsenceScore \in Int /\ AbsenceScore' \in Int
      /\ PushPoints \in Int /\ PushPoints' \in Int
  BY DiffIs, AbsenceTyped, PartsAre
<1>6. /\ BaseScore = AbsenceScore + Dot
      /\ \A a, d \in Int : a = AbsenceScore' /\ d = Dot' => BaseScore' = a + d
  BY DiffIs
<1>7. /\ diff_score = BaseScore + PushPoints
      /\ \A b, p \in Int : b = BaseScore' /\ p = PushPoints' => diff_score' = b + p
  BY DiffIs
<1>8. BaseScore + g <= BaseScore'
  BY <1>3, <1>5, <1>6
<1>9. QED  BY <1>4, <1>5, <1>7, <1>8, DiffTyped

LEMMA DiffShrinks ==
  ASSUME \A s \in Absence : Has(s)' <=> Has(s), AbsenceScore' <= AbsenceScore
  PROVE  BaseScore' <= BaseScore /\ diff_score' <= diff_score
<1>1. Points("not_dot_method", 1)' = Points("not_dot_method", 1)
      /\ Points("not_is_pred_receiver", 3)' = Points("not_is_pred_receiver", 3)
  BY PointsStay DEF Absence
<1>2. Points("not_dot_method", 1) \in Nat
  BY PointsAre
<1>3. Dot' <= Dot
  BY <1>1, <1>2, AbsenceTyped DEF Dot
<1>4. PushPoints' = PushPoints
  BY <1>1 DEF PushPoints, Absence
<1>5. /\ Dot \in Int /\ Dot' \in Int
      /\ AbsenceScore \in Int /\ AbsenceScore' \in Int
      /\ PushPoints \in Int /\ PushPoints' \in Int
  BY DiffIs, AbsenceTyped, PartsAre
<1>6. /\ BaseScore = AbsenceScore + Dot
      /\ \A a, d \in Int : a = AbsenceScore' /\ d = Dot' => BaseScore' = a + d
  BY DiffIs
<1>7. /\ diff_score = BaseScore + PushPoints
      /\ \A b, p \in Int : b = BaseScore' /\ p = PushPoints' => diff_score' = b + p
  BY DiffIs
<1>8. BaseScore' <= BaseScore
  BY <1>3, <1>5, <1>6
<1>9. QED  BY <1>4, <1>5, <1>7, <1>8, DiffTyped

(* The specific matches, each for itself. *)
Clues ==
  Points("keyword_arg_match", 4) + Points("sink_constant", 3) + Points("literal_pattern", 3)
  + Points("select_method_call", 1) + Points("select_literal", 4)
  + Points("precision_high", 1) + Points("path_problem_flow", 10)

LEMMA SweepIs ==
  ASSUME names \in Nat, names' \in Nat
  PROVE  /\ CallScore \in Int /\ CallScore' \in Int
         /\ FlowScore \in Int /\ FlowScore' \in Int
         /\ FilterScore \in Int /\ FilterScore' \in Int
         /\ Clues \in Int /\ Clues' \in Int
         /\ sweep_score = CallScore + FlowScore + FilterScore + Clues
         /\ sweep_score' = CallScore' + FlowScore' + FilterScore' + Clues'
<1>1. CallScore \in Int /\ CallScore' \in Int
  <2>2. \A n \in Nat : Least(2 * n, 2) \in Int /\ Least(3 * n, 8) \in Int
    BY DEF Least
  <2>3. CallScore \in Int
    BY <2>2 DEF CallScore
  <2>4. CallScore' \in Int
    BY <2>2 DEF CallScore
  <2>5. QED  BY <2>3, <2>4
<1>2. FlowScore \in Int /\ FlowScore' \in Int
  BY PointsAre DEF FlowScore
<1>3. FilterScore \in Int /\ FilterScore' \in Int
  BY DEF FilterScore
<1>4. /\ Points("keyword_arg_match", 4) \in Nat /\ Points("sink_constant", 3) \in Nat
      /\ Points("literal_pattern", 3) \in Nat /\ Points("select_method_call", 1) \in Nat
      /\ Points("select_literal", 4) \in Nat /\ Points("precision_high", 1) \in Nat
      /\ Points("path_problem_flow", 10) \in Nat
  BY PointsAre
<1>5. /\ Points("keyword_arg_match", 4)' \in Nat /\ Points("sink_constant", 3)' \in Nat
      /\ Points("literal_pattern", 3)' \in Nat /\ Points("select_method_call", 1)' \in Nat
      /\ Points("select_literal", 4)' \in Nat /\ Points("precision_high", 1)' \in Nat
      /\ Points("path_problem_flow", 10)' \in Nat
  BY PointsAre
<1>6. Clues \in Int
  BY <1>4 DEF Clues
<1>7. Clues' \in Int
  BY <1>5 DEF Clues
<1>8. sweep_score = CallScore + FlowScore + FilterScore + Clues
  BY <1>1, <1>2, <1>3, <1>4 DEF sweep_score, Clues
<1>9. sweep_score' = CallScore' + FlowScore' + FilterScore' + Clues'
  BY <1>1, <1>2, <1>3, <1>5 DEF sweep_score, Clues
<1>10. QED  BY <1>1, <1>2, <1>3, <1>6, <1>7, <1>8, <1>9

LEMMA SweepTyped ==
  ASSUME names \in Nat, names' \in Nat
  PROVE  sweep_score \in Int /\ sweep_score' \in Int
<1>1. /\ CallScore \in Int /\ CallScore' \in Int
      /\ FlowScore \in Int /\ FlowScore' \in Int
      /\ FilterScore \in Int /\ FilterScore' \in Int
      /\ Clues \in Int /\ Clues' \in Int
  BY SweepIs
<1>2. sweep_score = CallScore + FlowScore + FilterScore + Clues
  BY SweepIs
<1>3. sweep_score' = CallScore' + FlowScore' + FilterScore' + Clues'
  BY SweepIs
<1>4. QED  BY <1>1, <1>2, <1>3

Ties == \/ Has("class_is_primary_select") \/ Has("from_with_callable_scope")
        \/ Has("absence_in_name") \/ Has("absence_in_description")

LEMMA GradeIs ==
  ASSUME names \in Nat, names' \in Nat
  PROVE  /\ grade = "diff" <=> diff_score > sweep_score \/ (diff_score = sweep_score /\ Ties)
         /\ grade' = "diff" <=> diff_score' > sweep_score' \/ (diff_score' = sweep_score' /\ Ties')
         /\ grade = "sweep" <=> grade # "diff"
         /\ grade' = "sweep" <=> grade' # "diff"
<1>1. sweep_score \in Int /\ sweep_score' \in Int
  BY SweepTyped
<1>2. /\ diff_score \in Int /\ diff_score' \in Int
  BY DiffTyped
<1>3. grade = IF diff_score > sweep_score THEN "diff"
              ELSE IF sweep_score > diff_score THEN "sweep"
              ELSE IF Ties THEN "diff" ELSE "sweep"
  BY DEF grade, Ties
<1>4. grade' = IF diff_score' > sweep_score' THEN "diff"
               ELSE IF sweep_score' > diff_score' THEN "sweep"
               ELSE IF Ties' THEN "diff" ELSE "sweep"
  BY DEF grade, Ties
<1>5. QED  BY <1>1, <1>2, <1>3, <1>4
-------------------------------------------------------------------------------
LEMMA CallsGrow ==
  ASSUME NEW m \in Nat, NEW n \in Nat, m <= n
  PROVE  /\ Least(2 * m, 2) \in Int /\ Least(3 * m, 8) \in Int
         /\ Least(2 * n, 2) \in Int /\ Least(3 * n, 8) \in Int
         /\ Least(2 * m, 2) <= Least(2 * n, 2)
         /\ Least(3 * m, 8) <= Least(3 * n, 8)
         /\ Least(2 * m, 2) <= Least(3 * n, 8)
BY DEF Least

(* A sweep score that gains at most k; and one that loses nothing. *)
LEMMA SweepNoMore ==
  ASSUME names \in Nat, names' \in Nat, NEW k \in Nat,
         CallScore' = CallScore, FlowScore' <= FlowScore, FilterScore' <= FilterScore,
         Clues' <= Clues + k
  PROVE  sweep_score' <= sweep_score + k
<1>1. /\ CallScore \in Int /\ FlowScore \in Int /\ FlowScore' \in Int
      /\ FilterScore \in Int /\ FilterScore' \in Int /\ Clues \in Int /\ Clues' \in Int
  BY SweepIs
<1>2. sweep_score = CallScore + FlowScore + FilterScore + Clues
  BY SweepIs
<1>3. \A c, f, w, u \in Int :
        c = CallScore' /\ f = FlowScore' /\ w = FilterScore' /\ u = Clues' =>
          sweep_score' = c + f + w + u
  BY SweepIs
<1>4. QED  BY <1>1, <1>2, <1>3

LEMMA SweepNoLess ==
  ASSUME names \in Nat, names' \in Nat,
         CallScore <= CallScore', FlowScore <= FlowScore', FilterScore <= FilterScore',
         Clues <= Clues'
  PROVE  sweep_score <= sweep_score'
<1>1. /\ CallScore \in Int /\ CallScore' \in Int /\ FlowScore \in Int /\ FlowScore' \in Int
      /\ FilterScore \in Int /\ FilterScore' \in Int /\ Clues \in Int /\ Clues' \in Int
  BY SweepIs
<1>2. sweep_score = CallScore + FlowScore + FilterScore + Clues
  BY SweepIs
<1>3. \A c, f, w, u \in Int :
        c = CallScore' /\ f = FlowScore' /\ w = FilterScore' /\ u = Clues' =>
          sweep_score' = c + f + w + u
  BY SweepIs
<1>4. QED  BY <1>1, <1>2, <1>3
-------------------------------------------------------------------------------
(* A further sign of absence.  A callable in the from clause is a method call *)
(* that is selected: it may demote the class, but it brings twice as much.    *)
LEMMA AbsenceKeepsDiff ==
  ASSUME GradeTyped, grade = "diff", AddsAbsence
  PROVE  grade' = "diff"
<1>1. names \in Nat /\ names' \in Nat /\ names' = names
  BY DEF GradeTyped, AddsAbsence
<1>2. PICK s \in Absence \ signals : signals' = signals \cup {s} \cup Implied(s)
  BY DEF AddsAbsence
<1>3. Implied(s) \subseteq {"not_has_guard", "select_method_call", "select_class_or_module"}
  BY DEF Implied
<1>4. \A t : Has(t) => Has(t)'
  BY <1>2 DEF Has
<1>5. \A t \in {"not_exists", "keyword_arg_match", "sink_constant", "literal_pattern",
                "select_literal", "precision_high", "path_problem_flow", "dataflow_import",
                "generic_finder_methods"} : Has(t)' <=> Has(t)
  BY <1>2, <1>3 DEF Has, Absence
<1>6. /\ s # "from_with_callable_scope" =>
           (Has("select_method_call")' <=> Has("select_method_call"))
      /\ s # "class_is_primary_select" =>
           (Has("select_class_or_module")' <=> Has("select_class_or_module"))
      /\ s # "class_is_primary_select" =>
           (Has("class_is_primary_select")' <=> Has("class_is_primary_select"))
      /\ s = "class_is_primary_select" => Has("class_is_primary_select")'
      /\ s = "from_with_callable_scope" =>
           Has("from_with_callable_scope")' /\ ~Has("from_with_callable_scope")
  BY <1>2 DEF Has, Absence, Implied
<1>7. ScopePoints <= ScopePoints'
  <2>1. Points("not_exists", 3)' = Points("not_exists", 3) /\ Points("not_exists", 3) \in 0..3
    BY <1>5, PointsStay, PointsAre
  <2>2. QED  BY <2>1, <1>4 DEF ScopePoints
<1>8. PICK g \in {0, 3} :
        /\ g = 3 <=> s = "from_with_callable_scope"
        /\ ClassPoints + Points("from_with_callable_scope", 6) + g
             <= ClassPoints' + Points("from_with_callable_scope", 6)'
  <2>1. ClassPoints \in 0..7 /\ ClassPoints' \in 0..7
    BY PointsAre DEF ClassPoints
  <2>2. CASE s = "from_with_callable_scope"
    <3>1. ClassPoints - 3 <= ClassPoints'
      <4>1. Points("select_class_or_module", 3)' = Points("select_class_or_module", 3)
            /\ Points("select_class_or_module", 3) \in 0..3
        BY <2>2, <1>6, PointsStay, PointsAre
      <4>2. QED  BY <4>1, <2>2, <1>6, <2>1 DEF ClassPoints
    <3>2. /\ Points("from_with_callable_scope", 6) \in Nat
          /\ Points("from_with_callable_scope", 6)' \in Nat
          /\ Points("from_with_callable_scope", 6) + 6 <= Points("from_with_callable_scope", 6)'
      BY <2>2, <1>6 DEF Points
    <3>3. ClassPoints + Points("from_with_callable_scope", 6) + 3
            <= ClassPoints' + Points("from_with_callable_scope", 6)'
      BY <2>1, <3>1, <3>2
    <3>4. QED  BY <2>2, <3>3
  <2>3. CASE s # "from_with_callable_scope"
    <3>1. ClassPoints <= ClassPoints'
      <4>1. CASE s = "class_is_primary_select"
        BY <4>1, <1>6, <2>1 DEF ClassPoints
      <4>2. CASE s # "class_is_primary_select"
        <5>1. Points("select_class_or_module", 3)' = Points("select_class_or_module", 3)
          BY <4>2, <1>6, PointsStay
        <5>2. class_is_secondary' <=> class_is_secondary
          BY <4>2, <2>3, <1>6 DEF class_is_secondary
        <5>3. ClassPoints' = ClassPoints
          BY <4>2, <1>6, <5>1, <5>2 DEF ClassPoints
        <5>4. QED  BY <5>3, <2>1
      <4>3. QED  BY <4>1, <4>2
    <3>2. Points("from_with_callable_scope", 6) \in Nat
          /\ Points("from_with_callable_scope", 6)' \in Nat
          /\ Points("from_with_callable_scope", 6) <= Points("from_with_callable_scope", 6)'
      BY PointsAre, PointsGrow, <1>4
    <3>3. QED  BY <2>1, <2>3, <3>1, <3>2
  <2>4. QED  BY <2>2, <2>3
<1>9. BaseScore + g <= BaseScore' /\ diff_score + g <= diff_score'
  <2>1. AbsenceScore + g <= AbsenceScore'
    BY <1>4, <1>7, <1>8, AbsenceGrows
  <2>2. QED  BY <1>4, <2>1, DiffGrows
<1>10. CallScore' = CallScore
  BY <1>1, <1>5 DEF CallScore
<1>11. FlowScore' <= FlowScore
  <2>1. Points("dataflow_import", 4)' = Points("dataflow_import", 4)
        /\ Points("dataflow_import", 4) \in Nat
    BY <1>5, PointsStay, PointsAre
  <2>2. BaseScore <= BaseScore'
    BY <1>9, DiffTyped
  <2>3. QED  BY <2>1, <2>2, DiffTyped DEF FlowScore
<1>12. FilterScore' <= FilterScore
  BY <1>1, <1>4, <1>5 DEF FilterScore
<1>13. PICK k \in {0, 1} :
         /\ k = 1 <=> s = "from_with_callable_scope"
         /\ Clues' <= Clues + k
  <2>1. /\ Points("keyword_arg_match", 4)' = Points("keyword_arg_match", 4)
        /\ Points("sink_constant", 3)' = Points("sink_constant", 3)
        /\ Points("literal_pattern", 3)' = Points("literal_pattern", 3)
        /\ Points("select_literal", 4)' = Points("select_literal", 4)
        /\ Points("precision_high", 1)' = Points("precision_high", 1)
        /\ Points("path_problem_flow", 10)' = Points("path_problem_flow", 10)
    BY <1>5, PointsStay
  <2>2. /\ Points("keyword_arg_match", 4) \in Nat /\ Points("sink_constant", 3) \in Nat
        /\ Points("literal_pattern", 3) \in Nat /\ Points("select_method_call", 1) \in Nat
        /\ Points("select_literal", 4) \in Nat /\ Points("precision_high", 1) \in Nat
        /\ Points("path_problem_flow", 10) \in Nat /\ Points("select_method_call", 1)' \in Nat
    BY PointsAre
  <2>3. PICK k \in {0, 1} :
          /\ k = 1 <=> s = "from_with_callable_scope"
          /\ Points("select_method_call", 1)' <= Points("select_method_call", 1) + k
    BY <1>6, PointsStay, PointsAre
  <2>4. Clues' <= Clues + k
    BY <2>1, <2>2, <2>3 DEF Clues
  <2>5. QED  BY <2>3, <2>4
<1>14. sweep_score' <= sweep_score + k
  BY <1>1, <1>10, <1>11, <1>12, <1>13, SweepNoMore
<1>15. Ties => Ties'
  BY <1>4 DEF Ties
<1>16. QED  BY <1>1, <1>8, <1>9, <1>13, <1>14, <1>15, GradeIs, SweepIs, DiffTyped

(* A further name or sink.  A method call that is selected may only demote    *)
(* the class; the rest is no part of what absence scores.                     *)
LEMMA SinkKeepsSweep ==
  ASSUME GradeTyped, GradeTyped', grade = "sweep", AddsSink
  PROVE  grade' = "sweep"
<1>1. names \in Nat /\ names' \in Nat /\ names <= names'
  BY DEF GradeTyped, AddsSink
<1>2. PICK added \in SUBSET Sinks : signals' = signals \cup added
  <2>1. CASE signals' = signals
    <3>1. {} \in SUBSET Sinks /\ signals' = signals \cup {}
      BY <2>1
    <3>2. QED  BY <3>1
  <2>2. ASSUME NEW s \in Sinks, signals' = signals \cup {s}
        PROVE  \E added \in SUBSET Sinks : signals' = signals \cup added
    <3>1. {s} \in SUBSET Sinks
      BY <2>2
    <3>2. QED  BY <2>2, <3>1
  <2>3. QED  BY <2>1, <2>2 DEF AddsSink
<1>3. \A t : Has(t) => Has(t)'
  BY <1>2 DEF Has
<1>4. \A t \in Absence \cup {"not_exists", "select_class_or_module", "generic_finder_methods"} :
        Has(t)' <=> Has(t)
  BY <1>2 DEF Has, Sinks, Absence
<1>5. BaseScore' <= BaseScore /\ diff_score' <= diff_score
  <2>1. ScopePoints' = ScopePoints
    BY <1>4, PointsStay DEF ScopePoints, Absence
  <2>2. ClassPoints' <= ClassPoints
    <3>1. Points("select_class_or_module", 3)' = Points("select_class_or_module", 3)
          /\ Points("select_class_or_module", 3) \in Nat
      BY <1>4, PointsStay, PointsAre
    <3>2. class_is_secondary => class_is_secondary'
      BY <1>3, <1>4 DEF class_is_secondary, Absence
    <3>3. Has("class_is_primary_select")' <=> Has("class_is_primary_select")
      BY <1>4 DEF Absence
    <3>4. QED  BY <3>1, <3>2, <3>3 DEF ClassPoints
  <2>3. AbsenceScore' <= AbsenceScore
    BY <1>4, <2>1, <2>2, AbsenceShrinks
  <2>4. QED  BY <1>4, <2>3, DiffShrinks
<1>6. CallScore <= CallScore'
  <2>1. /\ Least(2 * names, 2) \in Int /\ Least(3 * names, 8) \in Int
        /\ \A n \in Nat : n = names' =>
             /\ Least(2 * n, 2) \in Int /\ Least(3 * n, 8) \in Int
             /\ Least(2 * names, 2) <= Least(2 * n, 2)
             /\ Least(3 * names, 8) <= Least(3 * n, 8)
             /\ Least(2 * names, 2) <= Least(3 * n, 8)
    BY <1>1, CallsGrow
  <2>2. QED  BY <1>1, <1>3, <1>4, <2>1 DEF CallScore
<1>7. FlowScore <= FlowScore'
  <2>1. Points("dataflow_import", 4) <= Points("dataflow_import", 4)'
        /\ Points("dataflow_import", 4) \in Nat /\ Points("dataflow_import", 4)' \in Nat
    BY <1>3, PointsGrow, PointsAre
  <2>2. QED  BY <1>5, <2>1, DiffTyped DEF FlowScore
<1>8. FilterScore <= FilterScore'
  BY <1>1, <1>4 DEF FilterScore, Absence
<1>9. Clues <= Clues'
  <2>1. /\ Points("keyword_arg_match", 4) <= Points("keyword_arg_match", 4)'
        /\ Points("sink_constant", 3) <= Points("sink_constant", 3)'
        /\ Points("literal_pattern", 3) <= Points("literal_pattern", 3)'
        /\ Points("select_method_call", 1) <= Points("select_method_call", 1)'
        /\ Points("select_literal", 4) <= Points("select_literal", 4)'
        /\ Points("precision_high", 1) <= Points("precision_high", 1)'
        /\ Points("path_problem_flow", 10) <= Points("path_problem_flow", 10)'
    BY <1>3, PointsGrow
  <2>2. QED  BY <2>1, PointsAre DEF Clues
<1>10. sweep_score <= sweep_score'
  BY <1>1, <1>6, <1>7, <1>8, <1>9, SweepNoLess
<1>11. Ties' => Ties
  BY <1>4 DEF Ties, Absence
<1>12. sweep_score \in Int /\ sweep_score' \in Int
  BY <1>1, SweepTyped
<1>13. QED  BY <1>1, <1>5, <1>10, <1>11, <1>12, GradeIs, DiffTyped

(* The types of a query that is edited: any signals, any number of names.     *)
LEMMA EditsAreTyped == GradeSpec => []GradeTyped
<1>1. GradeInit => GradeTyped
  BY DEF GradeInit, GradeTyped
<1>2. GradeTyped /\ [GradeNext]_query => GradeTyped'
  <2>1. SUFFICES ASSUME GradeTyped, [GradeNext]_query PROVE GradeTyped'
    OBVIOUS
  <2>2. ASSUME NEW s \in Alphabet, Add(s) PROVE GradeTyped'
    <3>1. Implied(s) \subseteq Signals
      BY DEF Implied, Signals, Absence, Sinks
    <3>2. QED  BY <2>1, <2>2, <3>1, GradeAssumption DEF GradeTyped, Add
  <2>3. ASSUME NEW s \in Alphabet, Remove(s) PROVE GradeTyped'
    BY <2>1, <2>3 DEF GradeTyped, Remove
  <2>4. CASE AddName
    BY <2>1, <2>4 DEF GradeTyped, AddName
  <2>5. CASE RemoveName
    BY <2>1, <2>5 DEF GradeTyped, RemoveName
  <2>6. CASE UNCHANGED query
    BY <2>1, <2>6 DEF GradeTyped, query
  <2>7. QED  BY <2>1, <2>2, <2>3, <2>4, <2>5, <2>6 DEF GradeNext
<1>3. QED  BY <1>1, <1>2, PTL DEF GradeSpec

(* For every alphabet of signals and any number of names: a further sign of   *)
(* absence never makes a sweep of a diff query, a further specific match      *)
(* never makes a diff of a sweep.                                             *)
THEOREM GradesAlwaysMoveWithSignals == GradeSpec => GradeMovesWithItsSignals
<1>1. GradeTyped /\ GradeTyped' /\ [GradeNext]_query =>
        [/\ grade = "diff" /\ AddsAbsence => grade' = "diff"
         /\ grade = "sweep" /\ AddsSink => grade' = "sweep"]_query
  BY AbsenceKeepsDiff, SinkKeepsSweep
<1>2. QED  BY <1>1, EditsAreTyped, PTL DEF GradeSpec, GradeMovesWithItsSignals
===============================================================================
