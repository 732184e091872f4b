---------------------------- MODULE FixOracleProofs ----------------------------
(***************************************************************************)
(* What the oracle's files keep for any corpus, any verdicts and any order *)
(* of its tools.  The inductive invariant says what the log of patches     *)
(* owes to the input file and the verdicts, and what a running tool took   *)
(* from the log and the table when it started.  The second half is about   *)
(* szz.py: what parse_diff reads in any patch, what is blamed, and what    *)
(* the sums of the report are, in whatever order the workers end.          *)
(***************************************************************************)
EXTENDS FixOracle, SzzBlame, FiniteSetTheorems, TLAPS

(* fetch_diffs.py and prep_nonruby.py do not run at a time.                   *)
OneTool == fetching = {} \/ prepping = {}

(* A fetch works on commits without a patch; the front-end patches to append  *)
(* are of rows without one.                                                   *)
FetchesTheRest == \A c \in fetching : last[c] \notin {"ok", "empty"}
PrepsTheRest ==
  \A c \in prepping : master # None /\ master[c].status \in {"empty", "timeout"}

(* A table with scores has rows. *)
RowsEnriched == enriched => \A c \in Commits : IsRow(master[c])

(* What an agent was, or is, given to read is in the log, on its way into it, *)
(* or lost.                                                                   *)
InputIsLogged ==
  \A c \in Commits :
    c \in input \/ verdicts[c] # None =>
      last[c] = "ok-nonruby" \/ c \in prepping \/ c \in lost

Inv == /\ TypeOK /\ RowsEnriched /\ OneTool /\ FetchesTheRest /\ PrepsTheRest /\ InputIsLogged
       /\ ConfirmedHasItsPatch /\ BlameMatchesPatch
-------------------------------------------------------------------------------
LEMMA AppendTyped ==
  ASSUME TypeOK, NEW c \in Commits, NEW status \in Statuses, Append1(c, status)
  PROVE  /\ last' \in [Commits -> Statuses] /\ torn' \in BOOLEAN
         /\ \A d \in Commits \ {c} : last'[d] = last[d]
         /\ last'[c] = IF torn THEN last[c] ELSE status
BY DEF Append1, TypeOK

(* The rows of a build. *)
BuiltRow(c) == Languaged(Overlaid(c, Labelled(c)))

LEMMA BuiltRows ==
  ASSUME TypeOK, NEW c \in Commits
  PROVE  /\ IsRow(BuiltRow(c))
         /\ BuiltRow(c).status = last[c]
         /\ BuiltRow(c).nonruby => verdicts[c] # None
         /\ BuiltRow(c).score = None
<1>. DEFINE a == Labelled(c)
            b == Overlaid(c, a)
            language == IF c \in Gold THEN "ruby" ELSE "none"
<1>1. last[c] \in Statuses /\ (verdicts[c] # None => verdicts[c] \in Verdict)
  BY DEF TypeOK
<1>2. a = [regate |-> c \in Flagged, nonruby |-> FALSE, status |-> last[c],
           language |-> language, score |-> None]
  BY DEF Labelled
<1>3. language \in {"ruby", "none"} /\ (c \in Flagged) \in BOOLEAN
  OBVIOUS
<1>. HIDE DEF language
<1>4. /\ a \in [regate : BOOLEAN, nonruby : BOOLEAN, status : Statuses,
                language : {"ruby", "other", "none"}, score : {None}]
      /\ a.status = last[c] /\ ~a.nonruby
  BY <1>1, <1>2, <1>3
<1>. HIDE DEF a
<1>5. /\ b \in [regate : BOOLEAN, nonruby : BOOLEAN, status : Statuses,
                language : {"ruby", "other", "none"}, score : {None}]
      /\ b.status = last[c] /\ (b.nonruby => verdicts[c] # None)
  <2>1. CASE ~Resolved(c)
    BY <1>4, <2>1 DEF Overlaid
  <2>2. CASE Resolved(c) /\ verdicts[c].secure
    <3>1. b = [a EXCEPT !.regate = TRUE, !.nonruby = TRUE, !.language = "other"]
      BY <2>2 DEF Overlaid
    <3>. QED
      BY <1>4, <2>2, <3>1 DEF Resolved
  <2>3. CASE Resolved(c) /\ ~verdicts[c].secure
    <3>1. b = [a EXCEPT !.regate = FALSE]
      BY <2>3 DEF Overlaid
    <3>. QED
      BY <1>4, <2>3, <3>1 DEF Resolved
  <2>. QED
    BY <2>1, <2>2, <2>3
<1>. HIDE DEF b
<1>6. /\ Languaged(b) \in [regate : BOOLEAN, nonruby : BOOLEAN, status : Statuses,
                           language : {"ruby", "other", "none"}, score : {None}]
      /\ Languaged(b).status = b.status /\ Languaged(b).nonruby = b.nonruby
  BY <1>5 DEF Languaged
<1>7. BuiltRow(c) = Languaged(b)
  BY DEF BuiltRow, a, b
<1>. QED
  BY <1>5, <1>6, <1>7 DEF IsRow

LEMMA InitInv == Init => Inv
<1>. SUFFICES ASSUME Init PROVE Inv
  OBVIOUS
<1>1. 0 \in 0..MaxFaults
  BY OracleAssumption
<1>2. TypeOK
  BY <1>1 DEF Init, TypeOK, Statuses
<1>3. InputIsLogged /\ BlameMatchesPatch
  BY DEF Init, InputIsLogged, BlameMatchesPatch
<1>. QED
  BY <1>2, <1>3 DEF Init, Inv, RowsEnriched, OneTool, FetchesTheRest, PrepsTheRest, ConfirmedHasItsPatch
-------------------------------------------------------------------------------
(* The tables after each tool that writes them.                               *)
LEMMA AggregateRows ==
  ASSUME TypeOK, Aggregate, NEW c \in Commits
  PROVE  /\ DOMAIN master' = Commits /\ DOMAIN cvss' = Commits
         /\ IsRow(master'[c]) /\ master'[c].status = master[c].status
         /\ master'[c].nonruby = master[c].nonruby
         /\ master'[c].score = ScoreOf(c)
         /\ cvss'[c] # None => /\ IsCvssRow(cvss'[c]) /\ cvss'[c].blame = None
                               /\ cvss'[c].score = ScoreOf(c)
<1>. DEFINE score == ScoreOf(c)
<1>1. IsRow(master[c])
  BY DEF TypeOK, Aggregate
<1>2. master'[c] = [master[c] EXCEPT !.score = score] /\ DOMAIN master' = Commits
  BY DEF Aggregate
<1>. HIDE DEF score
<1>3. /\ IsRow(master'[c]) /\ master'[c].status = master[c].status
      /\ master'[c].nonruby = master[c].nonruby /\ master'[c].regate = master[c].regate
      /\ master'[c].score = score
  BY <1>1, <1>2 DEF IsRow
<1>4. /\ DOMAIN cvss' = Commits
      /\ cvss'[c] = IF master[c].regate THEN (CvssRowOf(c))' ELSE None
  BY DEF Aggregate
<1>5. (CvssRowOf(c))' = [regate |-> master'[c].regate, status |-> master'[c].status,
                         score |-> master'[c].score, blame |-> None]
  BY DEF CvssRowOf
<1>6. master'[c].regate \in BOOLEAN /\ master'[c].status \in Statuses
  BY <1>3 DEF IsRow
<1>7. /\ IsCvssRow((CvssRowOf(c))') /\ (CvssRowOf(c))'.blame = None
      /\ (CvssRowOf(c))'.score = master'[c].score
  <2>. DEFINE r == (CvssRowOf(c))'
  <2>1. r = [regate |-> master'[c].regate, status |-> master'[c].status,
             score |-> master'[c].score, blame |-> None]
    BY <1>5
  <2>. HIDE DEF r
  <2>2. IsCvssRow(r) /\ r.blame = None /\ r.score = master'[c].score
    BY <1>6, <2>1 DEF IsCvssRow
  <2>. QED
    BY <2>2 DEF r
<1>. QED
  BY <1>2, <1>3, <1>4, <1>7 DEF score

LEMMA OnlyCvssRows ==
  ASSUME TypeOK, RowsEnriched, OnlyCvss, NEW c \in Commits
  PROVE  /\ DOMAIN cvss' = Commits
         /\ cvss'[c] # None => /\ IsCvssRow(cvss'[c])
                               /\ \/ cvss'[c].blame = None
                                  \/ /\ cvss[c] # None /\ cvss'[c].blame = cvss[c].blame
                                     /\ cvss'[c].status = cvss[c].status
                               /\ \/ cvss[c] # None /\ cvss'[c].score = cvss[c].score
                                  \/ cvss'[c].score \in {ScoreOf(c), master[c].score}
<1>. DEFINE score == ScoreOf(c)
<1>1. IsRow(master[c]) /\ (cvss[c] # None => IsCvssRow(cvss[c]))
  BY DEF TypeOK, RowsEnriched, OnlyCvss
<1>2. DOMAIN cvss' = Commits
      /\ \/ cvss'[c] = cvss[c] /\ cvss[c] # None
         \/ cvss'[c] = [cvss[c] EXCEPT !.score = score] /\ cvss[c] # None
         \/ cvss'[c] = CvssRowOf(c)
         \/ cvss'[c] = None
  BY DEF OnlyCvss
<1>. HIDE DEF score
<1>3. CASE cvss'[c] = cvss[c] /\ cvss[c] # None
  BY <1>1, <1>2, <1>3
<1>4. CASE cvss'[c] = [cvss[c] EXCEPT !.score = score] /\ cvss[c] # None
  <2>1. /\ IsCvssRow(cvss'[c]) /\ cvss'[c].score = score /\ cvss'[c].blame = cvss[c].blame
        /\ cvss'[c].status = cvss[c].status
    BY <1>1, <1>2, <1>4 DEF IsCvssRow
  <2>. QED
    BY <1>2, <1>4, <2>1 DEF score
<1>5. CASE cvss'[c] = CvssRowOf(c)
  <2>1. cvss'[c] = [regate |-> master[c].regate, status |-> master[c].status,
                    score |-> master[c].score, blame |-> None]
    BY <1>5 DEF CvssRowOf
  <2>2. master[c].regate \in BOOLEAN /\ master[c].status \in Statuses
    BY <1>1 DEF IsRow
  <2>3. IsCvssRow(cvss'[c]) /\ cvss'[c].blame = None /\ cvss'[c].score = master[c].score
    <3>. DEFINE r == cvss'[c]
    <3>1. r = [regate |-> master[c].regate, status |-> master[c].status,
               score |-> master[c].score, blame |-> None]
      BY <2>1
    <3>. HIDE DEF r
    <3>2. IsCvssRow(r) /\ r.blame = None /\ r.score = master[c].score
      BY <2>2, <3>1 DEF IsCvssRow
    <3>. QED
      BY <3>2 DEF r
  <2>. QED
    BY <1>2, <2>3
<1>. QED
  BY <1>2, <1>3, <1>4, <1>5

LEMMA BlameTyped ==
  ASSUME NEW c, NEW answer \in {"names", "fails", "nobody"}
  PROVE  BlameOf(c, answer) \in Blames
BY DEF BlameOf, Blames

LEMMA BlamedRows ==
  ASSUME TypeOK, NEW blame \in [Commits -> Blames], Blamed(blame), NEW c \in Commits
  PROVE  /\ DOMAIN cvss' = Commits
         /\ cvss'[c] # None => /\ IsCvssRow(cvss'[c])
                               /\ cvss'[c].blame # None <=> HasPatch(cvss'[c].status)
                               /\ cvss[c] # None /\ cvss'[c].score = cvss[c].score
<1>. DEFINE b == IF HasPatch(cvss[c].status) THEN blame[c] ELSE None
<1>1. cvss[c] # None => IsCvssRow(cvss[c])
  BY DEF TypeOK
<1>2. DOMAIN cvss' = Commits
      /\ cvss'[c] = IF cvss[c] = None THEN None ELSE [cvss[c] EXCEPT !.blame = b]
  BY DEF Blamed
<1>3. blame[c] \in Blames /\ None \notin Blames
  BY OracleAssumption
<1>4. b \in Blames \cup {None} /\ (b # None <=> HasPatch(cvss[c].status))
  BY <1>3
<1>. HIDE DEF b
<1>5. CASE cvss[c] # None
  <2>1. /\ IsCvssRow(cvss'[c]) /\ cvss'[c].blame = b /\ cvss'[c].status = cvss[c].status
        /\ cvss'[c].score = cvss[c].score
    BY <1>1, <1>2, <1>4, <1>5 DEF IsCvssRow
  <2>. QED
    BY <1>2, <1>4, <1>5, <2>1
<1>6. CASE cvss[c] = None
  BY <1>2, <1>6
<1>. QED
  BY <1>5, <1>6

LEMMA SzzRows ==
  ASSUME TypeOK, Szz, NEW c \in Commits
  PROVE  /\ DOMAIN cvss' = Commits
         /\ cvss'[c] # None => /\ IsCvssRow(cvss'[c])
                               /\ cvss'[c].blame # None <=> HasPatch(cvss'[c].status)
                               /\ cvss[c] # None /\ cvss'[c].score = cvss[c].score
<1>1. PICK blame \in [Commits -> Blames] : Blamed(blame)
  <2>1. CASE Blamed([d \in Commits |-> BlameOf(d, "names")])
    <3>1. [d \in Commits |-> BlameOf(d, "names")] \in [Commits -> Blames]
      BY BlameTyped
    <3>. QED
      BY <2>1, <3>1
  <2>2. ASSUME NEW d \in Commits,
               NEW wrong \in {BlameOf(d, "fails"), BlameOf(d, "nobody"), "diff-fail",
                              "addition-only"},
               Blamed([e \in Commits |-> IF e = d THEN wrong ELSE BlameOf(e, "names")])
        PROVE  \E blame \in [Commits -> Blames] : Blamed(blame)
    <3>1. wrong \in Blames
      BY BlameTyped DEF Blames
    <3>2. [e \in Commits |-> IF e = d THEN wrong ELSE BlameOf(e, "names")] \in [Commits -> Blames]
      BY <3>1, BlameTyped
    <3>. QED
      BY <2>2, <3>2
  <2>. QED
    BY <2>1, <2>2 DEF Szz
<1>. QED
  BY <1>1, BlamedRows
-------------------------------------------------------------------------------
(* The tools that write tables run alone and leave the log alone.             *)
TableStep == Build \/ Aggregate \/ OnlyCvss \/ Szz
(* Steps that touch neither. *)
ScoreStep ==
  PrepBatches \/ FixShas \/ \E b \in Batches : \E k \in DOMAIN slices[b] : Answer(b, k)

LEMMA StepCases ==
  ASSUME [Next]_vars
  PROVE  \/ StartFetch \/ StartPrep \/ Crash \/ TableStep \/ ScoreStep \/ UNCHANGED vars
         \/ \E c \in Commits : Fetch(c) \/ AppendPatch(c)
         \/ \E c \in Commits, v \in Verdict : Analyse(c, v)
BY DEF Next, TableStep, ScoreStep

LEMMA ScoreStepKeeps ==
  ASSUME ScoreStep
  PROVE  UNCHANGED <<last, torn, fetching, prepping, lost, input, verdicts, master, enriched,
                     cvss, columns>>
BY DEF ScoreStep, PrepBatches, FixShas, Answer, log, phase4, tables

LEMMA PatchAppends ==
  ASSUME NEW c, AppendPatch(c)
  PROVE  \/ Append1(c, "ok-nonruby") /\ lost' = IF torn THEN lost \cup {c} ELSE lost
         \/ Append1(c, "hollow") /\ lost' = lost \cup {c}
BY DEF AppendPatch

LEMMA FetchAppends ==
  ASSUME TypeOK, NEW c \in Commits, Fetch(c)
  PROVE  \E status \in Statuses : Append1(c, status)
BY DEF Fetch, Statuses

LEMMA TypeStep == Inv /\ [Next]_vars => TypeOK' /\ RowsEnriched'
<1>. SUFFICES ASSUME Inv, [Next]_vars PROVE TypeOK' /\ RowsEnriched'
  OBVIOUS
<1>. USE DEF log, phase4, tables, scoring
<1>1. TypeOK /\ RowsEnriched /\ MaxFaults \in Nat
  BY OracleAssumption DEF Inv
<1>2. last' \in [Commits -> Statuses] /\ torn' \in BOOLEAN
  <2>1. ASSUME NEW c \in Commits, Fetch(c) \/ AppendPatch(c)
        PROVE  last' \in [Commits -> Statuses] /\ torn' \in BOOLEAN
    BY <1>1, <2>1, FetchAppends, PatchAppends, AppendTyped DEF Statuses
  <2>2. CASE Crash
    BY <1>1, <2>2 DEF Crash, TypeOK
  <2>3. CASE UNCHANGED <<last, torn>>
    BY <1>1, <2>3 DEF TypeOK
  <2>. QED
    BY <2>1, <2>2, <2>3, StepCases, ScoreStepKeeps
    DEF StartFetch, StartPrep, TableStep, Build, Aggregate, OnlyCvss, Szz, Analyse, vars
<1>3. /\ fetching' \subseteq Commits /\ prepping' \subseteq FrontEnd /\ input' \subseteq FrontEnd
      /\ lost' \subseteq Commits
  <2>1. FrontEnd \subseteq Commits
    BY OracleAssumption
  <2>2. ASSUME NEW c \in Commits, Fetch(c) \/ AppendPatch(c)
        PROVE  /\ fetching' \subseteq fetching /\ prepping' \subseteq prepping /\ input' = input
               /\ lost' \subseteq lost \cup {c}
    BY <2>2 DEF Fetch, AppendPatch
  <2>3. CASE StartFetch \/ StartPrep \/ Crash
    BY <1>1, <2>1, <2>3 DEF StartFetch, StartPrep, Crash, TypeOK
  <2>4. CASE UNCHANGED <<fetching, prepping, input, lost>>
    BY <1>1, <2>4 DEF TypeOK
  <2>. QED
    BY <1>1, <2>2, <2>3, <2>4, StepCases, ScoreStepKeeps
    DEF TypeOK, TableStep, Build, Aggregate, OnlyCvss, Szz, Analyse, vars
<1>4. verdicts' \in [Commits -> Verdict \cup {None}]
  <2>1. CASE UNCHANGED verdicts
    BY <1>1, <2>1 DEF TypeOK
  <2>2. ASSUME NEW c \in Commits, NEW v \in Verdict, Analyse(c, v)
        PROVE  verdicts' \in [Commits -> Verdict \cup {None}]
    BY <1>1, <2>2 DEF Analyse, TypeOK
  <2>. QED
    BY <2>1, <2>2, StepCases, ScoreStepKeeps
    DEF StartFetch, StartPrep, Crash, Fetch, AppendPatch, TableStep, Build, Aggregate, OnlyCvss,
        Szz, vars
<1>5. /\ master' # None => DOMAIN master' = Commits /\ \A c \in Commits : IsRow(master'[c])
      /\ enriched' => \A c \in Commits : IsRow(master'[c])
      /\ enriched' \in BOOLEAN
  <2>1. CASE Build
    <3>1. master' = [c \in Commits |-> BuiltRow(c)] /\ enriched' = FALSE
      BY <2>1 DEF Build, BuiltRow
    <3>. QED
      BY <1>1, <3>1, BuiltRows
  <2>2. CASE Aggregate
    <3>1. enriched' \in BOOLEAN
      BY <2>2 DEF Aggregate
    <3>2. DOMAIN master' = Commits
      BY <2>2 DEF Aggregate
    <3>. QED
      BY <1>1, <2>2, <3>1, <3>2, AggregateRows
  <2>3. CASE UNCHANGED <<master, enriched>>
    BY <1>1, <2>3 DEF TypeOK, RowsEnriched
  <2>. QED
    BY <2>1, <2>2, <2>3, StepCases, ScoreStepKeeps
    DEF StartFetch, StartPrep, Crash, Fetch, AppendPatch, TableStep, OnlyCvss, Szz, Analyse, vars
<1>6. /\ DOMAIN cvss' = Commits /\ \A c \in Commits : cvss'[c] # None => IsCvssRow(cvss'[c])
      /\ columns' \in {"none", "cvss", "szz"}
  <2>1. CASE Aggregate
    <3>1. DOMAIN cvss' = Commits /\ columns' = "cvss"
      BY <2>1 DEF Aggregate
    <3>. QED
      BY <1>1, <2>1, <3>1, AggregateRows
  <2>2. CASE OnlyCvss
    <3>1. DOMAIN cvss' = Commits /\ columns' = columns
      BY <2>2 DEF OnlyCvss
    <3>. QED
      BY <1>1, <2>2, <3>1, OnlyCvssRows DEF TypeOK
  <2>3. CASE Szz
    <3>1. DOMAIN cvss' = Commits /\ columns' = "szz"
      BY <2>3 DEF Szz, Blamed
    <3>. QED
      BY <1>1, <2>3, <3>1, SzzRows
  <2>4. CASE UNCHANGED <<cvss, columns>>
    BY <1>1, <2>4 DEF TypeOK
  <2>. QED
    BY <2>1, <2>2, <2>3, <2>4, StepCases, ScoreStepKeeps
    DEF StartFetch, StartPrep, Crash, Fetch, AppendPatch, TableStep, Build, Analyse, vars
<1>7. faults' \in 0..MaxFaults
  <2>1. faults' = faults \/ (faults < MaxFaults /\ faults' = faults + 1)
    BY DEF Next, StartFetch, Fetch, StartPrep, AppendPatch, Crash, Analyse, Build, PrepBatches,
           Answer, FixShas, Aggregate, OnlyCvss, Szz, Fault, vars
  <2>. QED
    BY <1>1, <2>1 DEF TypeOK
<1>8. mixed' \in BOOLEAN
  <2>1. mixed' = mixed \/ mixed' \in BOOLEAN
    <3>1. CASE PrepBatches
      BY <3>1 DEF PrepBatches
    <3>2. ASSUME NEW b \in Batches, NEW k \in DOMAIN slices[b], Answer(b, k)
          PROVE  mixed' \in BOOLEAN
      BY <3>2 DEF Answer
    <3>3. CASE FixShas
      BY <3>3 DEF FixShas
    <3>. QED
      BY <3>1, <3>2, <3>3 DEF Next, StartFetch, Fetch, StartPrep, AppendPatch, Crash, Analyse,
           Build, Aggregate, OnlyCvss, Szz, vars
  <2>. QED
    BY <1>1, <2>1 DEF TypeOK
<1>. QED
  BY <1>2, <1>3, <1>4, <1>5, <1>6, <1>7, <1>8 DEF TypeOK, RowsEnriched
-------------------------------------------------------------------------------
LEMMA LogStep ==
  Inv /\ [Next]_vars => OneTool' /\ FetchesTheRest' /\ PrepsTheRest' /\ InputIsLogged'
<1>. SUFFICES ASSUME Inv, [Next]_vars
              PROVE  OneTool' /\ FetchesTheRest' /\ PrepsTheRest' /\ InputIsLogged'
  OBVIOUS
<1>. USE DEF log, phase4, tables
<1>1. /\ TypeOK /\ OneTool /\ FetchesTheRest /\ PrepsTheRest /\ InputIsLogged
      /\ last \in [Commits -> Statuses] /\ fetching \subseteq Commits /\ prepping \subseteq Commits
  BY OracleAssumption DEF Inv, TypeOK
<1>2. CASE StartFetch
  <2>1. fetching' = Commits \ Done /\ prepping = {}
        /\ UNCHANGED <<last, prepping, lost, input, verdicts, master>>
    BY <1>2 DEF StartFetch, Running
  <2>. QED
    BY <1>1, <2>1 DEF OneTool, FetchesTheRest, PrepsTheRest, InputIsLogged, Done
<1>3. CASE StartPrep
  <2>1. /\ fetching = {} /\ prepping = {} /\ prepping' = input' /\ input' \subseteq candidates
        /\ master # None /\ UNCHANGED <<last, fetching, lost, verdicts, master>>
    BY <1>3 DEF StartPrep, Running
  <2>. QED
    BY <1>1, <2>1 DEF OneTool, FetchesTheRest, PrepsTheRest, InputIsLogged, candidates
<1>4. CASE Crash
  <2>1. /\ fetching' = {} /\ prepping' = {} /\ lost' = lost \cup prepping
        /\ UNCHANGED <<last, input, verdicts, master>>
    BY <1>4 DEF Crash
  <2>. QED
    BY <1>1, <2>1 DEF OneTool, FetchesTheRest, PrepsTheRest, InputIsLogged
<1>5. ASSUME NEW c \in Commits, Fetch(c)
      PROVE  OneTool' /\ FetchesTheRest' /\ PrepsTheRest' /\ InputIsLogged'
  <2>1. /\ fetching' = fetching \ {c} /\ c \in fetching
        /\ lost' = IF last[c] = "ok-nonruby" THEN lost \cup {c} ELSE lost
        /\ UNCHANGED <<prepping, input, verdicts, master>>
    BY <1>5 DEF Fetch
  <2>2. \A d \in Commits \ {c} : last'[d] = last[d]
    BY <1>1, <1>5, FetchAppends, AppendTyped
  <2>. QED
    BY <1>1, <2>1, <2>2 DEF OneTool, FetchesTheRest, PrepsTheRest, InputIsLogged
<1>6. ASSUME NEW c \in Commits, AppendPatch(c)
      PROVE  OneTool' /\ FetchesTheRest' /\ PrepsTheRest' /\ InputIsLogged'
  <2>1. /\ prepping' = prepping \ {c} /\ c \in prepping
        /\ UNCHANGED <<fetching, input, verdicts, master>>
    BY <1>6 DEF AppendPatch
  <2>2. /\ lost \subseteq lost'
        /\ last'[c] = "ok-nonruby" \/ c \in lost'
        /\ \A d \in Commits \ {c} : last'[d] = last[d]
    <3>1. CASE Append1(c, "ok-nonruby") /\ lost' = IF torn THEN lost \cup {c} ELSE lost
      BY <1>1, <3>1, AppendTyped DEF Statuses
    <3>2. CASE Append1(c, "hollow") /\ lost' = lost \cup {c}
      BY <1>1, <3>2, AppendTyped DEF Statuses
    <3>. QED
      BY <1>6, <3>1, <3>2, PatchAppends
  <2>. QED
    BY <1>1, <2>1, <2>2 DEF OneTool, FetchesTheRest, PrepsTheRest, InputIsLogged
<1>7. ASSUME NEW c \in Commits, NEW v \in Verdict, Analyse(c, v)
      PROVE  OneTool' /\ FetchesTheRest' /\ PrepsTheRest' /\ InputIsLogged'
  <2>1. /\ c \in input /\ verdicts' = [verdicts EXCEPT ![c] = v]
        /\ UNCHANGED <<last, fetching, prepping, lost, input, master>>
    BY <1>7 DEF Analyse
  <2>2. \A d \in Commits \ {c} : verdicts'[d] = verdicts[d]
    BY <1>1, <2>1 DEF TypeOK
  <2>. QED
    BY <1>1, <2>1, <2>2 DEF OneTool, FetchesTheRest, PrepsTheRest, InputIsLogged
<1>8. CASE TableStep
  <2>1. /\ fetching = {} /\ prepping = {}
        /\ UNCHANGED <<last, fetching, prepping, lost, input, verdicts>>
    BY <1>8 DEF TableStep, Build, Aggregate, OnlyCvss, Szz, Running
  <2>. QED
    BY <1>1, <2>1 DEF OneTool, FetchesTheRest, PrepsTheRest, InputIsLogged
<1>9. CASE ScoreStep \/ UNCHANGED vars
  <2>1. UNCHANGED <<last, fetching, prepping, lost, input, verdicts, master>>
    BY <1>9, ScoreStepKeeps DEF vars
  <2>. QED
    BY <1>1, <2>1 DEF OneTool, FetchesTheRest, PrepsTheRest, InputIsLogged
<1>. QED
  BY <1>2, <1>3, <1>4, <1>5, <1>6, <1>7, <1>8, <1>9, StepCases

LEMMA ConfirmedStep == Inv /\ [Next]_vars => ConfirmedHasItsPatch'
<1>. SUFFICES ASSUME Inv, [Next]_vars PROVE ConfirmedHasItsPatch'
  OBVIOUS
<1>. USE DEF log, phase4, tables
<1>1. TypeOK /\ InputIsLogged /\ ConfirmedHasItsPatch
  BY DEF Inv
<1>2. CASE UNCHANGED master /\ lost \subseteq lost'
  BY <1>1, <1>2 DEF ConfirmedHasItsPatch
<1>3. CASE Build
  <2>1. master' = [c \in Commits |-> BuiltRow(c)] /\ prepping = {} /\ UNCHANGED lost
    BY <1>3 DEF Build, BuiltRow, Running
  <2>2. ASSUME NEW c \in Commits, master'[c].nonruby
        PROVE  master'[c].status = "ok-nonruby" \/ c \in lost'
    <3>1. verdicts[c] # None /\ master'[c].status = last[c]
      BY <1>1, <2>1, <2>2, BuiltRows
    <3>. QED
      BY <1>1, <2>1, <3>1 DEF InputIsLogged
  <2>. QED
    BY <2>2 DEF ConfirmedHasItsPatch
<1>4. CASE Aggregate
  <2>1. master # None /\ UNCHANGED lost
    BY <1>4 DEF Aggregate
  <2>. QED
    BY <1>1, <1>4, <2>1, AggregateRows DEF ConfirmedHasItsPatch
<1>5. CASE ScoreStep \/ UNCHANGED vars
  BY <1>2, <1>5, ScoreStepKeeps DEF vars
<1>6. ASSUME NEW c \in Commits, Fetch(c) \/ AppendPatch(c) \/ \E v \in Verdict : Analyse(c, v)
      PROVE  UNCHANGED master /\ lost \subseteq lost'
  BY <1>6 DEF Fetch, AppendPatch, Analyse
<1>7. CASE StartFetch \/ StartPrep \/ Crash \/ OnlyCvss \/ Szz
  BY <1>2, <1>7 DEF StartFetch, StartPrep, Crash, OnlyCvss, Szz
<1>. QED
  BY <1>2, <1>3, <1>4, <1>5, <1>6, <1>7, StepCases DEF TableStep

LEMMA BlameStep == Inv /\ [Next]_vars => BlameMatchesPatch'
<1>. SUFFICES ASSUME Inv, [Next]_vars PROVE BlameMatchesPatch'
  OBVIOUS
<1>. USE DEF log, phase4, tables
<1>1. TypeOK /\ RowsEnriched /\ BlameMatchesPatch
  BY DEF Inv
<1>2. CASE UNCHANGED <<cvss, columns>>
  BY <1>1, <1>2 DEF BlameMatchesPatch
<1>3. CASE Aggregate
  <2>1. columns' = "cvss"
    BY <1>3 DEF Aggregate
  <2>. QED
    BY <1>1, <1>3, <2>1, AggregateRows DEF BlameMatchesPatch
<1>4. CASE OnlyCvss
  <2>1. columns = "cvss" /\ columns' = "cvss"
    BY <1>4 DEF OnlyCvss
  <2>. QED
    BY <1>1, <1>4, <2>1, OnlyCvssRows DEF BlameMatchesPatch
<1>5. CASE Szz
  <2>1. columns' = "szz"
    BY <1>5 DEF Szz
  <2>. QED
    BY <1>1, <1>5, <2>1, SzzRows DEF BlameMatchesPatch
<1>6. CASE ~Aggregate /\ ~OnlyCvss /\ ~Szz
  BY <1>2, <1>6, StepCases, ScoreStepKeeps
  DEF StartFetch, StartPrep, Crash, Fetch, AppendPatch, Analyse, TableStep, Build, vars
<1>. QED
  BY <1>3, <1>4, <1>5, <1>6
-------------------------------------------------------------------------------
(* Numbers and finite sets in an order.                                       *)
LEMMA LeastNumber ==
  ASSUME NEW S, S \subseteq Nat, S # {}
  PROVE  \E n \in S : \A m \in S : n <= m
<1>. DEFINE R == OpToRel(<, Nat)
<1>1. IsWellFoundedOn(R, Nat)
  BY NatLessThanWellFounded
<1>2. \A m, n \in Nat : m < n => <<m, n>> \in R
  BY DEF OpToRel
<1>. HIDE DEF R
<1>3. PICK n \in S : \A m \in S : <<m, n>> \notin R
  BY <1>1, WFMin, Zenon
<1>4. \A m \in S : ~(m < n)
  BY <1>2, <1>3
<1>5. \A m \in S : n <= m
  BY <1>4
<1>. QED
  BY <1>5

LEMMA GreatestNumber ==
  ASSUME NEW S, S \subseteq Nat, S # {}, NEW bound \in Int, \A n \in S : n <= bound
  PROVE  \E n \in S : \A m \in S : m <= n
<1>. DEFINE T == {bound - n : n \in S}
<1>1. T \subseteq Nat /\ T # {}
  <2>1. \A n \in S : bound - n \in Nat
    OBVIOUS
  <2>. QED
    BY <2>1
<1>2. PICK t \in T : \A u \in T : t <= u
  BY <1>1, LeastNumber
<1>3. PICK n \in S : t = bound - n
  OBVIOUS
<1>4. \A m \in S : bound - n <= bound - m
  BY <1>2, <1>3
<1>5. \A m \in S : m <= n
  BY <1>4
<1>. QED
  BY <1>5

(* A finite set in a strict total order, one element after the other, has     *)
(* each of them once.                                                         *)
LEMMA OrderedIsOneToOne ==
  ASSUME NEW S, IsFiniteSet(S), NEW R,
         \A x \in S : <<x, x>> \notin R,
         \A x, y, z \in S : <<x, y>> \in R /\ <<y, z>> \in R => <<x, z>> \in R,
         \A x, y \in S : x = y \/ <<x, y>> \in R \/ <<y, x>> \in R
  PROVE  /\ Cardinality(S) \in Nat /\ Ordered(S, R) \in [1..Cardinality(S) -> S]
         /\ \A i, j \in 1..Cardinality(S) : Ordered(S, R)[i] = Ordered(S, R)[j] => i = j
<1>. DEFINE n == Cardinality(S)
            lower(x) == {y \in S : <<y, x>> \in R}
            rank == [x \in S |-> Cardinality(lower(x))]
<1>1. n \in Nat /\ \A T \in SUBSET S : IsFiniteSet(T) /\ Cardinality(T) \in Nat
  BY FS_CardinalityType, FS_Subset
<1>2. \A x \in S : Cardinality(S \ {x}) = n - 1
  BY FS_RemoveElement
<1>3. ASSUME NEW x \in S PROVE Cardinality(lower(x)) \in 0..(n - 1)
  <2>1. lower(x) \in SUBSET (S \ {x}) /\ IsFiniteSet(S \ {x})
    BY <1>1
  <2>2. Cardinality(lower(x)) <= Cardinality(S \ {x}) /\ Cardinality(lower(x)) \in Nat
    BY <1>1, <2>1, FS_Subset
  <2>. QED
    BY <1>1, <1>2, <2>2
<1>4. ASSUME NEW x \in S, NEW y \in S, <<x, y>> \in R
      PROVE  Cardinality(lower(x)) # Cardinality(lower(y))
  <2>1. lower(x) \in SUBSET lower(y) /\ x \in lower(y) /\ x \notin lower(x)
    BY <1>4
  <2>2. IsFiniteSet(lower(y)) /\ lower(x) # lower(y)
    <3>1. lower(y) \in SUBSET S
      OBVIOUS
    <3>2. IsFiniteSet(lower(y))
      BY <1>1, <3>1
    <3>. QED
      BY <2>1, <3>2
  <2>. HIDE DEF lower
  <2>. QED
    BY <2>1, <2>2, FS_Subset
<1>5. rank \in [S -> 0..(n - 1)] /\ \A x, y \in S : rank[x] = rank[y] => x = y
  <2>. HIDE DEF lower
  <2>1. \A x \in S : rank[x] = Cardinality(lower(x))
    OBVIOUS
  <2>2. \A x, y \in S : rank[x] = rank[y] => x = y
    BY <1>4, <2>1
  <2>. QED
    BY <1>3, <2>2
<1>6. IsFiniteSet(0..(n - 1)) /\ Cardinality(0..(n - 1)) = n
  <2>. DEFINE q == n - 1
  <2>1. q \in Int
    BY <1>1
  <2>. HIDE DEF q
  <2>2. IsFiniteSet(0..q) /\ Cardinality(0..q) = IF 0 > q THEN 0 ELSE q - 0 + 1
    BY <2>1, FS_Interval
  <2>. QED
    BY <1>1, <2>2 DEF q
<1>7. ASSUME NEW k \in 1..n PROVE \E x \in S : Cardinality(lower(x)) = k - 1
  <2>1. rank \in Injection(S, 0..(n - 1))
    BY <1>5 DEF Injection, IsInjective
  <2>2. rank \in Surjection(S, 0..(n - 1))
    BY <1>6, <2>1, FS_Injection
  <2>3. k - 1 \in 0..(n - 1)
    BY <1>1
  <2>4. \E x \in S : rank[x] = k - 1
    BY <2>2, <2>3 DEF Surjection
  <2>. QED
    BY <2>4
<1>. DEFINE s == [k \in 1..n |-> CHOOSE x \in S : Cardinality(lower(x)) = k - 1]
<1>8. s = Ordered(S, R)
  BY DEF Ordered
<1>9. \A k \in 1..n : s[k] \in S /\ Cardinality(lower(s[k])) = k - 1
  BY <1>7
<1>10. DOMAIN s = 1..n
  OBVIOUS
<1>. HIDE DEF s, lower
<1>11. \A i, j \in 1..n : s[i] = s[j] => i = j
  BY <1>1, <1>9
<1>12. s \in [1..n -> S]
  <2>1. s = [k \in 1..n |-> s[k]]
    BY DEF s
  <2>. QED
    BY <1>9, <2>1
<1>. QED
  BY <1>1, <1>8, <1>11, <1>12

(* Numbers below n in a row of n that only goes up are those of the row.      *)
LEMMA RowIsWhole ==
  ASSUME NEW n \in Nat, NEW p \in [1..n -> 1..n], \A i, j \in 1..n : i < j => p[i] < p[j]
  PROVE  \A i \in 1..n : p[i] = i
<1>1. \A i \in 1..n : p[i] \in Nat /\ 1 <= p[i] /\ p[i] <= n
  OBVIOUS
<1>2. \A i \in 1..n : p[i] >= i
  <2>. DEFINE S == {i \in 1..n : p[i] < i}
  <2>. SUFFICES ASSUME S # {} PROVE FALSE
    BY <1>1
  <2>1. \E i \in S : \A j \in S : i <= j
    <3>1. S \subseteq Nat /\ S # {}
      OBVIOUS
    <3>. HIDE DEF S
    <3>. QED
      BY <3>1, LeastNumber
  <2>2. PICK i \in 1..n : p[i] < i /\ \A j \in S : i <= j
    BY <2>1
  <2>3. i # 1 /\ i - 1 \in 1..n
    BY <1>1, <2>2
  <2>4. p[i - 1] < p[i]
    BY <2>2, <2>3
  <2>5. i - 1 \notin S
    BY <2>2
  <2>6. p[i - 1] >= i - 1
    BY <1>1, <2>2, <2>3, <2>5
  <2>. QED
    BY <1>1, <2>2, <2>3, <2>4, <2>6
<1>3. \A i \in 1..n : p[i] <= i
  <2>. DEFINE S == {i \in 1..n : p[i] > i}
  <2>. SUFFICES ASSUME S # {} PROVE FALSE
    BY <1>1
  <2>1. \E i \in S : \A j \in S : j <= i
    <3>1. S \subseteq Nat /\ S # {} /\ n \in Int /\ \A j \in S : j <= n
      OBVIOUS
    <3>. HIDE DEF S
    <3>. QED
      BY <3>1, GreatestNumber
  <2>2. PICK i \in 1..n : p[i] > i /\ \A j \in S : j <= i
    BY <2>1
  <2>3. i # n /\ i + 1 \in 1..n
    BY <1>1, <2>2
  <2>4. p[i] < p[i + 1]
    BY <2>2, <2>3
  <2>5. i + 1 \notin S
    BY <2>2
  <2>6. p[i + 1] <= i + 1
    BY <1>1, <2>2, <2>3, <2>5
  <2>. QED
    BY <1>1, <2>2, <2>3, <2>4, <2>6
<1>. QED
  BY <1>1, <1>2, <1>3
-------------------------------------------------------------------------------
(* The lines of a batch are of commits of its slice in their order, as far as *)
(* the slice goes; a hash is that of the commit it is for, or made up.        *)
SliceOK(slice) ==
  slice \in Seq(Commits) /\ \A i, j \in DOMAIN slice : slice[i] = slice[j] => i = j
Line == [sha : Commits \cup {Ghost}, of : Commits, valid : BOOLEAN]
GoesUp(p, D) == \A i, j \in D : i < j => p[i] < p[j]
Follows(p, lines, slice) ==
  LET D == DOMAIN lines \cap DOMAIN slice IN
  /\ p \in [D -> DOMAIN slice] /\ GoesUp(p, D)
  /\ \A i \in D : lines[i].of = slice[p[i]]
AnswersOK(lines, slice) ==
  /\ lines \in Seq(Line)
  /\ \A i \in DOMAIN lines : lines[i].sha \in {lines[i].of, Ghost}
  /\ \E p : Follows(p, lines, slice)
AnswersFit ==
  /\ DOMAIN slices = Batches /\ DOMAIN answers = Batches
  /\ \A b \in Batches : SliceOK(slices[b]) /\ AnswersOK(answers[b], slices[b])
EnrichedFits == enriched => \A c \in Commits : master[c].score \in {c, None}

ScoresInv == mixed \/ (AnswersFit /\ EnrichedFits /\ ScoresFit)

(* cvss_score.py --prep: every slice names commits, each once. *)
LEMMA SortedIsOneToOne == SliceOK(Sorted)
<1>. DEFINE S == load_filtered
<1>1. S \subseteq Commits /\ IsFiniteSet(S) /\ Commits \subseteq Nat
  BY OracleAssumption, FS_Subset DEF load_filtered
<1>2. \A c : bucket(c) \in Nat
  BY DEF bucket
<1>3. \A x, y \in S : <<x, y>> \in before <=>
                        bucket(x) < bucket(y) \/ (bucket(x) = bucket(y) /\ x < y)
  BY <1>1 DEF before
<1>4. \A x \in S : x \in Nat
  BY <1>1
<1>. HIDE DEF S
<1>5. \A x \in S : <<x, x>> \notin before
  BY <1>2, <1>3, <1>4
<1>6. \A x, y, z \in S : <<x, y>> \in before /\ <<y, z>> \in before => <<x, z>> \in before
  BY <1>2, <1>3, <1>4
<1>7. ASSUME NEW x \in S, NEW y \in S PROVE x = y \/ <<x, y>> \in before \/ <<y, x>> \in before
  <2>1. bucket(x) \in Nat /\ bucket(y) \in Nat /\ x \in Nat /\ y \in Nat
    BY <1>2, <1>4
  <2>2. \/ bucket(x) < bucket(y) \/ bucket(y) < bucket(x)
        \/ bucket(x) = bucket(y) /\ (x < y \/ y < x \/ x = y)
    BY <2>1
  <2>. QED
    BY <1>3, <2>2
<1>8. /\ Cardinality(S) \in Nat /\ Ordered(S, before) \in [1..Cardinality(S) -> S]
      /\ \A i, j \in 1..Cardinality(S) : Ordered(S, before)[i] = Ordered(S, before)[j] => i = j
  BY <1>1, <1>5, <1>6, <1>7, OrderedIsOneToOne
<1>9. ASSUME NEW n \in Nat, NEW s \in [1..n -> S] PROVE s \in Seq(Commits) /\ DOMAIN s = 1..n
  <2>1. s \in [1..n -> Commits]
    BY <1>1
  <2>. QED
    BY <2>1
<1>. QED
  BY <1>8, <1>9, Zenon DEF SliceOK, Sorted, S

LEMMA MinOfTwo ==
  ASSUME NEW a \in Nat, NEW b \in Nat
  PROVE  Min({a, b}) \in Nat /\ Min({a, b}) <= a /\ Min({a, b}) <= b
<1>1. \E x \in {a, b} : \A y \in {a, b} : x <= y
  <2>1. a <= b \/ b <= a
    OBVIOUS
  <2>. QED
    BY <2>1
<1>. QED
  BY <1>1 DEF Min

LEMMA PartIsOneToOne ==
  ASSUME NEW s, SliceOK(s), NEW m \in Nat, NEW n \in Nat, n <= Len(s)
  PROVE  SliceOK(SubSeq(s, m + 1, n))
<1>. DEFINE t == SubSeq(s, m + 1, n)
<1>1. s \in Seq(Commits)
  BY DEF SliceOK
<1>2. /\ t \in Seq(Commits)
      /\ \A i \in DOMAIN t : i + m \in DOMAIN s /\ t[i] = s[i + m]
  BY <1>1
<1>3. \A i \in DOMAIN t : i \in Nat
  BY <1>2
<1>. HIDE DEF t
<1>4. \A i, j \in DOMAIN t : t[i] = t[j] => i = j
  BY <1>2, <1>3 DEF SliceOK
<1>. QED
  BY <1>2, <1>4 DEF SliceOK, t

LEMMA SlicedIsOneToOne ==
  ASSUME NEW b \in Batches, SliceOK(slices[b])
  PROVE  SliceOK(Sliced(b))
<1>. DEFINE L == Len(Sorted)
<1>1. SliceOK(Sorted)
  BY SortedIsOneToOne
<1>2. L \in Nat
  BY <1>1 DEF SliceOK
<1>3. b \in Nat /\ BATCH_SIZE \in Nat
  BY OracleAssumption DEF Batches
<1>4. b * BATCH_SIZE \in Nat /\ (b + 1) * BATCH_SIZE \in Nat
  BY <1>3
<1>5. /\ Min({(b + 1) * BATCH_SIZE, L}) \in Nat
      /\ Min({(b + 1) * BATCH_SIZE, L}) <= L
  BY <1>2, <1>4, MinOfTwo
<1>. HIDE DEF L
<1>6. SliceOK(SubSeq(Sorted, b * BATCH_SIZE + 1, Min({(b + 1) * BATCH_SIZE, L})))
  BY <1>1, <1>4, <1>5, PartIsOneToOne DEF L
<1>. QED
  BY <1>6 DEF Sliced, L

(* What an agent appends: a line for the k-th commit of the slice.            *)
LEMMA AnswersAre ==
  ASSUME NEW b \in Batches, NEW k, slices[b][k] \in Commits, Answer(b, k)
  PROVE  \E line \in Line :
           /\ answers' = [answers EXCEPT ![b] = Append(@, line)]
           /\ line.of = slices[b][k] /\ line.sha \in {line.of, Ghost}
<1>. DEFINE c == slices[b][k]
            right == [sha |-> c, of |-> c, valid |-> TRUE]
<1>1. right \in Line /\ right.of = c /\ right.sha = c
  BY DEF Line
<1>2. ASSUME NEW wrong \in {[right EXCEPT !.sha = Ghost], [right EXCEPT !.valid = FALSE]}
      PROVE  wrong \in Line /\ wrong.of = c /\ wrong.sha \in {c, Ghost}
  <2>. HIDE DEF c
  <2>. QED
    BY <1>1 DEF Line
<1>. QED
  BY <1>1, <1>2 DEF Answer

LEMMA AnswerKeeps ==
  ASSUME AnswersFit, NEW b \in Batches, NEW k \in DOMAIN slices[b], Answer(b, k), ~mixed'
  PROVE  AnswersFit'
<1>. DEFINE a == answers[b]
            s == slices[b]
<1>1. SliceOK(s) /\ AnswersOK(a, s) /\ UNCHANGED slices /\ k \in DOMAIN s /\ s[k] \in Commits
  BY DEF AnswersFit, Answer, SliceOK
<1>2. Len(a) < Len(s) => \A i \in DOMAIN a : \E j \in 1..(k - 1) : a[i].of = s[j]
  BY DEF Answer, GoesOn, ToSet
<1>3. PICK line \in Line :
        /\ answers' = [answers EXCEPT ![b] = Append(@, line)]
        /\ line.of = s[k] /\ line.sha \in {line.of, Ghost}
  BY <1>1, AnswersAre
<1>. DEFINE u == Append(a, line)
            m == Len(a)
            n == Len(s)
<1>4. /\ DOMAIN answers' = Batches /\ answers'[b] = u
      /\ \A d \in Batches \ {b} : answers'[d] = answers[d]
  BY <1>3 DEF AnswersFit
<1>5. PICK p : Follows(p, a, s)
  BY <1>1 DEF AnswersOK
<1>6. /\ a \in Seq(Line) /\ m \in Nat /\ n \in Nat /\ DOMAIN a = 1..m /\ DOMAIN s = 1..n
  BY <1>1 DEF AnswersOK, SliceOK
<1>7. /\ u \in Seq(Line) /\ DOMAIN u = 1..(m + 1) /\ u[m + 1] = line
      /\ \A i \in 1..m : u[i] = a[i]
  BY <1>6
<1>8. \A i, j \in 1..n : s[i] = s[j] => i = j
  BY <1>1, <1>6 DEF SliceOK
<1>. HIDE DEF u, a, s, m, n
<1>9. \A i \in DOMAIN u : u[i].sha \in {u[i].of, Ghost}
  <2>1. \A i \in 1..m : a[i].sha \in {a[i].of, Ghost}
    BY <1>1, <1>6 DEF AnswersOK
  <2>2. \A i \in 1..(m + 1) : i \in 1..m \/ i = m + 1
    BY <1>6
  <2>. QED
    BY <1>3, <1>7, <2>1, <2>2
<1>10. \E q : Follows(q, u, s)
  <2>1. CASE m >= n
    <3>1. DOMAIN u \cap DOMAIN s = DOMAIN a \cap DOMAIN s /\ DOMAIN a \cap DOMAIN s \subseteq 1..m
      BY <1>6, <1>7, <2>1
    <3>2. Follows(p, u, s)
      BY <1>5, <1>7, <3>1 DEF Follows
    <3>. QED
      BY <3>2
  <2>2. CASE m < n
    <3>. DEFINE q == [i \in 1..(m + 1) |-> IF i = m + 1 THEN k ELSE p[i]]
    <3>1. DOMAIN a \cap DOMAIN s = 1..m /\ DOMAIN u \cap DOMAIN s = 1..(m + 1)
      BY <1>6, <1>7, <2>2
    <3>2. p \in [1..m -> 1..n] /\ GoesUp(p, 1..m) /\ \A i \in 1..m : a[i].of = s[p[i]]
      BY <1>5, <1>6, <3>1 DEF Follows
    <3>3. ASSUME NEW i \in 1..m PROVE p[i] < k
      <4>1. PICK j \in 1..(k - 1) : a[i].of = s[j]
        BY <1>2, <1>6, <2>2 DEF m, n
      <4>2. j \in 1..n /\ j < k
        BY <1>1, <1>6, <4>1
      <4>. QED
        BY <1>8, <3>2, <4>1, <4>2
    <3>4. q \in [1..(m + 1) -> 1..n]
      <4>1. \A i \in 1..(m + 1) : i = m + 1 \/ i \in 1..m
        BY <1>6
      <4>. QED
        BY <1>1, <1>6, <3>2, <4>1
    <3>5. GoesUp(q, 1..(m + 1))
      <4>. SUFFICES ASSUME NEW i \in 1..(m + 1), NEW j \in 1..(m + 1), i < j PROVE q[i] < q[j]
        BY DEF GoesUp
      <4>1. i \in 1..m /\ (j = m + 1 \/ j \in 1..m) /\ i # m + 1
        BY <1>6
      <4>. QED
        BY <1>6, <3>2, <3>3, <4>1 DEF GoesUp
    <3>6. ASSUME NEW i \in 1..(m + 1) PROVE u[i].of = s[q[i]]
      <4>1. i = m + 1 \/ (i \in 1..m /\ i # m + 1)
        BY <1>6
      <4>. QED
        BY <1>3, <1>7, <3>2, <4>1
    <3>. HIDE DEF q
    <3>7. Follows(q, u, s)
      BY <1>6, <3>1, <3>4, <3>5, <3>6 DEF Follows
    <3>. QED
      BY <3>7
  <2>. QED
    BY <1>6, <2>1, <2>2
<1>11. AnswersOK(u, s)
  BY <1>7, <1>9, <1>10 DEF AnswersOK
<1>. QED
  BY <1>1, <1>4, <1>11 DEF AnswersFit, s

(* With no answers, a batch follows any slice. *)
LEMMA NoAnswers ==
  ASSUME NEW slice
  PROVE  AnswersOK(<<>>, slice)
<1>1. <<>> \in Seq(Line) /\ DOMAIN <<>> = {}
  OBVIOUS
<1>2. Follows([i \in {} |-> 0], <<>>, slice)
  BY DEF Follows, GoesUp
<1>. QED
  BY <1>1, <1>2 DEF AnswersOK

LEMMA PrepKeeps ==
  ASSUME AnswersFit, PrepBatches, ~mixed'
  PROVE  AnswersFit'
<1>1. /\ DOMAIN slices' = Batches /\ UNCHANGED answers
      /\ \A b \in Batches : slices'[b] = Sliced(b)
  BY DEF PrepBatches
<1>2. ASSUME NEW b \in Batches PROVE SliceOK(slices'[b]) /\ AnswersOK(answers[b], slices'[b])
  <2>1. SliceOK(slices[b]) /\ AnswersOK(answers[b], slices[b])
    BY DEF AnswersFit
  <2>2. SliceOK(slices'[b])
    BY <1>1, <2>1, SlicedIsOneToOne
  <2>3. CASE answers[b] = <<>>
    BY <2>2, <2>3, NoAnswers
  <2>4. CASE answers[b] # <<>>
    <3>1. slices'[b] = slices[b]
      BY <2>4 DEF PrepBatches
    <3>. QED
      BY <2>1, <3>1
  <2>. QED
    BY <2>2, <2>3, <2>4
<1>. QED
  BY <1>1, <1>2 DEF AnswersFit

(* fix_shas.py: where no warning is unheeded, each line is of the commit at   *)
(* its place.                                                                 *)
LEMMA InPlace ==
  ASSUME NEW b, SliceOK(slices[b]), AnswersOK(answers[b], slices[b]),
         ~(Warned(b) /\ PassedOver(b))
  PROVE  \A i \in DOMAIN answers[b] \cap DOMAIN slices[b] : answers[b][i].of = slices[b][i]
<1>. DEFINE a == answers[b]
            s == slices[b]
            n == Len(s)
<1>1. a \in Seq(Line) /\ s \in Seq(Commits)
  BY DEF AnswersOK, SliceOK
<1>2. CASE ~PassedOver(b)
  BY <1>2 DEF PassedOver
<1>3. CASE ~Warned(b)
  <2>1. Len(a) = n /\ n \in Nat /\ DOMAIN a \cap DOMAIN s = 1..n /\ DOMAIN s = 1..n
    BY <1>1, <1>3 DEF Warned
  <2>2. PICK p : Follows(p, a, s)
    BY DEF AnswersOK
  <2>. HIDE DEF a, s, n
  <2>3. p \in [1..n -> 1..n] /\ (\A i, j \in 1..n : i < j => p[i] < p[j])
        /\ \A i \in 1..n : a[i].of = s[p[i]]
    BY <2>1, <2>2 DEF Follows, GoesUp
  <2>4. \A i \in 1..n : p[i] = i
    BY <2>1, <2>3, RowIsWhole
  <2>5. \A i \in DOMAIN a \cap DOMAIN s : a[i].of = s[i]
    BY <2>1, <2>3, <2>4
  <2>. QED
    BY <2>5 DEF a, s
<1>. QED
  BY <1>2, <1>3

LEMMA FixKeeps ==
  ASSUME AnswersFit, FixShas, ~mixed'
  PROVE  AnswersFit'
<1>1. /\ DOMAIN answers' = Batches /\ UNCHANGED slices
      /\ \A b \in Batches : answers'[b] = Anchored(b) /\ ~(Warned(b) /\ PassedOver(b))
  BY DEF FixShas
<1>2. ASSUME NEW b \in Batches PROVE AnswersOK(Anchored(b), slices[b])
  <2>. DEFINE s == slices[b]
              a == answers[b]
              u == Anchored(b)
  <2>1. /\ s \in Seq(Commits) /\ a \in Seq(Line)
        /\ \A i \in DOMAIN a : a[i].sha \in {a[i].of, Ghost}
    BY DEF AnswersFit, SliceOK, AnswersOK
  <2>2. \A i \in DOMAIN a \cap DOMAIN s : a[i].of = s[i]
    BY <1>1, InPlace DEF AnswersFit
  <2>3. PICK p : Follows(p, a, s)
    BY DEF AnswersFit, AnswersOK
  <2>4. u = [i \in DOMAIN a |-> IF i \in DOMAIN s THEN [a[i] EXCEPT !.sha = s[i]] ELSE a[i]]
    BY DEF Anchored
  <2>. HIDE DEF s, a, u
  <2>5. ASSUME NEW i \in DOMAIN a
        PROVE  u[i] \in Line /\ u[i].of = a[i].of /\ u[i].sha \in {u[i].of, Ghost}
    <3>1. a[i] \in Line
      BY <2>1
    <3>2. CASE i \in DOMAIN s
      <4>1. u[i] = [a[i] EXCEPT !.sha = s[i]] /\ s[i] \in Commits
        BY <2>1, <2>4, <3>2
      <4>2. a[i].of = s[i]
        BY <2>2, <3>2
      <4>. QED
        BY <3>1, <4>1, <4>2 DEF Line
    <3>3. CASE i \notin DOMAIN s
      BY <2>1, <2>4, <3>1, <3>3
    <3>. QED
      BY <3>2, <3>3
  <2>6. DOMAIN u = DOMAIN a /\ DOMAIN a = 1..Len(a) /\ Len(a) \in Nat
    BY <2>1, <2>4
  <2>7. u \in Seq(Line)
    <3>1. u \in [1..Len(a) -> Line]
      BY <2>4, <2>5, <2>6
    <3>. QED
      BY <2>6, <3>1
  <2>8. Follows(p, u, s)
    BY <2>3, <2>5, <2>6 DEF Follows
  <2>9. AnswersOK(u, s)
    BY <2>5, <2>6, <2>7, <2>8 DEF AnswersOK
  <2>. QED
    BY <2>9 DEF u, s
<1>. QED
  BY <1>1, <1>2 DEF AnswersFit
-------------------------------------------------------------------------------
(* load_jsonl finds for a commit a line that has its hash, if there is one.   *)
LEMMA LinesAreFound ==
  ASSUME NEW c, Places(c) # {}
  PROVE  LineOf(c) \in Places(c)
<1>. DEFINE P == Places(c)
            bound == (Cardinality(Commits) - 1) \div BATCH_SIZE
            A == {p[1] : p \in P}
<1>1. Cardinality(Commits) \in Nat /\ BATCH_SIZE \in Nat \ {0} /\ MaxLines \in Nat
  BY OracleAssumption, FS_CardinalityType
<1>2. bound \in Int
  BY <1>1
<1>3. \A p \in P : /\ p = <<p[1], p[2]>> /\ p[1] \in 0..bound /\ p[2] \in 1..MaxLines
  BY DEF Places, Batches
<1>. HIDE DEF P, bound
<1>4. A \subseteq Nat /\ A # {} /\ \A a \in A : a <= bound
  BY <1>2, <1>3 DEF P
<1>5. PICK a \in A : \A d \in A : d <= a
  BY <1>2, <1>4, GreatestNumber
<1>. DEFINE B == {p[2] : p \in {q \in P : q[1] = a}}
<1>6. B \subseteq Nat /\ B # {} /\ \A b \in B : b <= MaxLines
  BY <1>1, <1>3, <1>5
<1>7. PICK b \in B : \A d \in B : d <= b
  <2>. HIDE DEF B
  <2>1. MaxLines \in Int
    BY <1>1
  <2>. QED
    BY <1>6, <2>1, GreatestNumber
<1>8. PICK p \in P : p[1] = a /\ p[2] = b
  BY <1>7
<1>9. \A q \in P : q[1] < p[1] \/ (q[1] = p[1] /\ q[2] <= p[2])
  <2>. SUFFICES ASSUME NEW q \in P PROVE q[1] < a \/ (q[1] = a /\ q[2] <= b)
    BY <1>8
  <2>1. q[1] <= a /\ q[1] \in Nat /\ a \in Nat
    BY <1>3, <1>4, <1>5
  <2>2. q[1] = a => q[2] <= b
    BY <1>7
  <2>. QED
    BY <2>1, <2>2
<1>. QED
  BY <1>8, <1>9 DEF P, LineOf

LEMMA ScoresAreOfTheCommit ==
  ASSUME AnswersFit, NEW c \in Commits
  PROVE  ScoreOf(c) \in {c, None}
<1>1. CASE Places(c) = {}
  BY <1>1 DEF ScoreOf
<1>2. CASE Places(c) # {}
  <2>. DEFINE b == LineOf(c)[1]
              i == LineOf(c)[2]
  <2>1. b \in Batches /\ i \in DOMAIN answers[b] /\ answers[b][i].sha = c
    BY <1>2, LinesAreFound DEF Places
  <2>2. ScoreOf(c) \in {answers[b][i].of, None}
    BY <1>2 DEF ScoreOf
  <2>. HIDE DEF b, i
  <2>3. answers[b][i].sha \in {answers[b][i].of, Ghost}
    BY <2>1 DEF AnswersFit, AnswersOK
  <2>. QED
    BY <2>1, <2>2, <2>3, OracleAssumption
<1>. QED
  BY <1>1, <1>2
-------------------------------------------------------------------------------
LEMMA ScoresStep == Inv /\ ScoresInv /\ [Next]_vars => ScoresInv'
<1>. SUFFICES ASSUME Inv, AnswersFit, EnrichedFits, ScoresFit, [Next]_vars, ~mixed'
              PROVE  AnswersFit' /\ EnrichedFits' /\ ScoresFit'
  <2>1. mixed /\ [Next]_vars => mixed'
    BY StepCases
    DEF StartFetch, StartPrep, Crash, Fetch, AppendPatch, Analyse, TableStep, Build, Aggregate,
        OnlyCvss, Szz, ScoreStep, PrepBatches, FixShas, Answer, vars, scoring
  <2>. QED
    BY <2>1 DEF ScoresInv
<1>. USE DEF log, phase4, tables, scoring
<1>1. TypeOK /\ RowsEnriched /\ \A c \in Commits : ScoreOf(c) \in {c, None}
  BY ScoresAreOfTheCommit DEF Inv
<1>2. CASE ScoreStep
  <2>1. AnswersFit'
    BY <1>2, AnswerKeeps, PrepKeeps, FixKeeps DEF ScoreStep
  <2>2. UNCHANGED <<master, enriched, cvss>>
    BY <1>2, ScoreStepKeeps
  <2>. QED
    BY <2>1, <2>2 DEF EnrichedFits, ScoresFit
<1>3. ASSUME UNCHANGED <<slices, answers>> PROVE AnswersFit'
  BY <1>3 DEF AnswersFit
<1>4. CASE Build
  <2>1. UNCHANGED <<slices, answers, cvss>> /\ ~enriched'
    BY <1>4 DEF Build
  <2>2. \A c \in Commits : master'[c] = BuiltRow(c)
    BY <1>4 DEF Build, BuiltRow
  <2>3. \A c \in Commits : master'[c].score = None
    BY <1>1, <2>2, BuiltRows
  <2>. QED
    BY <1>3, <2>1, <2>3 DEF EnrichedFits, ScoresFit
<1>5. CASE Aggregate
  <2>1. UNCHANGED <<slices, answers>>
    BY <1>5 DEF Aggregate
  <2>. QED
    BY <1>1, <1>3, <1>5, <2>1, AggregateRows DEF EnrichedFits, ScoresFit
<1>6. CASE OnlyCvss
  <2>1. UNCHANGED <<slices, answers, master, enriched>> /\ enriched
    BY <1>6 DEF OnlyCvss
  <2>2. \A c \in Commits : cvss'[c] # None => cvss'[c].score \in {c, None}
    BY <1>1, <1>6, <2>1, OnlyCvssRows DEF EnrichedFits, ScoresFit
  <2>. QED
    BY <1>3, <2>1, <2>2 DEF EnrichedFits, ScoresFit
<1>7. CASE Szz
  <2>1. UNCHANGED <<slices, answers, master, enriched>>
    BY <1>7 DEF Szz
  <2>2. \A c \in Commits : cvss'[c] # None => cvss'[c].score \in {c, None}
    BY <1>1, <1>7, SzzRows DEF ScoresFit
  <2>. QED
    BY <1>3, <2>1, <2>2 DEF EnrichedFits, ScoresFit
<1>8. CASE ~ScoreStep /\ ~TableStep
  <2>1. UNCHANGED <<slices, answers, master, enriched, cvss>>
    BY <1>8, StepCases DEF StartFetch, StartPrep, Crash, Fetch, AppendPatch, Analyse, vars
  <2>. QED
    BY <1>3, <2>1 DEF EnrichedFits, ScoresFit
<1>. QED
  BY <1>2, <1>4, <1>5, <1>6, <1>7, <1>8 DEF TableStep

LEMMA ScoresInit == Init => ScoresInv
<1>. SUFFICES ASSUME Init PROVE AnswersFit /\ EnrichedFits /\ ScoresFit
  BY DEF ScoresInv
<1>1. \A b \in Batches : SliceOK(slices[b]) /\ AnswersOK(answers[b], slices[b])
  BY NoAnswers DEF Init, SliceOK
<1>. QED
  BY <1>1 DEF Init, AnswersFit, EnrichedFits, ScoresFit
-------------------------------------------------------------------------------
LEMMA InvHolds == Spec => []Inv
<1>1. Inv /\ [Next]_vars => Inv'
  BY TypeStep, LogStep, ConfirmedStep, BlameStep DEF Inv
<1>. QED
  BY InitInv, <1>1, PTL DEF Spec

(* The variables keep their types: rows keep their columns through every      *)
(* overlay, score and blame.                                                  *)
THEOREM OracleTypeCorrect == Spec => []TypeOK
<1>1. Inv => TypeOK
  BY DEF Inv
<1>. QED
  BY <1>1, InvHolds, PTL

(* A row confirmed from a front-end patch has that patch, in any order of     *)
(* fetches, builds and overlays, unless the log lost it or git diff failed    *)
(* when it was to be written (prep_nonruby.py, load_nonruby).                 *)
THEOREM ConfirmedAlwaysHasItsPatch == Spec => []ConfirmedHasItsPatch
<1>1. Inv => ConfirmedHasItsPatch
  BY DEF Inv
<1>. QED
  BY <1>1, InvHolds, PTL

(* A row has blame columns exactly when its status is that of one with a      *)
(* patch and szz_parquet.py was the last to write them (cvss_aggregate.py,    *)
(* szz_parquet.py).                                                           *)
THEOREM BlameAlwaysMatchesPatch == Spec => []BlameMatchesPatch
<1>1. Inv => BlameMatchesPatch
  BY DEF Inv
<1>. QED
  BY <1>1, InvHolds, PTL

(* No later run replaces a Ruby patch that was fetched, but prep_nonruby.py   *)
(* for a row that had none when the table was built (fetch_diffs.py).         *)
THEOREM RubyPatchesStay == Spec => RubyPatchIsKept
<1>1. Inv /\ [Next]_vars =>
        [\A c \in Commits :
           last[c] = "ok" /\ last'[c] # "ok" =>
             c \in prepping /\ master[c].status \in {"empty", "timeout"}]_vars
  <2>. SUFFICES ASSUME Inv, Next, NEW c \in Commits, last[c] = "ok", last'[c] # "ok"
                PROVE  c \in prepping /\ master[c].status \in {"empty", "timeout"}
    OBVIOUS
  <2>1. TypeOK /\ FetchesTheRest /\ PrepsTheRest
    BY DEF Inv
  <2>2. ASSUME NEW d \in Commits, Fetch(d) PROVE last'[c] = last[c]
    <3>1. d # c
      BY <2>1, <2>2 DEF Fetch, FetchesTheRest
    <3>. QED
      BY <2>1, <2>2, <3>1, FetchAppends, AppendTyped
  <2>3. ASSUME NEW d \in Commits, AppendPatch(d)
        PROVE  c \in prepping /\ master[c].status \in {"empty", "timeout"}
    <3>1. d \in prepping /\ (Append1(d, "ok-nonruby") \/ Append1(d, "hollow"))
      BY <2>3 DEF AppendPatch
    <3>2. d = c
      BY <2>1, <3>1, AppendTyped DEF Statuses
    <3>. QED
      BY <2>1, <3>1, <3>2 DEF PrepsTheRest
  <2>4. CASE UNCHANGED last
    BY <2>4
  <2>. QED
    BY <2>2, <2>3, <2>4, StepCases, ScoreStepKeeps
    DEF StartFetch, StartPrep, Crash, TableStep, Build, Aggregate, OnlyCvss, Szz, Analyse,
        log, phase4, tables, vars
<1>. QED
  BY <1>1, InvHolds, PTL DEF Spec, RubyPatchIsKept

(* A score is of the row's own commit, wherever agents stop, whatever they    *)
(* pass over and whatever hashes they make up, as long as none comes back to  *)
(* a commit, no batch with answers is sliced anew and no warning of           *)
(* fix_shas.py is one of a commit passed over (cvss_score.py, fix_shas.py,    *)
(* cvss_aggregate.py).                                                        *)
THEOREM ScoresAlwaysOfTheirCommit == Spec => []ScoreIsOfItsCommit
<1>1. Inv /\ ScoresInv /\ [Next]_vars => ScoresInv'
  BY ScoresStep
<1>2. ScoresInv => ScoreIsOfItsCommit
  BY DEF ScoresInv, ScoreIsOfItsCommit
<1>. QED
  BY InvHolds, ScoresInit, <1>1, <1>2, PTL DEF Spec
-------------------------------------------------------------------------------
(* Numbers, from the one before.                                              *)
LEMMA Numbers ==
  ASSUME NEW S, 0 \in S, \A n \in Nat : n \in S => n + 1 \in S
  PROVE  Nat \subseteq S
<1>. SUFFICES ASSUME Nat \ S # {} PROVE FALSE
  OBVIOUS
<1>1. PICK n \in Nat \ S : \A m \in Nat \ S : n <= m
  BY LeastNumber
<1>2. n # 0 /\ n - 1 \in Nat
  BY <1>1
<1>3. n - 1 \in S
  BY <1>1, <1>2
<1>. QED
  BY <1>1, <1>2, <1>3

(* Finite sets, from the sets with one element less. *)

LEMMA BySmallerSets ==
  ASSUME NEW S, IsFiniteSet(S), NEW G,
         \A T \in SUBSET S : (\A x \in T : T \ {x} \in G) => T \in G
  PROVE  S \in G
<1>. DEFINE R == StrictSubsetOrdering(S)
            B == FiniteSubsetsOf(S) \ G
<1>. SUFFICES ASSUME S \notin G PROVE FALSE
  OBVIOUS
<1>1. IsWellFoundedOn(R, FiniteSubsetsOf(S))
  BY FS_StrictSubsetOrderingWellFounded
<1>2. S \in B /\ B \subseteq FiniteSubsetsOf(S)
  BY DEF FiniteSubsetsOf
<1>3. \A T, U \in SUBSET S : U \subseteq T /\ U # T => <<U, T>> \in R
  BY DEF StrictSubsetOrdering
<1>4. \A T \in B : T \in SUBSET S /\ T \notin G
  BY DEF FiniteSubsetsOf
<1>5. \A T \in B : \A x \in T : T \ {x} \in B \/ T \ {x} \in G
  <2>. SUFFICES ASSUME NEW T \in B, NEW x \in T PROVE T \ {x} \in FiniteSubsetsOf(S)
    OBVIOUS
  <2>1. T \in SUBSET S /\ IsFiniteSet(T)
    BY DEF FiniteSubsetsOf
  <2>. QED
    BY <2>1, FS_RemoveElement DEF FiniteSubsetsOf
<1>. HIDE DEF R, B
<1>6. PICK T \in B : \A U \in B : <<U, T>> \notin R
  BY <1>1, <1>2, WFMin, Zenon
<1>7. ASSUME NEW x \in T PROVE T \ {x} \in G
  <2>1. <<T \ {x}, T>> \in R
    BY <1>3, <1>4
  <2>2. T \ {x} \notin B
    BY <1>6, <2>1
  <2>. QED
    BY <1>5, <2>2
<1>. QED
  BY <1>4, <1>6, <1>7
-------------------------------------------------------------------------------
(* parse_diff, line by line.                                                  *)
Reading(patch) ==
  CHOOSE read : read = [n \in 0 .. Len(patch) |->
                          IF n = 0 THEN Nothing ELSE Read(read[n - 1], patch[n])]

LEMMA ParsedByReading == \A patch : parse_diff(patch) = flush_hunk(Reading(patch)[Len(patch)])
BY Zenon DEF parse_diff, Reading

LEMMA ReadingIs ==
  ASSUME NEW patch \in Seq(PatchLine)
  PROVE  /\ Reading(patch)[0] = Nothing
         /\ \A n \in 1 .. Len(patch) : Reading(patch)[n] = Read(Reading(patch)[n - 1], patch[n])
<1>. DEFINE F(n, read) == IF n = 0 THEN Nothing ELSE Read(read[n - 1], patch[n])
            Agrees(n, read) == read = [m \in 0 .. n |-> F(m, read)]
            N == {n \in Nat : \E read : Agrees(n, read)}
<1>1. 0 \in N
  <2>. DEFINE read == [m \in 0 .. 0 |-> Nothing]
  <2>1. read = [m \in 0 .. 0 |-> F(m, read)]
    OBVIOUS
  <2>. QED
    BY <2>1
<1>2. ASSUME NEW n \in Nat, n \in N PROVE n + 1 \in N
  <2>1. PICK read : Agrees(n, read)
    BY <1>2
  <2>. DEFINE next == [m \in 0 .. n + 1 |-> F(m, read)]
  <2>2. \A m \in 0 .. n : next[m] = read[m]
    BY <2>1
  <2>3. \A m \in 0 .. n + 1 : m # 0 => m - 1 \in 0 .. n
    OBVIOUS
  <2>4. \A m \in 0 .. n + 1 : F(m, read) = F(m, next)
    BY <2>2, <2>3
  <2>. HIDE DEF F
  <2>5. next = [m \in 0 .. n + 1 |-> F(m, next)]
    BY <2>4
  <2>6. n + 1 \in Nat /\ Agrees(n + 1, next)
    BY <2>5
  <2>. HIDE DEF next, Agrees
  <2>. QED
    BY <2>6
<1>3. Nat \subseteq N
  <2>. HIDE DEF N
  <2>. QED
    BY <1>1, <1>2, Numbers
<1>4. \E read : read = [n \in 0 .. Len(patch) |-> F(n, read)]
  BY <1>3
<1>. DEFINE s == Reading(patch)
<1>5. s = [n \in 0 .. Len(patch) |-> F(n, s)]
  BY <1>4, Zenon DEF Reading
<1>. HIDE DEF s
<1>6. \A n \in 0 .. Len(patch) : s[n] = F(n, s)
  BY <1>5
<1>. QED
  BY <1>6 DEF s

State == [cur : Files \cup {Null}, oldno : Nat,
          events : Seq([kind : {"del", "add", "ctx"}, at : Nat]),
          dels : SUBSET ((Files \cup {Null}) \X Nat),
          vicinity : SUBSET ((Files \cup {Null}) \X Nat)]

(* The lines of d's hunk that are beside an insertion. *)
Seen(d) == {<<d.cur, d.events[i].at>> : i \in Beside(d.events)}
EventKind(kind) == IF kind = "note" THEN "del" ELSE kind

LEMMA FlushIs ==
  ASSUME NEW d \in State
  PROVE  /\ flush_hunk(d) = [cur |-> d.cur, oldno |-> d.oldno, events |-> <<>>,
                             dels |-> d.dels, vicinity |-> d.vicinity \cup Seen(d)]
         /\ flush_hunk(d) \in State
<1>1. flush_hunk(d) = [cur |-> d.cur, oldno |-> d.oldno, events |-> <<>>,
                       dels |-> d.dels, vicinity |-> d.vicinity \cup Seen(d)]
  <2>1. flush_hunk(d) = [d EXCEPT !.vicinity = d.vicinity \cup Seen(d), !.events = <<>>]
    BY DEF flush_hunk, Seen
  <2>. QED
    BY <2>1 DEF State
<1>2. Seen(d) \subseteq (Files \cup {Null}) \X Nat
  <2>1. d.events \in Seq([kind : {"del", "add", "ctx"}, at : Nat])
    BY DEF State
  <2>2. \A i \in DOMAIN d.events : d.events[i].at \in Nat
    <3>. DEFINE events == d.events
                Events == [kind : {"del", "add", "ctx"}, at : Nat]
    <3>1. \A e \in Events : e.at \in Nat
      OBVIOUS
    <3>2. events \in Seq(Events)
      BY <2>1
    <3>. HIDE DEF events, Events
    <3>3. \A i \in DOMAIN events : events[i] \in Events
      BY <3>2
    <3>. QED
      BY <3>1, <3>3 DEF events
  <2>3. d.cur \in Files \cup {Null}
    BY DEF State
  <2>4. \A i \in Beside(d.events) : i \in DOMAIN d.events
    BY DEF Beside
  <2>5. \A i \in Beside(d.events) : <<d.cur, d.events[i].at>> \in (Files \cup {Null}) \X Nat
    BY <2>2, <2>3, <2>4
  <2>. QED
    BY <2>5 DEF Seen
<1>3. <<>> \in Seq([kind : {"del", "add", "ctx"}, at : Nat])
  OBVIOUS
<1>. QED
  BY <1>1, <1>2, <1>3 DEF State

LEMMA LineKinds ==
  ASSUME NEW line \in PatchLine
  PROVE  /\ line.kind \in {"file", "hunk", "gone"} \cup Body
         /\ line.kind = "file" => line.name \in Files
         /\ line.kind = "hunk" => line.at \in Nat
BY DEF PatchLine, Body

LEMMA ReadFile ==
  ASSUME NEW d \in State, NEW line \in PatchLine, line.kind = "file"
  PROVE  Read(d, line) = [cur |-> line.name, oldno |-> d.oldno, events |-> <<>>,
                          dels |-> d.dels, vicinity |-> d.vicinity \cup Seen(d)]
<1>. DEFINE e == flush_hunk(d)
<1>1. Read(d, line) = [e EXCEPT !.cur = line.name]
  BY DEF Read
<1>2. e = [cur |-> d.cur, oldno |-> d.oldno, events |-> <<>>,
           dels |-> d.dels, vicinity |-> d.vicinity \cup Seen(d)]
  BY FlushIs
<1>. HIDE DEF e
<1>. QED
  BY <1>1, <1>2

LEMMA ReadHunk ==
  ASSUME NEW d \in State, NEW line \in PatchLine, line.kind = "hunk"
  PROVE  Read(d, line) = [cur |-> d.cur, oldno |-> line.at, events |-> <<>>,
                          dels |-> d.dels, vicinity |-> d.vicinity \cup Seen(d)]
<1>. DEFINE e == flush_hunk(d)
<1>1. Read(d, line) = [e EXCEPT !.oldno = line.at]
  BY DEF Read
<1>2. e = [cur |-> d.cur, oldno |-> d.oldno, events |-> <<>>,
           dels |-> d.dels, vicinity |-> d.vicinity \cup Seen(d)]
  BY FlushIs
<1>. HIDE DEF e
<1>. QED
  BY <1>1, <1>2

LEMMA ReadBody ==
  ASSUME NEW d \in State, NEW line \in PatchLine, d.cur # Null,
         line.kind \in {"del", "note", "ctx", "add"}
  PROVE  Read(d, line) =
           [cur |-> d.cur, oldno |-> IF line.kind = "add" THEN d.oldno ELSE d.oldno + 1,
            events |-> Append(d.events, [kind |-> EventKind(line.kind), at |-> d.oldno]),
            dels |-> IF line.kind = "del" THEN d.dels \cup {<<d.cur, d.oldno>>} ELSE d.dels,
            vicinity |-> d.vicinity]
<1>1. CASE line.kind = "del"
  <2>1. Read(d, line) = Deleted(d, line)
    BY <1>1 DEF Read
  <2>. QED
    BY <1>1, <2>1 DEF State, Deleted, Event, Next1, EventKind
<1>2. CASE line.kind = "note"
  <2>1. Read(d, line) = Deleted(d, line)
    BY <1>2 DEF Read
  <2>. QED
    BY <1>2, <2>1 DEF State, Deleted, Event, Next1, EventKind
<1>3. CASE line.kind = "ctx"
  <2>1. Read(d, line) = Next1(Event(d, "ctx"))
    BY <1>3 DEF Read
  <2>. QED
    BY <1>3, <2>1 DEF State, Event, Next1, EventKind
<1>4. CASE line.kind = "add"
  <2>1. Read(d, line) = Event(d, "add")
    BY <1>4 DEF Read
  <2>. QED
    BY <1>4, <2>1 DEF State, Event, Next1, EventKind
<1>. QED
  BY <1>1, <1>2, <1>3, <1>4
-------------------------------------------------------------------------------
(* The number of the old line that follows line n of a patch, whose hunk      *)
(* begins at line b.                                                          *)
Moving == {"ctx", "del", "note"}
Old(patch, b, n) == patch[b].at + Cardinality({j \in b .. n : patch[j].kind \in Moving})

LEMMA HeaderIs ==
  ASSUME NEW patch, NEW i \in Nat, NEW kind, NEW h \in 1 .. i, patch[h].kind = kind,
         \A j \in h + 1 .. i : patch[j].kind # kind
  PROVE  Header(patch, i, kind) = h
<1>. DEFINE S == {j \in 1 .. i : patch[j].kind = kind}
<1>1. h \in S /\ \A j \in S : h >= j
  OBVIOUS
<1>2. S \subseteq Nat
  OBVIOUS
<1>. HIDE DEF S
<1>3. \A x \in S : (\A y \in S : x >= y) => x = h
  BY <1>1, <1>2
<1>4. Max(S) = h
  BY <1>1, <1>3 DEF Max
<1>. QED
  BY <1>4 DEF S, Header

LEMMA HeaderSame ==
  ASSUME NEW patch, NEW n \in Nat, NEW kind, patch[n + 1].kind # kind
  PROVE  Header(patch, n + 1, kind) = Header(patch, n, kind)
<1>1. {j \in 1 .. n + 1 : patch[j].kind = kind} = {j \in 1 .. n : patch[j].kind = kind}
  OBVIOUS
<1>. QED
  BY <1>1 DEF Header

LEMMA OldIs ==
  ASSUME NEW patch, NEW b \in Nat, patch[b].kind = "hunk", patch[b].at \in Nat
  PROVE  /\ Old(patch, b, b) = patch[b].at
         /\ \A n \in Nat : n >= b =>
              /\ Old(patch, b, n) \in Nat
              /\ Old(patch, b, n + 1) =
                   IF patch[n + 1].kind \in Moving THEN Old(patch, b, n) + 1 ELSE Old(patch, b, n)
<1>. DEFINE M(n) == {j \in b .. n : patch[j].kind \in Moving}
<1>1. M(b) = {}
  BY DEF Moving
<1>2. Old(patch, b, b) = patch[b].at
  <2>1. Old(patch, b, b) = patch[b].at + Cardinality(M(b))
    BY DEF Old
  <2>2. Cardinality(M(b)) = 0
    BY <1>1, FS_EmptySet
  <2>. QED
    BY <2>1, <2>2
<1>3. ASSUME NEW n \in Nat, n >= b
      PROVE  /\ Old(patch, b, n) \in Nat
             /\ Old(patch, b, n + 1) =
                  IF patch[n + 1].kind \in Moving THEN Old(patch, b, n) + 1 ELSE Old(patch, b, n)
  <2>1. IsFiniteSet(M(n))
    <3>1. b \in Int /\ n \in Int
      OBVIOUS
    <3>2. IsFiniteSet(b .. n)
      BY <3>1, FS_Interval
    <3>. QED
      BY <3>2, FS_Subset
  <2>2. Cardinality(M(n)) \in Nat
    BY <2>1, FS_CardinalityType
  <2>3. n + 1 \notin M(n)
    OBVIOUS
  <2>4. M(n + 1) = IF patch[n + 1].kind \in Moving THEN M(n) \cup {n + 1} ELSE M(n)
    <3>1. b .. n + 1 = (b .. n) \cup {n + 1}
      BY <1>3
    <3>. QED
      BY <3>1
  <2>5. Old(patch, b, n) = patch[b].at + Cardinality(M(n))
        /\ Old(patch, b, n + 1) = patch[b].at + Cardinality(M(n + 1))
    BY DEF Old
  <2>. HIDE DEF M
  <2>6. Cardinality(M(n) \cup {n + 1}) = Cardinality(M(n)) + 1
    BY <2>1, <2>3, FS_AddElement
  <2>. QED
    BY <2>2, <2>4, <2>5, <2>6
<1>. QED
  BY <1>2, <1>3

(* A line a reader of the patch sees beside an insertion.                     *)
Near(patch, j) ==
  /\ patch[j].kind = "ctx"
  /\ \E m \in {j - 1, j + 1} \cap (1 .. Len(patch)) : patch[m].kind = "add"

(* What parse_diff has read when it has read n lines, since header b.         *)
Lines == Moving \cup {"add"}
HeadOf(patch, n, b) ==
  /\ b \in 1 .. n /\ patch[b].kind \in {"file", "hunk"}
  /\ \A k \in b + 1 .. n : patch[k].kind \in Lines
FileOf(patch, n, d) ==
  /\ Header(patch, n, "file") \in 1 .. n /\ d.cur # Null
  /\ d.cur = patch[Header(patch, n, "file")].name
NumberOf(patch, n, b, d) == patch[b].kind = "hunk" => d.oldno = Old(patch, b, n)
DelsOf(patch, n, d) ==
  d.dels = {Place(patch, i) : i \in {j \in 1 .. n : patch[j].kind = "del"}}
EventsOf(patch, n, b, d) ==
  /\ Len(d.events) = n - b
  /\ \A k \in 1 .. n - b : /\ d.events[k].kind = EventKind(patch[b + k].kind)
                           /\ Place(patch, b + k) = <<d.cur, d.events[k].at>>
VicinityOf(patch, b, d) ==
  d.vicinity = {Place(patch, i) : i \in {j \in 1 .. b : Near(patch, j)}}

ReadOf(patch, n, b, d) ==
  /\ d \in State
  /\ HeadOf(patch, n, b) /\ FileOf(patch, n, d) /\ NumberOf(patch, n, b, d)
  /\ DelsOf(patch, n, d) /\ EventsOf(patch, n, b, d) /\ VicinityOf(patch, b, d)

LEMMA PlaceOfBody ==
  ASSUME NEW patch \in Seq(PatchLine), NEW n \in Nat, NEW b \in 1 .. n, HeadOf(patch, n, b),
         patch[b].kind = "hunk", patch[n + 1].kind \in Lines
  PROVE  Place(patch, n + 1) = <<patch[Header(patch, n, "file")].name, Old(patch, b, n)>>
<1>1. Header(patch, n + 1, "hunk") = b
  <2>1. \A j \in b + 1 .. n + 1 : patch[j].kind \in Lines
    BY DEF HeadOf
  <2>2. \A j \in b + 1 .. n + 1 : patch[j].kind # "hunk"
    BY <2>1 DEF Lines, Moving
  <2>3. n + 1 \in Nat /\ b \in 1 .. n + 1
    OBVIOUS
  <2>. QED
    BY <2>2, <2>3, HeaderIs
<1>2. Header(patch, n + 1, "file") = Header(patch, n, "file")
  BY HeaderSame DEF Lines, Moving
<1>3. (n + 1) - 1 = n
  OBVIOUS
<1>. QED
  BY <1>1, <1>2, <1>3 DEF Place, Old, Moving

(* A hunk that ends with line n: its lines beside an insertion are those of   *)
(* the patch, for what follows it is no insertion.                            *)
LEMMA FlushOfHunk ==
  ASSUME NEW patch \in Seq(PatchLine), NEW n \in 1 .. Len(patch), NEW b, NEW d,
         ReadOf(patch, n, b, d), n = Len(patch) \/ patch[n + 1].kind # "add"
  PROVE  d.vicinity \cup Seen(d) = {Place(patch, i) : i \in {j \in 1 .. n : Near(patch, j)}}
<1>1. /\ b \in 1 .. n /\ patch[b].kind # "ctx" /\ patch[b].kind # "add"
      /\ \A k \in b + 1 .. n : patch[k].kind \in Lines
  BY DEF ReadOf, HeadOf
<1>. DEFINE events == d.events
            H == {i \in 1 .. n - b : Near(patch, b + i)}
<1>2. DOMAIN events = 1 .. n - b
  <2>1. Len(events) = n - b /\ n - b \in Nat
    BY <1>1 DEF ReadOf, EventsOf
  <2>2. events \in Seq([kind : {"del", "add", "ctx"}, at : Nat])
    BY DEF ReadOf, State
  <2>. HIDE DEF events
  <2>. QED
    BY <2>1, <2>2
<1>3. \A i \in 1 .. n - b : /\ events[i].kind = EventKind(patch[b + i].kind)
                            /\ Place(patch, b + i) = <<d.cur, events[i].at>>
  BY DEF ReadOf, EventsOf
<1>4. \A i \in 1 .. n - b : /\ events[i].kind = "ctx" <=> patch[b + i].kind = "ctx"
                            /\ events[i].kind = "add" <=> patch[b + i].kind = "add"
  BY <1>3 DEF EventKind
<1>. HIDE DEF events
<1>5. ASSUME NEW i \in 1 .. n - b PROVE i \in Beside(events) <=> Near(patch, b + i)
  <2>1. i \in Beside(events) <=>
          events[i].kind = "ctx" /\ \E j \in {i - 1, i + 1} \cap (1 .. n - b) : events[j].kind = "add"
    BY <1>2 DEF Beside
  <2>3. \A j \in {i - 1, i + 1} \cap (1 .. n - b) :
          b + j \in {b + i - 1, b + i + 1} \cap (1 .. Len(patch))
    <3>1. b \in Nat /\ i \in Nat /\ n \in Nat /\ Len(patch) \in Nat /\ n <= Len(patch)
      BY <1>1
    <3>2. b + (i - 1) = b + i - 1 /\ b + (i + 1) = b + i + 1
      BY <3>1
    <3>3. \A j \in 1 .. n - b : b + j \in 1 .. Len(patch)
      BY <1>1, <3>1
    <3>. QED
      BY <3>2, <3>3
  <2>4. \A m \in {b + i - 1, b + i + 1} \cap (1 .. Len(patch)) :
          patch[m].kind = "add" => m - b \in {i - 1, i + 1} \cap (1 .. n - b) /\ b + (m - b) = m
    <3>. SUFFICES ASSUME NEW m \in {b + i - 1, b + i + 1} \cap (1 .. Len(patch)),
                         patch[m].kind = "add"
                  PROVE  m - b \in {i - 1, i + 1} \cap (1 .. n - b) /\ b + (m - b) = m
      OBVIOUS
    <3>1. m # b /\ m # n + 1
      BY <1>1
    <3>. QED
      BY <1>1, <3>1
  <2>5. (\E j \in {i - 1, i + 1} \cap (1 .. n - b) : events[j].kind = "add")
          <=> \E m \in {b + i - 1, b + i + 1} \cap (1 .. Len(patch)) : patch[m].kind = "add"
    BY <1>4, <2>3, <2>4
  <2>6. Near(patch, b + i) <=>
          /\ patch[b + i].kind = "ctx"
          /\ \E m \in {b + i - 1, b + i + 1} \cap (1 .. Len(patch)) : patch[m].kind = "add"
    <3>1. b \in Nat /\ i \in Nat
      BY <1>1
    <3>2. (b + i) - 1 = b + i - 1
      BY <3>1
    <3>. QED
      BY <3>2 DEF Near
  <2>. QED
    BY <1>4, <2>1, <2>5, <2>6
<1>6. Beside(events) = H
  <2>1. Beside(events) \subseteq 1 .. n - b
    BY <1>2 DEF Beside
  <2>. QED
    BY <1>5, <2>1
<1>. HIDE DEF H
<1>7. Seen(d) = {Place(patch, b + i) : i \in H}
  <2>1. Seen(d) = {<<d.cur, events[i].at>> : i \in H}
    BY <1>6 DEF Seen, events
  <2>2. \A i \in H : Place(patch, b + i) = <<d.cur, events[i].at>>
    BY <1>3 DEF H
  <2>. QED
    BY <2>1, <2>2
<1>8. {j \in 1 .. n : Near(patch, j)} = {j \in 1 .. b : Near(patch, j)} \cup {b + i : i \in H}
  <2>1. \A j \in 1 .. n : j \in 1 .. b \/ (j - b \in 1 .. n - b /\ b + (j - b) = j)
    BY <1>1
  <2>2. \A i \in 1 .. n - b : b + i \in 1 .. n
    BY <1>1
  <2>3. \A j \in 1 .. b : j \in 1 .. n
    BY <1>1
  <2>. QED
    BY <2>1, <2>2, <2>3 DEF H
<1>9. d.vicinity = {Place(patch, j) : j \in {i \in 1 .. b : Near(patch, i)}}
  BY DEF ReadOf, VicinityOf
<1>. QED
  BY <1>7, <1>8, <1>9

LEMMA NothingIsState == Nothing \in State
<1>1. <<>> \in Seq([kind : {"del", "add", "ctx"}, at : Nat])
  OBVIOUS
<1>. QED
  BY <1>1 DEF Nothing, State

(* A new file or a new hunk: the hunk before it is flushed.                   *)
LEMMA HeaderRead ==
  ASSUME NEW patch \in Seq(PatchLine), NEW n \in Nat, n + 1 \in 1 .. Len(patch), NEW d, NEW e,
         n > 0 => \E b : ReadOf(patch, n, b, d), n = 0 => d = Nothing,
         patch[n + 1].kind \in {"file", "hunk"}, patch[n + 1].kind = "hunk" => n > 0,
         e = Read(d, patch[n + 1])
  PROVE  ReadOf(patch, n + 1, n + 1, e)
<1>. DEFINE line == patch[n + 1]
<1>1. line \in PatchLine
  OBVIOUS
<1>2. d \in State
  BY NothingIsState DEF ReadOf
<1>3. /\ line.kind \in {"file", "hunk"}
      /\ line.kind = "file" => line.name \in Files
      /\ line.kind = "hunk" => line.at \in Nat
  BY <1>1, LineKinds
<1>. HIDE DEF line
<1>4. e = [cur |-> IF line.kind = "file" THEN line.name ELSE d.cur,
           oldno |-> IF line.kind = "hunk" THEN line.at ELSE d.oldno,
           events |-> <<>>, dels |-> d.dels, vicinity |-> d.vicinity \cup Seen(d)]
  BY <1>1, <1>2, <1>3, ReadFile, ReadHunk DEF line
<1>5. e \in State
  <2>1. flush_hunk(d) \in State /\ flush_hunk(d).vicinity = d.vicinity \cup Seen(d)
    BY <1>2, FlushIs
  <2>2. d.vicinity \cup Seen(d) \in SUBSET ((Files \cup {Null}) \X Nat)
    BY <2>1 DEF State
  <2>3. <<>> \in Seq([kind : {"del", "add", "ctx"}, at : Nat])
    OBVIOUS
  <2>. QED
    BY <1>2, <1>3, <1>4, <2>2, <2>3 DEF State
<1>6. HeadOf(patch, n + 1, n + 1)
  BY <1>3 DEF HeadOf, line
<1>7. FileOf(patch, n + 1, e)
  <2>1. CASE line.kind = "file"
    <3>1. Header(patch, n + 1, "file") = n + 1
      <4>1. n + 1 \in Nat /\ n + 1 \in 1 .. n + 1 /\ \A j \in n + 1 + 1 .. n + 1 : FALSE
        OBVIOUS
      <4>. QED
        BY <2>1, <4>1, HeaderIs DEF line
    <3>2. e.cur = line.name /\ line.name # Null
      BY <1>3, <1>4, <2>1, SzzAssumption
    <3>. QED
      BY <3>1, <3>2 DEF FileOf, line
  <2>2. CASE line.kind = "hunk"
    <3>1. Header(patch, n + 1, "file") = Header(patch, n, "file")
      BY <2>2, HeaderSame DEF line
    <3>2. FileOf(patch, n, d)
      BY <2>2 DEF ReadOf, line
    <3>3. e.cur = d.cur
      BY <1>4, <2>2
    <3>. QED
      BY <3>1, <3>2, <3>3 DEF FileOf
  <2>. QED
    BY <1>3, <2>1, <2>2
<1>8. NumberOf(patch, n + 1, n + 1, e)
  <2>. SUFFICES ASSUME line.kind = "hunk" PROVE e.oldno = Old(patch, n + 1, n + 1)
    BY DEF NumberOf, line
  <2>1. e.oldno = line.at /\ line.at \in Nat
    BY <1>3, <1>4
  <2>. QED
    BY <2>1, OldIs DEF line
<1>9. DelsOf(patch, n + 1, e)
  <2>1. {j \in 1 .. n + 1 : patch[j].kind = "del"} = {j \in 1 .. n : patch[j].kind = "del"}
    BY <1>3 DEF line
  <2>2. d.dels = {Place(patch, i) : i \in {j \in 1 .. n : patch[j].kind = "del"}}
    <3>1. CASE n = 0
      BY <3>1 DEF Nothing
    <3>2. CASE n > 0
      BY <3>2 DEF ReadOf, DelsOf
    <3>. QED
      BY <3>1, <3>2
  <2>3. e.dels = d.dels
    BY <1>4
  <2>. QED
    BY <2>1, <2>2, <2>3 DEF DelsOf
<1>10. EventsOf(patch, n + 1, n + 1, e)
  BY <1>4 DEF EventsOf
<1>11. VicinityOf(patch, n + 1, e)
  <2>1. {j \in 1 .. n + 1 : Near(patch, j)} = {j \in 1 .. n : Near(patch, j)}
    BY <1>3 DEF Near, line
  <2>2. d.vicinity \cup Seen(d) = {Place(patch, i) : i \in {j \in 1 .. n : Near(patch, j)}}
    <3>1. CASE n = 0
      BY <3>1 DEF Nothing, Seen, Beside
    <3>2. CASE n > 0
      BY <1>3, <3>2, FlushOfHunk DEF line
    <3>. QED
      BY <3>1, <3>2
  <2>3. e.vicinity = d.vicinity \cup Seen(d)
    BY <1>4
  <2>. QED
    BY <2>1, <2>2, <2>3 DEF VicinityOf
<1>. QED
  BY <1>5, <1>6, <1>7, <1>8, <1>9, <1>10, <1>11 DEF ReadOf

(* A line of a hunk.                                                          *)
LEMMA BodyRead ==
  ASSUME NEW patch \in Seq(PatchLine), NEW n \in Nat \ {0}, n + 1 \in 1 .. Len(patch),
         NEW b, NEW d, NEW e, ReadOf(patch, n, b, d),
         patch[n + 1].kind \in Lines, b = n => patch[n].kind = "hunk",
         b < n => patch[b].kind = "hunk", e = Read(d, patch[n + 1])
  PROVE  ReadOf(patch, n + 1, b, e)
<1>. DEFINE line == patch[n + 1]
            old == d.oldno
            events == d.events
            event == [kind |-> EventKind(line.kind), at |-> old]
<1>1. line \in PatchLine
  OBVIOUS
<1>2. d \in State /\ d.cur # Null
  BY DEF ReadOf, FileOf
<1>3. b \in 1 .. n /\ patch[b].kind = "hunk" /\ patch[b].at \in Nat
  <2>1. b \in 1 .. n
    BY DEF ReadOf, HeadOf
  <2>2. patch[b] \in PatchLine
    BY <2>1
  <2>. QED
    BY <2>1, <2>2, LineKinds
<1>4. line.kind \in {"ctx", "del", "note", "add"}
  BY DEF Lines, Moving
<1>5. e = [cur |-> d.cur, oldno |-> IF line.kind = "add" THEN old ELSE old + 1,
           events |-> Append(events, event),
           dels |-> IF line.kind = "del" THEN d.dels \cup {<<d.cur, old>>} ELSE d.dels,
           vicinity |-> d.vicinity]
  BY <1>1, <1>2, <1>4, ReadBody
<1>6. Place(patch, n + 1) = <<d.cur, old>>
  <2>1. HeadOf(patch, n, b) /\ d.cur = patch[Header(patch, n, "file")].name
        /\ old = Old(patch, b, n)
    BY <1>3 DEF ReadOf, FileOf, NumberOf
  <2>. QED
    BY <1>3, <2>1, PlaceOfBody
<1>7. old \in Nat /\ events \in Seq([kind : {"del", "add", "ctx"}, at : Nat])
      /\ d.cur \in Files \cup {Null}
      /\ d.dels \in SUBSET ((Files \cup {Null}) \X Nat)
      /\ d.vicinity \in SUBSET ((Files \cup {Null}) \X Nat)
  BY <1>2 DEF State
<1>8. event \in [kind : {"del", "add", "ctx"}, at : Nat]
  BY <1>4, <1>7 DEF EventKind
<1>9. Len(events) = n - b
      /\ \A k \in 1 .. n - b : /\ events[k].kind = EventKind(patch[b + k].kind)
                               /\ Place(patch, b + k) = <<d.cur, events[k].at>>
  BY DEF ReadOf, EventsOf
<1>. HIDE DEF line, old, events, event
<1>10. e \in State
  <2>1. Append(events, event) \in Seq([kind : {"del", "add", "ctx"}, at : Nat])
    BY <1>7, <1>8
  <2>. QED
    BY <1>5, <1>7, <2>1 DEF State
<1>11. HeadOf(patch, n + 1, b)
  BY <1>3 DEF ReadOf, HeadOf
<1>12. FileOf(patch, n + 1, e)
  <2>1. Header(patch, n + 1, "file") = Header(patch, n, "file")
    BY <1>4, HeaderSame DEF line
  <2>2. e.cur = d.cur
    BY <1>5
  <2>. QED
    BY <2>1, <2>2 DEF ReadOf, FileOf
<1>13. NumberOf(patch, n + 1, b, e)
  <2>1. old = Old(patch, b, n)
    BY <1>3 DEF ReadOf, NumberOf, old
  <2>2. Old(patch, b, n + 1) = IF line.kind \in Moving THEN old + 1 ELSE old
    <3>1. b \in Nat /\ n \in Nat /\ n >= b
      BY <1>3
    <3>2. Old(patch, b, n + 1) =
            IF patch[n + 1].kind \in Moving THEN Old(patch, b, n) + 1 ELSE Old(patch, b, n)
      BY <1>3, <3>1, OldIs
    <3>. QED
      BY <2>1, <3>2 DEF line
  <2>3. e.oldno = IF line.kind = "add" THEN old ELSE old + 1
    BY <1>5
  <2>. QED
    BY <1>4, <2>2, <2>3 DEF NumberOf, Moving
<1>14. DelsOf(patch, n + 1, e)
  <2>1. {j \in 1 .. n + 1 : patch[j].kind = "del"} =
          {j \in 1 .. n : patch[j].kind = "del"} \cup (IF line.kind = "del" THEN {n + 1} ELSE {})
    <3>1. 1 .. n + 1 = (1 .. n) \cup {n + 1}
      OBVIOUS
    <3>. QED
      BY <3>1 DEF line
  <2>2. d.dels = {Place(patch, i) : i \in {j \in 1 .. n : patch[j].kind = "del"}}
    BY DEF ReadOf, DelsOf
  <2>3. e.dels = d.dels \cup (IF line.kind = "del" THEN {Place(patch, n + 1)} ELSE {})
    BY <1>5, <1>6
  <2>. QED
    BY <2>1, <2>2, <2>3 DEF DelsOf
<1>15. EventsOf(patch, n + 1, b, e)
  <2>1. e.events = Append(events, event) /\ e.cur = d.cur
    BY <1>5
  <2>2. n - b \in Nat /\ n + 1 - b = (n - b) + 1
    BY <1>3
  <2>3. Len(e.events) = n + 1 - b
    BY <1>7, <1>9, <2>1, <2>2
  <2>4. \A k \in 1 .. n - b : e.events[k] = events[k]
    BY <1>7, <1>9, <2>1, <2>2
  <2>5. e.events[n + 1 - b] = event
    BY <1>7, <1>9, <2>1, <2>2
  <2>6. event.kind = EventKind(patch[b + (n + 1 - b)].kind)
        /\ Place(patch, b + (n + 1 - b)) = <<d.cur, event.at>>
    <3>1. b + (n + 1 - b) = n + 1
      BY <1>3
    <3>. QED
      BY <1>6, <3>1 DEF event, line
  <2>7. \A k \in 1 .. n + 1 - b : k \in 1 .. n - b \/ k = n + 1 - b
    BY <2>2
  <2>8. \A k \in 1 .. n + 1 - b : /\ e.events[k].kind = EventKind(patch[b + k].kind)
                                  /\ Place(patch, b + k) = <<e.cur, e.events[k].at>>
    BY <1>9, <2>1, <2>4, <2>5, <2>6, <2>7
  <2>. QED
    BY <1>3, <2>3, <2>8 DEF EventsOf
<1>16. VicinityOf(patch, b, e)
  BY <1>5 DEF ReadOf, VicinityOf
<1>. QED
  BY <1>10, <1>11, <1>12, <1>13, <1>14, <1>15, <1>16 DEF ReadOf

LEMMA AllRead ==
  ASSUME NEW patch \in Seq(PatchLine), Printed(patch), Plain(patch), NEW n \in 1 .. Len(patch)
  PROVE  \E b : ReadOf(patch, n, b, Reading(patch)[n])
<1>. DEFINE r == Reading(patch)
            N == {m \in Nat : m + 1 \in 1 .. Len(patch) => \E b : ReadOf(patch, m + 1, b, r[m + 1])}
<1>1. r[0] = Nothing /\ \A m \in Nat : m + 1 \in 1 .. Len(patch) => r[m + 1] = Read(r[m], patch[m + 1])
  <2>1. \A m \in Nat : (m + 1) - 1 = m
    OBVIOUS
  <2>. QED
    BY <2>1, ReadingIs
<1>2. ASSUME NEW m \in 1 .. Len(patch) PROVE patch[m].kind \in {"file", "hunk"} \cup Lines
  <2>1. m \in DOMAIN patch /\ patch[m] \in PatchLine
    OBVIOUS
  <2>2. patch[m].kind \notin {"gone", "dashes"}
    BY <2>1 DEF Plain
  <2>3. patch[m].kind \in {"file", "hunk", "gone"} \cup Body
    BY <2>1, LineKinds
  <2>. QED
    BY <2>2, <2>3 DEF Body, Lines, Moving
<1>3. ASSUME NEW m \in 1 .. Len(patch)
      PROVE  /\ patch[m].kind = "hunk" => m > 1
             /\ patch[m].kind \in Lines => m > 1 /\ patch[m - 1].kind \in Lines \cup {"hunk"}
  <2>1. m \in DOMAIN patch
    OBVIOUS
  <2>2. patch[m].kind = "hunk" => m > 1
    BY <2>1 DEF Printed
  <2>3. patch[m].kind \in Lines => m > 1 /\ patch[m - 1].kind \in Body \cup {"hunk"}
    BY <2>1 DEF Printed, Body, Lines, Moving
  <2>4. m > 1 => patch[m - 1].kind \in {"file", "hunk"} \cup Lines
    BY <1>2
  <2>. QED
    BY <2>2, <2>3, <2>4 DEF Body
<1>. HIDE DEF r
<1>4. 0 \in N
  <2>. SUFFICES ASSUME 1 \in 1 .. Len(patch) PROVE \E b : ReadOf(patch, 1, b, r[1])
    OBVIOUS
  <2>. DEFINE z == 0
  <2>1. z \in Nat /\ z + 1 = 1 /\ ~(z > 0) /\ ~(1 > 1)
    OBVIOUS
  <2>2. patch[z + 1].kind = "file"
    BY <1>2, <1>3
  <2>3. r[z] = Nothing /\ r[z + 1] = Read(r[z], patch[z + 1])
    BY <1>1
  <2>. HIDE DEF z
  <2>4. z + 1 \in 1 .. Len(patch)
    BY <2>1
  <2>5. ReadOf(patch, z + 1, z + 1, r[z + 1])
    BY <2>1, <2>2, <2>3, <2>4, HeaderRead
  <2>. QED
    BY <2>1, <2>5
<1>5. ASSUME NEW m \in Nat, m \in N PROVE m + 1 \in N
  <2>. SUFFICES ASSUME m + 1 + 1 \in 1 .. Len(patch)
                PROVE  \E b : ReadOf(patch, m + 1 + 1, b, r[m + 1 + 1])
    OBVIOUS
  <2>. DEFINE k == m + 1
  <2>1. k \in Nat \ {0} /\ k + 1 \in 1 .. Len(patch) /\ k \in 1 .. Len(patch)
    OBVIOUS
  <2>2. PICK b : ReadOf(patch, k, b, r[k])
    BY <1>5, <2>1
  <2>3. r[k + 1] = Read(r[k], patch[k + 1])
    BY <1>1, <2>1
  <2>4. patch[k + 1].kind \in {"file", "hunk"} \cup Lines
    BY <1>2, <2>1
  <2>5. (k + 1) - 1 = k
    OBVIOUS
  <2>. HIDE DEF k
  <2>6. CASE patch[k + 1].kind \in {"file", "hunk"}
    <3>1. k \in Nat /\ k > 0
      BY <2>1
    <3>2. ReadOf(patch, k + 1, k + 1, r[k + 1])
      BY <2>1, <2>2, <2>3, <2>6, <3>1, HeaderRead
    <3>. QED
      BY <3>2 DEF k
  <2>7. CASE patch[k + 1].kind \in Lines
    <3>1. patch[k].kind \in Lines \cup {"hunk"}
      BY <1>3, <2>1, <2>5, <2>7
    <3>2. HeadOf(patch, k, b)
      BY <2>2 DEF ReadOf
    <3>3. b = k => patch[k].kind = "hunk"
      BY <3>1, <3>2 DEF HeadOf, Lines, Moving
    <3>4. b < k => patch[b].kind = "hunk"
      <4>. SUFFICES ASSUME b < k PROVE patch[b].kind = "hunk"
        OBVIOUS
      <4>1. b \in 1 .. k /\ b + 1 \in 1 .. Len(patch) /\ b + 1 \in b + 1 .. k /\ (b + 1) - 1 = b
        BY <2>1, <3>2 DEF HeadOf
      <4>2. patch[b + 1].kind \in Lines /\ patch[b].kind \in {"file", "hunk"}
        BY <3>2, <4>1 DEF HeadOf
      <4>3. patch[b].kind \in Lines \cup {"hunk"}
        BY <1>3, <4>1, <4>2
      <4>. QED
        BY <4>2, <4>3 DEF Lines, Moving
    <3>5. ReadOf(patch, k + 1, b, r[k + 1])
      BY <2>1, <2>2, <2>3, <2>7, <3>3, <3>4, BodyRead
    <3>. QED
      BY <3>5 DEF k
  <2>. QED
    BY <2>4, <2>6, <2>7
<1>6. Nat \subseteq N
  <2>. HIDE DEF N
  <2>. QED
    BY <1>4, <1>5, Numbers
<1>7. n - 1 \in Nat /\ (n - 1) + 1 = n
  OBVIOUS
<1>8. n - 1 \in N
  BY <1>6, <1>7
<1>. QED
  BY <1>7, <1>8 DEF r

(* What parse_diff finds is what a reader of the patch would say.             *)
LEMMA ParsedAsRead ==
  ASSUME NEW patch \in Seq(PatchLine), Printed(patch), Plain(patch)
  PROVE  /\ parse_diff(patch).dels = Removed(patch)
         /\ parse_diff(patch).vicinity = Context(patch)
<1>. DEFINE n == Len(patch)
            d == Reading(patch)[n]
<1>1. DOMAIN patch = 1 .. n
  OBVIOUS
<1>2. Removed(patch) = {Place(patch, i) : i \in {j \in 1 .. n : patch[j].kind = "del"}}
  BY <1>1 DEF Removed
<1>3. Context(patch) = {Place(patch, i) : i \in {j \in 1 .. n : Near(patch, j)}}
  <2>1. {j \in 1 .. n : Near(patch, j)} =
          {j \in DOMAIN patch :
             /\ patch[j].kind = "ctx"
             /\ \E m \in {j - 1, j + 1} \cap DOMAIN patch : patch[m].kind = "add"}
    BY <1>1 DEF Near
  <2>. QED
    BY <2>1, Zenon DEF Context
<1>4. d \in State /\ d.dels = Removed(patch) /\ d.vicinity \cup Seen(d) = Context(patch)
  <2>1. CASE n = 0
    <3>1. d = Nothing
      BY <2>1, ReadingIs
    <3>2. d \in State
      BY <3>1, NothingIsState
    <3>3. d.dels = {} /\ d.vicinity = {} /\ Seen(d) = {}
      BY <3>1 DEF Nothing, Seen, Beside
    <3>4. 1 .. n = {}
      BY <2>1
    <3>. QED
      BY <1>2, <1>3, <3>2, <3>3, <3>4
  <2>2. CASE n > 0
    <3>1. n \in 1 .. n
      BY <2>2
    <3>2. PICK b : ReadOf(patch, n, b, d)
      BY <3>1, AllRead
    <3>3. d \in State /\ d.dels = {Place(patch, i) : i \in {j \in 1 .. n : patch[j].kind = "del"}}
      BY <3>2 DEF ReadOf, DelsOf
    <3>4. d.vicinity \cup Seen(d) = {Place(patch, i) : i \in {j \in 1 .. n : Near(patch, j)}}
      BY <3>1, <3>2, FlushOfHunk
    <3>. QED
      BY <1>2, <1>3, <3>3, <3>4
  <2>. QED
    BY <2>1, <2>2
<1>5. parse_diff(patch) = flush_hunk(d)
  BY ParsedByReading
<1>6. flush_hunk(d) = [cur |-> d.cur, oldno |-> d.oldno, events |-> <<>>,
                       dels |-> d.dels, vicinity |-> d.vicinity \cup Seen(d)]
  BY <1>4, FlushIs
<1>. HIDE DEF d
<1>. QED
  BY <1>4, <1>5, <1>6
-------------------------------------------------------------------------------
(* The blame of a set of lines.                                               *)
LEMMA PlacesAreFinite ==
  ASSUME NEW patch \in Seq(PatchLine)
  PROVE  IsFiniteSet(Removed(patch)) /\ IsFiniteSet(Context(patch))
<1>1. IsFiniteSet(DOMAIN patch)
  <2>1. DOMAIN patch = 1 .. Len(patch) /\ 1 \in Int /\ Len(patch) \in Int
    OBVIOUS
  <2>. QED
    BY <2>1, FS_Interval
<1>2. ASSUME NEW S, S \subseteq DOMAIN patch PROVE IsFiniteSet({Place(patch, i) : i \in S})
  <2>. DEFINE T == {Place(patch, i) : i \in S}
              at == [i \in S |-> Place(patch, i)]
  <2>1. IsFiniteSet(S)
    BY <1>1, <1>2, FS_Subset
  <2>2. at \in Surjection(S, T)
    <3>1. at \in [S -> T] /\ \A t \in T : \E i \in S : at[i] = t
      OBVIOUS
    <3>. QED
      BY <3>1 DEF Surjection
  <2>. HIDE DEF at, T
  <2>3. IsFiniteSet(T)
    BY <2>1, <2>2, FS_Surjection
  <2>. QED
    BY <2>3 DEF T
<1>. DEFINE R == {j \in DOMAIN patch : patch[j].kind = "del"}
            C == {j \in DOMAIN patch :
                    /\ patch[j].kind = "ctx"
                    /\ \E n \in {j - 1, j + 1} \cap DOMAIN patch : patch[n].kind = "add"}
<1>3. R \subseteq DOMAIN patch /\ C \subseteq DOMAIN patch
  OBVIOUS
<1>4. Removed(patch) = {Place(patch, i) : i \in R} /\ Context(patch) = {Place(patch, i) : i \in C}
  BY DEF Removed, Context
<1>. HIDE DEF R, C
<1>. QED
  BY <1>2, <1>3, <1>4

LEMMA AttributeIs ==
  ASSUME NEW f \in Fixes, NEW want, IsFiniteSet(want), NEW failed, NEW confidence
  PROVE  attribute(f, want, failed, confidence) = Introduced(f, want, failed, confidence)
<1>. DEFINE known == {w \in want : w[1] \notin failed /\ w \in DOMAIN Origin[f]}
            of(c) == {w \in known : Origin[f][w] = c}
            Edge(c) == [intro |-> c, lines |-> Cardinality(of(c)), confidence |-> confidence]
            Edges == [intro : Introducers, lines : 1 .. Cardinality(known),
                      confidence : {confidence}]
<1>1. known = {w \in want \cap DOMAIN Origin[f] : w[1] \notin failed}
  OBVIOUS
<1>2. attribute(f, want, failed, confidence) = {Edge(c) : c \in {Origin[f][w] : w \in known}}
  BY DEF attribute
<1>3. Introduced(f, want, failed, confidence) =
        {e \in Edges : e.lines = Cardinality(of(e.intro))}
  BY <1>1 DEF Introduced
<1>4. IsFiniteSet(known) /\ Cardinality(known) \in Nat
  BY FS_Subset, FS_CardinalityType
<1>5. \A w \in known : Origin[f][w] \in Introducers
  BY SzzAssumption
<1>. HIDE DEF known
<1>6. ASSUME NEW c
      PROVE  /\ Cardinality(of(c)) \in Nat /\ Cardinality(of(c)) <= Cardinality(known)
             /\ of(c) # {} => Cardinality(of(c)) >= 1
  <2>1. of(c) \subseteq known
    OBVIOUS
  <2>. HIDE DEF of
  <2>2. IsFiniteSet(of(c)) /\ Cardinality(of(c)) <= Cardinality(known)
    BY <1>4, <2>1, FS_Subset
  <2>3. Cardinality(of(c)) \in Nat /\ (Cardinality(of(c)) = 0 <=> of(c) = {})
    BY <2>2, FS_CardinalityType, FS_EmptySet
  <2>. QED
    BY <2>2, <2>3
<1>7. ASSUME NEW w \in known
      PROVE  /\ Edge(Origin[f][w]) \in Edges
             /\ Edge(Origin[f][w]).lines = Cardinality(of(Edge(Origin[f][w]).intro))
  <2>. DEFINE c == Origin[f][w]
  <2>1. of(c) # {} /\ c \in Introducers
    BY <1>5, <1>7
  <2>. HIDE DEF of
  <2>2. Cardinality(of(c)) \in 1 .. Cardinality(known)
    BY <1>4, <1>6, <2>1
  <2>. HIDE DEF c
  <2>3. Edge(c) \in Edges /\ Edge(c).lines = Cardinality(of(Edge(c).intro))
    BY <2>1, <2>2
  <2>. QED
    BY <2>3 DEF c
<1>8. ASSUME NEW e \in Edges, e.lines = Cardinality(of(e.intro))
      PROVE  \E w \in known : e = Edge(Origin[f][w])
  <2>1. e.lines \in 1 .. Cardinality(known)
    BY <1>8
  <2>2. of(e.intro) # {}
    <3>1. Cardinality({}) = 0
      BY FS_EmptySet
    <3>. HIDE DEF of
    <3>. QED
      BY <1>4, <1>8, <2>1, <3>1
  <2>3. PICK w \in known : Origin[f][w] = e.intro
    BY <2>2
  <2>4. e = [intro |-> e.intro, lines |-> e.lines, confidence |-> confidence]
    BY <1>8
  <2>. QED
    BY <1>8, <2>3, <2>4
<1>. HIDE DEF Edge, Edges, of
<1>. QED
  BY <1>2, <1>3, <1>7, <1>8
-------------------------------------------------------------------------------
(* What the workers leave: each result is that of a git diff that failed, or  *)
(* of a patch and the files a blame of which failed; a failure is counted;    *)
(* and no fix has two results.                                                *)
Undone(f, patch, status) == [fix |-> f, patch |-> patch, edges |-> {}, status |-> status]
Silent == {"diff-fail", "addition-only"}
ResultsOf(f, patch) ==
  {process(f, patch, failed) : failed \in SUBSET Files} \cup {Undone(f, patch, status) : status \in Silent}
Results == UNION {UNION {ResultsOf(f, patch) : patch \in Patches[f]} : f \in Fixes}

Accounted(r, calls) ==
  /\ r.fix \in Fixes /\ r.patch \in Patches[r.fix]
  /\ \/ calls > 0 /\ r.status \in Silent /\ r = Undone(r.fix, r.patch, r.status)
     \/ \E failed \in SUBSET Files :
          (failed = {} \/ calls > 0) /\ r = process(r.fix, r.patch, failed)

SzzInv ==
  /\ failures \in Nat /\ left \in SUBSET Fixes /\ results \in Seq(Results)
  /\ \A i \in DOMAIN results : Accounted(results[i], failures)
  /\ \A i, j \in DOMAIN results : results[i].fix = results[j].fix => i = j
  /\ {results[i].fix : i \in DOMAIN results} = Fixes \ left

LEMMA ResultsAppended ==
  ASSUME SzzInv, NEW f \in Fixes, NEW r \in Results, r.fix = f, Ends(f, r), Accounted(r, failures'),
         failures' \in Nat, failures' >= failures
  PROVE  SzzInv'
<1>1. /\ failures \in Nat /\ left \in SUBSET Fixes /\ results \in Seq(Results)
      /\ \A i \in DOMAIN results : Accounted(results[i], failures)
      /\ \A i, j \in DOMAIN results : results[i].fix = results[j].fix => i = j
      /\ {results[i].fix : i \in DOMAIN results} = Fixes \ left
  BY DEF SzzInv
<1>2. f \in left /\ left' = left \ {f} /\ results' = Append(results, r)
  BY DEF Ends
<1>3. /\ results' \in Seq(Results) /\ DOMAIN results' = DOMAIN results \cup {Len(results) + 1}
      /\ Len(results) + 1 \notin DOMAIN results
      /\ \A i \in DOMAIN results : results'[i] = results[i]
      /\ results'[Len(results) + 1] = r
  BY <1>1, <1>2
<1>4. ASSUME NEW i \in DOMAIN results PROVE Accounted(results'[i], failures')
  <2>1. Accounted(results[i], failures) /\ results'[i] = results[i]
    BY <1>1, <1>3
  <2>2. failures > 0 => failures' > 0
    BY <1>1
  <2>. QED
    BY <2>1, <2>2 DEF Accounted
<1>5. \A i \in DOMAIN results' : Accounted(results'[i], failures')
  BY <1>3, <1>4
<1>6. \A i \in DOMAIN results : results[i].fix # f
  BY <1>1, <1>2
<1>7. \A i, j \in DOMAIN results' : results'[i].fix = results'[j].fix => i = j
  BY <1>1, <1>3, <1>6
<1>8. {results'[i].fix : i \in DOMAIN results'} = Fixes \ left'
  <2>1. {results'[i].fix : i \in DOMAIN results'} = {results[i].fix : i \in DOMAIN results} \cup {f}
    BY <1>3
  <2>. QED
    BY <1>1, <1>2, <2>1
<1>. QED
  BY <1>1, <1>2, <1>3, <1>5, <1>7, <1>8 DEF SzzInv

LEMMA SzzInvHolds == SzzSpec => []SzzInv
<1>1. SzzInit => SzzInv
  <2>. SUFFICES ASSUME SzzInit PROVE SzzInv
    OBVIOUS
  <2>1. left = Fixes /\ results = <<>> /\ failures = 0
    BY DEF SzzInit
  <2>2. results \in Seq(Results) /\ DOMAIN results = {}
    BY <2>1
  <2>. QED
    BY <2>1, <2>2 DEF SzzInv
<1>2. SzzInv /\ [SzzNext]_szz => SzzInv'
  <2>. SUFFICES ASSUME SzzInv, [SzzNext]_szz PROVE SzzInv'
    OBVIOUS
  <2>1. failures \in Nat
    BY DEF SzzInv
  <2>2. ASSUME NEW f \in Fixes, NEW patch \in Patches[f], NEW failed \in SUBSET Files,
               Process(f, patch, failed)
        PROVE  SzzInv'
    <3>. DEFINE r == process(f, patch, failed)
    <3>1. r.fix = f /\ r.patch = patch
      BY DEF process
    <3>2. Ends(f, r) /\ (IF failed = {} THEN failures' = failures ELSE GitFails)
      BY <2>2 DEF Process
    <3>. HIDE DEF r
    <3>3. failures' \in Nat /\ failures' >= failures /\ (failed = {} \/ failures' > 0)
      BY <2>1, <3>2 DEF GitFails
    <3>4. r \in Results
      BY DEF r, Results, ResultsOf
    <3>5. Accounted(r, failures')
      BY <3>1, <3>3 DEF Accounted, r
    <3>. QED
      BY <3>1, <3>2, <3>3, <3>4, <3>5, ResultsAppended
  <2>3. ASSUME NEW f \in Fixes, NEW patch \in Patches[f], DiffFails(f, patch)
        PROVE  SzzInv'
    <3>1. PICK status \in Silent : Ends(f, Undone(f, patch, status))
      BY <2>3 DEF DiffFails, Undone, Silent
    <3>. DEFINE r == Undone(f, patch, status)
    <3>2. r.fix = f /\ r.patch = patch /\ r.status = status
      BY DEF Undone
    <3>3. Ends(f, r) /\ GitFails
      BY <2>3, <3>1 DEF DiffFails
    <3>4. r \in Results
      BY DEF Results, ResultsOf
    <3>. HIDE DEF r
    <3>5. failures' \in Nat /\ failures' >= failures /\ failures' > 0
      BY <2>1, <3>3 DEF GitFails
    <3>6. Accounted(r, failures')
      BY <3>2, <3>5 DEF Accounted, r
    <3>. QED
      BY <3>2, <3>3, <3>4, <3>5, <3>6, ResultsAppended
  <2>4. ASSUME NEW flagged, NEW exposed, Report(flagged, exposed) PROVE SzzInv'
    <3>1. UNCHANGED <<left, results>> /\ failures' \in Nat /\ failures' >= failures
      BY <2>1, <2>4 DEF Report, GitFails
    <3>2. \A i \in DOMAIN results : Accounted(results[i], failures')
      <4>1. failures > 0 => failures' > 0
        BY <2>1, <3>1
      <4>. QED
        BY <4>1 DEF SzzInv, Accounted
    <3>. QED
      BY <3>1, <3>2 DEF SzzInv
  <2>5. CASE UNCHANGED szz
    BY <2>5 DEF SzzInv, szz
  <2>. QED
    BY <2>2, <2>3, <2>4, <2>5 DEF SzzNext
<1>. QED
  BY <1>1, <1>2, PTL DEF SzzSpec
-------------------------------------------------------------------------------
LEMMA PatchesArePrinted ==
  ASSUME NEW f \in Fixes, NEW patch \in Patches[f]
  PROVE  patch \in Seq(PatchLine) /\ Printed(patch)
BY SzzAssumption

LEMMA ProcessIs ==
  ASSUME NEW f \in Fixes, NEW patch \in Patches[f], NEW failed, Plain(patch)
  PROVE  LET r == process(f, patch, failed)
             want == IF Removed(patch) # {} THEN Removed(patch) ELSE Context(patch)
             confidence == IF Removed(patch) # {} THEN "high" ELSE "low" IN
         /\ r.fix = f /\ r.patch = patch
         /\ r.edges = Introduced(f, want, failed, confidence)
         /\ r.status = "no-introducer" =>
              Removed(patch) # {} /\ Unblamed(f, failed) \cap FilesOf(want) = {}
<1>. DEFINE d == parse_diff(patch)
            want == IF Removed(patch) # {} THEN Removed(patch) ELSE Context(patch)
            confidence == IF Removed(patch) # {} THEN "high" ELSE "low"
            edges == attribute(f, want, failed, confidence)
            r == process(f, patch, failed)
<1>1. d.dels = Removed(patch) /\ d.vicinity = Context(patch)
  BY PatchesArePrinted, ParsedAsRead
<1>2. IsFiniteSet(want)
  BY PatchesArePrinted, PlacesAreFinite
<1>3. r = [fix |-> f, patch |-> patch, edges |-> edges,
           status |->
             CASE Removed(patch) # {} /\ edges # {} -> "ok"
               [] Removed(patch) # {} /\ edges = {} ->
                    IF Unblamed(f, failed) \cap FilesOf(want) # {} THEN "blame-empty"
                    ELSE "no-introducer"
               [] Removed(patch) = {} /\ edges # {} -> "addition-only-vicinity"
               [] Removed(patch) = {} /\ edges = {} -> "addition-only"]
  BY <1>1 DEF process
<1>. HIDE DEF d, want, confidence
<1>4. edges = Introduced(f, want, failed, confidence)
  BY <1>2, AttributeIs
<1>. HIDE DEF edges
<1>5. r.fix = f /\ r.patch = patch /\ r.edges = edges
  BY <1>3
<1>6. r.status = "no-introducer" =>
        Removed(patch) # {} /\ Unblamed(f, failed) \cap FilesOf(want) = {}
  BY <1>3
<1>. QED
  BY <1>4, <1>5, <1>6 DEF want, confidence

(* The edges of a fix do not depend on blames that were not needed.           *)
LEMMA NothingLost ==
  ASSUME NEW f, NEW want, NEW failed, NEW confidence, Unblamed(f, failed) \cap FilesOf(want) = {}
  PROVE  Introduced(f, want, failed, confidence) = Introduced(f, want, {}, confidence)
<1>1. \A w \in want : w[1] \notin failed
  BY DEF Unblamed, FilesOf
<1>2. {w \in want \cap DOMAIN Origin[f] : w[1] \notin failed} =
        {w \in want \cap DOMAIN Origin[f] : w[1] \notin {}}
  BY <1>1
<1>. QED
  BY <1>2, Zenon DEF Introduced

(* Where no file can be blamed nothing is. *)
LEMMA NothingSeen ==
  ASSUME NEW f \in Fixes, NEW want, NEW confidence
  PROVE  Introduced(f, want, Files, confidence) = {}
<1>1. {w \in want \cap DOMAIN Origin[f] : w[1] \notin Files} = {}
  BY SzzAssumption
<1>2. 1 .. Cardinality({}) = {}
  BY FS_EmptySet
<1>3. {w \in {} : Origin[f][w] = 0} = {}
  OBVIOUS
<1>. QED
  BY <1>1, <1>2 DEF Introduced

LEMMA BlamedOrLost ==
  ASSUME SzzInv, NEW i \in DOMAIN results, Read1(results[i])
  PROVE  /\ results[i].fix \in Fixes /\ results[i].patch \in Patches[results[i].fix]
         /\ \/ \E failed \in Lost : results[i] = process(results[i].fix, results[i].patch, failed)
            \/ Files \in Lost /\ results[i].edges = {} /\ results[i].status # "no-introducer"
<1>. DEFINE r == results[i]
<1>1. Accounted(r, failures) /\ failures \in Nat
  BY DEF SzzInv
<1>2. r.status # "diff-fail"
  BY DEF Read1
<1>. HIDE DEF r
<1>3. ASSUME failures > 0, r.status \in Silent, r = Undone(r.fix, r.patch, r.status)
      PROVE  Files \in Lost /\ r.edges = {} /\ r.status # "no-introducer"
  <2>1. Files \in Lost
    BY <1>1, <1>3 DEF Lost
  <2>2. r.edges = {}
    BY <1>3 DEF Undone
  <2>3. r.status # "no-introducer"
    BY <1>3 DEF Silent
  <2>. QED
    BY <2>1, <2>2, <2>3
<1>4. ASSUME NEW failed \in SUBSET Files,
             failed = {} \/ failures > 0, r = process(r.fix, r.patch, failed)
      PROVE  \E missed \in Lost : r = process(r.fix, r.patch, missed)
  <2>1. failed \in Lost
    BY <1>1, <1>4 DEF Lost
  <2>. QED
    BY <1>4, <2>1
<1>5. r.fix \in Fixes /\ r.patch \in Patches[r.fix]
  BY <1>1 DEF Accounted
<1>6. \/ failures > 0 /\ r.status \in Silent /\ r = Undone(r.fix, r.patch, r.status)
      \/ \E failed \in SUBSET Files :
           (failed = {} \/ failures > 0) /\ r = process(r.fix, r.patch, failed)
  BY <1>1 DEF Accounted
<1>7. \/ \E failed \in Lost : r = process(r.fix, r.patch, failed)
      \/ Files \in Lost /\ r.edges = {} /\ r.status # "no-introducer"
  BY <1>3, <1>4, <1>6
<1>. QED
  BY <1>5, <1>7 DEF r

(* szz.py blames what the fix deletes, for any patch git prints, any history  *)
(* of the lines and any git that fails: the edges of a fix are the commits of *)
(* the deleted lines, each with the number of its lines, and a blame that     *)
(* failed never passes for a line no commit introduced.                       *)
THEOREM EdgesAlwaysOfTheFix == SzzSpec => []EdgesAreOfTheFix
<1>1. SzzInv => EdgesAreOfTheFix
  <2>. SUFFICES ASSUME SzzInv, NEW i \in DOMAIN results, Read1(results[i]),
                       Removed(results[i].patch) # {}
                PROVE  \E missed \in Lost :
                         /\ results[i].edges =
                              Introduced(results[i].fix, Removed(results[i].patch), missed, "high")
                         /\ results[i].status = "no-introducer" => missed = {}
    BY DEF EdgesAreOfTheFix
  <2>. DEFINE r == results[i]
              want == Removed(r.patch)
  <2>2. r.fix \in Fixes /\ r.patch \in Patches[r.fix] /\ Plain(r.patch)
    BY BlamedOrLost DEF Read1
  <2>. SUFFICES ASSUME NEW failed \in Lost, r = process(r.fix, r.patch, failed)
                PROVE  \E missed \in Lost : /\ r.edges = Introduced(r.fix, want, missed, "high")
                                            /\ r.status = "no-introducer" => missed = {}
    <3>1. CASE Files \in Lost /\ r.edges = {} /\ r.status # "no-introducer"
      <4>1. Introduced(r.fix, want, Files, "high") = {}
        BY <2>2, NothingSeen
      <4>. QED
        BY <3>1, <4>1
    <3>2. \/ \E failed \in Lost : r = process(r.fix, r.patch, failed)
          \/ Files \in Lost /\ r.edges = {} /\ r.status # "no-introducer"
      BY BlamedOrLost
    <3>. QED
      BY <3>1, <3>2
  <2>1. r = process(r.fix, r.patch, failed)
    OBVIOUS
  <2>3. /\ r.edges = Introduced(r.fix, want, failed, "high")
        /\ r.status = "no-introducer" => Unblamed(r.fix, failed) \cap FilesOf(want) = {}
    BY <2>1, <2>2, ProcessIs
  <2>4. {} \in Lost
    BY DEF Lost
  <2>. HIDE DEF r, want
  <2>5. CASE r.status = "no-introducer"
    <3>1. r.edges = Introduced(r.fix, want, {}, "high")
      BY <2>3, <2>5, NothingLost
    <3>. QED
      BY <2>4, <3>1 DEF r, want
  <2>6. CASE r.status # "no-introducer"
    BY <2>3, <2>6 DEF r, want
  <2>. QED
    BY <2>5, <2>6
<1>. QED
  BY <1>1, SzzInvHolds, PTL

(* The same for the lines beside an insertion: they are blamed only when the  *)
(* fix deletes no code, and a line is beside an insertion of its own hunk,    *)
(* however many hunks and files the patch has.                                *)
THEOREM VicinityAlwaysBeside == SzzSpec => []VicinityIsBeside
<1>1. SzzInv => VicinityIsBeside
  <2>. SUFFICES ASSUME SzzInv, NEW i \in DOMAIN results, Read1(results[i]),
                       Removed(results[i].patch) = {}
                PROVE  \E missed \in Lost :
                         results[i].edges =
                           Introduced(results[i].fix, Context(results[i].patch), missed, "low")
    BY DEF VicinityIsBeside
  <2>. DEFINE r == results[i]
  <2>1. r.fix \in Fixes /\ r.patch \in Patches[r.fix] /\ Plain(r.patch)
    BY BlamedOrLost DEF Read1
  <2>2. ASSUME NEW failed \in Lost, r = process(r.fix, r.patch, failed)
        PROVE  r.edges = Introduced(r.fix, Context(r.patch), failed, "low")
    BY <2>1, <2>2, ProcessIs
  <2>3. Introduced(r.fix, Context(r.patch), Files, "low") = {}
    BY <2>1, NothingSeen
  <2>. QED
    BY <2>2, <2>3, BlamedOrLost
<1>. QED
  BY <1>1, SzzInvHolds, PTL
-------------------------------------------------------------------------------
(* Folds over finite sets: a function from the subsets of S, each from the    *)
(* one without an element of it.                                              *)
Chosen(T) == CHOOSE x \in T : TRUE

Folded(S, V, base, step, iter) ==
  /\ iter \in [SUBSET S -> V] /\ iter[{}] = base
  /\ \A T \in SUBSET S : T # {} => iter[T] = step[Chosen(T)][iter[T \ {Chosen(T)}]]

LEMMA SetRecursion ==
  ASSUME NEW S, IsFiniteSet(S), NEW V, NEW base, base \in V, NEW step, step \in [S -> [V -> V]]
  PROVE  \E iter : Folded(S, V, base, step, iter)
<1>. DEFINE F(T, iter) == IF T = {} THEN base ELSE step[Chosen(T)][iter[T \ {Chosen(T)}]]
            D(n) == {T \in SUBSET S : Cardinality(T) <= n}
            Agrees(n, iter) == iter \in [D(n) -> V] /\ \A T \in D(n) : iter[T] = F(T, iter)
            N == {n \in Nat : \E iter : Agrees(n, iter)}
<1>1. \A T \in SUBSET S : Cardinality(T) \in Nat /\ IsFiniteSet(T) /\ Cardinality(T) <= Cardinality(S)
  BY FS_Subset, FS_CardinalityType
<1>2. Cardinality({}) = 0 /\ \A T \in SUBSET S : Cardinality(T) = 0 => T = {}
  BY <1>1, FS_EmptySet
<1>3. \A T : T # {} => Chosen(T) \in T
  BY DEF Chosen
<1>4. ASSUME NEW n \in Nat, NEW T \in D(n + 1), T # {} PROVE T \ {Chosen(T)} \in D(n)
  <2>1. Chosen(T) \in T /\ T \in SUBSET S
    BY <1>3, <1>4
  <2>2. Cardinality(T \ {Chosen(T)}) = Cardinality(T) - 1
    BY <1>1, <2>1, FS_RemoveElement
  <2>. QED
    BY <1>1, <2>1, <2>2
<1>5. 0 \in N
  <2>. DEFINE R == [T \in D(0) |-> base]
  <2>1. \A T \in D(0) : T = {}
    BY <1>1, <1>2
  <2>2. \A T \in D(0) : R[T] = F(T, R)
    BY <2>1
  <2>3. Agrees(0, R)
    BY <2>2
  <2>. QED
    BY <2>3
<1>6. ASSUME NEW n \in Nat, n \in N PROVE n + 1 \in N
  <2>1. PICK R : Agrees(n, R)
    BY <1>6
  <2>. DEFINE Q == [T \in D(n + 1) |-> F(T, R)]
  <2>2. ASSUME NEW T \in D(n + 1) PROVE F(T, R) \in V
    <3>1. CASE T = {}
      BY <3>1
    <3>2. CASE T # {}
      <4>1. R[T \ {Chosen(T)}] \in V
        BY <1>4, <2>1, <3>2
      <4>2. Chosen(T) \in S
        BY <1>3, <3>2
      <4>. QED
        BY <3>2, <4>1, <4>2
    <3>. QED
      BY <3>1, <3>2
  <2>3. ASSUME NEW T \in D(n) PROVE Q[T] = R[T]
    <3>1. T \in D(n + 1)
      BY <1>1
    <3>2. Q[T] = F(T, R)
      BY <3>1
    <3>3. R[T] = F(T, R)
      BY <2>1
    <3>. QED
      BY <3>2, <3>3
  <2>4. Q \in [D(n + 1) -> V]
    BY <2>2
  <2>. HIDE DEF Q, D
  <2>5. ASSUME NEW T \in D(n + 1) PROVE F(T, R) = F(T, Q)
    BY <1>4, <2>3
  <2>6. \A T \in D(n + 1) : Q[T] = F(T, Q)
    BY <2>5 DEF Q
  <2>. HIDE DEF F
  <2>. QED
    BY <2>4, <2>6
<1>7. Nat \subseteq N
  <2>. HIDE DEF N
  <2>. QED
    BY <1>5, <1>6, Numbers
<1>8. Cardinality(S) \in Nat /\ D(Cardinality(S)) = SUBSET S
  BY <1>1
<1>9. PICK iter : Agrees(Cardinality(S), iter)
  BY <1>7, <1>8
<1>10. iter \in [SUBSET S -> V] /\ \A T \in SUBSET S : iter[T] = F(T, iter)
  BY <1>8, <1>9
<1>11. iter[{}] = base
  BY <1>10
<1>12. \A T \in SUBSET S : T # {} => iter[T] = step[Chosen(T)][iter[T \ {Chosen(T)}]]
  BY <1>10
<1>. QED
  BY <1>10, <1>11, <1>12 DEF Folded

(* SumFunction, term by term.                                                 *)
Sums(f) ==
  CHOOSE iter : iter = [s \in SUBSET DOMAIN f |->
                          IF s = {} THEN 0
                          ELSE f[CHOOSE x \in s : TRUE] + iter[s \ {CHOOSE x \in s : TRUE}]]

LEMMA SumBySums == \A f : SumFunction(f) = Sums(f)[DOMAIN f]
BY Zenon DEF SumFunction, SumFunctionOnSet, FoldFunctionOnSet, MapThenFoldSet, Sums

LEMMA SumsAre ==
  ASSUME NEW D, IsFiniteSet(D), NEW f \in [D -> Nat]
  PROVE  /\ Sums(f)[{}] = 0
         /\ \A s \in SUBSET D : /\ Sums(f)[s] \in Nat
                                /\ \A x \in s : Sums(f)[s] = f[x] + Sums(f)[s \ {x}]
<1>. DEFINE step == [x \in D |-> [v \in Nat |-> f[x] + v]]
            F(T, iter) == IF T = {} THEN 0 ELSE f[Chosen(T)] + iter[T \ {Chosen(T)}]
            g == Sums(f)
<1>1. step \in [D -> [Nat -> Nat]]
  OBVIOUS
<1>2. \A T \in SUBSET D : T # {} => Chosen(T) \in D /\ Chosen(T) \in T
  BY DEF Chosen
<1>3. \E iter : iter = [s \in SUBSET D |-> F(s, iter)]
  <2>. HIDE DEF step
  <2>0. 0 \in Nat
    OBVIOUS
  <2>1. PICK iter : Folded(D, Nat, 0, step, iter)
    BY <1>1, <2>0, SetRecursion
  <2>2. \A T \in SUBSET D : iter[T] = F(T, iter)
    <3>1. iter \in [SUBSET D -> Nat] /\ iter[{}] = 0
      BY <2>1 DEF Folded
    <3>2. ASSUME NEW T \in SUBSET D, T # {} PROVE iter[T] = F(T, iter)
      <4>1. Chosen(T) \in D /\ iter[T \ {Chosen(T)}] \in Nat
        BY <1>2, <3>1, <3>2
      <4>2. iter[T] = step[Chosen(T)][iter[T \ {Chosen(T)}]]
        BY <2>1, <3>2 DEF Folded
      <4>. QED
        BY <3>2, <4>1, <4>2 DEF step
    <3>. QED
      BY <3>1, <3>2
  <2>3. iter = [s \in SUBSET D |-> iter[s]]
    BY <2>1 DEF Folded
  <2>4. iter = [s \in SUBSET D |-> F(s, iter)]
    BY <2>2, <2>3
  <2>. QED
    BY <2>4
<1>4. DOMAIN f = D
  OBVIOUS
<1>5. g = [s \in SUBSET D |-> F(s, g)]
  <2>1. g = CHOOSE iter : iter = [s \in SUBSET DOMAIN f |-> F(s, iter)]
    BY Zenon DEF Sums, Chosen
  <2>. HIDE DEF F, g
  <2>. QED
    BY <1>3, <1>4, <2>1
<1>. HIDE DEF g
<1>6. \A s \in SUBSET D : g[s] = F(s, g)
  BY <1>5
<1>7. g[{}] = 0
  BY <1>6
<1>8. ASSUME NEW s \in SUBSET D PROVE g[s] \in Nat
  <2>. DEFINE G == {T \in SUBSET D : g[T] \in Nat}
  <2>1. ASSUME NEW T \in SUBSET D, \A x \in T : T \ {x} \in G PROVE T \in G
    <3>1. CASE T = {}
      BY <1>7, <3>1
    <3>2. CASE T # {}
      <4>1. Chosen(T) \in T /\ f[Chosen(T)] \in Nat
        BY <1>2, <3>2
      <4>2. g[T \ {Chosen(T)}] \in Nat
        BY <2>1, <4>1
      <4>3. g[T] = f[Chosen(T)] + g[T \ {Chosen(T)}]
        BY <1>6, <3>2
      <4>. QED
        BY <4>1, <4>2, <4>3
    <3>. QED
      BY <3>1, <3>2
  <2>2. IsFiniteSet(s) /\ \A T \in SUBSET s : T \in SUBSET D
    BY FS_Subset
  <2>. HIDE DEF G
  <2>3. s \in G
    BY <2>1, <2>2, BySmallerSets
  <2>. QED
    BY <2>3 DEF G
<1>. DEFINE G == {s \in SUBSET D : \A x \in s : g[s] = f[x] + g[s \ {x}]}
<1>9. ASSUME NEW T \in SUBSET D, \A x \in T : T \ {x} \in G PROVE T \in G
  <2>. SUFFICES ASSUME NEW x \in T PROVE g[T] = f[x] + g[T \ {x}]
    OBVIOUS
  <2>. DEFINE c == Chosen(T)
              rest == g[(T \ {x}) \ {c}]
  <2>1. c \in T /\ c \in D /\ g[T] = f[c] + g[T \ {c}]
    BY <1>2, <1>6
  <2>. HIDE DEF c
  <2>2. CASE x # c
    <3>1. x \in T \ {c} /\ c \in T \ {x} /\ (T \ {c}) \ {x} = (T \ {x}) \ {c}
      BY <2>1, <2>2
    <3>2. g[T \ {c}] = f[x] + rest
      BY <1>9, <2>1, <3>1
    <3>3. g[T \ {x}] = f[c] + rest
      BY <1>9, <3>1
    <3>4. rest \in Nat /\ f[x] \in Nat /\ f[c] \in Nat
      BY <1>8, <2>1
    <3>. HIDE DEF rest
    <3>. QED
      BY <2>1, <3>2, <3>3, <3>4
  <2>. QED
    BY <2>1, <2>2
<1>10. ASSUME NEW s \in SUBSET D PROVE s \in G
  <2>1. IsFiniteSet(s) /\ \A T \in SUBSET s : T \in SUBSET D
    BY FS_Subset
  <2>. HIDE DEF G
  <2>. QED
    BY <1>9, <2>1, BySmallerSets
<1>. QED
  BY <1>7, <1>8, <1>10 DEF g

LEMMA ByOneMore ==
  ASSUME NEW S, IsFiniteSet(S), NEW G, {} \in G,
         \A T \in SUBSET S : \A x \in S \ T : T \in G => T \cup {x} \in G
  PROVE  S \in G
<1>1. ASSUME NEW T \in SUBSET S, \A x \in T : T \ {x} \in G PROVE T \in G
  <2>1. ASSUME NEW x \in T PROVE T \in G
    <3>1. T \ {x} \in SUBSET S /\ x \in S \ (T \ {x}) /\ (T \ {x}) \cup {x} = T
      OBVIOUS
    <3>. QED
      BY <1>1, <3>1
  <2>. QED
    BY <2>1
<1>. QED
  BY <1>1, BySmallerSets

LEMMA SumIs ==
  ASSUME NEW D, IsFiniteSet(D), NEW f \in [D -> Nat]
  PROVE  SumFunction(f) = Sums(f)[D] /\ SumFunction(f) \in Nat
<1>1. SumFunction(f) = Sums(f)[D]
  BY SumBySums
<1>. QED
  BY <1>1, SumsAre

LEMMA SumNone == ASSUME NEW f \in [{} -> Nat] PROVE SumFunction(f) = 0
<1>1. IsFiniteSet({})
  BY FS_EmptySet
<1>. QED
  BY <1>1, SumIs, SumsAre

Extends(g, f, D, y) ==
  /\ IsFiniteSet(D) /\ y \notin D /\ f \in [D -> Nat] /\ g \in [D \cup {y} -> Nat]
  /\ \A x \in D : g[x] = f[x]

LEMMA SumAdd ==
  ASSUME NEW D, NEW y, NEW f, NEW g, Extends(g, f, D, y)
  PROVE  SumFunction(g) = SumFunction(f) + g[y]
<1>. DEFINE E == D \cup {y}
<1>0. /\ IsFiniteSet(D) /\ y \notin D /\ f \in [D -> Nat] /\ g \in [D \cup {y} -> Nat]
      /\ \A x \in D : g[x] = f[x]
  BY DEF Extends
<1>1. IsFiniteSet(E)
  BY <1>0, FS_AddElement
<1>2. /\ Sums(f)[{}] = 0
      /\ \A s \in SUBSET D : /\ Sums(f)[s] \in Nat
                             /\ \A x \in s : Sums(f)[s] = f[x] + Sums(f)[s \ {x}]
  BY <1>0, SumsAre
<1>3. /\ Sums(g)[{}] = 0
      /\ \A s \in SUBSET E : /\ Sums(g)[s] \in Nat
                             /\ \A x \in s : Sums(g)[s] = g[x] + Sums(g)[s \ {x}]
  <2>. HIDE DEF E
  <2>1. g \in [E -> Nat]
    BY <1>0 DEF E
  <2>. QED
    BY <1>1, <2>1, SumsAre
<1>. DEFINE sf == Sums(f)
            sg == Sums(g)
            G == {T \in SUBSET D : sg[T] = sf[T]}
<1>. HIDE DEF sf, sg
<1>4. {} \in G
  BY <1>2, <1>3 DEF sf, sg
<1>5. ASSUME NEW T \in SUBSET D, NEW x \in D \ T, T \in G PROVE T \cup {x} \in G
  <2>1. T \cup {x} \in SUBSET D /\ T \cup {x} \in SUBSET E /\ x \in T \cup {x}
        /\ (T \cup {x}) \ {x} = T
    OBVIOUS
  <2>2. sf[T \cup {x}] = f[x] + sf[T]
    BY <1>2, <2>1 DEF sf
  <2>3. sg[T \cup {x}] = g[x] + sg[T]
    BY <1>3, <2>1 DEF sg
  <2>. QED
    BY <1>0, <1>5, <2>1, <2>2, <2>3
<1>6. D \in G
  <2>. HIDE DEF G
  <2>. QED
    BY <1>0, <1>4, <1>5, ByOneMore
<1>7. sg[E] = g[y] + sg[D]
  <2>1. E \in SUBSET E /\ y \in E /\ E \ {y} = D
    BY <1>0
  <2>. QED
    BY <1>3, <2>1 DEF sg
<1>8. SumFunction(f) = sf[D] /\ sf[D] \in Nat
  BY <1>0, SumIs DEF sf
<1>9. SumFunction(g) = sg[E]
  BY <1>0, <1>1, SumIs DEF sg
<1>10. g[y] \in Nat
  BY <1>0
<1>. QED
  BY <1>6, <1>7, <1>8, <1>9, <1>10

(* A sum of numbers of elements, of two sums, of marks.                       *)
LEMMA SumOfParts ==
  ASSUME NEW A, IsFiniteSet(A), NEW P, IsFiniteSet(P), NEW h \in [P -> A]
  PROVE  SumFunction([a \in A |-> Cardinality({x \in P : h[x] = a})]) = Cardinality(P)
<1>. DEFINE Part(a) == {x \in P : h[x] = a}
            Parts(B) == {x \in P : h[x] \in B}
            f(B) == [a \in B |-> Cardinality(Part(a))]
            G == {B \in SUBSET A : SumFunction(f(B)) = Cardinality(Parts(B))}
<1>1. \A a : IsFiniteSet(Part(a)) /\ Cardinality(Part(a)) \in Nat
  BY FS_Subset, FS_CardinalityType
<1>2. \A B : IsFiniteSet(Parts(B)) /\ Cardinality(Parts(B)) \in Nat
  BY FS_Subset, FS_CardinalityType
<1>3. {} \in G
  <2>1. f({}) \in [{} -> Nat] /\ Parts({}) = {}
    OBVIOUS
  <2>2. SumFunction(f({})) = 0
    BY <2>1, SumNone
  <2>3. Cardinality(Parts({})) = 0
    BY <2>1, FS_EmptySet
  <2>. QED
    BY <2>2, <2>3
<1>4. ASSUME NEW B \in SUBSET A, NEW a \in A \ B, B \in G PROVE B \cup {a} \in G
  <2>1. IsFiniteSet(B)
    BY FS_Subset
  <2>2. f(B) \in [B -> Nat] /\ f(B \cup {a}) \in [B \cup {a} -> Nat]
        /\ (\A x \in B : f(B \cup {a})[x] = f(B)[x]) /\ f(B \cup {a})[a] = Cardinality(Part(a))
    BY <1>1
  <2>3. Parts(B \cup {a}) = Parts(B) \cup Part(a) /\ Parts(B) \cap Part(a) = {}
    OBVIOUS
  <2>. HIDE DEF f, Parts, Part
  <2>4. SumFunction(f(B \cup {a})) = SumFunction(f(B)) + Cardinality(Part(a))
    <3>1. Extends(f(B \cup {a}), f(B), B, a)
      BY <2>1, <2>2 DEF Extends
    <3>. QED
      BY <2>2, <3>1, SumAdd
  <2>5. Cardinality(Parts(B) \cup Part(a)) = Cardinality(Parts(B)) + Cardinality(Part(a))
    <3>1. Cardinality({}) = 0
      BY FS_EmptySet
    <3>2. Cardinality(Parts(B) \cup Part(a)) =
            Cardinality(Parts(B)) + Cardinality(Part(a)) - Cardinality(Parts(B) \cap Part(a))
      BY <1>1, <1>2, FS_Union
    <3>. QED
      BY <1>1, <1>2, <2>3, <3>1, <3>2
  <2>. QED
    BY <1>4, <2>3, <2>4, <2>5
<1>5. A \in G
  <2>. HIDE DEF G
  <2>. QED
    BY <1>3, <1>4, ByOneMore
<1>6. Parts(A) = P
  OBVIOUS
<1>. QED
  BY <1>5, <1>6

LEMMA SumOfSums ==
  ASSUME NEW D, IsFiniteSet(D), NEW f \in [D -> Nat], NEW g \in [D -> Nat]
  PROVE  SumFunction([x \in D |-> f[x] + g[x]]) = SumFunction(f) + SumFunction(g)
<1>. DEFINE F(B) == [x \in B |-> f[x]]
            Fg(B) == [x \in B |-> g[x]]
            H(B) == [x \in B |-> f[x] + g[x]]
            G == {B \in SUBSET D : SumFunction(H(B)) = SumFunction(F(B)) + SumFunction(Fg(B))}
<1>1. {} \in G
  <2>1. F({}) \in [{} -> Nat] /\ Fg({}) \in [{} -> Nat] /\ H({}) \in [{} -> Nat]
    OBVIOUS
  <2>. HIDE DEF F, Fg, H
  <2>2. SumFunction(F({})) = 0 /\ SumFunction(Fg({})) = 0 /\ SumFunction(H({})) = 0
    BY <2>1, SumNone
  <2>. QED
    BY <2>2
<1>2. ASSUME NEW B \in SUBSET D, NEW y \in D \ B, B \in G PROVE B \cup {y} \in G
  <2>. DEFINE C == B \cup {y}
  <2>1. IsFiniteSet(B) /\ y \notin B
    BY FS_Subset
  <2>2. F(B) \in [B -> Nat] /\ F(C) \in [C -> Nat] /\ (\A x \in B : F(C)[x] = F(B)[x])
        /\ F(C)[y] = f[y]
    OBVIOUS
  <2>3. Fg(B) \in [B -> Nat] /\ Fg(C) \in [C -> Nat] /\ (\A x \in B : Fg(C)[x] = Fg(B)[x])
        /\ Fg(C)[y] = g[y]
    OBVIOUS
  <2>4. H(B) \in [B -> Nat] /\ H(C) \in [C -> Nat] /\ (\A x \in B : H(C)[x] = H(B)[x])
        /\ H(C)[y] = f[y] + g[y]
    OBVIOUS
  <2>. HIDE DEF F, Fg, H
  <2>5. SumFunction(F(C)) = SumFunction(F(B)) + f[y]
    <3>1. Extends(F(C), F(B), B, y)
      BY <2>1, <2>2 DEF Extends
    <3>. QED
      BY <2>2, <3>1, SumAdd
  <2>6. SumFunction(Fg(C)) = SumFunction(Fg(B)) + g[y]
    <3>1. Extends(Fg(C), Fg(B), B, y)
      BY <2>1, <2>3 DEF Extends
    <3>. QED
      BY <2>3, <3>1, SumAdd
  <2>7. SumFunction(H(C)) = SumFunction(H(B)) + (f[y] + g[y])
    <3>1. Extends(H(C), H(B), B, y)
      BY <2>1, <2>4 DEF Extends
    <3>. QED
      BY <2>4, <3>1, SumAdd
  <2>8. SumFunction(H(B)) = SumFunction(F(B)) + SumFunction(Fg(B))
    BY <1>2
  <2>9. f[y] \in Nat /\ g[y] \in Nat
    OBVIOUS
  <2>11. SumFunction(F(B)) \in Nat /\ SumFunction(Fg(B)) \in Nat
    BY <2>1, <2>2, <2>3, SumIs
  <2>10. SumFunction(H(C)) = SumFunction(F(C)) + SumFunction(Fg(C))
    BY <2>5, <2>6, <2>7, <2>8, <2>9, <2>11
  <2>. QED
    BY <2>10
<1>3. D \in G
  <2>. HIDE DEF G
  <2>. QED
    BY <1>1, <1>2, ByOneMore
<1>4. F(D) = f /\ Fg(D) = g
  OBVIOUS
<1>. QED
  BY <1>3, <1>4

LEMMA SumOfMarks ==
  ASSUME NEW D, IsFiniteSet(D), NEW M
  PROVE  SumFunction([x \in D |-> IF x \in M THEN 1 ELSE 0]) = Cardinality({x \in D : x \in M})
<1>. DEFINE f(B) == [x \in B |-> IF x \in M THEN 1 ELSE 0]
            Marked(B) == {x \in B : x \in M}
            G == {B \in SUBSET D : SumFunction(f(B)) = Cardinality(Marked(B))}
<1>1. {} \in G
  <2>1. f({}) \in [{} -> Nat] /\ Marked({}) = {}
    OBVIOUS
  <2>. HIDE DEF f
  <2>2. SumFunction(f({})) = 0 /\ Cardinality(Marked({})) = 0
    BY <2>1, SumNone, FS_EmptySet
  <2>. QED
    BY <2>2
<1>2. ASSUME NEW B \in SUBSET D, NEW y \in D \ B, B \in G PROVE B \cup {y} \in G
  <2>. DEFINE C == B \cup {y}
  <2>1. IsFiniteSet(B) /\ y \notin B /\ C \in SUBSET D
    BY FS_Subset
  <2>2. f(B) \in [B -> Nat] /\ f(C) \in [C -> Nat] /\ (\A x \in B : f(C)[x] = f(B)[x])
        /\ f(C)[y] = IF y \in M THEN 1 ELSE 0
    OBVIOUS
  <2>3. Marked(C) = (IF y \in M THEN Marked(B) \cup {y} ELSE Marked(B)) /\ y \notin Marked(B)
    OBVIOUS
  <2>4. IsFiniteSet(Marked(B))
    BY <2>1, FS_Subset
  <2>. HIDE DEF f, Marked
  <2>5. Cardinality(Marked(B)) \in Nat
        /\ Cardinality(Marked(B) \cup {y}) = Cardinality(Marked(B)) + 1
    BY <2>3, <2>4, FS_AddElement, FS_CardinalityType
  <2>6. SumFunction(f(C)) = SumFunction(f(B)) + f(C)[y]
    <3>1. Extends(f(C), f(B), B, y)
      BY <2>1, <2>2 DEF Extends
    <3>. QED
      BY <3>1, SumAdd
  <2>7. SumFunction(f(B)) = Cardinality(Marked(B))
    BY <1>2
  <2>8. SumFunction(f(C)) = Cardinality(Marked(C))
    BY <2>2, <2>3, <2>5, <2>6, <2>7
  <2>. QED
    BY <2>1, <2>8
<1>3. D \in G
  <2>. HIDE DEF G
  <2>. QED
    BY <1>1, <1>2, ByOneMore
<1>. QED
  BY <1>3
-------------------------------------------------------------------------------
(* Whatever the patch, parse_diff finds finitely many lines.                  *)
Few(d) == d \in State /\ IsFiniteSet(d.dels) /\ IsFiniteSet(d.vicinity)

LEMMA SeenIsFinite == ASSUME NEW d \in State PROVE IsFiniteSet(Seen(d))
<1>. DEFINE events == d.events
            B == Beside(events)
            at == [i \in B |-> <<d.cur, events[i].at>>]
<1>1. events \in Seq([kind : {"del", "add", "ctx"}, at : Nat])
  BY DEF State
<1>2. IsFiniteSet(DOMAIN events)
  <2>. HIDE DEF events
  <2>1. DOMAIN events = 1 .. Len(events) /\ 1 \in Int /\ Len(events) \in Int
    BY <1>1
  <2>. QED
    BY <2>1, FS_Interval
<1>3. IsFiniteSet(B)
  <2>1. B \subseteq DOMAIN events
    BY DEF Beside
  <2>. QED
    BY <1>2, <2>1, FS_Subset
<1>4. Seen(d) = {<<d.cur, events[i].at>> : i \in B}
  BY DEF Seen
<1>. HIDE DEF events, B
<1>5. at \in Surjection(B, Seen(d))
  <2>1. at \in [B -> Seen(d)] /\ \A t \in Seen(d) : \E i \in B : at[i] = t
    BY <1>4
  <2>. QED
    BY <2>1 DEF Surjection
<1>. QED
  BY <1>3, <1>5, FS_Surjection

LEMMA FewFlushed ==
  ASSUME NEW d, Few(d)
  PROVE  Few(flush_hunk(d))
<1>1. d \in State
  BY DEF Few
<1>2. flush_hunk(d) = [cur |-> d.cur, oldno |-> d.oldno, events |-> <<>>,
                       dels |-> d.dels, vicinity |-> d.vicinity \cup Seen(d)]
      /\ flush_hunk(d) \in State
  BY <1>1, FlushIs
<1>3. IsFiniteSet(d.vicinity \cup Seen(d)) /\ IsFiniteSet(d.dels)
  BY <1>1, SeenIsFinite, FS_Union DEF Few
<1>. QED
  BY <1>2, <1>3 DEF Few

LEMMA FewRead ==
  ASSUME NEW d, Few(d), NEW line \in PatchLine
  PROVE  Few(Read(d, line))
<1>. DEFINE e == flush_hunk(d)
<1>1. d \in State /\ IsFiniteSet(d.dels) /\ IsFiniteSet(d.vicinity)
  BY DEF Few
<1>2. Few(e)
  BY FewFlushed
<1>3. /\ line.kind \in {"file", "hunk", "gone"} \cup Body
      /\ line.kind = "file" => line.name \in Files
      /\ line.kind = "hunk" => line.at \in Nat
  BY LineKinds
<1>4. CASE line.kind = "file"
  <2>1. Read(d, line) = [e EXCEPT !.cur = line.name]
    BY <1>4 DEF Read
  <2>. HIDE DEF e
  <2>. QED
    BY <1>2, <1>3, <1>4, <2>1 DEF Few, State
<1>5. CASE line.kind = "gone"
  <2>1. Read(d, line) = [e EXCEPT !.cur = Null]
    BY <1>5 DEF Read
  <2>. HIDE DEF e
  <2>. QED
    BY <1>2, <1>3, <2>1 DEF Few, State
<1>6. CASE line.kind = "hunk"
  <2>1. Read(d, line) = [e EXCEPT !.oldno = line.at]
    BY <1>6 DEF Read
  <2>. HIDE DEF e
  <2>. QED
    BY <1>2, <1>3, <1>6, <2>1 DEF Few, State
<1>7. CASE line.kind \in Body /\ (d.cur = Null \/ line.kind = "dashes")
  <2>1. Read(d, line) = d
    BY <1>7 DEF Read, Body
  <2>. QED
    BY <2>1
<1>8. CASE line.kind \in {"del", "note", "ctx", "add"} /\ d.cur # Null
  <2>. DEFINE old == d.oldno
              event == [kind |-> EventKind(line.kind), at |-> old]
              events == Append(d.events, event)
              number == IF line.kind = "add" THEN old ELSE old + 1
              dels == IF line.kind = "del" THEN d.dels \cup {<<d.cur, old>>} ELSE d.dels
  <2>1. Read(d, line) = [cur |-> d.cur, oldno |-> number, events |-> events, dels |-> dels,
                         vicinity |-> d.vicinity]
    BY <1>1, <1>8, ReadBody
  <2>2. old \in Nat /\ d.events \in Seq([kind : {"del", "add", "ctx"}, at : Nat])
        /\ d.cur \in Files \cup {Null}
        /\ d.dels \in SUBSET ((Files \cup {Null}) \X Nat)
        /\ d.vicinity \in SUBSET ((Files \cup {Null}) \X Nat)
    BY <1>1 DEF State
  <2>3. event \in [kind : {"del", "add", "ctx"}, at : Nat]
    BY <1>8, <2>2 DEF EventKind
  <2>4. number \in Nat /\ dels \in SUBSET ((Files \cup {Null}) \X Nat)
    BY <2>2
  <2>5. IsFiniteSet(dels)
    BY <1>1, FS_AddElement
  <2>. HIDE DEF event, number, dels
  <2>6. events \in Seq([kind : {"del", "add", "ctx"}, at : Nat])
    BY <2>2, <2>3
  <2>. HIDE DEF events
  <2>. QED
    BY <1>1, <2>1, <2>2, <2>4, <2>5, <2>6 DEF Few, State
<1>. QED
  BY <1>3, <1>4, <1>5, <1>6, <1>7, <1>8 DEF Body

LEMMA ParsedIsFew == ASSUME NEW patch \in Seq(PatchLine) PROVE Few(parse_diff(patch))
<1>. DEFINE r == Reading(patch)
            N == {m \in Nat : m \in 0 .. Len(patch) => Few(r[m])}
<1>1. r[0] = Nothing /\ \A m \in Nat : m + 1 \in 1 .. Len(patch) => r[m + 1] = Read(r[m], patch[m + 1])
  <2>1. \A m \in Nat : (m + 1) - 1 = m
    OBVIOUS
  <2>. QED
    BY <2>1, ReadingIs
<1>. HIDE DEF r
<1>2. 0 \in N
  <2>1. Nothing.dels = {} /\ Nothing.vicinity = {}
    BY DEF Nothing
  <2>2. Few(Nothing)
    BY <2>1, NothingIsState, FS_EmptySet DEF Few
  <2>. QED
    BY <1>1, <2>2
<1>3. ASSUME NEW m \in Nat, m \in N PROVE m + 1 \in N
  <2>. SUFFICES ASSUME m + 1 \in 0 .. Len(patch) PROVE Few(r[m + 1])
    OBVIOUS
  <2>1. m + 1 \in 1 .. Len(patch) /\ m \in 0 .. Len(patch) /\ patch[m + 1] \in PatchLine
    OBVIOUS
  <2>2. Few(r[m])
    BY <1>3, <2>1
  <2>3. Few(Read(r[m], patch[m + 1]))
    BY <2>1, <2>2, FewRead
  <2>. QED
    BY <1>1, <2>1, <2>3
<1>4. Nat \subseteq N
  <2>. HIDE DEF N
  <2>. QED
    BY <1>2, <1>3, Numbers
<1>5. Len(patch) \in Nat /\ Len(patch) \in 0 .. Len(patch)
  OBVIOUS
<1>6. Few(r[Len(patch)])
  BY <1>4, <1>5
<1>7. Few(flush_hunk(r[Len(patch)]))
  BY <1>6, FewFlushed
<1>. QED
  BY <1>7, ParsedByReading DEF r

(* The edges of a result are finitely many, its status is one of them.        *)
Edges == [intro : Introducers, lines : Nat, confidence : {"high", "low"}]

LEMMA IntroducedIsFinite ==
  ASSUME NEW f \in Fixes, NEW want, IsFiniteSet(want), NEW failed, NEW confidence \in {"high", "low"}
  PROVE  LET edges == attribute(f, want, failed, confidence) IN
         IsFiniteSet(edges) /\ edges \subseteq Edges
<1>. DEFINE edges == attribute(f, want, failed, confidence)
            known == {w \in want : w[1] \notin failed /\ w \in DOMAIN Origin[f]}
            of(c) == {w \in known : Origin[f][w] = c}
            Edge(c) == [intro |-> c, lines |-> Cardinality(of(c)), confidence |-> confidence]
            by == [w \in known |-> Edge(Origin[f][w])]
<1>1. edges = {Edge(c) : c \in {Origin[f][w] : w \in known}}
  BY DEF attribute
<1>2. IsFiniteSet(known)
  BY FS_Subset
<1>. HIDE DEF edges, known, Edge
<1>3. by \in Surjection(known, edges)
  <2>1. by \in [known -> edges] /\ \A t \in edges : \E w \in known : by[w] = t
    BY <1>1
  <2>. QED
    BY <2>1 DEF Surjection
<1>4. IsFiniteSet(edges)
  BY <1>2, <1>3, FS_Surjection
<1>5. edges = Introduced(f, want, failed, confidence)
  BY AttributeIs DEF edges
<1>6. edges \subseteq Edges
  BY <1>5 DEF Introduced, Edges
<1>. QED
  BY <1>4, <1>6 DEF edges

LEMMA ResultTyped ==
  ASSUME SzzInv, NEW i \in DOMAIN results
  PROVE  /\ results[i].fix \in Fixes /\ results[i].status \in Outcomes
         /\ IsFiniteSet(results[i].edges) /\ results[i].edges \subseteq Edges
<1>. DEFINE r == results[i]
<1>1. Accounted(r, failures)
  BY DEF SzzInv
<1>. HIDE DEF r
<1>2. r.fix \in Fixes /\ r.patch \in Patches[r.fix]
  BY <1>1 DEF Accounted
<1>3. CASE r.status \in Silent /\ r = Undone(r.fix, r.patch, r.status)
  <2>1. r.edges = {} /\ r.status \in {"diff-fail", "addition-only"}
    BY <1>3 DEF Undone, Silent
  <2>. QED
    BY <1>2, <2>1, FS_EmptySet DEF Outcomes, r
<1>4. CASE \E failed \in SUBSET Files : r = process(r.fix, r.patch, failed)
  <2>1. PICK failed \in SUBSET Files : r = process(r.fix, r.patch, failed)
    BY <1>4
  <2>. DEFINE d == parse_diff(r.patch)
              want == IF d.dels # {} THEN d.dels ELSE d.vicinity
              confidence == IF d.dels # {} THEN "high" ELSE "low"
              edges == attribute(r.fix, want, failed, confidence)
              status == CASE d.dels # {} /\ edges # {} -> "ok"
                          [] d.dels # {} /\ edges = {} ->
                               IF Unblamed(r.fix, failed) \cap FilesOf(want) # {} THEN "blame-empty"
                               ELSE "no-introducer"
                          [] d.dels = {} /\ edges # {} -> "addition-only-vicinity"
                          [] d.dels = {} /\ edges = {} -> "addition-only"
  <2>2. r = [fix |-> r.fix, patch |-> r.patch, edges |-> edges, status |-> status]
    BY <2>1 DEF process
  <2>3. Few(d)
    BY <1>2, PatchesArePrinted, ParsedIsFew
  <2>. HIDE DEF d
  <2>4. IsFiniteSet(want) /\ confidence \in {"high", "low"}
    BY <2>3 DEF Few
  <2>. HIDE DEF want, confidence
  <2>5. IsFiniteSet(edges) /\ edges \subseteq Edges
    BY <1>2, <2>4, IntroducedIsFinite
  <2>. HIDE DEF edges
  <2>6. status \in Outcomes
    BY DEF Outcomes
  <2>. HIDE DEF status
  <2>7. r.edges = edges /\ r.status = status
    BY <2>2
  <2>. QED
    BY <1>2, <2>5, <2>6, <2>7 DEF r
<1>. QED
  BY <1>1, <1>3, <1>4 DEF Accounted
-------------------------------------------------------------------------------
(* What the report says of an author, for a set of edges.                     *)
Pairs == [fix : Fixes, edge : Edges]
Persons == [introductions : Nat, vicinity : Nat, denoised : Nat, lines : Nat, fixes : SUBSET Fixes,
            email : Emails \cup {Null}, categories : [Categories -> Nat]]

Lows(S) == {x \in S : x.edge.confidence = "low"}
Clears(S, flagged) == {x \in S : Clear(x.edge, flagged)}
ClearsIn(S, flagged, k) == {x \in S : Clear(x.edge, flagged) /\ Category[x.fix] = k}
LinesOf(S) == [x \in S |-> x.edge.lines]

Counts(o, S, flagged) ==
  /\ o \in Persons
  /\ o.introductions = Cardinality(S) /\ o.vicinity = Cardinality(Lows(S))
  /\ o.denoised = Cardinality(Clears(S, flagged)) /\ o.lines = SumFunction(LinesOf(S))
  /\ o.fixes = {x.fix : x \in S}
  /\ IF S = {} THEN o.email = Null ELSE o.email \in {Email[x.edge.intro] : x \in S}
  /\ \A k \in Categories : o.categories[k] = Cardinality(ClearsIn(S, flagged, k))

LEMMA NobodyCounts == ASSUME NEW flagged PROVE Counts(Nobody, {}, flagged)
<1>1. /\ Lows({}) = {} /\ Clears({}, flagged) = {} /\ LinesOf({}) \in [{} -> Nat]
      /\ \A k : ClearsIn({}, flagged, k) = {}
  BY DEF Lows, Clears, LinesOf, ClearsIn
<1>2. Cardinality({}) = 0 /\ SumFunction(LinesOf({})) = 0
  BY <1>1, FS_EmptySet, SumNone
<1>. QED
  BY <1>1, <1>2 DEF Counts, Nobody, Persons

LEMMA OneMore ==
  ASSUME NEW T, IsFiniteSet(T), NEW x, x \notin T, NEW U, NEW c \in BOOLEAN,
         U = IF c THEN T \cup {x} ELSE T
  PROVE  Cardinality(U) = (IF c THEN Cardinality(T) + 1 ELSE Cardinality(T))
         /\ Cardinality(T) \in Nat
BY FS_AddElement, FS_CardinalityType

LEMMA CountedCounts ==
  ASSUME NEW flagged, NEW S, IsFiniteSet(S), S \subseteq Pairs, NEW o, Counts(o, S, flagged),
         NEW r, r.fix \in Fixes, NEW e \in Edges, NEW x \in Pairs, x \notin S,
         x = [fix |-> r.fix, edge |-> e]
  PROVE  Counts(Counted(o, r, e, flagged), S \cup {x}, flagged)
<1>. DEFINE more == Counted(o, r, e, flagged)
            low == e.confidence = "low"
            clear == Clear(e, flagged)
            k0 == Category[r.fix]
            categories == [o.categories EXCEPT ![k0] = IF clear THEN @ + 1 ELSE @]
            email == IF o.email = Null THEN Email[e.intro] ELSE o.email
            V == S \cup {x}
<1>1. o \in Persons
  BY DEF Counts
<1>2. x.fix = r.fix /\ x.edge = e
  OBVIOUS
<1>3. more = [introductions |-> o.introductions + 1,
              vicinity |-> IF low THEN o.vicinity + 1 ELSE o.vicinity,
              denoised |-> IF clear THEN o.denoised + 1 ELSE o.denoised,
              lines |-> o.lines + e.lines, fixes |-> o.fixes \cup {r.fix},
              email |-> email, categories |-> categories]
  BY DEF Counted, Raised
<1>4. clear \in BOOLEAN /\ low \in BOOLEAN /\ k0 \in Categories /\ e.intro \in Introducers
      /\ e.lines \in Nat /\ Email[e.intro] \in Emails
  BY SzzAssumption DEF Clear, Edges
<1>5. Lows(V) = (IF low THEN Lows(S) \cup {x} ELSE Lows(S)) /\ x \notin Lows(S)
  BY <1>2 DEF Lows
<1>6. Clears(V, flagged) = (IF clear THEN Clears(S, flagged) \cup {x} ELSE Clears(S, flagged))
      /\ x \notin Clears(S, flagged)
  BY <1>2 DEF Clears
<1>7. \A k : /\ ClearsIn(V, flagged, k) =
                  IF clear /\ k0 = k THEN ClearsIn(S, flagged, k) \cup {x}
                  ELSE ClearsIn(S, flagged, k)
             /\ x \notin ClearsIn(S, flagged, k)
  BY <1>2 DEF ClearsIn
<1>8. IsFiniteSet(Lows(S)) /\ IsFiniteSet(Clears(S, flagged))
      /\ \A k : IsFiniteSet(ClearsIn(S, flagged, k))
  BY FS_Subset DEF Lows, Clears, ClearsIn
<1>9. /\ o.introductions = Cardinality(S) /\ o.vicinity = Cardinality(Lows(S))
      /\ o.denoised = Cardinality(Clears(S, flagged)) /\ o.lines = SumFunction(LinesOf(S))
      /\ o.fixes = {y.fix : y \in S}
      /\ IF S = {} THEN o.email = Null ELSE o.email \in {Email[y.edge.intro] : y \in S}
      /\ \A k \in Categories : o.categories[k] = Cardinality(ClearsIn(S, flagged, k))
  BY DEF Counts
<1>10. /\ o.introductions \in Nat /\ o.vicinity \in Nat /\ o.denoised \in Nat /\ o.lines \in Nat
       /\ o.fixes \in SUBSET Fixes /\ o.email \in Emails \cup {Null}
       /\ o.categories \in [Categories -> Nat]
  BY <1>1 DEF Persons
<1>11. SumFunction(LinesOf(V)) = SumFunction(LinesOf(S)) + e.lines
  <2>1. /\ LinesOf(S) \in [S -> Nat] /\ LinesOf(V) \in [V -> Nat]
        /\ \A y \in S : LinesOf(V)[y] = LinesOf(S)[y]
    BY DEF LinesOf, Pairs, Edges
  <2>2. LinesOf(V)[x] = e.lines
    BY <1>2 DEF LinesOf
  <2>. DEFINE f == LinesOf(S)
              g == LinesOf(V)
  <2>. HIDE DEF f, g
  <2>3. SumFunction(g) = SumFunction(f) + g[x]
    <3>1. Extends(g, f, S, x)
      BY <2>1 DEF Extends, f, g
    <3>. QED
      BY <3>1, SumAdd
  <2>. QED
    BY <2>2, <2>3 DEF f, g
<1>. HIDE DEF more, low, clear, k0, email
<1>12. Cardinality(V) = Cardinality(S) + 1
  BY FS_AddElement
<1>13. Cardinality(Lows(V)) = IF low THEN Cardinality(Lows(S)) + 1 ELSE Cardinality(Lows(S))
  BY <1>4, <1>5, <1>8, OneMore
<1>14. Cardinality(Clears(V, flagged)) =
         IF clear THEN Cardinality(Clears(S, flagged)) + 1 ELSE Cardinality(Clears(S, flagged))
  BY <1>4, <1>6, <1>8, OneMore
<1>15. ASSUME NEW k \in Categories
       PROVE  categories[k] = Cardinality(ClearsIn(V, flagged, k)) /\ categories[k] \in Nat
  <2>. DEFINE here == clear /\ k0 = k
              old == ClearsIn(S, flagged, k)
              after == ClearsIn(V, flagged, k)
  <2>1. here \in BOOLEAN /\ after = (IF here THEN old \cup {x} ELSE old)
        /\ x \notin old /\ IsFiniteSet(old)
    BY <1>4, <1>7, <1>8
  <2>. HIDE DEF here, old, after
  <2>5. Cardinality(after) = IF here THEN Cardinality(old) + 1 ELSE Cardinality(old)
    BY <2>1, OneMore
  <2>2. Cardinality(ClearsIn(V, flagged, k)) =
          IF clear /\ k0 = k THEN Cardinality(ClearsIn(S, flagged, k)) + 1
          ELSE Cardinality(ClearsIn(S, flagged, k))
    BY <2>5 DEF here, old, after
  <2>3. o.categories[k] = Cardinality(ClearsIn(S, flagged, k)) /\ o.categories[k] \in Nat
    BY <1>9, <1>10
  <2>4. categories[k] = IF clear /\ k0 = k THEN o.categories[k] + 1 ELSE o.categories[k]
    BY <1>10
  <2>. QED
    BY <2>2, <2>3, <2>4
<1>16. categories \in [Categories -> Nat]
  <2>1. DOMAIN categories = Categories /\ categories = [k \in Categories |-> categories[k]]
    BY <1>10
  <2>. HIDE DEF categories
  <2>. QED
    BY <1>15, <2>1
<1>17. email \in Emails \cup {Null} /\ email \in {Email[y.edge.intro] : y \in V}
  <2>1. CASE S = {}
    BY <1>2, <1>4, <1>9, <2>1 DEF email
  <2>2. CASE S # {}
    <3>1. PICK y \in S : o.email = Email[y.edge.intro]
      BY <1>9, <2>2
    <3>2. y.edge.intro \in Introducers
      BY DEF Pairs, Edges
    <3>3. o.email \in Emails /\ o.email # Null
      BY <3>1, <3>2, SzzAssumption
    <3>. QED
      BY <3>1, <3>3 DEF email
  <2>. QED
    BY <2>1, <2>2
<1>18. o.fixes \cup {r.fix} = {y.fix : y \in V}
  BY <1>2, <1>9
<1>. HIDE DEF categories
<1>19. more \in Persons
  BY <1>3, <1>4, <1>10, <1>16, <1>17 DEF Persons
<1>20. /\ more.introductions = Cardinality(V) /\ more.vicinity = Cardinality(Lows(V))
       /\ more.denoised = Cardinality(Clears(V, flagged)) /\ more.lines = SumFunction(LinesOf(V))
  BY <1>3, <1>9, <1>11, <1>12, <1>13, <1>14
<1>21. more.fixes = {y.fix : y \in V} /\ more.email \in {Email[y.edge.intro] : y \in V}
  BY <1>3, <1>17, <1>18
<1>22. \A k \in Categories : more.categories[k] = Cardinality(ClearsIn(V, flagged, k))
  BY <1>3, <1>15
<1>23. V # {}
  OBVIOUS
<1>. HIDE DEF V
<1>24. Counts(more, V, flagged)
  BY <1>19, <1>20, <1>21, <1>22, <1>23 DEF Counts
<1>. QED
  BY <1>24 DEF more, V

Of(T, a) == {x \in T : Author[x.edge.intro] = a}
Summary(so, T, flagged) ==
  so \in [Authors -> Persons] /\ \A a \in Authors : Counts(so[a], Of(T, a), flagged)
With(so, r, e, flagged) == [so EXCEPT ![Author[e.intro]] = Counted(@, r, e, flagged)]

LEMMA SummaryWith ==
  ASSUME NEW flagged, NEW T, IsFiniteSet(T), T \subseteq Pairs, NEW so, Summary(so, T, flagged),
         NEW r, r.fix \in Fixes, NEW e \in Edges, NEW x, x \notin T,
         x = [fix |-> r.fix, edge |-> e]
  PROVE  Summary(With(so, r, e, flagged), T \cup {x}, flagged)
<1>. DEFINE author == Author[e.intro]
            next == With(so, r, e, flagged)
<1>1. x \in Pairs /\ x.edge = e /\ author \in Authors
  BY SzzAssumption DEF Pairs, Edges
<1>2. so \in [Authors -> Persons] /\ \A a \in Authors : Counts(so[a], Of(T, a), flagged)
  BY DEF Summary
<1>. HIDE DEF author
<1>3. next = [so EXCEPT ![author] = Counted(so[author], r, e, flagged)]
  BY DEF With, author
<1>4. \A a \in Authors : /\ Of(T, a) \subseteq Pairs /\ IsFiniteSet(Of(T, a)) /\ x \notin Of(T, a)
                         /\ Of(T \cup {x}, a) = IF a = author THEN Of(T, a) \cup {x} ELSE Of(T, a)
  BY <1>1, FS_Subset DEF Of, author
<1>. HIDE DEF next
<1>5. ASSUME NEW a \in Authors PROVE Counts(next[a], Of(T \cup {x}, a), flagged)
  <2>1. CASE a = author
    <3>1. Counts(Counted(so[a], r, e, flagged), Of(T, a) \cup {x}, flagged)
      BY <1>1, <1>2, <1>4, CountedCounts
    <3>2. next[a] = Counted(so[a], r, e, flagged)
      BY <1>2, <1>3, <2>1
    <3>. QED
      BY <1>4, <2>1, <3>1, <3>2
  <2>2. CASE a # author
    <3>1. next[a] = so[a]
      BY <1>2, <1>3, <2>2
    <3>. QED
      BY <1>2, <1>4, <2>2, <3>1
  <2>. QED
    BY <2>1, <2>2
<1>6. next \in [Authors -> Persons]
  <2>1. next = [a \in Authors |-> next[a]]
    BY <1>2, <1>3
  <2>2. \A a \in Authors : next[a] \in Persons
    BY <1>5 DEF Counts
  <2>. QED
    BY <2>1, <2>2
<1>. QED
  BY <1>5, <1>6 DEF Summary, next

(* The edges of one result, in the order of FoldSet; then result by result.   *)
Adding(E, so, r, flagged) ==
  CHOOSE iter : iter = [s \in SUBSET E |->
    IF s = {} THEN so
    ELSE [iter[s \ {CHOOSE x \in s : TRUE}]
            EXCEPT ![Author[(CHOOSE x \in s : TRUE).intro]] =
                     Counted(@, r, CHOOSE x \in s : TRUE, flagged)]]

LEMMA CountedByAdding ==
  \A so, r, flagged : CountedAll(so, r, flagged) = Adding(r.edges, so, r, flagged)[r.edges]
BY Zenon DEF CountedAll, FoldSet, MapThenFoldSet, Adding

LEMMA CountedTyped ==
  ASSUME NEW o \in Persons, NEW r, r.fix \in Fixes, NEW e \in Edges, NEW flagged
  PROVE  Counted(o, r, e, flagged) \in Persons
<1>1. /\ o.introductions \in Nat /\ o.vicinity \in Nat /\ o.denoised \in Nat /\ o.lines \in Nat
      /\ o.fixes \in SUBSET Fixes /\ o.email \in Emails \cup {Null}
      /\ o.categories \in [Categories -> Nat]
  BY DEF Persons
<1>2. Category[r.fix] \in Categories /\ Email[e.intro] \in Emails /\ e.lines \in Nat
  BY SzzAssumption DEF Edges
<1>3. \A n \in Nat : \A when : Raised(n, when) \in Nat
  BY DEF Raised
<1>. DEFINE categories == [o.categories EXCEPT ![Category[r.fix]] = Raised(@, Clear(e, flagged))]
<1>4. categories \in [Categories -> Nat]
  BY <1>1, <1>2, <1>3
<1>. HIDE DEF categories
<1>5. Counted(o, r, e, flagged) =
        [introductions |-> o.introductions + 1,
         vicinity |-> Raised(o.vicinity, e.confidence = "low"),
         denoised |-> Raised(o.denoised, Clear(e, flagged)),
         lines |-> o.lines + e.lines, fixes |-> o.fixes \cup {r.fix},
         email |-> IF o.email = Null THEN Email[e.intro] ELSE o.email,
         categories |-> categories]
  BY DEF Counted, categories
<1>. QED
  BY <1>1, <1>2, <1>3, <1>4, <1>5 DEF Persons

LEMMA AddingIs ==
  ASSUME NEW E, IsFiniteSet(E), E \subseteq Edges, NEW so \in [Authors -> Persons],
         NEW r, r.fix \in Fixes, NEW flagged
  PROVE  LET all == Adding(E, so, r, flagged) IN
         /\ all[{}] = so
         /\ \A T \in SUBSET E : T # {} =>
              \E e \in T : all[T] = With(all[T \ {e}], r, e, flagged)
<1>. DEFINE V == [Authors -> Persons]
            step == [e \in E |-> [s \in V |-> With(s, r, e, flagged)]]
            F(T, iter) == IF T = {} THEN so
                          ELSE With(iter[T \ {Chosen(T)}], r, Chosen(T), flagged)
            all == Adding(E, so, r, flagged)
<1>1. step \in [E -> [V -> V]]
  <2>. SUFFICES ASSUME NEW e \in E, NEW s \in V PROVE With(s, r, e, flagged) \in V
    OBVIOUS
  <2>1. e \in Edges /\ Author[e.intro] \in Authors
    BY SzzAssumption DEF Edges
  <2>2. s[Author[e.intro]] \in Persons
    BY <2>1
  <2>3. Counted(s[Author[e.intro]], r, e, flagged) \in Persons
    BY <2>1, <2>2, CountedTyped
  <2>. QED
    BY <2>1, <2>3 DEF With
<1>2. \A T \in SUBSET E : T # {} => Chosen(T) \in E /\ Chosen(T) \in T
  BY DEF Chosen
<1>. HIDE DEF V
<1>3. \E iter : iter = [s \in SUBSET E |-> F(s, iter)]
  <2>. HIDE DEF step
  <2>1. PICK iter : Folded(E, V, so, step, iter)
    BY <1>1, SetRecursion DEF V
  <2>2. \A T \in SUBSET E : iter[T] = F(T, iter)
    <3>1. iter \in [SUBSET E -> V] /\ iter[{}] = so
      BY <2>1 DEF Folded
    <3>2. ASSUME NEW T \in SUBSET E, T # {} PROVE iter[T] = F(T, iter)
      <4>1. Chosen(T) \in E /\ iter[T \ {Chosen(T)}] \in V
        BY <1>2, <3>1, <3>2
      <4>2. iter[T] = step[Chosen(T)][iter[T \ {Chosen(T)}]]
        BY <2>1, <3>2 DEF Folded
      <4>. QED
        BY <3>2, <4>1, <4>2 DEF step
    <3>. QED
      BY <3>1, <3>2
  <2>3. iter = [s \in SUBSET E |-> iter[s]]
    BY <2>1 DEF Folded
  <2>4. iter = [s \in SUBSET E |-> F(s, iter)]
    BY <2>2, <2>3
  <2>. HIDE DEF F
  <2>. QED
    BY <2>4
<1>4. all = [s \in SUBSET E |-> F(s, all)]
  <2>1. all = CHOOSE iter : iter = [s \in SUBSET E |-> F(s, iter)]
    BY Zenon DEF Adding, With, Chosen
  <2>. HIDE DEF F, all
  <2>. QED
    BY <1>3, <2>1
<1>. HIDE DEF all
<1>5. \A T \in SUBSET E : all[T] = F(T, all)
  BY <1>4
<1>6. all[{}] = so
  BY <1>5
<1>7. ASSUME NEW T \in SUBSET E, T # {}
      PROVE  \E e \in T : all[T] = With(all[T \ {e}], r, e, flagged)
  <2>1. all[T] = F(T, all) /\ Chosen(T) \in T
    BY <1>2, <1>5, <1>7
  <2>. QED
    BY <1>7, <2>1
<1>. QED
  BY <1>6, <1>7 DEF all

PairsOf(r) == {[fix |-> r.fix, edge |-> e] : e \in r.edges}

LEMMA SummaryOfResult ==
  ASSUME NEW flagged, NEW T, IsFiniteSet(T), T \subseteq Pairs, NEW so, Summary(so, T, flagged),
         NEW r, r.fix \in Fixes, IsFiniteSet(r.edges), r.edges \subseteq Edges,
         \A x \in T : x.fix # r.fix
  PROVE  /\ Summary(CountedAll(so, r, flagged), T \cup PairsOf(r), flagged)
         /\ IsFiniteSet(T \cup PairsOf(r)) /\ T \cup PairsOf(r) \subseteq Pairs
         /\ Cardinality(T \cup PairsOf(r)) = Cardinality(T) + Cardinality(r.edges)
<1>. DEFINE E == r.edges
            all == Adding(E, so, r, flagged)
            Px(D) == {[fix |-> r.fix, edge |-> e] : e \in D}
            G == {D \in SUBSET E : /\ Summary(all[D], T \cup Px(D), flagged)
                                   /\ IsFiniteSet(T \cup Px(D)) /\ T \cup Px(D) \subseteq Pairs
                                   /\ Cardinality(T \cup Px(D)) = Cardinality(T) + Cardinality(D)}
<1>1. /\ all[{}] = so
      /\ \A D \in SUBSET E : D # {} => \E e \in D : all[D] = With(all[D \ {e}], r, e, flagged)
  <2>1. so \in [Authors -> Persons]
    BY DEF Summary
  <2>. QED
    BY <2>1, AddingIs
<1>2. Cardinality(T) \in Nat
  BY FS_CardinalityType
<1>. HIDE DEF all
<1>3. ASSUME NEW D \in SUBSET E, \A e \in D : D \ {e} \in G PROVE D \in G
  <2>1. CASE D = {}
    <3>1. T \cup Px(D) = T /\ Cardinality(D) = 0
      BY <2>1, FS_EmptySet
    <3>2. all[D] = so
      BY <1>1, <2>1
    <3>3. Cardinality(T) = Cardinality(T) + Cardinality(D)
      BY <1>2, <3>1
    <3>. HIDE DEF Px
    <3>. QED
      BY <3>1, <3>2, <3>3
  <2>2. CASE D # {}
    <3>1. PICK e \in D : all[D] = With(all[D \ {e}], r, e, flagged)
      BY <1>1, <2>2
    <3>. DEFINE x == [fix |-> r.fix, edge |-> e]
                U == T \cup Px(D \ {e})
    <3>2. D \ {e} \in G /\ e \in Edges
      BY <1>3
    <3>3. /\ Summary(all[D \ {e}], U, flagged) /\ IsFiniteSet(U) /\ U \subseteq Pairs
          /\ Cardinality(U) = Cardinality(T) + Cardinality(D \ {e})
      BY <3>2
    <3>4. x \notin U /\ x \in Pairs
      BY <3>2 DEF Pairs
    <3>5. T \cup Px(D) = U \cup {x}
      OBVIOUS
    <3>6. IsFiniteSet(D) /\ Cardinality(D \ {e}) = Cardinality(D) - 1 /\ Cardinality(D) \in Nat
      BY FS_Subset, FS_RemoveElement, FS_CardinalityType
    <3>. HIDE DEF U, Px
    <3>7. Summary(With(all[D \ {e}], r, e, flagged), U \cup {x}, flagged)
      BY <3>2, <3>3, <3>4, SummaryWith
    <3>8. IsFiniteSet(U \cup {x}) /\ Cardinality(U \cup {x}) = Cardinality(U) + 1
      BY <3>3, <3>4, FS_AddElement
    <3>9. U \cup {x} \subseteq Pairs
      BY <3>3, <3>4
    <3>10. Cardinality(U \cup {x}) = Cardinality(T) + Cardinality(D)
      BY <1>2, <3>3, <3>6, <3>8
    <3>. HIDE DEF x
    <3>. QED
      BY <3>1, <3>5, <3>7, <3>8, <3>9, <3>10
  <2>. QED
    BY <2>1, <2>2
<1>4. E \in G
  <2>. HIDE DEF G
  <2>. QED
    BY <1>3, BySmallerSets
<1>5. CountedAll(so, r, flagged) = all[E]
  BY CountedByAdding DEF all
<1>. QED
  BY <1>4, <1>5 DEF PairsOf

(* aggregate, result by result.                                               *)
After(flagged) ==
  CHOOSE after : after = [n \in 0 .. Len(results) |->
                            IF n = 0 THEN [a \in Authors |-> Nobody]
                            ELSE CountedAll(after[n - 1], results[n], flagged)]

LEMMA AggregateIsAfter == \A flagged : aggregate(flagged) = After(flagged)[Len(results)]
BY Zenon DEF aggregate, After

LEMMA AfterIs ==
  ASSUME NEW flagged, Len(results) \in Nat
  PROVE  /\ After(flagged)[0] = [a \in Authors |-> Nobody]
         /\ \A n \in Nat : n + 1 \in 1 .. Len(results) =>
              After(flagged)[n + 1] = CountedAll(After(flagged)[n], results[n + 1], flagged)
<1>. DEFINE none == [a \in Authors |-> Nobody]
            F(n, read) == IF n = 0 THEN none ELSE CountedAll(read[n - 1], results[n], flagged)
            Agrees(n, read) == read = [m \in 0 .. n |-> F(m, read)]
            N == {n \in Nat : \E read : Agrees(n, read)}
<1>1. 0 \in N
  <2>. DEFINE read == [m \in 0 .. 0 |-> none]
  <2>1. read = [m \in 0 .. 0 |-> F(m, read)]
    OBVIOUS
  <2>. QED
    BY <2>1
<1>2. ASSUME NEW n \in Nat, n \in N PROVE n + 1 \in N
  <2>1. PICK read : Agrees(n, read)
    BY <1>2
  <2>. DEFINE next == [m \in 0 .. n + 1 |-> F(m, read)]
  <2>2. \A m \in 0 .. n : next[m] = read[m]
    BY <2>1
  <2>3. \A m \in 0 .. n + 1 : m # 0 => m - 1 \in 0 .. n
    OBVIOUS
  <2>4. \A m \in 0 .. n + 1 : F(m, read) = F(m, next)
    BY <2>2, <2>3
  <2>. HIDE DEF F
  <2>5. next = [m \in 0 .. n + 1 |-> F(m, next)]
    BY <2>4
  <2>6. n + 1 \in Nat /\ Agrees(n + 1, next)
    BY <2>5
  <2>. HIDE DEF next, Agrees
  <2>. QED
    BY <2>6
<1>3. Nat \subseteq N
  <2>. HIDE DEF N
  <2>. QED
    BY <1>1, <1>2, Numbers
<1>4. \E read : read = [n \in 0 .. Len(results) |-> F(n, read)]
  BY <1>3
<1>. DEFINE s == After(flagged)
<1>5. s = [n \in 0 .. Len(results) |-> F(n, s)]
  BY <1>4, Zenon DEF After
<1>. HIDE DEF s
<1>6. \A n \in 0 .. Len(results) : s[n] = F(n, s)
  BY <1>5
<1>7. ASSUME NEW n \in Nat, n + 1 \in 1 .. Len(results)
      PROVE  s[n + 1] = CountedAll(s[n], results[n + 1], flagged)
  <2>1. n + 1 \in 0 .. Len(results) /\ n + 1 # 0 /\ (n + 1) - 1 = n
    BY <1>7
  <2>. QED
    BY <1>6, <2>1
<1>. QED
  BY <1>6, <1>7 DEF s

LEMMA SumOfOneMore ==
  ASSUME NEW m \in Nat, NEW f \in [1 .. m -> Nat], NEW g \in [1 .. m + 1 -> Nat],
         \A i \in 1 .. m : g[i] = f[i]
  PROVE  SumFunction(g) = SumFunction(f) + g[m + 1]
<1>1. IsFiniteSet(1 .. m)
  <2>1. 1 \in Int /\ m \in Int
    OBVIOUS
  <2>. QED
    BY <2>1, FS_Interval
<1>2. 1 .. m + 1 = (1 .. m) \cup {m + 1} /\ m + 1 \notin 1 .. m
  OBVIOUS
<1>3. Extends(g, f, 1 .. m, m + 1)
  BY <1>1, <1>2 DEF Extends
<1>. QED
  BY <1>3, SumAdd

PairsTo(n) == UNION {PairsOf(results[i]) : i \in 1 .. n}
NumberTo(n) == SumFunction([i \in 1 .. n |-> Cardinality(results[i].edges)])

LEMMA SummaryOfAll ==
  ASSUME SzzInv, NEW flagged, NEW n \in 0 .. Len(results)
  PROVE  /\ Summary(After(flagged)[n], PairsTo(n), flagged)
         /\ IsFiniteSet(PairsTo(n)) /\ PairsTo(n) \subseteq Pairs
         /\ NumberTo(n) = Cardinality(PairsTo(n))
<1>. DEFINE OK(m) == /\ Summary(After(flagged)[m], PairsTo(m), flagged)
                     /\ IsFiniteSet(PairsTo(m)) /\ PairsTo(m) \subseteq Pairs
                     /\ NumberTo(m) = Cardinality(PairsTo(m))
            N == {m \in Nat : m \in 0 .. Len(results) => OK(m)}
<1>1. /\ Len(results) \in Nat /\ DOMAIN results = 1 .. Len(results)
      /\ \A i, j \in DOMAIN results : results[i].fix = results[j].fix => i = j
  BY DEF SzzInv
<1>2. 0 \in N
  <2>1. PairsTo(0) = {}
    BY DEF PairsTo
  <2>2. NumberTo(0) = 0
    <3>. DEFINE none == [i \in 1 .. 0 |-> Cardinality(results[i].edges)]
    <3>1. none \in [{} -> Nat]
      OBVIOUS
    <3>. HIDE DEF none
    <3>2. SumFunction(none) = 0
      BY <3>1, SumNone
    <3>. QED
      BY <3>2 DEF NumberTo, none
  <2>3. Cardinality({}) = 0 /\ IsFiniteSet({})
    BY FS_EmptySet
  <2>4. Summary(After(flagged)[0], {}, flagged)
    <3>. DEFINE none == [a \in Authors |-> Nobody]
    <3>1. After(flagged)[0] = none
      BY <1>1, AfterIs
    <3>2. \A a : Of({}, a) = {}
      BY DEF Of
    <3>3. Counts(Nobody, {}, flagged)
      BY NobodyCounts
    <3>4. Nobody \in Persons
      BY <3>3 DEF Counts
    <3>5. none \in [Authors -> Persons] /\ \A a \in Authors : none[a] = Nobody
      BY <3>4
    <3>. HIDE DEF none
    <3>. QED
      BY <3>1, <3>2, <3>3, <3>5 DEF Summary
  <2>. QED
    BY <2>1, <2>2, <2>3, <2>4
<1>3. ASSUME NEW m \in Nat, m \in N PROVE m + 1 \in N
  <2>. SUFFICES ASSUME m + 1 \in 0 .. Len(results) PROVE OK(m + 1)
    OBVIOUS
  <2>. DEFINE r == results[m + 1]
              T == PairsTo(m)
              so == After(flagged)[m]
  <2>1. m \in 0 .. Len(results) /\ m + 1 \in 1 .. Len(results)
    BY <1>1
  <2>2. Summary(so, T, flagged) /\ IsFiniteSet(T) /\ T \subseteq Pairs
        /\ NumberTo(m) = Cardinality(T)
    BY <1>3, <2>1
  <2>3. r.fix \in Fixes /\ IsFiniteSet(r.edges) /\ r.edges \subseteq Edges
    BY <1>1, <2>1, ResultTyped
  <2>4. \A x \in T : x.fix # r.fix
    <3>. SUFFICES ASSUME NEW i \in 1 .. m, NEW x \in PairsOf(results[i]) PROVE x.fix # r.fix
      BY DEF PairsTo
    <3>1. x.fix = results[i].fix
      BY DEF PairsOf
    <3>2. i \in DOMAIN results /\ m + 1 \in DOMAIN results /\ i # m + 1
      BY <1>1, <2>1
    <3>. QED
      BY <1>1, <3>1, <3>2
  <2>5. After(flagged)[m + 1] = CountedAll(so, r, flagged)
    BY <1>1, <2>1, AfterIs
  <2>6. PairsTo(m + 1) = T \cup PairsOf(r)
    <3>1. 1 .. m + 1 = (1 .. m) \cup {m + 1}
      OBVIOUS
    <3>. QED
      BY <3>1 DEF PairsTo
  <2>7. NumberTo(m + 1) = NumberTo(m) + Cardinality(r.edges)
    <3>. DEFINE f == [i \in 1 .. m |-> Cardinality(results[i].edges)]
                g == [i \in 1 .. m + 1 |-> Cardinality(results[i].edges)]
    <3>1. \A i \in 1 .. m + 1 : Cardinality(results[i].edges) \in Nat
      <4>1. \A i \in 1 .. m + 1 : i \in DOMAIN results
        BY <1>1, <2>1
      <4>. QED
        BY <4>1, ResultTyped, FS_CardinalityType
    <3>2. f \in [1 .. m -> Nat] /\ g \in [1 .. m + 1 -> Nat]
          /\ (\A i \in 1 .. m : g[i] = f[i]) /\ g[m + 1] = Cardinality(r.edges)
      BY <3>1
    <3>. HIDE DEF f, g, r
    <3>3. SumFunction(g) = SumFunction(f) + g[m + 1]
      BY <3>2, SumOfOneMore
    <3>. QED
      BY <3>2, <3>3 DEF NumberTo, f, g
  <2>. HIDE DEF r, T, so
  <2>8. /\ Summary(CountedAll(so, r, flagged), T \cup PairsOf(r), flagged)
        /\ IsFiniteSet(T \cup PairsOf(r)) /\ T \cup PairsOf(r) \subseteq Pairs
        /\ Cardinality(T \cup PairsOf(r)) = Cardinality(T) + Cardinality(r.edges)
    BY <2>2, <2>3, <2>4, SummaryOfResult
  <2>. QED
    BY <2>2, <2>5, <2>6, <2>7, <2>8
<1>4. Nat \subseteq N
  <2>. HIDE DEF N
  <2>. QED
    BY <1>2, <1>3, Numbers
<1>5. n \in Nat
  BY <1>1
<1>6. OK(n)
  BY <1>4, <1>5
<1>. QED
  BY <1>6
-------------------------------------------------------------------------------
(* When every worker has ended, each fix has one result.                      *)
LEMMA OneResultEach ==
  ASSUME SzzInv, left = {}
  PROVE  Cardinality(DOMAIN results) = Cardinality(Fixes) /\ IsFiniteSet(DOMAIN results)
<1>. DEFINE D == DOMAIN results
            fix == [i \in D |-> results[i].fix]
<1>1. /\ results \in Seq(Results) /\ {results[i].fix : i \in D} = Fixes
      /\ \A i, j \in D : results[i].fix = results[j].fix => i = j
  BY DEF SzzInv
<1>2. IsFiniteSet(D)
  <2>1. D = 1 .. Len(results) /\ 1 \in Int /\ Len(results) \in Int
    BY <1>1
  <2>. HIDE DEF D
  <2>. QED
    BY <2>1, FS_Interval
<1>. HIDE DEF D
<1>3. fix \in [D -> Fixes] /\ \A t \in Fixes : \E i \in D : fix[i] = t
  BY <1>1
<1>4. fix \in Surjection(D, Fixes) /\ fix \in Injection(D, Fixes)
  BY <1>1, <1>3 DEF Surjection, Injection, IsInjective
<1>. HIDE DEF fix
<1>5. Cardinality(Fixes) = Cardinality(D)
  BY <1>2, <1>4, FS_Surjection
<1>. QED
  BY <1>2, <1>5 DEF D

LEMMA StatusesAdd ==
  ASSUME SzzInv, left = {}
  PROVE  SumFunction(Totals.statuses) = Cardinality(Fixes)
<1>. DEFINE D == DOMAIN results
            status == [i \in D |-> results[i].status]
            Has(st) == {i \in D : results[i].status = st}
<1>1. IsFiniteSet(D) /\ Cardinality(D) = Cardinality(Fixes)
  BY OneResultEach
<1>2. status \in [D -> Outcomes]
  BY ResultTyped
<1>3. IsFiniteSet(Outcomes)
  <2>. DEFINE O3 == {"ok", "blame-empty", "no-introducer"}
              O6 == O3 \cup {"addition-only-vicinity"} \cup {"addition-only"} \cup {"diff-fail"}
  <2>1. IsFiniteSet({}) /\ \A S : IsFiniteSet(S) => \A x : IsFiniteSet(S \cup {x})
    BY FS_EmptySet, FS_AddElement
  <2>2. O3 = {} \cup {"ok"} \cup {"blame-empty"} \cup {"no-introducer"}
    OBVIOUS
  <2>3. IsFiniteSet(O3)
    BY <2>1, <2>2
  <2>. HIDE DEF O3
  <2>4. IsFiniteSet(O6)
    BY <2>1, <2>3
  <2>5. Outcomes = O6
    BY DEF Outcomes, O3
  <2>. QED
    BY <2>4, <2>5
<1>4. SumFunction([st \in Outcomes |-> Cardinality({i \in D : status[i] = st})]) = Cardinality(D)
  <2>. HIDE DEF status, D
  <2>. QED
    BY <1>1, <1>2, <1>3, SumOfParts
<1>5. ASSUME NEW st \in Outcomes
      PROVE  Sum(LAMBDA r : IF r.status = st THEN 1 ELSE 0) = Cardinality({i \in D : status[i] = st})
  <2>. DEFINE f == [i \in D |-> IF i \in Has(st) THEN 1 ELSE 0]
              M == Has(st)
  <2>1. Sum(LAMBDA r : IF r.status = st THEN 1 ELSE 0) =
          SumFunction([i \in D |-> IF results[i].status = st THEN 1 ELSE 0])
    BY DEF Sum
  <2>2. [i \in D |-> IF results[i].status = st THEN 1 ELSE 0] = [i \in D |-> IF i \in M THEN 1 ELSE 0]
    OBVIOUS
  <2>3. {i \in D : i \in M} = {i \in D : status[i] = st}
    OBVIOUS
  <2>. HIDE DEF M, D
  <2>4. SumFunction([i \in D |-> IF i \in M THEN 1 ELSE 0]) = Cardinality({i \in D : i \in M})
    BY <1>1, SumOfMarks
  <2>. QED
    BY <2>1, <2>2, <2>3, <2>4
<1>6. Totals.statuses = [st \in Outcomes |-> Sum(LAMBDA r : IF r.status = st THEN 1 ELSE 0)]
  BY DEF Totals
<1>7. Totals.statuses = [st \in Outcomes |-> Cardinality({i \in D : status[i] = st})]
  BY <1>5, <1>6
<1>. QED
  BY <1>1, <1>4, <1>7

LEMMA EdgesAdd ==
  ASSUME SzzInv
  PROVE  /\ Totals.edges = Totals.code + Totals.vicinity
         /\ Totals.edges = Cardinality(PairsTo(Len(results)))
<1>. DEFINE D == DOMAIN results
            With1(i, c) == {e \in results[i].edges : e.confidence = c}
            high == [i \in D |-> Cardinality(With1(i, "high"))]
            low == [i \in D |-> Cardinality(With1(i, "low"))]
            all == [i \in D |-> Cardinality(results[i].edges)]
<1>1. /\ D = 1 .. Len(results) /\ Len(results) \in Nat
  BY DEF SzzInv
<1>2. IsFiniteSet(D)
  <2>1. 1 \in Int /\ Len(results) \in Int
    BY <1>1
  <2>. HIDE DEF D
  <2>. QED
    BY <1>1, <2>1, FS_Interval
<1>3. /\ Totals.edges = Sum(LAMBDA r : Cardinality(r.edges))
      /\ Totals.code = EdgesWith("high") /\ Totals.vicinity = EdgesWith("low")
  BY DEF Totals
<1>4. Totals.edges = SumFunction(all)
  BY <1>3 DEF Sum
<1>5. Totals.code = SumFunction(high) /\ Totals.vicinity = SumFunction(low)
  BY <1>3 DEF EdgesWith, Sum
<1>6. ASSUME NEW i \in D
      PROVE  high[i] \in Nat /\ low[i] \in Nat /\ all[i] = high[i] + low[i]
  <2>. DEFINE E == results[i].edges
              H == With1(i, "high")
              L == With1(i, "low")
  <2>1. IsFiniteSet(E) /\ E \subseteq Edges
    BY ResultTyped
  <2>2. H \cup L = E /\ H \cap L = {}
    BY <2>1 DEF Edges
  <2>3. H \subseteq E /\ L \subseteq E
    OBVIOUS
  <2>4. high[i] = Cardinality(H) /\ low[i] = Cardinality(L) /\ all[i] = Cardinality(E)
    OBVIOUS
  <2>. HIDE DEF E, H, L, high, low, all
  <2>5. IsFiniteSet(H) /\ IsFiniteSet(L)
    BY <2>1, <2>3, FS_Subset
  <2>6. Cardinality(H \cup L) = Cardinality(H) + Cardinality(L) - Cardinality(H \cap L)
    BY <2>5, FS_Union
  <2>7. Cardinality(H) \in Nat /\ Cardinality(L) \in Nat /\ Cardinality({}) = 0
    BY <2>5, FS_CardinalityType, FS_EmptySet
  <2>8. Cardinality(E) = Cardinality(H) + Cardinality(L)
    <3>1. Cardinality(H \cap L) = 0 /\ Cardinality(H \cup L) = Cardinality(E)
      BY <2>2, <2>7
    <3>. QED
      BY <2>6, <2>7, <3>1
  <2>. QED
    BY <2>4, <2>7, <2>8
<1>7. high \in [D -> Nat] /\ low \in [D -> Nat]
  BY <1>6
<1>8. all = [i \in D |-> high[i] + low[i]]
  BY <1>6
<1>. HIDE DEF high, low
<1>9. SumFunction([i \in D |-> high[i] + low[i]]) = SumFunction(high) + SumFunction(low)
  <2>. HIDE DEF D
  <2>. QED
    BY <1>2, <1>7, SumOfSums
<1>10. SumFunction(all) = NumberTo(Len(results))
  BY <1>1 DEF NumberTo
<1>11. NumberTo(Len(results)) = Cardinality(PairsTo(Len(results)))
  <2>1. Len(results) \in 0 .. Len(results)
    BY <1>1
  <2>. QED
    BY <2>1, SummaryOfAll
<1>. HIDE DEF all
<1>. QED
  BY <1>4, <1>5, <1>8, <1>9, <1>10, <1>11

LEMMA EdgesOfIs == ASSUME SzzInv, NEW a PROVE EdgesOf(a) = Of(PairsTo(Len(results)), a)
<1>1. DOMAIN results = 1 .. Len(results)
  BY DEF SzzInv
<1>2. ASSUME NEW x
      PROVE  x \in EdgesOf(a) <=>
               \E i \in DOMAIN results : \E e \in results[i].edges :
                 Author[e.intro] = a /\ x = [fix |-> results[i].fix, edge |-> e]
  BY DEF EdgesOf
<1>3. ASSUME NEW x
      PROVE  x \in Of(PairsTo(Len(results)), a) <=>
               \E i \in DOMAIN results : \E e \in results[i].edges :
                 x = [fix |-> results[i].fix, edge |-> e] /\ Author[x.edge.intro] = a
  BY <1>1 DEF Of, PairsTo, PairsOf
<1>4. ASSUME NEW x PROVE x \in EdgesOf(a) <=> x \in Of(PairsTo(Len(results)), a)
  <2>1. \A fix, e : [fix |-> fix, edge |-> e].edge = e
    OBVIOUS
  <2>. QED
    BY <1>2, <1>3, <2>1
<1>. QED
  BY <1>4

RightRow(row, a, flagged, exposed) ==
  LET of == row.of
      clear == ClearOf(a, flagged) IN
  /\ of.introductions = Cardinality(EdgesOf(a))
  /\ of.denoised = Cardinality(clear)
  /\ of.vicinity = Cardinality({x \in EdgesOf(a) : x.edge.confidence = "low"})
  /\ of.lines = SumFunction([x \in EdgesOf(a) |-> x.edge.lines])
  /\ of.fixes = {x.fix : x \in EdgesOf(a)}
  /\ \A k \in Categories : of.categories[k] = Cardinality(In(clear, k))
  /\ exposed => row.total \in {Exposure[m] : m \in AddressesOf(a)}
  /\ \A k \in row.dominant, j \in Categories :
       Cardinality(In(clear, j)) <= Cardinality(In(clear, k))

RightReport(rep) ==
  /\ SumFunction(rep.totals.statuses) = Cardinality(Fixes)
  /\ rep.totals.edges = rep.totals.code + rep.totals.vicinity
  /\ \A k \in Categories :
       rep.categories[k] = Cardinality(In(UNION {ClearOf(a, rep.flagged) : a \in Authors}, k))
  /\ \A a \in DOMAIN rep.authors : RightRow(rep.authors[a], a, rep.flagged, rep.exposed)
  /\ \A a \in DOMAIN rep.authors, b \in Authors \ DOMAIN rep.authors :
       Cardinality(ClearOf(b, rep.flagged)) <= Cardinality(ClearOf(a, rep.flagged))

(* A set of at most one has one. *)
LEMMA OneAtMost ==
  ASSUME NEW T, IsFiniteSet(T), Cardinality(T) <= 1, NEW x \in T, NEW y \in T
  PROVE  x = y
<1>. SUFFICES ASSUME x # y PROVE FALSE
  OBVIOUS
<1>1. IsFiniteSet({}) /\ Cardinality({}) = 0
  BY FS_EmptySet
<1>. DEFINE one == {x}
            two == {x, y}
<1>2. one = {} \cup {x} /\ two = one \cup {y} /\ y \notin one /\ two \subseteq T
  OBVIOUS
<1>. HIDE DEF one, two
<1>3. IsFiniteSet(one) /\ Cardinality(one) = 1
  <2>1. x \notin {} /\ \A S : IsFiniteSet(S) => IsFiniteSet(S \cup {x})
                         /\ Cardinality(S \cup {x}) = IF x \in S THEN Cardinality(S) ELSE Cardinality(S) + 1
    BY FS_AddElement
  <2>. QED
    BY <1>1, <1>2, <2>1
<1>4. IsFiniteSet(two) /\ Cardinality(two) = 2
  <2>1. IsFiniteSet(one \cup {y}) /\ Cardinality(one \cup {y}) = IF y \in one THEN 1 ELSE 1 + 1
    BY <1>3, FS_AddElement
  <2>. QED
    BY <1>2, <2>1
<1>5. Cardinality(two) <= Cardinality(T) /\ Cardinality(T) \in Nat
  BY <1>2, FS_Subset, FS_CardinalityType
<1>. QED
  BY <1>4, <1>5

(* The dominant category is one of the most frequent. *)
LEMMA DominantIsMost ==
  ASSUME NEW o \in Persons, NEW T \in Best(1, Counter(o)), NEW k \in T, NEW j \in Categories
  PROVE  k \in Categories /\ o.categories[j] <= o.categories[k]
<1>. DEFINE D == {c \in Categories : o.categories[c] > 0}
<1>1. /\ o.categories \in [Categories -> Nat] /\ DOMAIN Counter(o) = D
      /\ \A c \in D : Counter(o)[c] = o.categories[c]
  BY DEF Persons, Counter
<1>2. /\ T \in SUBSET D /\ Cardinality(T) = Min({1, Cardinality(D)})
      /\ \A x \in T : \A y \in D \ T : o.categories[x] >= o.categories[y]
  BY <1>1 DEF Best
<1>3. D \subseteq Categories /\ \A c \in D : o.categories[c] > 0
  OBVIOUS
<1>4. \A c \in Categories \ D : o.categories[c] = 0
  BY <1>1
<1>. HIDE DEF D
<1>5. IsFiniteSet(D) /\ Cardinality(D) \in Nat /\ IsFiniteSet(T)
  BY <1>2, <1>3, SzzAssumption, FS_Subset, FS_CardinalityType
<1>6. Cardinality(T) <= 1
  BY <1>2, <1>5, MinOfTwo
<1>7. j \in T => j = k
  BY <1>5, <1>6, OneAtMost
<1>8. \A c \in Categories : o.categories[c] \in Nat
  BY <1>1
<1>. QED
  BY <1>2, <1>3, <1>4, <1>7, <1>8

LEMMA ListedHaveMost ==
  ASSUME NEW so, so \in [Authors -> Persons], NEW listed \in Best(LISTED, Introductions(so)),
         NEW a \in listed
  PROVE  /\ a \in Authors /\ so[a].introductions > 0
         /\ \A b \in Authors \ listed :
              so[b].introductions = 0 \/ so[b].denoised <= so[a].denoised
<1>. DEFINE D == {b \in Authors : so[b].introductions > 0}
<1>1. DOMAIN Introductions(so) = D /\ \A b \in D : Introductions(so)[b] = so[b].denoised
  BY DEF Introductions
<1>2. /\ listed \in SUBSET D
      /\ \A x \in listed : \A y \in D \ listed : so[x].denoised >= so[y].denoised
  BY <1>1 DEF Best
<1>3. \A b \in Authors : so[b].introductions \in Nat /\ so[b].denoised \in Nat
  BY DEF Persons
<1>. QED
  BY <1>2, <1>3

LEMMA RowRight ==
  ASSUME NEW a \in Authors, NEW flagged, NEW exposed, NEW o, Counts(o, EdgesOf(a), flagged),
         EdgesOf(a) \subseteq Pairs, EdgesOf(a) # {},
         NEW row, row.of = o, row.total = total_commits(o, exposed),
         row.dominant \in Best(1, Counter(o))
  PROVE  RightRow(row, a, flagged, exposed)
<1>. DEFINE S == EdgesOf(a)
            clear == ClearOf(a, flagged)
<1>1. clear = {x \in S : Clear(x.edge, flagged)} /\ AddressesOf(a) = {Email[x.edge.intro] : x \in S}
  BY DEF ClearOf, AddressesOf
<1>. HIDE DEF S
<1>2. /\ o.introductions = Cardinality(S) /\ o.denoised = Cardinality(clear)
      /\ o.vicinity = Cardinality({x \in S : x.edge.confidence = "low"})
      /\ o.lines = SumFunction([x \in S |-> x.edge.lines])
      /\ o.fixes = {x.fix : x \in S}
  BY <1>1 DEF Counts, Lows, Clears, LinesOf, S
<1>3. ASSUME NEW k \in Categories PROVE o.categories[k] = Cardinality(In(clear, k))
  <2>1. In(clear, k) = ClearsIn(S, flagged, k)
    BY <1>1 DEF ClearsIn, In
  <2>. QED
    BY <2>1 DEF Counts, S
<1>4. ASSUME exposed PROVE row.total \in {Exposure[m] : m \in AddressesOf(a)}
  <2>1. o.email \in AddressesOf(a)
    BY <1>1 DEF Counts, S
  <2>2. \A x \in S : Email[x.edge.intro] # Null
    BY SzzAssumption DEF Pairs, Edges, S
  <2>3. o.email # Null
    BY <1>1, <2>1, <2>2
  <2>4. total_commits(o, exposed) = Exposure[o.email]
    BY <1>4, <2>3 DEF total_commits
  <2>. QED
    BY <2>1, <2>4
<1>5. ASSUME NEW k \in row.dominant, NEW j \in Categories
      PROVE  Cardinality(In(clear, j)) <= Cardinality(In(clear, k))
  <2>1. o \in Persons
    BY DEF Counts
  <2>2. k \in Categories /\ o.categories[j] <= o.categories[k]
    BY <2>1, DominantIsMost
  <2>. QED
    BY <1>3, <2>2
<1>. HIDE DEF clear
<1>. QED
  BY <1>2, <1>3, <1>4, <1>5 DEF RightRow, S, clear

(* The introductions of a category, by author. *)
LEMMA CategoriesAdd ==
  ASSUME NEW flagged, NEW T, IsFiniteSet(T), T \subseteq Pairs, NEW so, Summary(so, T, flagged),
         NEW k \in Categories
  PROVE  global_cat(so)[k] = Cardinality(ClearsIn(T, flagged, k))
<1>. DEFINE U == ClearsIn(T, flagged, k)
            h == [x \in U |-> Author[x.edge.intro]]
<1>1. U \subseteq T
  BY DEF ClearsIn
<1>2. h \in [U -> Authors]
  BY <1>1, SzzAssumption DEF Pairs, Edges
<1>3. IsFiniteSet(Authors) /\ IsFiniteSet(U)
  BY <1>1, SzzAssumption, FS_Subset
<1>4. \A a : {x \in U : h[x] = a} = ClearsIn(Of(T, a), flagged, k)
  BY DEF Of, ClearsIn
<1>. HIDE DEF h, U
<1>5. SumFunction([a \in Authors |-> Cardinality({x \in U : h[x] = a})]) = Cardinality(U)
  BY <1>2, <1>3, SumOfParts
<1>6. \A a \in Authors : so[a].categories[k] = Cardinality({x \in U : h[x] = a})
  BY <1>4 DEF Summary, Counts
<1>7. [a \in Authors |-> so[a].categories[k]] =
        [a \in Authors |-> Cardinality({x \in U : h[x] = a})]
  BY <1>6
<1>. QED
  BY <1>5, <1>7 DEF global_cat, U

LEMMA ReportWritten ==
  ASSUME SzzInv, left = {}, NEW flagged, NEW exposed,
         NEW listed \in Best(LISTED, Introductions(aggregate(flagged))),
         NEW rows, DOMAIN rows = listed,
         \A a \in listed : rows[a] \in AuthorRows(aggregate(flagged), a, exposed),
         NEW rep,
         rep = [flagged |-> flagged, exposed |-> exposed, totals |-> Totals,
                categories |-> global_cat(aggregate(flagged)), authors |-> rows]
  PROVE  RightReport(rep)
<1>. DEFINE n == Len(results)
            T == PairsTo(n)
            so == aggregate(flagged)
<1>1. Len(results) \in Nat /\ n \in 0 .. Len(results)
  BY DEF SzzInv
<1>2. Summary(so, T, flagged) /\ IsFiniteSet(T) /\ T \subseteq Pairs
  BY <1>1, SummaryOfAll, AggregateIsAfter
<1>3. /\ rep.flagged = flagged /\ rep.exposed = exposed /\ rep.totals = Totals
      /\ rep.categories = global_cat(so) /\ rep.authors = rows
  OBVIOUS
<1>. HIDE DEF so, n, T
<1>4. so \in [Authors -> Persons] /\ \A a \in Authors : Counts(so[a], Of(T, a), flagged)
  BY <1>2 DEF Summary
<1>5. \A a : EdgesOf(a) = Of(T, a)
  BY EdgesOfIs DEF n, T
<1>6. \A a \in Authors :
        /\ Counts(so[a], EdgesOf(a), flagged) /\ EdgesOf(a) \subseteq Pairs /\ IsFiniteSet(EdgesOf(a))
        /\ ClearOf(a, flagged) = Clears(EdgesOf(a), flagged)
        /\ IsFiniteSet(ClearOf(a, flagged))
  <2>. SUFFICES ASSUME NEW a \in Authors
                PROVE  /\ Counts(so[a], EdgesOf(a), flagged) /\ EdgesOf(a) \subseteq Pairs
                       /\ IsFiniteSet(EdgesOf(a)) /\ ClearOf(a, flagged) = Clears(EdgesOf(a), flagged)
                       /\ IsFiniteSet(ClearOf(a, flagged))
    OBVIOUS
  <2>1. EdgesOf(a) \subseteq T
    BY <1>5 DEF Of
  <2>2. ClearOf(a, flagged) = Clears(EdgesOf(a), flagged) /\ ClearOf(a, flagged) \subseteq T
    BY <2>1 DEF ClearOf, Clears
  <2>. QED
    BY <1>2, <1>4, <1>5, <2>1, <2>2, FS_Subset
<1>7. ASSUME NEW a \in listed
      PROVE  /\ a \in Authors /\ so[a].introductions > 0
             /\ \A b \in Authors \ listed :
                  so[b].introductions = 0 \/ so[b].denoised <= so[a].denoised
  <2>1. listed \in Best(LISTED, Introductions(so))
    BY DEF so
  <2>. QED
    BY <1>4, <2>1, ListedHaveMost
<1>8. ASSUME NEW a \in listed
      PROVE  RightRow(rows[a], a, flagged, exposed)
  <2>1. a \in Authors /\ so[a].introductions > 0
    BY <1>7
  <2>2. EdgesOf(a) # {}
    <3>1. so[a].introductions = Cardinality(EdgesOf(a)) /\ Cardinality({}) = 0
      BY <1>6, <2>1, FS_EmptySet DEF Counts
    <3>. QED
      BY <2>1, <3>1
  <2>3. rows[a] \in AuthorRows(so, a, exposed)
    BY DEF so
  <2>4. /\ rows[a].of = so[a] /\ rows[a].total = total_commits(so[a], exposed)
        /\ rows[a].dominant \in Best(1, Counter(so[a]))
    BY <2>3 DEF AuthorRows
  <2>. QED
    BY <1>6, <2>1, <2>2, <2>4, RowRight
<1>9. ASSUME NEW a \in listed, NEW b \in Authors \ listed
      PROVE  Cardinality(ClearOf(b, flagged)) <= Cardinality(ClearOf(a, flagged))
  <2>1. a \in Authors /\ (so[b].introductions = 0 \/ so[b].denoised <= so[a].denoised)
    BY <1>7
  <2>2. /\ so[a].denoised = Cardinality(ClearOf(a, flagged))
        /\ so[b].denoised = Cardinality(ClearOf(b, flagged))
        /\ so[b].introductions = Cardinality(EdgesOf(b))
    BY <1>6, <2>1 DEF Counts
  <2>3. Cardinality(ClearOf(a, flagged)) \in Nat /\ Cardinality({}) = 0
    BY <1>6, <2>1, FS_CardinalityType, FS_EmptySet
  <2>4. CASE so[b].introductions = 0
    <3>1. EdgesOf(b) = {}
      BY <1>6, <2>2, <2>4, FS_EmptySet
    <3>2. ClearOf(b, flagged) = {}
      BY <3>1 DEF ClearOf
    <3>. QED
      BY <2>3, <3>2
  <2>. QED
    BY <2>1, <2>2, <2>4
<1>10. ASSUME NEW k \in Categories
       PROVE  rep.categories[k] = Cardinality(In(UNION {ClearOf(a, flagged) : a \in Authors}, k))
  <2>1. \A x \in T : Author[x.edge.intro] \in Authors
    BY <1>2, SzzAssumption DEF Pairs, Edges
  <2>2. ASSUME NEW x
        PROVE  x \in In(UNION {ClearOf(a, flagged) : a \in Authors}, k) <=> x \in ClearsIn(T, flagged, k)
    BY <1>5, <2>1 DEF In, ClearsIn, ClearOf, Of
  <2>3. In(UNION {ClearOf(a, flagged) : a \in Authors}, k) = ClearsIn(T, flagged, k)
    BY <2>2
  <2>. QED
    BY <1>2, <1>3, <2>3, CategoriesAdd
<1>11. SumFunction(rep.totals.statuses) = Cardinality(Fixes)
       /\ rep.totals.edges = rep.totals.code + rep.totals.vicinity
  BY <1>3, StatusesAdd, EdgesAdd
<1>. QED
  BY <1>3, <1>8, <1>9, <1>10, <1>11 DEF RightReport

ReportInv == report # Null => left = {} /\ RightReport(report)

(* What szz.py reports are counts of the edges it found, whatever the order   *)
(* the workers end in, and that order chooses between equals only when the    *)
(* report is cut: nobody left out has more introductions than one who is in   *)
(* it, and no category of his more than the dominant one.                     *)
THEOREM ReportsCountTheEdges == SzzSpec => []ReportCountsTheEdges
<1>1. SzzInit => ReportInv
  BY DEF SzzInit, ReportInv
<1>2. SzzInv /\ ReportInv /\ [SzzNext]_szz => ReportInv'
  <2>. SUFFICES ASSUME SzzInv, ReportInv, [SzzNext]_szz PROVE ReportInv'
    OBVIOUS
  <2>. USE DEF RightReport, RightRow, EdgesOf, AddressesOf, ClearOf, In
  <2>1. ASSUME NEW f, NEW r, Ends(f, r) PROVE ReportInv'
    BY <2>1 DEF Ends, ReportInv
  <2>2. ASSUME NEW flagged, NEW exposed, Report(flagged, exposed) PROVE ReportInv'
    <3>. DEFINE rep == report'
    <3>1. left = {} /\ left' = left /\ results' = results
      BY <2>2 DEF Report
    <3>2. RightReport(rep)
      <4>. HIDE DEF rep
      <4>. USE DEF RightReport
      <4>1. PICK listed \in Best(LISTED, Introductions(aggregate(flagged))) :
              \E rows \in [listed -> UNION {AuthorRows(aggregate(flagged), a, exposed) : a \in listed}] :
                /\ \A a \in listed : rows[a] \in AuthorRows(aggregate(flagged), a, exposed)
                /\ rep = [flagged |-> flagged, exposed |-> exposed, totals |-> Totals,
                          categories |-> global_cat(aggregate(flagged)), authors |-> rows]
        BY <2>2 DEF Report, rep
      <4>2. PICK rows \in [listed -> UNION {AuthorRows(aggregate(flagged), a, exposed) : a \in listed}] :
              /\ \A a \in listed : rows[a] \in AuthorRows(aggregate(flagged), a, exposed)
              /\ rep = [flagged |-> flagged, exposed |-> exposed, totals |-> Totals,
                        categories |-> global_cat(aggregate(flagged)), authors |-> rows]
        BY <4>1
      <4>3. DOMAIN rows = listed
        BY <4>2
      <4>4. /\ \A a \in listed : rows[a] \in AuthorRows(aggregate(flagged), a, exposed)
            /\ rep = [flagged |-> flagged, exposed |-> exposed, totals |-> Totals,
                      categories |-> global_cat(aggregate(flagged)), authors |-> rows]
        BY <4>2
      <4>. HIDE DEF RightReport
      <4>. QED
        BY <3>1, <4>3, <4>4, ReportWritten
    <3>3. RightReport(report)' <=> RightReport(rep)
      BY <3>1
    <3>. QED
      BY <3>1, <3>2, <3>3 DEF ReportInv
  <2>3. CASE UNCHANGED szz
    <3>1. left' = left /\ results' = results /\ report' = report
      BY <2>3 DEF szz
    <3>2. RightReport(report)' <=> RightReport(report)
      BY <3>1
    <3>. QED
      BY <3>1, <3>2 DEF ReportInv
  <2>. QED
    BY <2>1, <2>2, <2>3 DEF SzzNext, Process, DiffFails
<1>3. ReportInv => ReportCountsTheEdges
  BY DEF ReportInv, RightReport, RightRow, ReportCountsTheEdges
<1>. QED
  BY <1>1, <1>2, <1>3, SzzInvHolds, PTL DEF SzzSpec
===============================================================================
