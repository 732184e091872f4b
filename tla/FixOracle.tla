------------------------------- MODULE FixOracle -------------------------------
(***************************************************************************)
(* The security-fix oracle from fetched patches to the two tables: phases  *)
(* 3 to 7 of src/security-fix-oracle/harness.  One operator runs one tool  *)
(* at a time, any of them again and in any order its files allow; agents   *)
(* write verdicts and scores meanwhile.  What the tools tell each other is *)
(* files that outlive a run: an append-only log of patches, an input file  *)
(* and batch slices that are overwritten, answers that are appended to,    *)
(* and two tables that are rewritten in place.                             *)
(***************************************************************************)
EXTENDS Naturals, Sequences, FiniteSets, SequencesExt

CONSTANTS
  Commits,       \* the corpora's commits: the numbers their hashes sort by
  Gold,          \* verified from their diff in phase 1
  Flagged,       \* security fixes by their message, and the re-gate
  Ruby, FrontEnd,   \* those that touch Ruby, and other code
  Hunk,          \* lines of the patch: "ctx", "del", "note" (deleted comment), "add"
  None, Ghost,   \* Ghost: a hash an agent made up
  BATCH_SIZE,
  MaxFaults,     \* bound: timeouts, failures, crashes, made up hashes
  MaxLines       \* bound: lines of an answer file

Blames == {"ok", "blame-empty", "no-introducer", "addition-only-vicinity", "addition-only",
           "diff-fail"}

ASSUME OracleAssumption ==
  /\ Commits \subseteq Nat /\ IsFiniteSet(Commits) /\ Commits # {}
  /\ Gold \subseteq Commits /\ Flagged \subseteq Commits
  /\ Ruby \subseteq Commits /\ FrontEnd \subseteq Commits
  /\ Hunk \in [Commits -> Seq({"ctx", "del", "note", "add"})]
  /\ None \notin Commits /\ Ghost \notin Commits /\ None # Ghost
  /\ None \notin Blames
  /\ BATCH_SIZE \in Nat \ {0} /\ MaxFaults \in Nat /\ MaxLines \in Nat

(* diff_status; hollow is ok-nonruby with an empty diff beside it. *)
Statuses == {"not-fetched", "ok", "empty", "timeout", "error", "ok-nonruby", "hollow"}
Verdict == [secure : BOOLEAN, abbreviated : BOOLEAN]
Batches == 0 .. (Cardinality(Commits) - 1) \div BATCH_SIZE

VARIABLES
  last, torn,        \* commit-diffs.jsonl: last status of each commit; ends in half a line
  fetching,          \* commits fetch_diffs.py is at
  prepping,          \* patches prep_nonruby.py has to append
  input, verdicts,   \* nonruby-analysis-input.json, analysis/nonruby-*.jsonl
  master, enriched,  \* security-commits.parquet, with CVSS columns
  slices, answers,   \* analysis/cvss-batch-*.json, analysis/cvss-*.jsonl
  cvss, columns,     \* security-commits-cvss.parquet, its optional columns
  faults,
  lost, mixed        \* history: front-end patches the log has not got; answers out of order

log == <<last, torn, fetching, prepping, lost>>
phase4 == <<input, verdicts>>
tables == <<master, enriched, cvss, columns>>
scoring == <<slices, answers, mixed>>
vars == <<log, phase4, tables, scoring, faults>>

Running == fetching # {} \/ prepping # {}
Fault == faults < MaxFaults /\ faults' = faults + 1
-------------------------------------------------------------------------------
(* fetch_diffs.py: patches are appended in the order they come.               *)

(* Mutant of Append1: the first line of a commit is the one a build keeps. *)
Append1First(c, status) ==
  /\ torn' = FALSE
  /\ last' = IF torn \/ last[c] # "not-fetched" THEN last ELSE [last EXCEPT ![c] = status]

(* A line after a torn one is part of it, and neither can be parsed.  A build *)
(* keeps the last line of a commit.                                           *)
Append1(c, status) ==
  /\ torn' = FALSE
  /\ last' = IF torn THEN last ELSE [last EXCEPT ![c] = status]

(* Mutant of Done: a patch of another language may get better. *)
DoneEmptyOnly == {c \in Commits : last[c] = "empty"}

Done == {c \in Commits : last[c] \in {"ok", "empty"}}

StartFetch ==
  /\ ~Running /\ fetching' = Commits \ Done
  /\ UNCHANGED <<last, torn, prepping, lost, phase4, tables, scoring, faults>>

(* git diff fails without an exception: no output, and the status is empty.   *)
Fetch(c) ==
  /\ c \in fetching /\ fetching' = fetching \ {c}
  /\ \/ Append1(c, IF c \in Ruby THEN "ok" ELSE "empty") /\ faults' = faults
     \/ \E status \in {"timeout", "error", "empty"} : Append1(c, status) /\ Fault
  /\ lost' = IF last[c] = "ok-nonruby" THEN lost \cup {c} ELSE lost
  /\ UNCHANGED <<prepping, phase4, tables, scoring>>
-------------------------------------------------------------------------------
(* prep_nonruby.py, from the table as it was built.  A fix for which git diff *)
(* names no files is dropped; one for which it then fails is kept, with an    *)
(* empty patch.                                                               *)

candidates ==
  {c \in Commits : master[c].status \in {"empty", "timeout"} /\ master[c].regate}

StartPrep ==
  /\ ~Running /\ master # None
  /\ \/ input' = candidates \cap FrontEnd /\ faults' = faults
     \/ \E c \in candidates \cap FrontEnd : input' = (candidates \cap FrontEnd) \ {c} /\ Fault
  /\ prepping' = input'
  /\ UNCHANGED <<last, torn, fetching, lost, verdicts, tables, scoring>>

AppendPatch(c) ==
  /\ c \in prepping /\ prepping' = prepping \ {c}
  /\ \/ Append1(c, "ok-nonruby") /\ faults' = faults
       /\ lost' = IF torn THEN lost \cup {c} ELSE lost
     \/ Append1(c, "hollow") /\ Fault /\ lost' = lost \cup {c}
  /\ UNCHANGED <<fetching, phase4, tables, scoring>>

(* fetch_diffs.py or prep_nonruby.py is killed, between two lines or in one.  *)
Crash ==
  /\ Running /\ Fault
  /\ fetching' = {} /\ prepping' = {} /\ torn' \in {torn, TRUE}
  /\ lost' = lost \cup prepping
  /\ UNCHANGED <<last, phase4, tables, scoring>>

(* An agent reads the patch; it may abbreviate the hash. *)
Analyse(c, v) ==
  /\ c \in input /\ verdicts[c] = None
  /\ verdicts' = [verdicts EXCEPT ![c] = v]
  /\ UNCHANGED <<log, input, tables, scoring, faults>>
-------------------------------------------------------------------------------
(* build_parquet.py: everything anew from the files.                          *)

(* load_nonruby: an abbreviated hash is looked up in the input file.          *)
Resolved(c) == verdicts[c] # None /\ (verdicts[c].abbreviated => c \in input)

Labelled(c) ==
  [regate |-> c \in Flagged, nonruby |-> FALSE, status |-> last[c],
   language |-> IF c \in Gold THEN "ruby" ELSE "none", score |-> None]

(* The verdict of an agent that has read the patch overrides. *)
Overlaid(c, row) ==
  IF ~Resolved(c) THEN row
  ELSE IF verdicts[c].secure
    THEN [row EXCEPT !.regate = TRUE, !.nonruby = TRUE, !.language = "other"]
    ELSE [row EXCEPT !.regate = FALSE]

Languaged(row) ==
  IF row.language = "none" /\ row.status = "ok" THEN [row EXCEPT !.language = "ruby"]
  ELSE row

Build ==
  /\ ~Running
  /\ master' = [c \in Commits |-> Languaged(Overlaid(c, Labelled(c)))]
  /\ enriched' = FALSE
  /\ UNCHANGED <<log, phase4, cvss, columns, scoring, faults>>
-------------------------------------------------------------------------------
(* Phase 6: cvss_score.py --prep, the scoring agents, fix_shas.py.            *)

load_filtered ==
  {c \in Commits : /\ master[c].regate /\ master[c].language # "ruby"
                   /\ master[c].status \notin {"empty", "timeout"}}

bucket(c) == IF c \in Gold THEN 0 ELSE IF master[c].status \in {"ok", "ok-nonruby"} THEN 1 ELSE 2
before ==
  {p \in Commits \X Commits :
     bucket(p[1]) < bucket(p[2]) \/ (bucket(p[1]) = bucket(p[2]) /\ p[1] < p[2])}

(* The elements of S one after the other: the k-th has k - 1 before it.       *)
Ordered(S, order) ==
  [k \in 1..Cardinality(S) |->
     CHOOSE x \in S : Cardinality({y \in S : <<y, x>> \in order}) = k - 1]

Sorted == Ordered(load_filtered, before)

(* A slice is overwritten; those past the end stay. *)
Sliced(b) ==
  IF b * BATCH_SIZE < Len(Sorted)
    THEN SubSeq(Sorted, b * BATCH_SIZE + 1, Min({(b + 1) * BATCH_SIZE, Len(Sorted)}))
    ELSE slices[b]

PrepBatches ==
  /\ ~Running /\ master # None
  /\ slices' = [b \in Batches |-> Sliced(b)]
  /\ mixed' = (mixed \/ \E b \in Batches : answers[b] # <<>> /\ slices'[b] # slices[b])
  /\ UNCHANGED <<log, phase4, tables, answers, faults>>

(* Every line so far is of a commit before the k-th of the slice. *)
GoesOn(b, k) ==
  \A line \in ToSet(answers[b]) : \E j \in 1..(k - 1) : line.of = slices[b][j]

(* An agent appends a line for the k-th commit of its slice.  It should take  *)
(* them in order and leave out those it finds in the file; it may stop, pass  *)
(* some over, or come back to one.  A hash may come out wrong, a vector       *)
(* malformed.                                                                 *)
Answer(b, k) ==
  LET c == slices[b][k]
      right == [sha |-> c, of |-> c, valid |-> TRUE] IN
  /\ Len(answers[b]) < MaxLines
  /\ \/ answers' = [answers EXCEPT ![b] = Append(@, right)] /\ faults' = faults
     \/ \E wrong \in {[right EXCEPT !.sha = Ghost], [right EXCEPT !.valid = FALSE]} :
          answers' = [answers EXCEPT ![b] = Append(@, wrong)] /\ Fault
  /\ mixed' = (mixed \/ (Len(answers[b]) < Len(slices[b]) /\ ~GoesOn(b, k)))
  /\ UNCHANGED <<log, phase4, tables, slices>>

(* Mutant of Anchored: the first line is a header. *)
AnchoredLate(b) ==
  [i \in DOMAIN answers[b] |->
     IF i - 1 \in DOMAIN slices[b] THEN [answers[b][i] EXCEPT !.sha = slices[b][i - 1]]
     ELSE answers[b][i]]

(* fix_shas.py: the place of a line in the file says which commit it is for.  *)
Anchored(b) ==
  [i \in DOMAIN answers[b] |->
     IF i \in DOMAIN slices[b] THEN [answers[b][i] EXCEPT !.sha = slices[b][i]]
     ELSE answers[b][i]]

(* It warns, and goes on. *)
Warned(b) == Len(answers[b]) # Len(slices[b])
PassedOver(b) ==
  \E i \in DOMAIN answers[b] \cap DOMAIN slices[b] : answers[b][i].of # slices[b][i]

FixShas ==
  /\ ~Running /\ answers' = [b \in Batches |-> Anchored(b)]
  /\ mixed' = (mixed \/ \E b \in Batches : Warned(b) /\ PassedOver(b))
  /\ UNCHANGED <<log, phase4, tables, slices, faults>>
-------------------------------------------------------------------------------
(* cvss_aggregate.py and szz_parquet.py.                                      *)

(* load_jsonl: the last line of the last file. *)
Places(c) ==
  {p \in Batches \X (1..MaxLines) :
     p[2] \in DOMAIN answers[p[1]] /\ answers[p[1]][p[2]].sha = c}
LineOf(c) ==
  CHOOSE p \in Places(c) : \A q \in Places(c) : q[1] < p[1] \/ (q[1] = p[1] /\ q[2] <= p[2])

(* A malformed vector is no score. *)
ScoreOf(c) ==
  LET line == answers[LineOf(c)[1]][LineOf(c)[2]] IN
  IF Places(c) # {} /\ line.valid THEN line.of ELSE None
SomeLines == \E b \in Batches : answers[b] # <<>>

CvssRowOf(c) ==
  [regate |-> master[c].regate, status |-> master[c].status, score |-> master[c].score,
   blame |-> None]

(* Mutant of Aggregate: columns other tools have added are kept. *)
AggregateKeeps ==
  /\ ~Running /\ master # None /\ SomeLines
  /\ master' = [c \in Commits |-> [master[c] EXCEPT !.score = ScoreOf(c)]]
  /\ cvss' = [c \in Commits |->
               IF ~master[c].regate THEN None
               ELSE [(CvssRowOf(c))' EXCEPT !.blame = IF cvss[c] = None THEN None
                                                     ELSE cvss[c].blame]]
  /\ enriched' = TRUE /\ columns' = IF columns = "szz" THEN columns ELSE "cvss"
  /\ UNCHANGED <<log, phase4, scoring, faults>>

(* Both tables anew: the second one is the flagged rows of the first.         *)
Aggregate ==
  /\ ~Running /\ master # None /\ SomeLines
  /\ master' = [c \in Commits |-> [master[c] EXCEPT !.score = ScoreOf(c)]]
  /\ cvss' = [c \in Commits |-> IF master[c].regate THEN (CvssRowOf(c))' ELSE None]
  /\ enriched' = TRUE /\ columns' = "cvss"
  /\ UNCHANGED <<log, phase4, scoring, faults>>

(* --only-cvss.  A column that the other table has not got is an error.       *)
OnlyCvss ==
  /\ ~Running /\ columns = "cvss" /\ enriched /\ SomeLines
  /\ cvss' =
       [c \in Commits |->
          IF cvss[c] # None
            THEN IF ScoreOf(c) = None THEN cvss[c] ELSE [cvss[c] EXCEPT !.score = ScoreOf(c)]
          ELSE IF ~master[c].regate /\ master[c].language # "ruby" THEN CvssRowOf(c)
          ELSE None]
  /\ UNCHANGED <<log, phase4, master, enriched, columns, scoring, faults>>

(* parse_diff: numbers, in the old file, of deleted code and of the lines     *)
(* next to an insertion.                                                      *)
OldLine(h, i) == Cardinality({j \in 1..i : h[j] # "add"})
code_dels(h) == {OldLine(h, i) : i \in {j \in DOMAIN h : h[j] = "del"}}
vicinity(h) ==
  {OldLine(h, i) : i \in {j \in DOMAIN h :
                         h[j] = "ctx" /\ \E k \in {j - 1, j + 1} \cap DOMAIN h : h[k] = "add"}}

(* process: whom git blame names for them, when it answers in time and knows  *)
(* the lines.                                                                 *)
BlameOf(c, answer) ==
  IF code_dels(Hunk[c]) # {}
    THEN CASE answer = "names" -> "ok" [] answer = "fails" -> "blame-empty"
           [] answer = "nobody" -> "no-introducer"
  ELSE IF vicinity(Hunk[c]) # {} /\ answer = "names" THEN "addition-only-vicinity"
  ELSE "addition-only"

HasPatch(status) == status \in {"ok", "ok-nonruby", "hollow"}

Blamed(blame) ==
  cvss' = [c \in Commits |->
             IF cvss[c] = None THEN None
             ELSE [cvss[c] EXCEPT !.blame = IF HasPatch(cvss[c].status) THEN blame[c] ELSE None]]

(* git diff may take too long; it may also fail without an exception: then    *)
(* there is no patch to read.                                                 *)
Szz ==
  /\ ~Running /\ columns # "none"
  /\ \/ Blamed([c \in Commits |-> BlameOf(c, "names")]) /\ faults' = faults
     \/ \E d \in Commits :
          \E wrong \in {BlameOf(d, "fails"), BlameOf(d, "nobody"), "diff-fail", "addition-only"} :
            Blamed([c \in Commits |-> IF c = d THEN wrong ELSE BlameOf(c, "names")]) /\ Fault
  /\ columns' = "szz"
  /\ UNCHANGED <<log, phase4, master, enriched, scoring>>
-------------------------------------------------------------------------------
Init ==
  /\ last = [c \in Commits |-> "not-fetched"] /\ torn = FALSE
  /\ fetching = {} /\ prepping = {}
  /\ input = {} /\ verdicts = [c \in Commits |-> None]
  /\ master = None /\ enriched = FALSE
  /\ slices = [b \in Batches |-> <<>>] /\ answers = [b \in Batches |-> <<>>]
  /\ cvss = [c \in Commits |-> None] /\ columns = "none"
  /\ faults = 0 /\ lost = {} /\ mixed = FALSE

Next ==
  \/ StartFetch \/ \E c \in Commits : Fetch(c)
  \/ StartPrep \/ \E c \in Commits : AppendPatch(c)
  \/ Crash
  \/ \E c \in Commits, v \in Verdict : Analyse(c, v)
  \/ Build
  \/ PrepBatches
  \/ \E b \in Batches : \E k \in DOMAIN slices[b] : Answer(b, k)
  \/ FixShas \/ Aggregate \/ OnlyCvss \/ Szz

Spec == Init /\ [][Next]_vars
-------------------------------------------------------------------------------
(* Types of the state; a score is the commit that was scored, or None.        *)
IsRow(row) ==
  row \in [regate : BOOLEAN, nonruby : BOOLEAN, status : Statuses,
          language : {"ruby", "other", "none"}, score : {row.score}]
IsCvssRow(row) ==
  row \in [regate : BOOLEAN, status : Statuses, score : {row.score}, blame : Blames \cup {None}]
TypeOK ==
  /\ last \in [Commits -> Statuses] /\ torn \in BOOLEAN
  /\ fetching \subseteq Commits /\ prepping \subseteq FrontEnd
  /\ input \subseteq FrontEnd /\ verdicts \in [Commits -> Verdict \cup {None}]
  /\ master # None => DOMAIN master = Commits /\ \A c \in Commits : IsRow(master[c])
  /\ DOMAIN cvss = Commits /\ \A c \in Commits : cvss[c] # None => IsCvssRow(cvss[c])
  /\ enriched \in BOOLEAN /\ columns \in {"none", "cvss", "szz"}
  /\ faults \in 0..MaxFaults /\ lost \subseteq Commits /\ mixed \in BOOLEAN

(* A Ruby patch that was fetched stays the one a build reads: later runs of   *)
(* fetch_diffs.py leave it alone, and of prep_nonruby.py too unless the table *)
(* it works from was built before the patch came.                             *)
RubyPatchIsKept ==
  [][\A c \in Commits :
       last[c] = "ok" /\ last'[c] # "ok" =>
         c \in prepping /\ master[c].status \in {"empty", "timeout"}]_vars

(* A row confirmed from a front-end patch has that patch, unless the log lost *)
(* it, or never got it: fetch_diffs.py ran again, prep_nonruby.py was killed, *)
(* or git diff failed in it.                                                  *)
ConfirmedHasItsPatch ==
  master # None =>
    \A c \in Commits : master[c].nonruby => master[c].status = "ok-nonruby" \/ c \in lost

ScoresFit ==
  /\ master # None => \A c \in Commits : master[c].score \in {c, None}
  /\ \A c \in Commits : cvss[c] # None => cvss[c].score \in {c, None}

(* A score is that of the row's own commit, whatever hashes agents make up,   *)
(* wherever they stop and whatever they pass over, unless the order the       *)
(* repair counts on is lost, or its warning unheeded: an agent came back to a *)
(* commit, a batch that was begun was sliced anew, or fix_shas.py went on     *)
(* with a file of another length than its slice in which one is passed over.  *)
ScoreIsOfItsCommit == mixed \/ ScoresFit

(* The blame columns are of the rows beside them: a row has them exactly when *)
(* its status is that of one with a patch, or the table has none.             *)
BlameMatchesPatch ==
  \A c \in Commits :
    cvss[c] # None =>
      (cvss[c].blame # None <=> columns = "szz" /\ HasPatch(cvss[c].status))
===============================================================================
