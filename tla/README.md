# TLA+ models of the stateful programs in skillsmd

The repository is a collection of agent skills. Most of it is text and worked
examples; some skills carry programs that keep state over long, interrupted,
many-worker campaigns, in files and databases that several processes share and
that language models write into. This directory models those programs:

- `vrdb`, the Go harness around the DuckDB audit database of `vuln-research`;
- the vulnerability corpus, `corpus.py` of `scrape-code-vulnerability-corpus`;
- the merge request watchers of `hermes-mr-watch`;
- the security-fix oracle, `security-fix-oracle/harness`;
- the CodeQL hunts and the query grader of `vuln-research/rules/ruby/tools`.

`PROJECT.json` lists the components, the runs, the mutants, the source lines each
definition stands for, the hazards at their lines, and the theorems.

## 1. Inventory

| part | state it keeps | operations | how it interacts | what makes it correct |
|---|---|---|---|---|
| finding write path (`vuln-research/db/harness/put.go`, `verbs.go`, `policy.go`) | `gr_findings`, `refutations`, `critic_findings`, `impact_proofs`, `mutation_log`, a sequence per table | `PutCounts`, `ImpactProof`, `Promote`, `Exec` | agents write through one process at a time; each verb is one transaction | no distinct finding is lost, none is confirmed without its evidence, the log tells each flip |
| rounds, steps, process gate (`verbs.go`, views of `schema.sql`) | `round_ledger`, `agent_steps`, `agent_observations` | `Put` of rounds, rosters, observations; `CloseStep`; `Exec`; `Gate` | the orchestrator materialises lanes per round, lanes report back, the gate decides when the campaign may stop | green only for documented work of the current round |
| merge request watchers (`hermes-mr-watch/scripts`) | a locked JSON state file each | `run_once` | cron runs that may overlap; a remote API that may fail | the last good state survives; a merge is reported |
| corpus: fetch (`corpus.py` 400-1090) | `urls`, `hosts` (with a copy of robots.txt), `fetches` | `add-url`, `fetch` | scouts on one SQLite file; the web | a URL's state rests on its rows; robots.txt is obeyed |
| corpus: documents and cases (`corpus.py` 570-800, 1380-1720, 2350-2440) | `documents`, `code_cases`, `reviews`, `live_test_reports` in two databases | `ingest`, `recover`, `review`, reports, `groups` | scouts, reviewers and outsiders | a case is about the excerpt it names; groups are the connected families |
| corpus: init, extraction, export (`corpus.py` 840-930, 1090-1180, 2430-2550) | the two files, Markdown runs, the export directory | `init`, `extract`, `ingest`, `export` | processes side by side | one language; spans point into the right text; an export is one state |
| oracle: tables (`security-fix-oracle/harness`) | a log of patches, inputs and slices, answers, two parquet tables | `fetch_diffs`, `prep_nonruby`, `build_parquet`, `cvss_score --prep`, `fix_shas`, `cvss_aggregate`, `szz_parquet` | tools and agents hand each other files that outlive a run | the tables say of a commit what was found out about it |
| oracle: introducers (`harness/szz.py`) | results of workers, the report | `parse_diff`, `attribute`, `process`, `main` | a pool of workers over git | an edge is to a commit that wrote what the fix took out |
| CodeQL hunts (`codeql_validation/*.sh`, `verdict.py`, ...) | worktrees, databases, SARIF files, the verdicts file | the two hunts, `snapshot_select`, `verdict`, `sarif_to_findings` | scripts that are run again over what earlier runs left | a verdict is of the queries that ran; nothing is left on disk |
| query grader (`grade_query.py`) | none | `extract_signals`, `classify` | an author edits and grades again | the grade moves with the evidence |
| completion verdict, selftest, database file, tool wrapper, schema application, command line of `vrdb` | see PROJECT.json | | | not modelled, see section 7 |

What is hard here, across all of them:

- a process stops between two steps, and the next one finds half of its work
  (`vrdb` verbs, watchers, `fetch_diffs.py`, the hunts, `init`, `export`);
- two processes read, work for minutes and then write (watchers, scouts, inits);
- rows and files outlive what they were made from: a state file and a replayed
  batch, a SARIF file of older queries, a slice that was cut anew, Markdown of
  another Defuddle, the row id of a deleted case given out again;
- the order of calls is decided by people, cron or a language model;
- answers come in another order than they were asked for, or not at all.

## 2. Modules

| module | what it is |
|---|---|
| `FindingLifecycle` | abstract: status and evidence of a finding, and the one rule by which it becomes confirmed |
| `FindingLedger` | the tables, transactions statement by statement, crashes, raw UPDATEs; implements `FindingLifecycle` |
| `StepLedger` | rounds, lanes, steps, observations, the views of the process gate |
| `MrWatch` | both watchers, GitLab, lock, state file, report |
| `CorpusFetch` | frontier, hosts, robots.txt, the ladder of fetches |
| `CorpusText` | pure: fenced blocks, `correspond`, `symbol_extents`, the choice `recover` makes; used by `CorpusStore` |
| `CorpusStore` | documents, cases, reviews and reports in two databases, groups |
| `CorpusExport` | init of the files, Markdown and spans, the export |
| `FixOracle` | phases 3 to 7, file by file |
| `SzzBlame` | parsing a patch, blaming, adding up |
| `FixHunt` | both hunts over disk, SARIF files, verdicts and findings |
| `QueryGrade` | signals, scores, grade |
| `FindingLedgerProofs`, `StepLedgerProofs`, `MrWatchProofs`, `CorpusFetchProofs`, `CorpusStoreProofs`, `CorpusExportProofs`, `FixOracleProofs`, `FixHuntProofs` | the theorems |
| `MC...` | an instance of each for TLC |

A variable has the name of the table, file or local variable it stands for. An
action is one step between two points at which another process can come in or a
crash can leave something behind: one SQL transaction, one request, one file
replaced, one line appended. What only a property needs is marked `history`.

### FindingLedger

`disk` is the committed database, `db` what the open transaction sees, `call` the
verb that runs it. A verb of several writing statements is several actions:
`PutBegin`, then `PutInsert`, `PutSkip` or `PutReject` for each row, then
`PutCommit`; `PromoteFlip` (the five checks and the UPDATE), then `PromoteCommit`
(the `mutation_log` row and the commit). `ImpactProof` and a raw `Exec` write one
statement. `Crash` ends any open transaction. Only one transaction is ever open:
a pool of one connection (`vrdb.go:55`) and DuckDB's file lock between processes.

- `RowRejected` is all that aborts a batch: the born-confirmed lockout, the
  content-checked dedup, the foreign key pre-validation. `RowConflicts` is what ON
  CONFLICT DO NOTHING swallows. `AssignId` takes an id from the sequence before
  the insert is tried, so a skipped row uses one up. `Rollback` lets the sequence
  keep or take back ids: nothing in `src/` says what DuckDB does, so both happen.
- A row may name its id (`ExplicitIds`) or leave it to the sequence, which an explicit
  id does not move. A row is acknowledged with the id it was tried under (`WithId`), so
  that `AckedContentStored` can say when it was dropped. When the driver cannot report
  RowsAffected, a skipped row counts as inserted (`PutSkipUnreported`).
- A finding may have several proofs, of other consumers and with other caps, or none;
  `MaxCap` is SQL's MAX over their names as text, which passes over NULL.
- A finding is its hash, one semantic column (`body`, which a row may leave out),
  its status and its severity. The rigor tier is written and never read with the
  severity, so it is no field. One refutation per finding and the eligibility
  check of the critic are all that `promote` reads. `impact_proofs` is outside
  Put's allowlist. `notes` are `mutation_log` rows of callers, apart from `flips`.
- The values 0 and "" for a foreign key skip the pre-validation and are refused a
  few lines on with the same rollback; they are not inputs. That two strings which
  parse as one number are equal to `normalizeScalar` is not modelled.

### StepLedger

A verb is one action: `FindingLedger` shows what atomicity gives, and this module is
about sequences of verbs. A step is found by its `step_hash`, which is a name and,
for round-keyed names, the round: `plan-roster-<lane>` of
`references/v2/db-logging-and-context.md` §13 and the `-r<round_id>` form of
`schema.sql:2343`. The gate's views are operators with the views' names.
`InCurrentRound` is the scoping expression of the views, and `CurrentRoundOf` keeps
what SQL makes of a NULL. Of the metrics over other tables, those that read what
steps say of fuzz runs and regexes are there (`PutFuzzRun`, `PutRegex`): a fuzz lane
that closes without a run, or a closed enumeration lane while no regex is recorded,
turns the gate red. `Required`, `StuckLanes` and `RosterLanes` are three constants
because the schema writes the roster down three times. There is one target; the
gate's SELECTs run on the only connection and are read as one state.

### MrWatch

A run takes the `flock` and reads the file (`Begin`), asks for one merge request
after the other (`FetchOk`, `FetchFails`), replaces the file (`Persist`) and prints
(`PrintReport`). `Die` may come at any point, and the kernel drops the lock. A merge
request is everything GitLab ever said of it, so that a run's answers are positions
in it and "older" has a meaning. The two scripts differ in what they store
(`Record`), in what a failed request leaves (`LastGood`, `pair_state`) and in the
line (`LineOf`); the rest is one definition for both. A merge request may have a
`changes_count` that does not convert (`counted`): then an answer arrives and is a
failure all the same, every time (`Usable`).

### CorpusFetch

`cmd_fetch` of one process is the record `scout[s]`, whose `stage` says which
statement comes next: vetting a host and its copy of robots.txt, reading and storing
a new copy, the request and its redirects, the row, the headless and the headed
browser. Nothing locks a URL, so two scouts may be on one (`disturbed`).
`robots_permit` is RFC 9309 as `robots_match` does it: longest match, Allow on a
tie. What a page is matters only as readable, thin or none. The tool asks for one
address at a time, each after it was vetted. A browser is given a vetted address,
and the page it renders may then ask for any others, of any host (`Browsed`);
nothing vets these but the test of the final address for being internal. `requests`
keeps the two apart: by "tool" and by "page".

### CorpusText and CorpusStore

`CorpusText` compares code: a line is its indentation and its tokens, and does one
thing (opens, closes, begins a definition, is a gap, ...). `excerpt in reference` is
a substring: the first line of an excerpt may be the tail of a line and its last one
the head of one (`Verbatim`). Marker tokens, such as a line number, are stripped
where the code strips them. `correspond` is the greedy search of the code, a cursor
that moves over the positions of the lines that count; `symbol_extents` finds
definitions by braces or by indentation; `recovered` is what `cmd_recover` makes of
them, ambiguous included.

`CorpusStore` runs `ingest` and `recover` in the steps they have: what is read and
checked before the write lock (`IngestReads`, `RecoverReads`, `RecoverCompares`),
then the one transaction. Row ids are given out as SQLite does, one more than the
largest there is, so ids of deleted cases come back. `compute_groups` is the
union-find of the code over identifiers and over code that is not boilerplate.
`FromExists` is the foreign key a recovered case is inserted under; a re-judgment is
refused while a report, or a case recovered for another document, holds a case of
it.

### CorpusExport

`init` checks both files, then makes or passes over each (`InitChecks`, `InitSkips`,
`InitFills`, `InitLinks`). `Extract` takes the newest Markdown or starts Defuddle,
whose result comes later (`ExtractEnds`), and `Ingest` locates its quotes in that
text. An export reads one snapshot, writes record by record and ends with the
manifest; an error removes the directory, a kill does not.

### FixOracle

One operator runs one tool at a time, in any order the files allow, and agents
answer meanwhile. `last` is the log of patches as a build reads it (the last line of
a commit that parses), `torn` a half line at its end. `Build` makes the table anew;
`PrepBatches`, `Answer` and `FixShas` are the scoring by position: an agent may
answer for any commit of its slice at any time, pass some over, come back to one or
make a hash up (`Answer`), and `fix_shas.py` warns when the lengths differ and
rewrites all the same (`Warned`); `Aggregate`, `OnlyCvss` and `Szz` rewrite the
tables in place. A score is the commit that was scored, so that a swap shows.
`Ordered` puts a set into a sequence by a given order: `Sorted` is the table by
`sort_key`. The status `hollow` is `ok-nonruby` with an empty diff beside it, which
the code writes after a git diff that failed.

### SzzBlame

`parse_diff` reads the lines of a patch one by one with the variables of the code
(`cur`, `oldno`, the events of the hunk): a recursive function over the number of
lines read. A patch is any sequence of lines that git may print (`Printed`): a hunk
header comes after a file header or the lines of the hunk before, the lines of a
hunk after its header. `process` is one worker; results are appended in the order
workers end, and `aggregate` adds the edges of one after the other up in that order.
The lists that the report cuts (authors, their categories, their lifts, the dominant
category) are any choice of the best (`Best`, with `LISTED`, `TOP` and `GAPS` as
lengths), since a stable sort and `most_common` leave equals in the order of the
workers. A git diff that fails is `diff-fail` when it raises, and an addition-only
result when it only exits with an error (`DiffFails`). Its specification is
`SzzSpec`, since `FixOracleProofs` extends both modules; likewise `GradeSpec` of
`QueryGrade`, which `FixHuntProofs` extends beside `FixHunt`.

### FixHunt

A job of `incomplete_fix_hunt.sh` goes through the stages check, two worktrees, two
builds, two analyses, verdict and clean-up; each may fail, and `Kill` ends the run.
The SARIF file of a tree is the version of the queries it is of. `Judge` is
`verdict.py` with the ranges of the manifest. A run takes the first `Limit` jobs of
the worklist (`LastJob`), whether they have verdicts or not, and the manifest lists
the fixes in `Scope`: a fix outside it goes through the whole job and gets no
verdict. `StartHead`, `HeadAnalyze`, `HeadFails` and `HeadParse` are
`full_variant_hunt.sh`, which by its memory contract does not run beside the other;
it parses whatever SARIF files are there, and nothing without any (`Reported`).
Queries are edited by people at any time (`Edit`), who also write the manifest
(`Select`), perhaps only in part (`SelectPart`).

### QueryGrade

A query is the set of signals that the grader's expressions find, and how many
method names it matches. Scores are in half points. `Implied` and `Fits` say what
one signal says of another in the same text, so only sets that a text can have
occur. The actions are the edits of an author.

## 3. Runs

All pass but `null_round`.

| run | question | properties |
|---|---|---|
| `ledger` | batches of two rows into three tables, ids given or not, counts that fail, proofs, promotions, a crash anywhere | `KeysHoldThroughout`, `AckedContentStored`, `PutCountsAreTrue`, `ImplementsLifecycle` |
| `ledger_exec` | the same with raw refutations, put log rows, two proofs of one finding with any caps | `ConfirmedIsJustified`, `DosOnlyCapsSeverity` |
| `steps` | two rounds of the enumeration lane and the fuzz lane, with fuzz runs and regexes | `ClosedIsDocumented`, `AckedRosterIsCurrent`, `GreenIsEarned`, `CloseKeepsGreen` |
| `null_round` (violated) | is the gate scoped to the round when steps come without a `round_id`? | `GreenIsEarned` |
| `watch` | two overlapping runs of one watcher beside one of the other, over two merge requests that both change, one perhaps too large to count | `LastGoodIsKept`, `PersistBeforeReport`, `NoStaleAnswer`, `MergeIsReported` |
| `fetch` | two scouts, two hosts, redirects, rendered pages that go anywhere, a changing robots.txt, a kill | `StateMatchesRows`, `RobotsObeyed`, `SettledStays` |
| `store` | two scouts judge, judge again and recover three pages, with excerpts cut inside a line and marked lines; a review, a report | `RecoveredFromItsExcerpt`, `MatchedHasTheLines`, `NothingDangles`, `GroupsAreComponents` |
| `export` | two processes, inits and then commands, an upgrade of Defuddle | `OneTarget`, `SpansAreOfTheMarkdown`, `NoLeakInAnExport`, `ExportIsWhole` |
| `oracle` | two commits through all tools and answers in any order, one fault | `ConfirmedHasItsPatch`, `ScoreIsOfItsCommit`, `BlameMatchesPatch`, `RubyPatchIsKept` |
| `szz` | every shape of a one-hunk patch, and the ones with two hunks or files; a report whose lists are cut | `EdgesAreOfTheFix`, `VicinityIsBeside`, `ReportCountsTheEdges` |
| `hunt` | both hunts again and again, one edit at any time, two faults; a fix past the limit, one out of scope | `VerdictIsOfItsQueries`, `VerdictedOnce`, `DiskIsReclaimed`, `FindingsNeverGoBack`, `FixesAreSettled` |
| `grade` | every query over fourteen signals and up to four names | `GradeMovesWithItsSignals` |

Each property's comment says what it claims. The less obvious ones:

- `ImplementsLifecycle`: under the mapping of the committed tables to status and
  evidence, each step of the ledger is a step of `FindingLifecycle` or a stutter.
- `AckedContentStored`: a row that was acknowledged is stored with its content, but for
  one whose id, given or drawn, another finding has.
- `DosOnlyCapsSeverity`: proofs without a cap never lift the ceiling of a dos_only one,
  in whatever order and for whatever consumers they come; another named cap does.
- `CloseKeepsGreen`: a close turns no metric over lanes, steps and their observations
  red that was green. It may turn a green gate red through the accounting of fuzz runs
  and regexes, and then only for its own step or its own lane.
- `GreenIsEarned`: a green gate means that each required lane got a step this round.
- `NoStaleAnswer`: neither the file nor a report goes back to an older answer.
- `SettledStays`: a capture is not lost to a later failure, a denial is final.
- `RobotsObeyed`: of the addresses the tool asks for, redirects to another host
  included. Nothing of the kind holds for a rendered page (section 6).
- `RecoveredFromItsExcerpt`: what `recover` read before the write lock is still so when
  it writes, unless another command committed for the capture in between (`raced`).
- `NothingDangles`: with no exception. Overlapped or not, no recovered case is left
  beside a case that is gone, and no report.
- `MatchedHasTheLines`: against a definition of "in order" that has no algorithm; at
  most the first and the last line of an excerpt are cut short.
- `GroupsAreComponents`: against the closure of the sharing relation.
- `ScoreIsOfItsCommit`: holds for agents that stop, pass commits over and make hashes
  up, until what the repair counts on is gone (`mixed`): an agent comes back to a
  commit, a batch that was begun is cut anew, or the warning of `fix_shas.py` is right
  and not heeded.
- `ReportCountsTheEdges`: against sets of edges, in no order; the order of workers
  chooses between equals only.
- `FindingsNeverGoBack`: also after failed suites, kills and edits during a run: what is
  reported of a suite is all of one version, never older than before.
- `DiskIsReclaimed`: between runs, no more fixes are on disk than there were faults.
- `VerdictIsOfItsQueries`: against what the header of `verdict.py` says, by lines.

Violated, with the finding in PROJECT.json: the lookup of a NULL `round_id` yields
NULL, so a step without a round is in the current round of every round, though
`schema.sql:2015` and `2019` say it is not.

### Bounds

Each bound is a constant of its module; the theorems hold for all values.

- `ledger`: `MaxId` = 2, `MaxBatch` = 2: one row that succeeds and one that is refused,
  two rows of a batch with one hash, one finding promoted and another not. Two
  hashes, one body and "not carried": equal, contradicting and partial rows.
  MEDIUM and HIGH lie on either side of the only ceiling. An explicit id 1 meets ids
  of the sequence in both orders. `ledger_exec`: one hash, single rows, two consumers
  and thus two proofs, each with no cap, dos_only, leak or none.
- `steps`: `MaxRound` = 2 gives a step of the round before, of this one and of none. The
  enumeration lane has step hashes with the round in them, the fuzz lane without.
- `watch`: both watchers ask for two requests, each of which changes once (merged with a
  count that converts or not; locked or merged), one fault; the pair watcher's file
  names a request it no longer asks for, and a person has to remove it. One fault is
  enough for a failed request beside a good one, or a kill between file and report;
  the merge that cannot be counted fails for ever beside one that must be reported.
- `fetch`: a page, and on another host a page that a redirect or a browser may lead to,
  one redirect, two fetches, two changes outside, one kill: overlap of two scouts, a
  second fetch after a failed one, a copy that expires between two. 5.9 million states.
- `store`: four commands, four cases, one review, one report. Three pages in a chain
  (first and second share code, second and third an identifier) and a limit of
  two, so that code in three families is boilerplate. One excerpt is the tail of a
  line, one has a marked line and a gap.
- `export`: two inits, then four commands, three captures, two Markdown versions.
  Inits come first because nothing but the files themselves is shared between
  them and the rest. Two languages and two processes are symmetric. One export
  writes into a directory at a time (see section 6).
- `oracle`: two commits in a batch of two, one fault, three lines per answer file: an
  agent passes the first over, answers in the other order, or comes back to one.
  1.4 million states.
- `szz`: 127 patches of a file of three lines, with every set of deleted lines,
  comments and insertions, and five hand-made ones for what needs two hunks, two
  files, a file that is gone, dashes or a rename; one fault. The lists of the report
  are cut to one author, one category and one lift, so that equals tie at the cut.
- `hunt`: three fixes, a limit of two and a scope of two: one that is taken and listed,
  with hunks that change, that only add and of a test, one not listed, one past the
  limit. Two versions of the queries; two faults, so that a killed run and a failure
  after it both happen; two runs on HEAD of two suites, so that one may fail, or the
  queries be edited, between them.
- `grade`: the fourteen signals that special cases look at; the others are only added.

### Fairness

- `MrWatch`: cron keeps starting each watcher, a run that started goes on, since a
  request has a timeout of twenty seconds and nothing else waits. No fairness for
  a change at GitLab, a fault, or the removal of a bad file.
- `FixHunt`: a run goes on and people start the next one (`WF` of `Work`), and the
  manifest gets written in the end (`WF` of `Select`). Failures, kills and edits are
  not fair, and are finitely many by their bounds. `FixesAreSettled` speaks of the fixes
  within `Limit` and in `Scope`; of the others it would be false.
- The others assume none and claim no liveness: the caller is a person or a model
  that follows a document, and nothing in the code obliges it to go on.

Deadlock is checked in `ledger`, `ledger_exec`, `steps`, `hunt` and `grade`. The others
end when their bounds are used up, and say CHECK_DEADLOCK FALSE.

## 4. Proofs

All theorems are for every value of the constants that the ASSUMEs admit: any
number of processes, commands, faults, pages, commits, and patches and texts of any
length. Every safety property that a passing run checks is a theorem. For each
specification there is an inductive invariant: its initial states have it, each
action preserves it, it implies the properties; action properties follow from it
with one step. TypeOK is a part of each and is not run again by TLC.

| module | inductive invariant, beside types | properties |
|---|---|---|
| `FindingLedgerProofs` | the keys; what an open call has done (`CallInv`); and for single theorems `PutInv`, `CountInv`, `AckInv`, `StatusInv` | all of `ledger` and `ledger_exec`, with the refinement |
| `StepLedgerProofs` | steps under observations, closing observations under closed steps; `RoundInv`: a step of this round was inserted since it opened | all of `steps` |
| `MrWatchProofs` | a run under way holds the lock, the file is as it read it, its answers are at least as new as the file's | all safety properties, and that an unreadable file is left alone |
| `CorpusFetchProofs` | a scout stands on the rows below its rung, what it is about to ask for is allowed, alone on its URL it finds it as it was; fresh copies were served | all of `fetch`, that a browser row follows a thin one, one headed row |
| `CorpusStoreProofs` | what a command that was not raced still knows of what it read; every case was compared as the code compares (`CasesAreCompared`) | all of `store` |
| `CorpusExportProofs` | what init saw is of its language; a process alone on a capture has its only Markdown; an export has written exactly what it has ticked off, with the splits of its own snapshot | all of `export` |
| `FixOracleProofs` | what an agent was given to read is in the log, on its way, or lost; a running tool works on commits without a patch; unless `mixed`, a slice has no commit twice and a line of an answer is about the commit at its position, or none, and has its hash, or a made-up one (`ScoresInv`) | all of `oracle` |
| `FixOracleProofs`, second half | every result is what `process` gives for some patch of its fix, one result to a fix, blames that failed are among the failures (`SzzInv`) | all of `szz` |
| `FixHuntProofs` | after an analysis the SARIF file is of this job; a job that is worked on has no verdict; all on disk that is not the job's own was paid by a fault; the suites a run on HEAD has been through failed or have SARIF of the version it began with or a later one, and no findings are ahead of their SARIF (`HeadSoFar`, `FindingsBehind`) | all safety properties of `hunt`, and `grade`, which needs types only |

Why the invariants are needed, in two examples. `DiskIsReclaimed` speaks of the time
between runs; during one, the job's own trees and databases have to be taken out
(`Own`), and a failed first build shows that a database may stay with no tree.
`LastGoodIsKept` is broken by a run that writes from a file it no longer knows: so
the invariant says that the lock keeps the file as it was read.

The algorithms, as far as the properties are about what they compute:

- `compute_groups` (`GroupsAreComponents`): joining along a set of joins, in any
  order, unites exactly what the joins connect (`Unites`), by induction on the set
  of joins; a set of families that is closed under sharing is closed under joins.
- `correspond` and `symbol_extents` (`MatchedHasTheLines`): the cursor finds lines in
  order (`ScanIsInOrder`), and finds all of them whenever they occur in order
  (`ScanIsGreedy`), by induction on the number of lines; a definition that braces
  end has as many of them open as closed (`DefinitionsAreClosed`).
- `split_of` over families (`NoLeakInAnExport`): as many steps as there are captures
  reach a set closed under links (`ReachedClosed`), the least one (`ReachedLeast`), so
  linked families have one key.
- `parse_diff` (`EdgesAreOfTheFix`, `VicinityIsBeside`): after n lines of a patch the
  state is what a reader of these lines would say (`ReadOf`): the file of the last file
  header, the number of the last hunk header and of the lines since that count, the
  deleted lines, the events of this hunk, and the vicinity of the hunks before it.
  `Read` keeps that (`HeaderRead`, `BodyRead`), so the whole patch is read so (`AllRead`).
- `aggregate` (`ReportCountsTheEdges`): after any number of results an author's entry
  counts the edges of that author so far (`Summary`); sums over disjoint parts add up;
  whatever the order of equals, nobody outside a list has more than one within.
- `load_filtered` and the slices (`ScoreIsOfItsCommit`): `Ordered` is one-to-one on a
  finite set under a total order, so a slice has no commit twice.
- `classify` (`GradeMovesWithItsSignals`): each part of a score grows or stays. The one
  sign of absence that also raises the sweep score, a callable in the from clause,
  may demote the class (-3), but brings 6 against 1.

The library's induction theorems take an operator as a parameter, which no installed
prover instantiates. Induction is done instead on sets of numbers: a set of naturals
that is not empty has a least element (`LeastNumber`), so a set with 0 and with each
successor is Nat (`Numbers`); a collection of finite sets that has S whenever it has
the smaller ones has them all (`BySmallerSets`, `ByOneMore`). That a recursive function
satisfies its equation is proved in the same way. The models are written for this:
functions over numbers of lines instead of FoldLeft, sets of positions instead of
SelectSeq, `Ordered` instead of SetToSortSeq. The three lemmas are stated in each of
the modules that use them, in different forms.

Assumptions of the modules that only a proof needs: `Captures`, `Fixes` and `Authors`
are finite, as the rows of a database and the commits of a repository are; a patch is
`Printed`. Assumptions of single theorems:

| theorem | assumption |
|---|---|
| `ConfirmedAlwaysJustified`, `DosOnlyAlwaysCaps` | no raw UPDATE writes 'confirmed' |
| `LogAlwaysMatchesStatus`, `LedgerImplementsLifecycle` | no raw status UPDATE |
| `AckedRosterAlwaysCurrent`, `GreenAlwaysEarned` | every step carries a round (~`NullRounds`) |

Two statements were sharpened by their proofs. `MatchedHasTheLines` said that no other
definition has the lines of an excerpt in order; an excerpt without a line that counts
is trivially in order everywhere, and `correspond` never finds it, so `HasText` asks
for `wanted` not to be empty. And the place of a line in the file before a fix
(`Place`) has a meaning only for a sequence of lines that git prints: a line before
any hunk header has none. TLC's patches are of that form; the theorem needs it said,
hence `Printed`.

Only model-checked: `MergeIsReported` and `FixesAreSettled`, which are liveness under
fairness.

## 5. What each mutant shows

For every property of a passing run PROJECT.json names a definition and a changed
form of it, defined just above it, such as a bug in the code would change it: no
lock, a check dropped, a file taken because it is there, an off-by-one, a loser
that goes on. Under it TLC finds the property violated.

## 6. Where code and documents differ

Met while modelling. The models follow the code; a property is stated so that it
leaves these cases out by name (`raced`, `mixed`, `slipped`, `lost`, `edited`,
`disturbed`), or says what does hold; some that nothing holds of have no property.

vrdb (`vuln-research/db`):

- `MAX(mechanism_cap)` compares names as text (`verbs.go:249`): a second proof with any
  other cap, "none" too, hides dos_only, where the comment (245) has it that "a cap
  only LOWERS". `DosOnlyCapsSeverity` says what does hold.
- When RowsAffected fails, a skipped row counts as inserted (`put.go:527-531`).
- A replayed batch is refused once its finding was promoted (`put.go:434`), though
  `put.go:350` calls a replay a no-op.
- An explicit id does not move the sequence (`put.go:514`): a later row with the same
  id is dropped as a skip. `AckedContentStored` has this as its one exception.
- Provenance is asked per finding and not per flip (`schema.sql:2310`): a finding
  confirmed again behind the verbs keeps its old row.
- The list of `lanes_stuck_running` (`schema.sql:2240`) has 16 of 18 lanes.
- A close that `CloseStep` accepts may turn a green gate red: the step may have no
  `fuzz_runs` row (`schema.sql:2274`), or be of the enumeration lane with no regex
  recorded (2292).

Watchers (`hermes-mr-watch`):

- `int(payload.get('changes_count'))` (`watch_gitlab_mr_findings.py:196`) raises for an
  answer such as "1000+": the request fails in every run, and the merge of a merge
  request that large is never reported.

Corpus (`scripts/corpus.py`):

- The browser follows redirects, meta refresh and scripts wherever they lead (493-508);
  only the final address is looked at, for being internal. design.md:58 says `fetch`
  "never fetches a disallowed path", design.md:74 that the tool "checks every hop", and
  1052 that "the browser meets no unvetted redirect". `RobotsObeyed` is about what the
  tool asks for.
- `correspond` counts lines that occur in order, greedily (649-676): a line found
  late hides those after it, so "at least half occur in order" may be missed.
- `init` passes over a file that another process made after its check without
  asking for its languages (916-928); `slipped` marks it.
- Two exports may both find a directory empty and write into it (2495-2511).
- `database_sha256` is of the file before the snapshot is taken (2499-2502).
- `recover` checks for a recorded symbol, and reads the excerpt, before the write
  lock (1646); `compared_with` (1662) is then an id that may have been given to
  another case, where `schema.sql:198` says the document's own. Two overlapping
  recoveries of one symbol both record it.
- `ingest` looks for a document of the capture in both databases before the write lock
  (1469): two overlapping ingests may leave one in each.
- The prompt of a run is looked up at `ingest` (1474), not when the scout got it,
  where design.md:159 says the exact text is recorded.

Oracle (`security-fix-oracle`):

- `fix_shas.py:40` warns when a file and its slice differ in length, and writes the
  hashes by position all the same: after a commit that was passed over, each score goes
  to the wrong commit. 05-cvss-enrichment.md:164 says "each jsonl line's position
  uniquely identifies the correct SHA."
- Re-slicing changes which commit a line's position stands for (`fix_shas.py:47-58`,
  `cvss_score.py:78-82`), though 07-orchestration-harness.md:136 says
  "Re-slicing with updated inputs is safe."
- `ok-nonruby` is not among what `fetch_diffs.py:73` leaves alone. `prep_nonruby.py:50`
  writes it also beside an empty diff, when git diff failed, and does not try again.
- git's exit code is not looked at (`fetch_diffs.py:43-58`): a diff that fails is
  `empty` and never retried; `error:CalledProcessError` cannot arise.
- `cvss_score.py` leaves out empty and timeout only, so rows never fetched pass.
- `--only-cvss` keeps the old score of a commit whose vector is malformed now, where
  `cvss_aggregate.py:8` nulls it.
- `prep_nonruby.py` overwrites the input that resolves abbreviated hashes of earlier
  verdicts (`build_parquet.py:111-136`).
- `szz.py:94` takes a deleted line that begins with `--` for a header and loses count;
  the lines of a deleted file (87-88) and of a renamed one (107) are not blamed; the
  address of an author is that of the first edge in the order workers end (246).
- `szz.py:67-85` does not look at git's exit code: a diff that fails is an addition-only
  fix without edges.
- Which of several equal authors, categories or lifts is listed, and which category is
  the dominant one, is up to the order in which workers end (265-297).

Hunts and grader (`codeql_validation`):

- `full_variant_hunt.sh:29` takes a SARIF file that is there for the answer and says OK;
  after a failed analysis it is of an earlier run. `FindingsNeverGoBack` says what the
  findings are then worth.
- LIMIT cuts the worklist before the fixes that have verdicts are skipped
  (`incomplete_fix_hunt.sh:114`): run again, it takes the same jobs, and never a later
  one.
- A fix the selection does not list is checked out, built and analysed in each run, and
  never gets a verdict.
- What `verdict.py` prints to stderr is appended as a verdict (223-233).
- `build_db.sh:47-48` is `|| true; rc=$?`, always 0.
- A failed BEFORE build leaves its database (182-188), where line 23 says databases
  are deleted after each job.
- The counters of the summary are lost in the pipe's subshell (105, 251).
- Line 16 says hashes in JOURNAL are skipped; only VERDICTS_OUT is asked.
- `verdict.py:33-36` reads a missing SARIF file as no results; before-results in a
  renamed or deleted file never count.
- A path-problem is not "always sweep" (`grade_query.py:437`): it is ten half points
  more. The "31 labeled queries" of line 579 are 29.

## 7. Not modelled

- `Gate` over findings and steps together, EMPTY_RESULT, `v_phase_status` and
  `Selftest`: queries over the state of both ledgers. They change nothing.
- The file under `vrdb`: probe, restore, checkpoint and snapshot. What a torn file
  or a WAL without its database yields is DuckDB's, and not in `src/`.
- `RunTool`: one lock around one external process.
- Schema application, command lines, the eval harness, the statistics of the
  oracle, CVSS arithmetic, sanitizer oracle, checkers, examples: sequential
  transformations without state, or thin shells.
- In modelled parts: the hashing, other tables of Put's allowlist, metrics over
  slices, defenses and suspicious points; `v_invariant_promotion_coverage`, which reads
  what an observation says, so that the observation of a close may turn it red; the
  CWEs of the blame report, which are counted as its categories are; an edit in the
  middle of one analysis of a hunt, which is one step; blanks after the last token of
  an excerpt that ends inside a line; the wording of reports; the delay per
  host, refused addresses and leases; `recover --lines`, links and CWE rows;
  `verify`, `report`, strategies and prompts; selecting and classifying commits; the
  selection's scores, the journal, `dataflow_hunt.sh`; `validate` and
  `predict_from_pattern` of the grader.
- Copies: `watch_gitlab_mr_findings.remote.py` is the same file as its original; the
  oracle scripts under `vuln-research/rules/ruby/tools` are those of
  `security-fix-oracle/harness` but for paths.
- Skill texts are read for what they promise and for the order of calls.

Next in line: a module that composes both ledgers into the whole verdict
(promotion coverage, EMPTY_RESULT, Selftest); a file module with snapshots whose
abstract specification is a sequence of committed states; CVSS arithmetic against
the standard's tables; a refinement of the watchers to one atomic report.

## 8. Running

    tlc -workers 2 -config MrWatch.cfg MCMrWatch      # likewise each X.cfg, MCX
    tlc -workers 2 -config FindingLedgerExec.cfg MCFindingLedger
    tlc -workers 2 -config StepLedgerNullRound.cfg MCStepLedger   # violated
    tlapm MrWatchProofs.tla                           # likewise each XProofs

No run takes more than a few minutes, and no proof more than about three.
