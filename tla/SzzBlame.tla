-------------------------------- MODULE SzzBlame -------------------------------
(***************************************************************************)
(* Who introduced what the security fixes remove: tools/szz.py.  Workers   *)
(* read the patch of each fix (parse_diff), blame the lines it deletes in  *)
(* the file before it (attribute), or the lines beside an insertion when   *)
(* no code is deleted, and the introductions are added up by author in     *)
(* whatever order the workers end.  git may fail or time out.              *)
(***************************************************************************)
EXTENDS Naturals, Sequences, FiniteSets, FiniteSetsExt, Functions

CONSTANTS
  Fixes, Introducers, Authors, Emails, Files, Categories,
  Patches,        \* per fix: the patches it may be
  Origin,         \* per fix: the commit of each line of the files before it
  Category,       \* of a fix
  Author, Email,  \* of a commit
  Cosmetic,       \* commits whose subject says refactor, rename, bump, ...
  Exposure,       \* commits of an address: git shortlog
  Null,
  LISTED, TOP, GAPS,   \* authors in the report, and of each: categories, and by lift
  MaxFailures     \* bound: calls of git that fail

(* A patch as git prints it.  file: "+++ b/" and a name; gone: the file is    *)
(* deleted ("+++ /dev/null"); hunk: where it begins in the old file; note: a  *)
(* deleted comment or blank line; dashes: a deleted line that begins with     *)
(* "--", which makes it "---".                                                *)
Body == {"ctx", "del", "note", "add", "dashes"}
PatchLine == [kind : {"file"}, name : Files] \cup [kind : {"hunk"}, at : Nat]
          \cup [kind : Body \cup {"gone"}]

(* A hunk follows the header of its file, or the hunk before; a line of a     *)
(* hunk follows another one, or the header of the hunk.                       *)
Printed(patch) ==
  \A i \in DOMAIN patch :
    /\ patch[i].kind = "hunk" => i > 1 /\ patch[i - 1].kind # "hunk"
    /\ patch[i].kind \in Body => i > 1 /\ patch[i - 1].kind \in Body \cup {"hunk"}

ASSUME SzzAssumption ==
  /\ IsFiniteSet(Fixes) /\ IsFiniteSet(Authors) /\ IsFiniteSet(Categories)
  /\ Patches \in [Fixes -> SUBSET {patch \in Seq(PatchLine) : Printed(patch)}]
  /\ \A f \in Fixes : DOMAIN Origin[f] \subseteq Files \X Nat
  /\ \A f \in Fixes : \A w \in DOMAIN Origin[f] : Origin[f][w] \in Introducers
  /\ Category \in [Fixes -> Categories]
  /\ Author \in [Introducers -> Authors] /\ Email \in [Introducers -> Emails]
  /\ Cosmetic \subseteq Introducers /\ Exposure \in [Emails -> Nat]
  /\ Null \notin Files /\ Null \notin Emails /\ MaxFailures \in Nat
  /\ LISTED \in Nat /\ TOP \in Nat \ {0} /\ GAPS \in Nat

Outcomes == {"ok", "blame-empty", "no-introducer", "addition-only-vicinity",
             "addition-only", "diff-fail"}

VARIABLES
  left,      \* fixes no worker has ended
  results,   \* in the order they ended; patch is history
  report,    \* szz-introducers.json
  failures

szz == <<left, results, report, failures>>
-------------------------------------------------------------------------------
(* parse_diff.  Its state: the file, the number of the next old line, the     *)
(* lines of this hunk, and what it has found.                                 *)
Beside(events) ==
  {i \in DOMAIN events :
     /\ events[i].kind = "ctx"
     /\ \E j \in {i - 1, i + 1} \cap DOMAIN events : events[j].kind = "add"}

(* Mutant of flush_hunk: the lines of a hunk are not forgotten. *)
flush_hunkKeeps(d) ==
  [d EXCEPT !.vicinity = @ \cup {<<d.cur, d.events[i].at>> : i \in Beside(d.events)}]

flush_hunk(d) ==
  [d EXCEPT !.vicinity = @ \cup {<<d.cur, d.events[i].at>> : i \in Beside(d.events)},
            !.events = <<>>]

Event(d, kind) == [d EXCEPT !.events = Append(@, [kind |-> kind, at |-> d.oldno])]
Next1(d) == [d EXCEPT !.oldno = @ + 1]

(* Mutant of Deleted: a comment is not counted. *)
DeletedCode(d, line) ==
  IF line.kind = "note" THEN d
  ELSE Next1(Event([d EXCEPT !.dels = @ \cup {<<d.cur, d.oldno>>}], "del"))

Deleted(d, line) ==
  Next1(Event(IF line.kind = "note" THEN d
              ELSE [d EXCEPT !.dels = @ \cup {<<d.cur, d.oldno>>}], "del"))

(* A line of a file that is gone, and one of dashes, are no lines to it.      *)
Read(d, line) ==
  CASE line.kind = "file" -> [flush_hunk(d) EXCEPT !.cur = line.name]
    [] line.kind = "gone" -> [flush_hunk(d) EXCEPT !.cur = Null]
    [] line.kind = "hunk" -> [flush_hunk(d) EXCEPT !.oldno = line.at]
    [] d.cur # Null /\ line.kind \in {"del", "note"} -> Deleted(d, line)
    [] d.cur # Null /\ line.kind = "add" -> Event(d, "add")
    [] d.cur # Null /\ line.kind = "ctx" -> Next1(Event(d, "ctx"))
    [] OTHER -> d

Nothing == [cur |-> Null, oldno |-> 0, events |-> <<>>, dels |-> {}, vicinity |-> {}]

parse_diff(patch) ==
  LET read[n \in 0 .. Len(patch)] ==
        IF n = 0 THEN Nothing ELSE Read(read[n - 1], patch[n]) IN
  flush_hunk(read[Len(patch)])
-------------------------------------------------------------------------------
(* attribute: a blame per file, by its new name: a renamed file has none, and *)
(* those in failed do not answer.                                             *)
Unblamed(f, failed) == failed \cup {p \in Files : \A w \in DOMAIN Origin[f] : w[1] # p}

attribute(f, want, failed, confidence) ==
  LET known == {w \in want : w[1] \notin failed /\ w \in DOMAIN Origin[f]}
      of(c) == {w \in known : Origin[f][w] = c} IN
  {[intro |-> c, lines |-> Cardinality(of(c)), confidence |-> confidence] :
     c \in {Origin[f][w] : w \in known}}

FilesOf(want) == {w[1] : w \in want}

process(f, patch, failed) ==
  LET d == parse_diff(patch)
      want == IF d.dels # {} THEN d.dels ELSE d.vicinity
      edges == attribute(f, want, failed, IF d.dels # {} THEN "high" ELSE "low") IN
  [fix |-> f, patch |-> patch, edges |-> edges,
   status |->
     CASE d.dels # {} /\ edges # {} -> "ok"
       [] d.dels # {} /\ edges = {} ->
            IF Unblamed(f, failed) \cap FilesOf(want) # {} THEN "blame-empty" ELSE "no-introducer"
       [] d.dels = {} /\ edges # {} -> "addition-only-vicinity"
       [] d.dels = {} /\ edges = {} -> "addition-only"]

(* A worker ends. *)
GitFails == failures < MaxFailures /\ failures' = failures + 1
Ends(f, result) ==
  /\ f \in left /\ left' = left \ {f}
  /\ results' = Append(results, result)
  /\ UNCHANGED report

Process(f, patch, failed) ==
  /\ Ends(f, process(f, patch, failed))
  /\ IF failed = {} THEN failures' = failures ELSE GitFails

(* When git diff takes too long, that is said; when it fails, there is no      *)
(* patch to read, and the fix is one that deletes nothing.                    *)
DiffFails(f, patch) ==
  /\ \E status \in {"diff-fail", "addition-only"} :
       Ends(f, [fix |-> f, patch |-> patch, edges |-> {}, status |-> status])
  /\ GitFails
-------------------------------------------------------------------------------
(* main: the introductions, by author, in the order of the results.           *)
Nobody == [introductions |-> 0, vicinity |-> 0, denoised |-> 0, lines |-> 0, fixes |-> {},
           email |-> Null, categories |-> [k \in Categories |-> 0]]

Clear(e, flagged) == e.confidence = "high" /\ e.intro \notin flagged

Raised(count, when) == IF when THEN count + 1 ELSE count

(* Mutant of Counted: a fix is counted once, however many commits introduced it. *)
CountedOnce(a, r, e, flagged) ==
  LET new == r.fix \notin a.fixes IN
  [introductions |-> Raised(a.introductions, new),
   vicinity |-> Raised(a.vicinity, new /\ e.confidence = "low"),
   denoised |-> Raised(a.denoised, new /\ Clear(e, flagged)),
   lines |-> a.lines + e.lines,
   fixes |-> a.fixes \cup {r.fix},
   email |-> IF a.email = Null THEN Email[e.intro] ELSE a.email,
   categories |-> [a.categories EXCEPT ![Category[r.fix]] = Raised(@, new /\ Clear(e, flagged))]]

Counted(a, r, e, flagged) ==
  [introductions |-> a.introductions + 1,
   vicinity |-> Raised(a.vicinity, e.confidence = "low"),
   denoised |-> Raised(a.denoised, Clear(e, flagged)),
   lines |-> a.lines + e.lines,
   fixes |-> a.fixes \cup {r.fix},
   email |-> IF a.email = Null THEN Email[e.intro] ELSE a.email,
   categories |-> [a.categories EXCEPT ![Category[r.fix]] = Raised(@, Clear(e, flagged))]]

CountedAll(authors, r, flagged) ==
  FoldSet(LAMBDA e, so : [so EXCEPT ![Author[e.intro]] = Counted(@, r, e, flagged)],
          authors, r.edges)

aggregate(flagged) ==
  LET after[n \in 0 .. Len(results)] ==
        IF n = 0 THEN [a \in Authors |-> Nobody]
        ELSE CountedAll(after[n - 1], results[n], flagged) IN
  after[Len(results)]

(* load_exposure: nothing when git shortlog fails. *)
total_commits(a, exposed) == IF exposed /\ a.email # Null THEN Exposure[a.email] ELSE 0

(* sorted(...)[:n], most_common(n): the first n by their number.  Equal ones  *)
(* go by who was seen first, as the workers ended; here any may be first.     *)
Best(n, number) ==
  {T \in SUBSET DOMAIN number :
     /\ Cardinality(T) = Min({n, Cardinality(DOMAIN number)})
     /\ \A x \in T : \A y \in DOMAIN number \ T : number[x] >= number[y]}

(* global_cat, and the lift of a category: its share with the author by its   *)
(* share with all, in hundredths.                                             *)
global_cat(so) == [k \in Categories |-> SumFunction([a \in Authors |-> so[a].categories[k]])]
Counter(a) == [k \in {j \in Categories : a.categories[j] > 0} |-> a.categories[k]]
lift(so, a) ==
  LET share == global_cat(so) IN
  [k \in DOMAIN Counter(a) |->
     (100 * a.categories[k] * SumFunction(share)) \div (SumFunction(a.categories) * share[k])]

(* The rows an author may get; the rates in it and the CWEs, which are        *)
(* counted as the categories are, are left out.                               *)
AuthorRows(so, a, exposed) ==
  {row \in [of : {so[a]}, total : {total_commits(so[a], exposed)},
            top : Best(TOP, Counter(so[a])), dominant : Best(1, Counter(so[a])),
            gaps : Best(GAPS, lift(so, so[a]))] :
     row.dominant \subseteq row.top}

(* Everybody with an edge, by denoised introductions. *)
Introductions(so) == [a \in {b \in Authors : so[b].introductions > 0} |-> so[a].denoised]

Sum(f(_)) == SumFunction([i \in DOMAIN results |-> f(results[i])])
EdgesWith(confidence) ==
  Sum(LAMBDA r : Cardinality({e \in r.edges : e.confidence = confidence}))

(* agg: what it says of all fixes together. *)
Totals ==
  [statuses |-> [st \in Outcomes |-> Sum(LAMBDA r : IF r.status = st THEN 1 ELSE 0)],
   edges |-> Sum(LAMBDA r : Cardinality(r.edges)),
   code |-> EdgesWith("high"), vicinity |-> EdgesWith("low")]

(* Both files are written when every worker has ended.  A git that fails to   *)
(* give the subjects leaves no commit of its batch flagged, one that fails to *)
(* count the commits leaves no exposure.                                      *)
Report(flagged, exposed) ==
  LET so == aggregate(flagged) IN
  /\ left = {} /\ report = Null
  /\ \E listed \in Best(LISTED, Introductions(so)) :
       \E rows \in [listed -> UNION {AuthorRows(so, a, exposed) : a \in listed}] :
         /\ \A a \in listed : rows[a] \in AuthorRows(so, a, exposed)
         /\ report' = [flagged |-> flagged, exposed |-> exposed, totals |-> Totals,
                       categories |-> global_cat(so), authors |-> rows]
  /\ IF flagged = Cosmetic /\ exposed THEN failures' = failures ELSE GitFails
  /\ UNCHANGED <<left, results>>
-------------------------------------------------------------------------------
SzzInit == left = Fixes /\ results = <<>> /\ report = Null /\ failures = 0

SzzNext ==
  \/ \E f \in Fixes : \E patch \in Patches[f] :
       (\E failed \in SUBSET Files : Process(f, patch, failed)) \/ DiffFails(f, patch)
  \/ \E flagged \in SUBSET Cosmetic : \E exposed \in BOOLEAN : Report(flagged, exposed)

SzzSpec == SzzInit /\ [][SzzNext]_szz
-------------------------------------------------------------------------------
(* A patch without the two lines that parse_diff does not read as deletions:  *)
(* those of a file that is gone, and those that begin with "--".              *)
Plain(patch) == \A i \in DOMAIN patch : patch[i].kind \notin {"gone", "dashes"}

(* The file and the old line number of line i of a patch, counted from its    *)
(* header: what a reader of the patch would say.                              *)
Header(patch, i, kind) == Max({j \in 1 .. i : patch[j].kind = kind})
Place(patch, i) ==
  LET h == Header(patch, i, "hunk") IN
  <<patch[Header(patch, i, "file")].name,
    patch[h].at + Cardinality({j \in h .. i - 1 : patch[j].kind \in {"ctx", "del", "note"}})>>

Removed(patch) == {Place(patch, i) : i \in {j \in DOMAIN patch : patch[j].kind = "del"}}
Context(patch) ==
  {Place(patch, i) : i \in {j \in DOMAIN patch :
      /\ patch[j].kind = "ctx"
      /\ \E n \in {j - 1, j + 1} \cap DOMAIN patch : patch[n].kind = "add"}}

(* The commits that introduced these lines, and how many of them each did,    *)
(* when the files in lost cannot be blamed.                                   *)
Introduced(f, places, lost, confidence) ==
  LET seen == {w \in places \cap DOMAIN Origin[f] : w[1] \notin lost} IN
  {e \in [intro : Introducers, lines : 1 .. Cardinality(seen), confidence : {confidence}] :
     e.lines = Cardinality({w \in seen : Origin[f][w] = e.intro})}

Lost == IF failures = 0 THEN {{}} ELSE SUBSET Files
Read1(r) == r.status # "diff-fail" /\ Plain(r.patch)

(* Hazard: line numbers kept over comments, insertions, hunks and files.  When *)
(* a fix deletes code, its edges are the commits that introduced the deleted   *)
(* lines, those alone, each with the number of its lines; a git that fails can *)
(* only take edges away, and when a blame did, the status is not that nobody   *)
(* introduced them.                                                            *)
EdgesAreOfTheFix ==
  \A i \in DOMAIN results : LET r == results[i] IN
    Read1(r) /\ Removed(r.patch) # {} =>
      \E lost \in Lost :
        /\ r.edges = Introduced(r.fix, Removed(r.patch), lost, "high")
        /\ r.status = "no-introducer" => lost = {}

(* Hazard: the same for the lines beside an insertion: they are blamed only   *)
(* when the fix deletes no code, and only lines next to an insertion of the   *)
(* same hunk are, never the last line of one hunk for the first of the next.  *)
VicinityIsBeside ==
  \A i \in DOMAIN results : LET r == results[i] IN
    Read1(r) /\ Removed(r.patch) = {} =>
      \E lost \in Lost : r.edges = Introduced(r.fix, Context(r.patch), lost, "low")

EdgesOf(a) ==
  UNION {{[fix |-> results[i].fix, edge |-> e] :
            e \in {x \in results[i].edges : Author[x.intro] = a}} : i \in DOMAIN results}
AddressesOf(a) == {Email[x.edge.intro] : x \in EdgesOf(a)}
ClearOf(a, flagged) == {x \in EdgesOf(a) : Clear(x.edge, flagged)}
In(edges, k) == {x \in edges : Category[x.fix] = k}

(* Hazard: the totals are added up in the order the workers end, and cut.      *)
(* Every fix has one status, every edge one confidence, and every one that is  *)
(* denoised counts for one category.  What the report says of an author counts *)
(* the set of his edges, in no order; his exposure is that of one of his       *)
(* addresses.  The order only chooses between equals: nobody left out has more *)
(* than one who is listed, and no category more than the dominant one.         *)
ReportCountsTheEdges ==
  report # Null =>
   /\ SumFunction(report.totals.statuses) = Cardinality(Fixes)
   /\ report.totals.edges = report.totals.code + report.totals.vicinity
   /\ \A k \in Categories :
        report.categories[k] =
          Cardinality(In(UNION {ClearOf(a, report.flagged) : a \in Authors}, k))
   /\ \A a \in DOMAIN report.authors :
    LET of == report.authors[a].of
        clear == ClearOf(a, report.flagged) IN
    /\ of.introductions = Cardinality(EdgesOf(a))
    /\ of.denoised = Cardinality(clear)
    /\ of.vicinity = Cardinality({x \in EdgesOf(a) : x.edge.confidence = "low"})
    /\ of.lines = SumFunction([x \in EdgesOf(a) |-> x.edge.lines])
    /\ of.fixes = {x.fix : x \in EdgesOf(a)}
    /\ \A k \in Categories : of.categories[k] = Cardinality(In(clear, k))
    /\ report.exposed => report.authors[a].total \in {Exposure[m] : m \in AddressesOf(a)}
    /\ \A b \in Authors \ DOMAIN report.authors :
         Cardinality(ClearOf(b, report.flagged)) <= Cardinality(clear)
    /\ \A k \in report.authors[a].dominant, j \in Categories :
         Cardinality(In(clear, j)) <= Cardinality(In(clear, k))
===============================================================================
