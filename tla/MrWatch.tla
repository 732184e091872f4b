-------------------------------- MODULE MrWatch --------------------------------
(***************************************************************************)
(* The two merge request watchers that a Hermes cron job runs every thirty *)
(* minutes: watch_gitlab_mr_findings.py ("findings") and the older         *)
(* watch_gitlab_mrs.py ("pair").  Each keeps its own state file and lock   *)
(* file and both read the same GitLab.  A run takes the lock, reads the    *)
(* state file, asks GitLab about one merge request after the other, writes *)
(* the state file when it changed, and prints its report.  Runs of one     *)
(* watcher may overlap, a fetch may fail, and a run may die at any point.  *)
(***************************************************************************)
EXTENDS Naturals, Sequences

CONSTANTS
  Iids,       \* merge requests the watchers, or earlier versions of them, know
  IIDS,       \* per watcher: the sequence of merge requests it asks about
  Runs,       \* processes that may run a watcher at the same time
  WatcherOf,  \* the script each of them runs
  Merges,     \* values of the merge commit and its time
  Null,       \* a merge field GitLab answers, or the script stores, as null
  NoKey,      \* no merge field in the entry
  Absent,     \* no state file
  Malformed,  \* a state file that does not parse
  InitFiles,  \* per watcher: state files an earlier version may have left
  Answers,    \* bound: what GitLab may come to answer of each merge request
  MaxEvents,  \* bound: changes of each merge request
  MaxFaults   \* bound: failed requests and killed runs

Watchers == {"findings", "pair"}
VALID_STATES == {"opened", "merged", "closed"}

Entry == [last : VALID_STATES, merge : Merges \cup {Null, NoKey}]
StateFiles == UNION {[S -> Entry] : S \in SUBSET Iids}

(* "locked", a merge in progress, is a lifecycle state the scripts do not   *)
(* know.  An answer is counted when its changes_count is a number: GitLab   *)
(* says "1000+" of a merge request with more changes than that.             *)
Payload == [state : VALID_STATES \cup {"locked"}, merge : Merges \cup {Null},
            counted : BOOLEAN]

Asked(w) == {IIDS[w][k] : k \in DOMAIN IIDS[w]}

ASSUME IidAssumption ==
  /\ DOMAIN IIDS = Watchers
  /\ \A w \in Watchers : IIDS[w] \in Seq(Iids)
ASSUME AnswerAssumption == Answers \in [Iids -> SUBSET Payload]
ASSUME RunAssumption == WatcherOf \in [Runs -> Watchers]
ASSUME FileAssumption ==
  /\ Absent \notin StateFiles \cup {Malformed}
  /\ Malformed \notin StateFiles
  /\ InitFiles \in [Watchers -> SUBSET (StateFiles \cup {Absent, Malformed})]
ASSUME FieldAssumption == Null \notin Merges /\ NoKey \notin Merges \cup {Null}
ASSUME WatchBoundAssumption == MaxEvents \in [Iids -> Nat] /\ MaxFaults \in Nat
ASSUME FreeAssumption == "free" \notin Runs

VARIABLES
  gitlab,  \* per merge request: everything GitLab has said of it, newest last
  file,    \* per watcher: its state file
  lock,    \* per watcher: the run that holds the flock, or "free"
  run,     \* per process: what the run has read and fetched so far
  stdout,  \* per watcher: the lines of the last report that was delivered
  faults,  \* failed requests and killed runs so far
  kept,    \* history: per watcher and merge request, the answer the file reflects
  told     \* history: the newest answer a report gave

vars == <<gitlab, file, lock, run, stdout, faults, kept, told>>
-------------------------------------------------------------------------------
(* GitLab, from outside: a merge request is closed, reopened and merged.     *)

Now(i) == gitlab[i][Len(gitlab[i])]

Change(i) ==
  /\ Len(gitlab[i]) <= MaxEvents[i]
  /\ \E p \in Answers[i] :
       /\ p.state # Now(i).state \/ p.counted # Now(i).counted
       /\ gitlab' = [gitlab EXCEPT ![i] = Append(@, p)]
  /\ UNCHANGED <<file, lock, run, stdout, faults, kept, told>>
-------------------------------------------------------------------------------
(* The state file.                                                           *)

(* Of the entries it accepts, normalize_state drops null merge fields; that *)
(* of the pair watcher drops merge fields altogether.                       *)
Normal(w, e) ==
  IF w = "pair" \/ e.merge = Null THEN [e EXCEPT !.merge = NoKey] ELSE e
normalize_state(w, f) == [i \in DOMAIN f |-> Normal(w, f[i])]

(* It refuses an entry for a merge request the script does not ask about. *)
Readable(w) ==
  file[w] # Absent => file[w] # Malformed /\ DOMAIN file[w] \subseteq Asked(w)

read_state(w) == IF file[w] = Absent THEN <<>> ELSE normalize_state(w, file[w])

(* Of an answer, the findings watcher stores the state and, of a merge, its  *)
(* fields; the pair watcher stores the state.                                *)
Record(w, p) ==
  [last |-> p.state,
   merge |-> IF w = "findings" /\ p.state = "merged" THEN p.merge ELSE NoKey]

(* Mutant of LastGood: the fields of a merge are forgotten. *)
LastGoodStateOnly(state, i) ==
  IF i \in DOMAIN state THEN [last |-> state[i].last, merge |-> Null]
                        ELSE [last |-> "opened", merge |-> Null]

(* After a failure the findings watcher stores what it had, with the missing *)
(* fields as null, and "opened" when it had nothing.                         *)
LastGood(state, i) ==
  IF i \in DOMAIN state
    THEN [last |-> state[i].last,
          merge |-> IF state[i].merge = NoKey THEN Null ELSE state[i].merge]
    ELSE [last |-> "opened", merge |-> Null]

(* The answer a run has for i is the got[i]-th that GitLab gave; 0: it failed. *)
Answer(r, i) == gitlab[i][run[r].got[i]]
Fetched(r) == {i \in Iids : run[r].got[i] # 0}

findings_state(r) ==
  [i \in Asked("findings") |->
     IF i \in Fetched(r) THEN Record("findings", Answer(r, i))
                         ELSE LastGood(run[r].state, i)]

(* The pair watcher leaves the entry of a failed request as it was. *)
pair_state(r) ==
  [i \in DOMAIN run[r].state \cup Fetched(r) |->
     IF i \in Fetched(r) THEN Record("pair", Answer(r, i)) ELSE run[r].state[i]]

next_state(r) ==
  IF WatcherOf[r] = "findings" THEN findings_state(r) ELSE pair_state(r)
-------------------------------------------------------------------------------
(* The report.                                                               *)

Line == [status : {"merged", "unmerged", "check failed"},
         merge : Merges \cup {Null, NoKey}]

(* One line per merge request; a failed request of the findings watcher ends *)
(* in what it last saw.                                                      *)
LineOf(r, i) ==
  CASE i \in Fetched(r) /\ Answer(r, i).state = "merged" ->
         [status |-> "merged", merge |-> Record(WatcherOf[r], Answer(r, i)).merge]
    [] i \in Fetched(r) /\ Answer(r, i).state # "merged" ->
         [status |-> "unmerged", merge |-> NoKey]
    [] OTHER ->
         [status |-> "check failed",
          merge |-> IF WatcherOf[r] = "findings"
                      THEN LastGood(run[r].state, i).merge ELSE NoKey]

status_message(r) == [i \in Asked(WatcherOf[r]) |-> LineOf(r, i)]
-------------------------------------------------------------------------------
(* run_once.                                                                 *)

NothingGot == [i \in Iids |-> 0]
Idle == [pc |-> "idle", k |-> 1, state |-> <<>>, got |-> NothingGot]

(* Mutant of Begin: no lock. *)
BeginUnlocked(r) ==
  LET w == WatcherOf[r] IN
  /\ run[r].pc = "idle"
  /\ Readable(w)
  /\ lock' = [lock EXCEPT ![w] = r]
  /\ run' = [run EXCEPT ![r] = [Idle EXCEPT !.pc = "fetch", !.state = read_state(w)]]
  /\ UNCHANGED <<gitlab, file, stdout, faults, kept, told>>

(* A run that finds the lock taken, or the state file unreadable, ends at    *)
(* once and leaves everything as it was: no action is needed for it.         *)
Begin(r) ==
  LET w == WatcherOf[r] IN
  /\ run[r].pc = "idle"
  /\ lock[w] = "free"
  /\ Readable(w)
  /\ lock' = [lock EXCEPT ![w] = r]
  /\ run' = [run EXCEPT ![r] = [Idle EXCEPT !.pc = "fetch", !.state = read_state(w)]]
  /\ UNCHANGED <<gitlab, file, stdout, faults, kept, told>>

More(r) == run[r].pc = "fetch" /\ run[r].k <= Len(IIDS[WatcherOf[r]])
Current(r) == IIDS[WatcherOf[r]][run[r].k]

(* The run has answer n of the current merge request and turns to the next. *)
Got(r, n) ==
  [pc |-> "fetch", k |-> run[r].k + 1, state |-> run[r].state,
   got |-> [run[r].got EXCEPT ![Current(r)] = n]]

(* fetch_live refuses a state it does not know, and the findings watcher's   *)
(* fails to convert the count of a merge request that is too large.          *)
Usable(w, p) == p.state \in VALID_STATES /\ (w = "findings" => p.counted)

FetchOk(r) ==
  /\ More(r)
  /\ Usable(WatcherOf[r], Now(Current(r)))
  /\ run' = [run EXCEPT ![r] = Got(r, Len(gitlab[Current(r)]))]
  /\ UNCHANGED <<gitlab, file, lock, stdout, faults, kept, told>>

(* A request whose answer is of no use fails every time; any may fail. *)
FetchFails(r) ==
  /\ More(r)
  /\ \/ ~Usable(WatcherOf[r], Now(Current(r))) /\ faults' = faults
     \/ Usable(WatcherOf[r], Now(Current(r)))
        /\ faults < MaxFaults /\ faults' = faults + 1
  /\ run' = [run EXCEPT ![r] = Got(r, 0)]
  /\ UNCHANGED <<gitlab, file, lock, stdout, kept, told>>

(* Mutants of Persist: nothing is written after a failed request; a run that *)
(* sees no change ends without a report.                                     *)
PersistWhenAllAnswered(r) ==
  LET w == WatcherOf[r]
      clean == Fetched(r) = Asked(w) IN
  /\ run[r].pc = "fetch" /\ ~More(r)
  /\ file' = IF clean THEN [file EXCEPT ![w] = next_state(r)] ELSE file
  /\ run' = [run EXCEPT ![r].pc = "print"]
  /\ kept' = IF clean THEN [kept EXCEPT ![w] = run[r].got] ELSE kept
  /\ UNCHANGED <<gitlab, lock, stdout, faults, told>>
PersistChangeOnly(r) ==
  LET w == WatcherOf[r]
      change == next_state(r) # run[r].state IN
  /\ run[r].pc = "fetch" /\ ~More(r)
  /\ file' = IF change THEN [file EXCEPT ![w] = next_state(r)] ELSE file
  /\ run' = [run EXCEPT ![r] = IF change THEN [@ EXCEPT !.pc = "print"] ELSE Idle]
  /\ lock' = IF change THEN lock ELSE [lock EXCEPT ![w] = "free"]
  /\ kept' = [kept EXCEPT ![w] = [i \in Iids |->
                IF i \in Fetched(r) THEN run[r].got[i] ELSE @[i]]]
  /\ UNCHANGED <<gitlab, stdout, faults, told>>

(* write_state replaces the file as a whole, so a run that dies in it leaves *)
(* the old file or the new one.                                              *)
Persist(r) ==
  LET w == WatcherOf[r] IN
  /\ run[r].pc = "fetch" /\ ~More(r)
  /\ file' = IF next_state(r) # run[r].state
               THEN [file EXCEPT ![w] = next_state(r)] ELSE file
  /\ run' = [run EXCEPT ![r].pc = "print"]
  /\ kept' = [kept EXCEPT ![w] = [i \in Iids |->
                IF i \in Fetched(r) THEN run[r].got[i] ELSE @[i]]]
  /\ UNCHANGED <<gitlab, lock, stdout, faults, told>>

PrintReport(r) ==
  LET w == WatcherOf[r] IN
  /\ run[r].pc = "print"
  /\ stdout' = [stdout EXCEPT ![w] = status_message(r)]
  /\ told' = [told EXCEPT ![w] = [i \in Iids |->
                IF i \in Fetched(r) THEN run[r].got[i] ELSE @[i]]]
  /\ lock' = [lock EXCEPT ![w] = "free"]
  /\ run' = [run EXCEPT ![r] = Idle]
  /\ UNCHANGED <<gitlab, file, faults, kept>>

(* The run is killed, or an exception leaves it: the write of the state file *)
(* or of the report failed.  The kernel drops the lock.                      *)
Die(r) ==
  /\ run[r].pc # "idle"
  /\ faults < MaxFaults
  /\ faults' = faults + 1
  /\ lock' = [lock EXCEPT ![WatcherOf[r]] = "free"]
  /\ run' = [run EXCEPT ![r] = Idle]
  /\ UNCHANGED <<gitlab, file, stdout, kept, told>>

(* The operator removes a state file that the watcher refuses. *)
Unlink(w) ==
  /\ ~Readable(w)
  /\ file' = [file EXCEPT ![w] = Absent]
  /\ UNCHANGED <<gitlab, lock, run, stdout, faults, kept, told>>
-------------------------------------------------------------------------------
Init ==
  /\ gitlab = [i \in Iids |-> <<[state |-> "opened", merge |-> Null, counted |-> TRUE]>>]
  /\ file \in [Watchers -> StateFiles \cup {Absent, Malformed}]
  /\ \A w \in Watchers : file[w] \in InitFiles[w]
  /\ lock = [w \in Watchers |-> "free"]
  /\ run = [r \in Runs |-> Idle]
  /\ stdout = [w \in Watchers |-> <<>>]
  /\ faults = 0
  /\ kept = [w \in Watchers |-> NothingGot]
  /\ told = [w \in Watchers |-> NothingGot]

Next ==
  \/ \E i \in Iids : Change(i)
  \/ \E r \in Runs : \/ Begin(r) \/ FetchOk(r) \/ FetchFails(r)
                     \/ Persist(r) \/ PrintReport(r) \/ Die(r)
  \/ \E w \in Watchers : Unlink(w)

Spec == Init /\ [][Next]_vars

(* The cron job keeps starting each watcher, and a run that started goes on:  *)
(* a request has a timeout of twenty seconds and nothing else waits.          *)
Fairness ==
  /\ \A w \in Watchers :
       WF_vars(\E r \in Runs : WatcherOf[r] = w /\ Begin(r))
  /\ \A r \in Runs : /\ WF_vars(FetchOk(r) \/ FetchFails(r))
                     /\ WF_vars(Persist(r))
                     /\ WF_vars(PrintReport(r))

FairSpec == Spec /\ Fairness
-------------------------------------------------------------------------------
(* Types of the state.                                                       *)
TypeOK ==
  /\ gitlab \in [Iids -> Seq(Payload)]
  /\ \A i \in Iids : Len(gitlab[i]) \in 1..(MaxEvents[i] + 1)
  /\ file \in [Watchers -> StateFiles \cup {Absent, Malformed}]
  /\ lock \in [Watchers -> Runs \cup {"free"}]
  /\ run \in [Runs -> [pc : {"idle", "fetch", "print"}, k : Nat \ {0},
                       state : StateFiles, got : [Iids -> Nat]]]
  /\ stdout \in [Watchers -> UNION {[S -> Line] : S \in SUBSET Iids}]
  /\ faults \in 0..MaxFaults
  /\ kept \in [Watchers -> [Iids -> Nat]]
  /\ told \in [Watchers -> [Iids -> Nat]]

(* The state file says of a merge request what GitLab said the last time the *)
(* watcher got an answer and lived to write it, whatever failed since: a     *)
(* failed request keeps the state and, of a merge, its commit and time.      *)
LastGoodIsKept ==
  \A w \in Watchers, i \in Iids :
    kept[w][i] # 0 =>
      /\ file[w] \notin {Absent, Malformed}
      /\ i \in DOMAIN file[w]
      /\ kept[w][i] <= Len(gitlab[i])
      /\ Normal(w, file[w][i]) = Normal(w, Record(w, gitlab[i][kept[w][i]]))

(* The state is persisted before the report is printed: the state file is    *)
(* never behind an answer that a report has already given, also when runs    *)
(* die between the two.                                                      *)
PersistBeforeReport ==
  \A w \in Watchers, i \in Iids : told[w][i] <= kept[w][i]

(* Overlapping runs never replace a newer answer by an older one, neither in *)
(* the state file nor in what is reported.                                   *)
NoStaleAnswer ==
  [][\A w \in Watchers, i \in Iids :
       kept[w][i] <= kept'[w][i] /\ told[w][i] <= told'[w][i]]_vars

(* A state file the watcher cannot read fails closed: only its removal       *)
(* changes it, and nothing is reported meanwhile.                            *)
UnreadableIsPreserved ==
  [][\A w \in Watchers :
       ~Readable(w) => file'[w] \in {file[w], Absent} /\ stdout'[w] = stdout[w]]_vars

(* A merge that stays and whose answers the watcher can use is reported as   *)
(* merged in the end and from then on, with the state file saying so, once   *)
(* the state file can be read: whatever becomes of its siblings, some of     *)
(* which may never be answered again.  (The findings watcher never gets to   *)
(* know of the merge of a merge request with too many changes.)              *)
MergeIsReported ==
  \A w \in Watchers : \A i \in Asked(w) :
    (<>[](Now(i).state = "merged" /\ Usable(w, Now(i))) /\ <>Readable(w)) =>
      <>[](/\ i \in DOMAIN stdout[w] /\ stdout[w][i].status = "merged"
           /\ file[w][i].last = "merged")
===============================================================================
