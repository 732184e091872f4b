----------------------------- MODULE MrWatchProofs -----------------------------
(***************************************************************************)
(* What MrWatch keeps for every number of merge requests, overlapping runs *)
(* and faults.  The inductive invariant says who holds a lock and that a   *)
(* run which holds one still knows the state file it read.                 *)
(***************************************************************************)
EXTENDS MrWatch, SequenceTheorems, TLAPS

(* A run that is under way holds the lock of its watcher. *)
LockHeld == \A r \in Runs : run[r].pc # "idle" => lock[WatcherOf[r]] = r

(* The state file it read is readable, and unchanged until it writes. *)
RunReads ==
  \A r \in Runs :
    /\ run[r].pc # "idle" => Readable(WatcherOf[r])
    /\ run[r].pc = "fetch" => run[r].state = read_state(WatcherOf[r])

(* What it fetched is an answer to its own requests that GitLab gave.  No   *)
(* older one is in the state file, and once written it is that one.         *)
AnswersKnown ==
  \A r \in Runs, i \in Iids :
    run[r].pc # "idle" /\ run[r].got[i] # 0 =>
      /\ i \in Asked(WatcherOf[r])
      /\ run[r].got[i] <= Len(gitlab[i])
      /\ gitlab[i][run[r].got[i]].state \in VALID_STATES
      /\ kept[WatcherOf[r]][i] <= run[r].got[i]
      /\ run[r].pc = "print" => kept[WatcherOf[r]][i] = run[r].got[i]

(* The state file reflects answers GitLab gave. *)
KeptKnown == \A w \in Watchers, i \in Iids : kept[w][i] <= Len(gitlab[i])

(* A state file a run has confirmed or written stays readable. *)
KeptReadable == \A w \in Watchers, i \in Iids : kept[w][i] # 0 => Readable(w)

Inv == /\ TypeOK /\ LockHeld /\ RunReads /\ AnswersKnown /\ KeptKnown /\ KeptReadable
       /\ LastGoodIsKept /\ PersistBeforeReport
-------------------------------------------------------------------------------
(* Entries and state files.                                                  *)

LEMMA WatcherType == \A r \in Runs : WatcherOf[r] \in Watchers
BY RunAssumption

LEMMA AskedType == \A w \in Watchers : Asked(w) \subseteq Iids
BY IidAssumption DEF Asked

LEMMA CurrentType ==
  ASSUME TypeOK, NEW r \in Runs, More(r)
  PROVE  Current(r) \in Asked(WatcherOf[r]) /\ Current(r) \in Iids
<1>1. IIDS[WatcherOf[r]] \in Seq(Iids)
  BY WatcherType, IidAssumption
<1>2. run[r].k \in 1..Len(IIDS[WatcherOf[r]])
  BY <1>1 DEF TypeOK, More
<1>3. run[r].k \in DOMAIN IIDS[WatcherOf[r]]
  BY <1>1, <1>2
<1>. QED
  BY <1>1, <1>3 DEF Current, Asked

LEMMA NormalType == \A w \in Watchers : \A e \in Entry : Normal(w, e) \in Entry
BY DEF Entry, Normal

LEMMA NormalTwice ==
  \A w \in Watchers : \A e \in Entry : Normal(w, Normal(w, e)) = Normal(w, e)
BY FieldAssumption DEF Entry, Normal

LEMMA FileType ==
  ASSUME NEW f \in StateFiles
  PROVE  /\ DOMAIN f \subseteq Iids
         /\ \A i \in DOMAIN f : f[i] \in Entry
         /\ f \in [DOMAIN f -> Entry]
BY DEF StateFiles

LEMMA FileOf ==
  ASSUME NEW S \in SUBSET Iids, NEW f, f \in [S -> Entry]
  PROVE  f \in StateFiles
BY DEF StateFiles

LEMMA NormalFileType ==
  ASSUME NEW w \in Watchers, NEW f \in StateFiles
  PROVE  normalize_state(w, f) \in StateFiles
<1>1. normalize_state(w, f) \in [DOMAIN f -> Entry]
  BY FileType, NormalType DEF normalize_state
<1>. QED
  BY <1>1, FileOf, FileType

(* What a watcher reads from a readable state file. *)
LEMMA ReadType ==
  ASSUME TypeOK, NEW w \in Watchers, Readable(w)
  PROVE  /\ read_state(w) \in StateFiles
         /\ DOMAIN read_state(w) \subseteq Asked(w)
         /\ file[w] # Absent =>
              /\ file[w] \in StateFiles
              /\ read_state(w) = [i \in DOMAIN file[w] |-> Normal(w, file[w][i])]
<1>1. CASE file[w] = Absent
  <2>1. read_state(w) = <<>> /\ DOMAIN <<>> = {} /\ <<>> \in [{} -> Entry]
    BY <1>1 DEF read_state
  <2>. QED
    BY <2>1, <1>1, FileOf
<1>2. CASE file[w] # Absent
  <2>1. file[w] \in StateFiles /\ DOMAIN file[w] \subseteq Asked(w)
    BY <1>2 DEF TypeOK, Readable
  <2>. QED
    BY <2>1, <1>2, NormalFileType DEF read_state, normalize_state
<1>. QED
  BY <1>1, <1>2

LEMMA RecordType ==
  ASSUME NEW w, NEW p \in Payload, p.state \in VALID_STATES
  PROVE  Record(w, p) \in Entry
BY DEF Record, Payload, Entry

LEMMA LastGoodType ==
  ASSUME NEW f \in StateFiles, NEW i
  PROVE  LastGood(f, i) \in Entry
<1>1. i \in DOMAIN f => f[i] \in Entry
  BY FileType
<1>. QED
  BY <1>1 DEF LastGood, Entry, VALID_STATES

(* The entry of a failed request is the one that was read, with nulls. *)
LEMMA LastGoodKeeps ==
  ASSUME NEW f \in StateFiles, NEW i \in DOMAIN f,
         Normal("findings", f[i]) = f[i]
  PROVE  Normal("findings", LastGood(f, i)) = f[i]
<1>1. f[i] \in Entry
  BY FileType
<1>. QED
  BY <1>1, FieldAssumption DEF LastGood, Entry, Normal

LEMMA AnswerType ==
  ASSUME TypeOK, AnswersKnown, NEW r \in Runs, run[r].pc # "idle", NEW i \in Fetched(r)
  PROVE  /\ Answer(r, i) \in Payload
         /\ Answer(r, i).state \in VALID_STATES
         /\ i \in Asked(WatcherOf[r]) /\ i \in Iids
<1>1. i \in Iids /\ run[r].got[i] # 0 /\ run[r].got[i] \in Nat
  BY DEF Fetched, TypeOK
<1>2. gitlab[i] \in Seq(Payload) /\ run[r].got[i] \in 1..Len(gitlab[i])
  BY <1>1 DEF TypeOK, AnswersKnown
<1>. QED
  BY <1>1, <1>2 DEF Answer, AnswersKnown

(* Each watcher's next state is a state file it can read again. *)
LEMMA NextStateType ==
  ASSUME TypeOK, RunReads, AnswersKnown, NEW r \in Runs, run[r].pc = "fetch"
  PROVE  /\ next_state(r) \in StateFiles
         /\ DOMAIN next_state(r) \subseteq Asked(WatcherOf[r])
<1>. DEFINE w == WatcherOf[r]
<1>1. w \in Watchers /\ Readable(w) /\ run[r].state = read_state(w)
  BY WatcherType DEF RunReads
<1>2. run[r].state \in StateFiles /\ DOMAIN run[r].state \subseteq Asked(w)
  BY <1>1, ReadType
<1>3. ASSUME NEW i \in Fetched(r)
      PROVE  /\ \A v \in Watchers : Record(v, Answer(r, i)) \in Entry
             /\ i \in Asked(w) /\ i \in Iids
  BY AnswerType, RecordType
<1>4. CASE w = "findings"
  <2>1. \A i \in Asked("findings") : LastGood(run[r].state, i) \in Entry
    BY <1>2, LastGoodType
  <2>2. findings_state(r) \in [Asked("findings") -> Entry]
    BY <2>1, <1>3, <1>1, <1>4 DEF findings_state
  <2>3. next_state(r) = findings_state(r)
    BY <1>4 DEF next_state
  <2>. HIDE DEF w
  <2>4. Asked("findings") \subseteq Iids
    BY AskedType DEF Watchers
  <2>. QED
    BY <2>2, <2>3, <2>4, <1>4, FileOf DEF w
<1>5. CASE w = "pair"
  <2>1. pair_state(r) \in [DOMAIN run[r].state \cup Fetched(r) -> Entry]
    BY <1>2, <1>3, FileType DEF pair_state, Watchers
  <2>2. DOMAIN run[r].state \cup Fetched(r) \subseteq Asked(w)
    BY <1>2, <1>3
  <2>3. next_state(r) = pair_state(r)
    BY <1>5 DEF next_state
  <2>. QED
    BY <2>1, <2>2, <2>3, <1>1, AskedType, FileOf
<1>. QED
  BY <1>1, <1>4, <1>5 DEF Watchers

(* It records the answers and keeps the rest of what was read. *)
LEMMA NextStateKeeps ==
  ASSUME TypeOK, RunReads, AnswersKnown, NEW r \in Runs, run[r].pc = "fetch",
         NEW i \in Iids
  PROVE  /\ i \in Fetched(r) =>
              /\ i \in DOMAIN next_state(r)
              /\ next_state(r)[i] = Record(WatcherOf[r], Answer(r, i))
         /\ i \notin Fetched(r) /\ i \in DOMAIN run[r].state =>
              /\ i \in DOMAIN next_state(r)
              /\ Normal(WatcherOf[r], next_state(r)[i]) = run[r].state[i]
<1>. DEFINE w == WatcherOf[r]
<1>1. w \in Watchers /\ Readable(w) /\ run[r].state = read_state(w)
  BY WatcherType DEF RunReads
<1>2. run[r].state \in StateFiles /\ DOMAIN run[r].state \subseteq Asked(w)
  BY <1>1, ReadType
<1>3. i \in Fetched(r) => i \in Asked(w)
  BY AnswerType
<1>4. ASSUME i \in DOMAIN run[r].state PROVE Normal(w, run[r].state[i]) = run[r].state[i]
  <2>1. file[w] # Absent
    BY <1>1, <1>4 DEF read_state
  <2>2. run[r].state = [j \in DOMAIN file[w] |-> Normal(w, file[w][j])] /\ file[w] \in StateFiles
    BY <1>1, <2>1, ReadType
  <2>3. file[w][i] \in Entry
    BY <1>4, <2>2, FileType
  <2>. QED
    BY <1>1, <1>4, <2>2, <2>3, NormalTwice
<1>5. CASE w = "findings"
  <2>1. next_state(r) = findings_state(r)
    BY <1>5 DEF next_state
  <2>2. i \in DOMAIN run[r].state =>
          Normal("findings", LastGood(run[r].state, i)) = run[r].state[i]
    BY <1>2, <1>4, <1>5, LastGoodKeeps
  <2>. QED
    BY <2>1, <2>2, <1>2, <1>3, <1>5 DEF findings_state
<1>6. CASE w = "pair"
  <2>1. next_state(r) = pair_state(r)
    BY <1>6 DEF next_state
  <2>. QED
    BY <2>1, <1>4, <1>6 DEF pair_state
<1>. QED
  BY <1>1, <1>5, <1>6 DEF Watchers

LEMMA ReportType ==
  ASSUME TypeOK, AnswersKnown, NEW r \in Runs, run[r].pc = "print"
  PROVE  status_message(r) \in UNION {[S -> Line] : S \in SUBSET Iids}
<1>1. ASSUME NEW i \in Asked(WatcherOf[r]) PROVE LineOf(r, i) \in Line
  <2>1. run[r].state \in StateFiles
    BY DEF TypeOK
  <2>2. LastGood(run[r].state, i).merge \in Merges \cup {Null, NoKey}
    BY <2>1, LastGoodType DEF Entry
  <2>3. CASE i \in Fetched(r)
    <3>1. Answer(r, i) \in Payload /\ Answer(r, i).state \in VALID_STATES
      BY <2>3, AnswerType
    <3>2. Record(WatcherOf[r], Answer(r, i)).merge \in Merges \cup {Null, NoKey}
      BY <3>1, RecordType DEF Entry
    <3>3. CASE Answer(r, i).state = "merged"
      BY <2>3, <3>2, <3>3 DEF LineOf, Line
    <3>4. CASE Answer(r, i).state # "merged"
      BY <2>3, <3>4 DEF LineOf, Line
    <3>. QED
      BY <3>3, <3>4
  <2>4. CASE i \notin Fetched(r)
    BY <2>2, <2>4 DEF LineOf, Line
  <2>. QED
    BY <2>3, <2>4
<1>2. status_message(r) \in [Asked(WatcherOf[r]) -> Line]
  BY <1>1 DEF status_message
<1>3. Asked(WatcherOf[r]) \in SUBSET Iids
  BY WatcherType, AskedType
<1>. QED
  BY <1>2, <1>3
-------------------------------------------------------------------------------
(* The invariant and the steps.                                              *)

LEMMA InitInv == Init => Inv
<1>. SUFFICES ASSUME Init PROVE Inv
  OBVIOUS
<1>1. NothingGot \in [Iids -> Nat] /\ \A i \in Iids : NothingGot[i] = 0
  BY DEF NothingGot
<1>2. <<>> \in StateFiles /\ <<>> \in UNION {[S -> Line] : S \in SUBSET Iids}
  <2>1. <<>> \in [{} -> Entry] /\ <<>> \in [{} -> Line]
    OBVIOUS
  <2>. QED
    BY <2>1 DEF StateFiles
<1>3. TypeOK
  <2>1. \A i \in Iids : gitlab[i] = <<[state |-> "opened", merge |-> Null, counted |-> TRUE]>>
    BY DEF Init
  <2>2. <<[state |-> "opened", merge |-> Null, counted |-> TRUE]>> \in Seq(Payload)
    BY DEF Payload, VALID_STATES
  <2>3. ASSUME NEW i \in Iids PROVE Len(gitlab[i]) \in 1..(MaxEvents[i] + 1)
    <3>1. Len(gitlab[i]) = 1 /\ MaxEvents[i] \in Nat
      BY <2>1, WatchBoundAssumption
    <3>. QED
      BY <3>1
  <2>4. gitlab \in [Iids -> Seq(Payload)]
    <3>. DEFINE first == <<[state |-> "opened", merge |-> Null, counted |-> TRUE]>>
    <3>1. gitlab = [j \in Iids |-> first] /\ first \in Seq(Payload)
      BY <2>2 DEF Init
    <3>. HIDE DEF first
    <3>. QED
      BY <3>1
  <2>5. run \in [Runs -> [pc : {"idle", "fetch", "print"}, k : Nat \ {0},
                          state : StateFiles, got : [Iids -> Nat]]]
    BY <1>1, <1>2 DEF Init, Idle
  <2>6. faults \in 0..MaxFaults
    BY WatchBoundAssumption DEF Init
  <2>7. stdout \in [Watchers -> UNION {[S -> Line] : S \in SUBSET Iids}]
    BY <1>2 DEF Init
  <2>8. /\ kept \in [Watchers -> [Iids -> Nat]] /\ told \in [Watchers -> [Iids -> Nat]]
        /\ lock \in [Watchers -> Runs \cup {"free"}]
        /\ file \in [Watchers -> StateFiles \cup {Absent, Malformed}]
    BY <1>1 DEF Init
  <2>. QED
    BY <2>3, <2>4, <2>5, <2>6, <2>7, <2>8 DEF TypeOK
<1>4. \A r \in Runs : run[r].pc = "idle"
  BY DEF Init, Idle
<1>5. \A w \in Watchers, i \in Iids : kept[w][i] = 0 /\ told[w][i] = 0
  BY <1>1 DEF Init
<1>6. KeptKnown /\ KeptReadable /\ PersistBeforeReport /\ LastGoodIsKept
  BY <1>3, <1>5 DEF KeptKnown, KeptReadable, PersistBeforeReport, LastGoodIsKept, TypeOK
<1>7. LockHeld /\ RunReads /\ AnswersKnown
  BY <1>4 DEF LockHeld, RunReads, AnswersKnown
<1>. QED
  BY <1>3, <1>6, <1>7 DEF Inv

(* GitLab's answers are only ever added to. *)
LEMMA HistoryGrows ==
  ASSUME TypeOK, NEW i \in Iids, Change(i)
  PROVE  /\ TypeOK'
         /\ \A j \in Iids : \A n \in 1..Len(gitlab[j]) :
              n <= Len(gitlab'[j]) /\ gitlab'[j][n] = gitlab[j][n]
<1>. PICK p \in Payload : gitlab' = [gitlab EXCEPT ![i] = Append(@, p)]
  BY AnswerAssumption DEF Change
<1>1. gitlab[i] \in Seq(Payload) /\ gitlab \in [Iids -> Seq(Payload)]
  BY DEF TypeOK
<1>2. gitlab'[i] = Append(gitlab[i], p) /\ \A j \in Iids \ {i} : gitlab'[j] = gitlab[j]
  BY <1>1
<1>3. /\ Append(gitlab[i], p) \in Seq(Payload)
      /\ Len(Append(gitlab[i], p)) = Len(gitlab[i]) + 1
      /\ \A n \in 1..Len(gitlab[i]) : Append(gitlab[i], p)[n] = gitlab[i][n]
  BY <1>1
<1>4. \A j \in Iids : Len(gitlab'[j]) \in 1..(MaxEvents[j] + 1)
  <2>1. Len(gitlab[i]) <= MaxEvents[i] /\ Len(gitlab[i]) \in Nat /\ MaxEvents[i] \in Nat
    BY <1>1, WatchBoundAssumption DEF Change
  <2>2. Len(gitlab'[i]) \in 1..(MaxEvents[i] + 1)
    BY <1>2, <1>3, <2>1
  <2>. QED
    BY <1>2, <2>2 DEF TypeOK
<1>5. TypeOK'
  BY <1>1, <1>3, <1>4 DEF Change, TypeOK
<1>6. \A j \in Iids : Len(gitlab[j]) \in Nat
  BY <1>1
<1>. QED
  BY <1>2, <1>3, <1>5, <1>6

LEMMA ChangeStep ==
  ASSUME Inv, NEW i \in Iids, Change(i)
  PROVE  Inv'
<1>1. TypeOK' /\ \A j \in Iids : \A n \in 1..Len(gitlab[j]) :
              n <= Len(gitlab'[j]) /\ gitlab'[j][n] = gitlab[j][n]
  BY HistoryGrows DEF Inv
<1>2. UNCHANGED <<file, lock, run, stdout, faults, kept, told>>
  BY DEF Change
<1>3. LockHeld' /\ RunReads' /\ PersistBeforeReport' /\ KeptReadable'
  BY <1>2 DEF Inv, LockHeld, RunReads, PersistBeforeReport, KeptReadable, Readable, read_state
<1>4. AnswersKnown'
  <2>1. ASSUME NEW r \in Runs, NEW j \in Iids, run[r].got[j] # 0, run[r].pc # "idle"
        PROVE  /\ run[r].got[j] <= Len(gitlab'[j])
               /\ gitlab'[j][run[r].got[j]] = gitlab[j][run[r].got[j]]
    <3>1. run[r].got[j] \in 1..Len(gitlab[j])
      BY <2>1 DEF Inv, TypeOK, AnswersKnown
    <3>. QED
      BY <3>1, <1>1
  <2>. QED
    BY <1>2, <2>1 DEF Inv, AnswersKnown
<1>5. KeptKnown' /\ LastGoodIsKept'
  <2>1. ASSUME NEW w \in Watchers, NEW j \in Iids, kept[w][j] # 0
        PROVE  /\ kept[w][j] <= Len(gitlab'[j])
               /\ gitlab'[j][kept[w][j]] = gitlab[j][kept[w][j]]
    <3>1. kept[w][j] \in 1..Len(gitlab[j])
      BY <2>1 DEF Inv, TypeOK, KeptKnown
    <3>. QED
      BY <3>1, <1>1
  <2>2. ASSUME NEW j \in Iids PROVE Len(gitlab'[j]) >= 0
    BY <1>1 DEF TypeOK
  <2>. QED
    BY <1>2, <2>1, <2>2 DEF Inv, KeptKnown, LastGoodIsKept
<1>. QED
  BY <1>1, <1>3, <1>4, <1>5 DEF Inv

LEMMA BeginStep ==
  ASSUME Inv, NEW r \in Runs, Begin(r)
  PROVE  Inv'
<1>. DEFINE w == WatcherOf[r]
<1>1. w \in Watchers /\ lock[w] = "free" /\ Readable(w)
  BY WatcherType DEF Begin
<1>2. /\ lock' = [lock EXCEPT ![w] = r]
      /\ run' = [run EXCEPT ![r] = [Idle EXCEPT !.pc = "fetch", !.state = read_state(w)]]
      /\ UNCHANGED <<gitlab, file, stdout, faults, kept, told>>
  BY DEF Begin
<1>3. read_state(w) \in StateFiles
  BY <1>1, ReadType DEF Inv
<1>4. /\ run'[r] = [pc |-> "fetch", k |-> 1, state |-> read_state(w), got |-> NothingGot]
      /\ \A q \in Runs \ {r} : run'[q] = run[q]
  BY <1>2 DEF Inv, TypeOK, Idle
<1>5. TypeOK'
  <2>1. run'[r] \in [pc : {"idle", "fetch", "print"}, k : Nat \ {0},
                      state : StateFiles, got : [Iids -> Nat]]
    BY <1>3, <1>4 DEF NothingGot
  <2>. QED
    BY <1>1, <1>2, <2>1, <1>4 DEF Inv, TypeOK
<1>6. \A q \in Runs : run[q].pc # "idle" => WatcherOf[q] # w
  BY <1>1, FreeAssumption DEF Inv, LockHeld
<1>7. LockHeld'
  <2>1. lock'[w] = r /\ \A v \in Watchers \ {w} : lock'[v] = lock[v]
    BY <1>1, <1>2 DEF Inv, TypeOK
  <2>. QED
    BY <2>1, <1>4, <1>6, WatcherType DEF Inv, LockHeld
<1>8. RunReads'
  BY <1>1, <1>2, <1>4 DEF Inv, RunReads, Readable, read_state
<1>9. AnswersKnown'
  <2>1. \A j \in Iids : run'[r].got[j] = 0
    BY <1>4 DEF NothingGot
  <2>. QED
    BY <2>1, <1>2, <1>4 DEF Inv, AnswersKnown
<1>10. KeptKnown' /\ KeptReadable' /\ LastGoodIsKept' /\ PersistBeforeReport'
  BY <1>2 DEF Inv, KeptKnown, KeptReadable, Readable, LastGoodIsKept, PersistBeforeReport
<1>. QED
  BY <1>5, <1>7, <1>8, <1>9, <1>10 DEF Inv

LEMMA FetchStep ==
  ASSUME Inv, NEW r \in Runs, FetchOk(r) \/ FetchFails(r)
  PROVE  Inv'
<1>. DEFINE i == Current(r)
<1>1. More(r) /\ i \in Iids /\ i \in Asked(WatcherOf[r]) /\ run[r].pc = "fetch"
  BY CurrentType DEF Inv, FetchOk, FetchFails, More
<1>2. gitlab[i] \in Seq(Payload) /\ Len(gitlab[i]) \in Nat /\ Len(gitlab[i]) # 0
  BY <1>1 DEF Inv, TypeOK
<1>3. /\ UNCHANGED <<gitlab, file, lock, stdout, kept, told>>
      /\ faults' \in 0..MaxFaults
  BY WatchBoundAssumption DEF Inv, TypeOK, FetchOk, FetchFails
<1>4. PICK n \in Nat :
        /\ run' = [run EXCEPT ![r] = Got(r, n)]
        /\ \/ n = 0
           \/ n = Len(gitlab[i]) /\ gitlab[i][Len(gitlab[i])].state \in VALID_STATES
  BY <1>2 DEF FetchOk, FetchFails, Now, Usable
<1>5. /\ run' \in [Runs -> [pc : {"idle", "fetch", "print"}, k : Nat \ {0},
                             state : StateFiles, got : [Iids -> Nat]]]
      /\ \A q \in Runs \ {r} : run'[q] = run[q]
      /\ run'[r].pc = "fetch" /\ run'[r].state = run[r].state
      /\ run'[r].got[i] = n
      /\ \A j \in Iids \ {i} : run'[r].got[j] = run[r].got[j]
  <2>1. run[r] \in [pc : {"idle", "fetch", "print"}, k : Nat \ {0},
                    state : StateFiles, got : [Iids -> Nat]]
    BY DEF Inv, TypeOK
  <2>2. /\ Got(r, n) \in [pc : {"idle", "fetch", "print"}, k : Nat \ {0},
                          state : StateFiles, got : [Iids -> Nat]]
        /\ Got(r, n).pc = "fetch" /\ Got(r, n).state = run[r].state
        /\ Got(r, n).got = [run[r].got EXCEPT ![i] = n]
    <3>1. run[r].k + 1 \in Nat \ {0}
      BY <2>1
    <3>2. [run[r].got EXCEPT ![i] = n] \in [Iids -> Nat]
      BY <2>1, <1>1
    <3>3. Got(r, n) = [pc |-> "fetch", k |-> run[r].k + 1, state |-> run[r].state,
                       got |-> [run[r].got EXCEPT ![i] = n]]
      BY DEF Got
    <3>. QED
      BY <1>1, <2>1, <3>1, <3>2, <3>3
  <2>3. /\ Got(r, n).got[i] = n
        /\ \A j \in Iids \ {i} : Got(r, n).got[j] = run[r].got[j]
    BY <1>1, <2>1, <2>2
  <2>. HIDE DEF i
  <2>. QED
    BY <1>4, <2>2, <2>3 DEF Inv, TypeOK
<1>6. TypeOK'
  BY <1>3, <1>5 DEF Inv, TypeOK
<1>7. LockHeld' /\ RunReads'
  <2>1. \A q \in Runs : run'[q].pc = run[q].pc /\ run'[q].state = run[q].state
    BY <1>1, <1>5
  <2>. QED
    BY <2>1, <1>3 DEF Inv, LockHeld, RunReads, Readable, read_state
<1>8. AnswersKnown'
  <2>1. kept[WatcherOf[r]][i] <= Len(gitlab[i])
    BY <1>1, WatcherType DEF Inv, KeptKnown
  <2>2. ASSUME NEW j \in Iids, run'[r].got[j] # 0
        PROVE  /\ j \in Asked(WatcherOf[r])
               /\ run'[r].got[j] <= Len(gitlab[j])
               /\ gitlab[j][run'[r].got[j]].state \in VALID_STATES
               /\ kept[WatcherOf[r]][j] <= run'[r].got[j]
    <3>1. CASE j = i
      BY <3>1, <2>2, <1>1, <1>2, <1>4, <1>5, <2>1
    <3>2. CASE j # i
      BY <3>2, <2>2, <1>1, <1>5 DEF Inv, AnswersKnown
    <3>. QED
      BY <3>1, <3>2, <2>2, <1>4, <1>5
  <2>3. ASSUME NEW q \in Runs \ {r}, NEW j \in Iids,
               run'[q].pc # "idle", run'[q].got[j] # 0
        PROVE  /\ j \in Asked(WatcherOf[q])
               /\ run'[q].got[j] <= Len(gitlab[j])
               /\ gitlab[j][run'[q].got[j]].state \in VALID_STATES
               /\ kept[WatcherOf[q]][j] <= run'[q].got[j]
               /\ run'[q].pc = "print" => kept[WatcherOf[q]][j] = run'[q].got[j]
    <3>1. run'[q] = run[q] /\ q \in Runs
      BY <1>5
    <3>2. run[q].pc # "idle" /\ run[q].got[j] # 0
      BY <2>3, <3>1
    <3>. QED
      BY <3>1, <3>2 DEF Inv, AnswersKnown
  <2>4. gitlab' = gitlab /\ kept' = kept /\ run'[r].pc = "fetch"
    BY <1>3, <1>5
  <2>. HIDE DEF i
  <2>. QED
    BY <2>2, <2>3, <2>4, Zenon DEF AnswersKnown
<1>9. KeptKnown' /\ KeptReadable' /\ LastGoodIsKept' /\ PersistBeforeReport'
  BY <1>3 DEF Inv, KeptKnown, KeptReadable, Readable, LastGoodIsKept, PersistBeforeReport
<1>. QED
  BY <1>6, <1>7, <1>8, <1>9 DEF Inv

LEMMA PersistStep ==
  ASSUME Inv, NEW r \in Runs, Persist(r)
  PROVE  Inv'
<1>. DEFINE w == WatcherOf[r]
            N == next_state(r)
<1>1. w \in Watchers /\ run[r].pc = "fetch" /\ lock[w] = r
  BY WatcherType DEF Persist, Inv, LockHeld
<1>2. /\ file' = IF N # run[r].state THEN [file EXCEPT ![w] = N] ELSE file
      /\ run' = [run EXCEPT ![r] = [@ EXCEPT !.pc = "print"]]
      /\ kept' = [kept EXCEPT ![w] = [i \in Iids |->
                    IF i \in Fetched(r) THEN run[r].got[i] ELSE @[i]]]
      /\ UNCHANGED <<gitlab, lock, stdout, faults, told>>
  BY DEF Persist
<1>3. N \in StateFiles /\ DOMAIN N \subseteq Asked(w)
  BY <1>1, NextStateType DEF Inv
<1>4. Readable(w) /\ run[r].state = read_state(w)
  BY <1>1 DEF Inv, RunReads
<1>5. /\ run'[r].pc = "print" /\ run'[r].got = run[r].got
      /\ \A q \in Runs \ {r} : run'[q] = run[q]
      /\ run' \in [Runs -> [pc : {"idle", "fetch", "print"}, k : Nat \ {0},
                            state : StateFiles, got : [Iids -> Nat]]]
  BY <1>2 DEF Inv, TypeOK
<1>6. /\ \A v \in Watchers \ {w} : kept'[v] = kept[v] /\ file'[v] = file[v]
      /\ \A i \in Iids : kept'[w][i] =
           IF i \in Fetched(r) THEN run[r].got[i] ELSE kept[w][i]
      /\ kept' \in [Watchers -> [Iids -> Nat]]
      /\ file' \in [Watchers -> StateFiles \cup {Absent, Malformed}]
      /\ N # run[r].state => file'[w] = N
      /\ N = run[r].state => file' = file
  <2>1. [i \in Iids |-> IF i \in Fetched(r) THEN run[r].got[i] ELSE kept[w][i]]
          \in [Iids -> Nat]
    BY <1>1 DEF Inv, TypeOK
  <2>. HIDE DEF w, N
  <2>. QED
    BY <1>1, <1>2, <1>3, <2>1 DEF Inv, TypeOK
<1>7. TypeOK'
  BY <1>2, <1>5, <1>6 DEF Inv, TypeOK
<1>8. \A q \in Runs \ {r} : run[q].pc # "idle" => WatcherOf[q] # w
  BY <1>1 DEF Inv, LockHeld
<1>9. LockHeld'
  BY <1>1, <1>2, <1>5 DEF Inv, LockHeld
<1>10. RunReads'
  <2>1. Readable(w)'
    BY <1>3, <1>4, <1>6, FileAssumption DEF Readable
  <2>2. ASSUME NEW v \in Watchers \ {w}
        PROVE  (Readable(v)' <=> Readable(v)) /\ read_state(v)' = read_state(v)
    BY <1>6 DEF Readable, read_state
  <2>. QED
    BY <2>1, <2>2, <1>5, <1>8, WatcherType DEF Inv, RunReads
<1>10a. KeptReadable'
  <2>1. Readable(w)'
    BY <1>3, <1>4, <1>6, FileAssumption DEF Readable
  <2>2. ASSUME NEW v \in Watchers \ {w} PROVE Readable(v)' <=> Readable(v)
    BY <1>6 DEF Readable
  <2>. QED
    BY <2>1, <2>2, <1>6 DEF Inv, KeptReadable
<1>11. AnswersKnown'
  <2>1. ASSUME NEW i \in Iids, run[r].got[i] # 0 PROVE i \in Fetched(r)
    BY <2>1 DEF Fetched
  <2>2. ASSUME NEW q \in Runs, NEW i \in Iids, run'[q].pc # "idle", run'[q].got[i] # 0
        PROVE  /\ i \in Asked(WatcherOf[q])
               /\ run'[q].got[i] <= Len(gitlab[i])
               /\ gitlab[i][run'[q].got[i]].state \in VALID_STATES
               /\ kept'[WatcherOf[q]][i] <= run'[q].got[i]
               /\ run'[q].pc = "print" => kept'[WatcherOf[q]][i] = run'[q].got[i]
    <3>1. CASE q = r
      <4>1. run[r].got[i] # 0 /\ i \in Fetched(r) /\ run[r].got[i] \in Nat
        BY <2>1, <2>2, <3>1, <1>5 DEF Inv, TypeOK
      <4>. QED
        BY <3>1, <4>1, <1>1, <1>5, <1>6 DEF Inv, AnswersKnown
    <3>2. CASE q # r
      <4>1. run'[q] = run[q] /\ WatcherOf[q] # w /\ WatcherOf[q] \in Watchers
        BY <3>2, <2>2, <1>5, <1>8, WatcherType
      <4>. QED
        BY <4>1, <2>2, <1>6 DEF Inv, AnswersKnown
    <3>. QED
      BY <3>1, <3>2
  <2>. QED
    BY <2>2, <1>2 DEF AnswersKnown
<1>12. KeptKnown' /\ PersistBeforeReport'
  <2>1. ASSUME NEW i \in Iids
        PROVE  kept'[w][i] <= Len(gitlab[i]) /\ kept[w][i] <= kept'[w][i]
    BY <1>1, <1>6 DEF Inv, TypeOK, AnswersKnown, KeptKnown, Fetched
  <2>2. ASSUME NEW i \in Iids PROVE told[w][i] <= kept'[w][i]
    BY <2>1, <1>1, <1>6 DEF Inv, TypeOK, PersistBeforeReport
  <2>. QED
    BY <2>1, <2>2, <1>2, <1>6 DEF Inv, KeptKnown, PersistBeforeReport
<1>13. LastGoodIsKept'
  <2>1. ASSUME NEW i \in Iids, kept'[w][i] # 0
        PROVE  /\ i \in DOMAIN N
               /\ Normal(w, N[i]) = Normal(w, Record(w, gitlab[i][kept'[w][i]]))
    <3>1. CASE i \in Fetched(r)
      <4>1. kept'[w][i] = run[r].got[i]
        BY <3>1, <1>6
      <4>2. i \in DOMAIN N /\ N[i] = Record(w, Answer(r, i))
        BY <3>1, <1>1, NextStateKeeps DEF Inv
      <4>. QED
        BY <4>1, <4>2 DEF Answer
    <3>2. CASE i \notin Fetched(r)
      <4>1. kept'[w][i] = kept[w][i]
        BY <3>2, <1>6
      <4>2. /\ file[w] \notin {Absent, Malformed} /\ i \in DOMAIN file[w]
            /\ Normal(w, file[w][i]) = Normal(w, Record(w, gitlab[i][kept[w][i]]))
        BY <2>1, <4>1, <1>1 DEF Inv, LastGoodIsKept
      <4>3. i \in DOMAIN run[r].state /\ run[r].state[i] = Normal(w, file[w][i])
        BY <4>2, <1>1, <1>4, ReadType DEF Inv
      <4>4. i \in DOMAIN N /\ Normal(w, N[i]) = run[r].state[i]
        BY <3>2, <4>3, <1>1, NextStateKeeps DEF Inv
      <4>. QED
        BY <4>1, <4>2, <4>3, <4>4
    <3>. QED
      BY <3>1, <3>2
  <2>2. ASSUME NEW i \in Iids, kept'[w][i] # 0
        PROVE  /\ file'[w] \notin {Absent, Malformed}
               /\ i \in DOMAIN file'[w]
               /\ Normal(w, file'[w][i]) = Normal(w, Record(w, gitlab[i][kept'[w][i]]))
    <3>1. CASE N # run[r].state
      BY <3>1, <2>1, <2>2, <1>3, <1>6, FileAssumption
    <3>2. CASE N = run[r].state
      <4>1. file[w] # Absent
        BY <2>1, <2>2, <3>2, <1>4 DEF read_state
      <4>2. file[w] \in StateFiles /\ N = [j \in DOMAIN file[w] |-> Normal(w, file[w][j])]
        BY <3>2, <4>1, <1>1, <1>4, ReadType DEF Inv
      <4>3. i \in DOMAIN file[w] /\ N[i] = Normal(w, file[w][i])
        BY <2>1, <2>2, <4>2
      <4>4. Normal(w, N[i]) = Normal(w, file[w][i])
        BY <1>1, <4>2, <4>3, FileType, NormalTwice
      <4>5. file'[w] = file[w] /\ file[w] \notin {Absent, Malformed}
        BY <3>2, <4>2, <1>6, FileAssumption
      <4>. QED
        BY <2>1, <2>2, <4>3, <4>4, <4>5
    <3>. QED
      BY <3>1, <3>2
  <2>3. ASSUME NEW i \in Iids PROVE kept'[w][i] <= Len(gitlab[i])
    BY <1>2, <1>1, <1>12 DEF KeptKnown
  <2>. HIDE DEF w
  <2>. QED
    BY <2>2, <2>3, <1>2, <1>6 DEF Inv, LastGoodIsKept
<1>. QED
  BY <1>7, <1>9, <1>10, <1>11, <1>12, <1>13, <1>10a DEF Inv

(* A run ends: its lock is free and nothing else depends on it. *)
LEMMA EndStep ==
  ASSUME Inv, NEW r \in Runs, run[r].pc # "idle",
         lock' = [lock EXCEPT ![WatcherOf[r]] = "free"],
         run' = [run EXCEPT ![r] = Idle],
         UNCHANGED <<gitlab, file, kept>>
  PROVE  /\ LockHeld' /\ RunReads' /\ AnswersKnown' /\ KeptKnown' /\ KeptReadable'
         /\ LastGoodIsKept'
         /\ lock' \in [Watchers -> Runs \cup {"free"}]
         /\ run' \in [Runs -> [pc : {"idle", "fetch", "print"}, k : Nat \ {0},
                               state : StateFiles, got : [Iids -> Nat]]]
<1>1. run'[r].pc = "idle" /\ \A q \in Runs \ {r} : run'[q] = run[q]
  BY DEF Inv, TypeOK, Idle
<1>2. lock[WatcherOf[r]] = r
  BY DEF Inv, LockHeld
<1>3. ASSUME NEW q \in Runs \ {r}, run[q].pc # "idle"
      PROVE  lock'[WatcherOf[q]] = q
  BY <1>2, <1>3, WatcherType DEF Inv, TypeOK, LockHeld
<1>4. LockHeld' /\ RunReads' /\ AnswersKnown'
  BY <1>1, <1>3 DEF Inv, LockHeld, RunReads, AnswersKnown, Readable, read_state
<1>5. KeptKnown' /\ KeptReadable' /\ LastGoodIsKept'
  BY DEF Inv, KeptKnown, KeptReadable, Readable, LastGoodIsKept
<1>6. Idle \in [pc : {"idle", "fetch", "print"}, k : Nat \ {0},
                state : StateFiles, got : [Iids -> Nat]]
  <2>1. <<>> \in [{} -> Entry]
    OBVIOUS
  <2>2. <<>> \in StateFiles
    BY <2>1 DEF StateFiles
  <2>3. NothingGot \in [Iids -> Nat]
    BY DEF NothingGot
  <2>. QED
    BY <2>2, <2>3 DEF Idle
<1>. QED
  BY <1>4, <1>5, <1>6, WatcherType DEF Inv, TypeOK

LEMMA PrintStep ==
  ASSUME Inv, NEW r \in Runs, PrintReport(r)
  PROVE  Inv'
<1>. DEFINE w == WatcherOf[r]
<1>1. w \in Watchers /\ run[r].pc = "print"
  BY WatcherType DEF PrintReport
<1>2. /\ told' = [told EXCEPT ![w] = [i \in Iids |->
                    IF i \in Fetched(r) THEN run[r].got[i] ELSE @[i]]]
      /\ stdout' = [stdout EXCEPT ![w] = status_message(r)]
      /\ lock' = [lock EXCEPT ![w] = "free"]
      /\ run' = [run EXCEPT ![r] = Idle]
      /\ UNCHANGED <<gitlab, file, faults, kept>>
  BY DEF PrintReport
<1>3. /\ LockHeld' /\ RunReads' /\ AnswersKnown' /\ KeptKnown' /\ KeptReadable'
         /\ LastGoodIsKept'
      /\ lock' \in [Watchers -> Runs \cup {"free"}]
      /\ run' \in [Runs -> [pc : {"idle", "fetch", "print"}, k : Nat \ {0},
                            state : StateFiles, got : [Iids -> Nat]]]
  BY <1>1, <1>2, EndStep
<1>4. status_message(r) \in UNION {[S -> Line] : S \in SUBSET Iids}
  BY <1>1, ReportType DEF Inv
<1>5. /\ \A v \in Watchers \ {w} : told'[v] = told[v]
      /\ \A i \in Iids : told'[w][i] =
           IF i \in Fetched(r) THEN run[r].got[i] ELSE told[w][i]
      /\ told' \in [Watchers -> [Iids -> Nat]]
  <2>1. [i \in Iids |-> IF i \in Fetched(r) THEN run[r].got[i] ELSE told[w][i]]
          \in [Iids -> Nat]
    BY <1>1 DEF Inv, TypeOK
  <2>. HIDE DEF w
  <2>. QED
    BY <1>1, <1>2, <2>1 DEF Inv, TypeOK
<1>6. TypeOK'
  <2>1. stdout' \in [Watchers -> UNION {[S -> Line] : S \in SUBSET Iids}]
    BY <1>1, <1>2, <1>4 DEF Inv, TypeOK
  <2>. QED
    BY <2>1, <1>2, <1>3, <1>5 DEF Inv, TypeOK
<1>7. PersistBeforeReport'
  <2>1. ASSUME NEW i \in Iids PROVE told'[w][i] <= kept[w][i]
    BY <1>1, <1>5 DEF Inv, TypeOK, PersistBeforeReport, AnswersKnown, Fetched
  <2>. QED
    BY <2>1, <1>2, <1>5 DEF Inv, PersistBeforeReport
<1>. QED
  BY <1>3, <1>6, <1>7 DEF Inv

LEMMA DieStep ==
  ASSUME Inv, NEW r \in Runs, Die(r)
  PROVE  Inv'
<1>1. /\ LockHeld' /\ RunReads' /\ AnswersKnown' /\ KeptKnown' /\ KeptReadable'
         /\ LastGoodIsKept'
      /\ lock' \in [Watchers -> Runs \cup {"free"}]
      /\ run' \in [Runs -> [pc : {"idle", "fetch", "print"}, k : Nat \ {0},
                            state : StateFiles, got : [Iids -> Nat]]]
  BY EndStep DEF Die
<1>2. TypeOK' /\ PersistBeforeReport'
  BY <1>1, WatchBoundAssumption DEF Die, Inv, TypeOK, PersistBeforeReport
<1>. QED
  BY <1>1, <1>2 DEF Inv

LEMMA UnlinkStep ==
  ASSUME Inv, NEW w \in Watchers, Unlink(w)
  PROVE  Inv'
<1>1. /\ file' = [file EXCEPT ![w] = Absent] /\ ~Readable(w)
      /\ UNCHANGED <<gitlab, lock, run, stdout, faults, kept, told>>
  BY DEF Unlink
<1>2. \A v \in Watchers \ {w} : file'[v] = file[v]
  BY <1>1 DEF Inv, TypeOK
<1>3. TypeOK' /\ LockHeld' /\ AnswersKnown' /\ KeptKnown' /\ PersistBeforeReport'
  BY <1>1 DEF Inv, TypeOK, LockHeld, AnswersKnown, KeptKnown, PersistBeforeReport
<1>4. RunReads'
  BY <1>1, <1>2, WatcherType DEF Inv, RunReads, Readable, read_state
<1>5. \A i \in Iids : kept[w][i] = 0
  BY <1>1 DEF Inv, KeptReadable
<1>6. LastGoodIsKept'
  BY <1>1, <1>2, <1>5 DEF Inv, LastGoodIsKept
<1>7. KeptReadable'
  BY <1>1, <1>2, <1>5 DEF Inv, KeptReadable, Readable
<1>. QED
  BY <1>3, <1>4, <1>6, <1>7 DEF Inv

LEMMA NextInv == Inv /\ [Next]_vars => Inv'
<1>. SUFFICES ASSUME Inv, [Next]_vars PROVE Inv'
  OBVIOUS
<1>1. ASSUME NEW i \in Iids, Change(i) PROVE Inv'
  BY <1>1, ChangeStep
<1>2. ASSUME NEW r \in Runs,
             Begin(r) \/ FetchOk(r) \/ FetchFails(r) \/ Persist(r)
               \/ PrintReport(r) \/ Die(r)
      PROVE  Inv'
  BY <1>2, BeginStep, FetchStep, PersistStep, PrintStep, DieStep
<1>3. ASSUME NEW w \in Watchers, Unlink(w) PROVE Inv'
  BY <1>3, UnlinkStep
<1>4. CASE UNCHANGED vars
  <2>1. TypeOK' /\ LockHeld' /\ AnswersKnown' /\ KeptKnown'
    BY <1>4 DEF vars, Inv, TypeOK, LockHeld, AnswersKnown, KeptKnown
  <2>2. RunReads' /\ KeptReadable'
    BY <1>4 DEF vars, Inv, RunReads, KeptReadable, Readable, read_state
  <2>3. LastGoodIsKept' /\ PersistBeforeReport'
    BY <1>4 DEF vars, Inv, LastGoodIsKept, PersistBeforeReport
  <2>. QED
    BY <2>1, <2>2, <2>3 DEF Inv
<1>. QED
  BY <1>1, <1>2, <1>3, <1>4 DEF Next

THEOREM WatchInvariantHolds == Spec => []Inv
BY InitInv, NextInv, PTL DEF Spec

(* State files, runs and reports keep their types, whatever fails. *)
THEOREM WatchTypeCorrect == Spec => []TypeOK
BY WatchInvariantHolds, PTL DEF Inv

(* What a state file says of a merge request is what GitLab said when the    *)
(* watcher last wrote an answer: failed requests, killed runs and overlapping *)
(* ones neither lose it nor mix it with another.                             *)
THEOREM LastGoodIsAlwaysKept == Spec => []LastGoodIsKept
BY WatchInvariantHolds, PTL DEF Inv

(* No report is ahead of the state file. *)
THEOREM ReportsArePersisted == Spec => []PersistBeforeReport
BY WatchInvariantHolds, PTL DEF Inv
-------------------------------------------------------------------------------
(* What a step may not do.                                                   *)

(* The steps that write a state file or a report. *)
LEMMA StepWrites ==
  ASSUME [Next]_vars
  PROVE  /\ \/ kept' = kept /\ told' = told
            \/ \E r \in Runs : Persist(r) \/ PrintReport(r)
         /\ \/ file' = file /\ stdout' = stdout
            \/ \E r \in Runs : Persist(r) \/ PrintReport(r)
            \/ \E v \in Watchers : Unlink(v)
<1>1. ASSUME NEW i \in Iids, Change(i)
      PROVE  UNCHANGED <<kept, told, file, stdout>>
  BY <1>1 DEF Change
<1>2. ASSUME NEW r \in Runs, Begin(r) \/ FetchOk(r) \/ FetchFails(r) \/ Die(r)
      PROVE  UNCHANGED <<kept, told, file, stdout>>
  BY <1>2 DEF Begin, FetchOk, FetchFails, Die
<1>3. ASSUME NEW v \in Watchers, Unlink(v) PROVE UNCHANGED <<kept, told>>
  BY <1>3 DEF Unlink
<1>4. CASE UNCHANGED vars
  BY <1>4 DEF vars
<1>. QED
  BY <1>1, <1>2, <1>3, <1>4 DEF Next

LEMMA StepKeepsAnswers ==
  Inv /\ [Next]_vars =>
    \A w \in Watchers, i \in Iids :
      kept[w][i] <= kept'[w][i] /\ told[w][i] <= told'[w][i]
<1>. SUFFICES ASSUME Inv, [Next]_vars, NEW w \in Watchers, NEW i \in Iids
              PROVE  kept[w][i] <= kept'[w][i] /\ told[w][i] <= told'[w][i]
  OBVIOUS
<1>1. kept[w][i] \in Nat /\ told[w][i] \in Nat /\ told[w][i] <= kept[w][i]
  BY DEF Inv, TypeOK, PersistBeforeReport
<1>2. CASE kept' = kept /\ told' = told
  BY <1>1, <1>2
<1>3. ASSUME NEW r \in Runs, Persist(r)
      PROVE  kept[w][i] <= kept'[w][i] /\ told' = told
  <2>1. kept' = [kept EXCEPT ![WatcherOf[r]] = [j \in Iids |->
                   IF j \in Fetched(r) THEN run[r].got[j] ELSE @[j]]]
    BY <1>3 DEF Persist
  <2>2. i \in Fetched(r) => kept[WatcherOf[r]][i] <= run[r].got[i]
    BY <1>3 DEF Persist, Inv, AnswersKnown, Fetched
  <2>3. kept'[w][i] = IF w = WatcherOf[r] /\ i \in Fetched(r)
                       THEN run[r].got[i] ELSE kept[w][i]
    <3>1. kept \in [Watchers -> [Iids -> Nat]]
      BY DEF Inv, TypeOK
    <3>2. CASE w = WatcherOf[r]
      BY <2>1, <3>1, <3>2
    <3>3. CASE w # WatcherOf[r]
      BY <2>1, <3>1, <3>3
    <3>. QED
      BY <3>2, <3>3
  <2>. QED
    BY <1>1, <1>3, <2>2, <2>3, SMT DEF Persist
<1>4. ASSUME NEW r \in Runs, PrintReport(r)
      PROVE  told[w][i] <= told'[w][i] /\ kept' = kept
  <2>1. told' = [told EXCEPT ![WatcherOf[r]] = [j \in Iids |->
                   IF j \in Fetched(r) THEN run[r].got[j] ELSE @[j]]]
    BY <1>4 DEF PrintReport
  <2>2. i \in Fetched(r) => kept[WatcherOf[r]][i] = run[r].got[i]
    BY <1>4 DEF PrintReport, Inv, AnswersKnown, Fetched
  <2>3. told'[w][i] = IF w = WatcherOf[r] /\ i \in Fetched(r)
                       THEN run[r].got[i] ELSE told[w][i]
    <3>1. told \in [Watchers -> [Iids -> Nat]]
      BY DEF Inv, TypeOK
    <3>2. CASE w = WatcherOf[r]
      BY <2>1, <3>1, <3>2
    <3>3. CASE w # WatcherOf[r]
      BY <2>1, <3>1, <3>3
    <3>. QED
      BY <3>2, <3>3
  <2>. QED
    BY <1>1, <1>4, <2>2, <2>3 DEF PrintReport
<1>5. \/ kept' = kept /\ told' = told
      \/ \E r \in Runs : Persist(r) \/ PrintReport(r)
  BY StepWrites
<1>. QED
  BY <1>1, <1>2, <1>3, <1>4, <1>5

(* Overlapping runs never replace a newer answer by an older one. *)
THEOREM AnswersOnlyAdvance == Spec => NoStaleAnswer
BY WatchInvariantHolds, StepKeepsAnswers, PTL DEF Spec, NoStaleAnswer

LEMMA StepKeepsUnreadable ==
  Inv /\ [Next]_vars =>
    \A w \in Watchers :
      ~Readable(w) => file'[w] \in {file[w], Absent} /\ stdout'[w] = stdout[w]
<1>. SUFFICES ASSUME Inv, [Next]_vars, NEW w \in Watchers, ~Readable(w)
              PROVE  file'[w] \in {file[w], Absent} /\ stdout'[w] = stdout[w]
  OBVIOUS
<1>1. CASE file' = file /\ stdout' = stdout
  BY <1>1
<1>2. ASSUME NEW r \in Runs, Persist(r) \/ PrintReport(r)
      PROVE  file'[w] = file[w] /\ stdout'[w] = stdout[w]
  <2>1. WatcherOf[r] # w
    BY <1>2 DEF Persist, PrintReport, Inv, RunReads
  <2>. QED
    BY <1>2, <2>1 DEF Persist, PrintReport, Inv, TypeOK
<1>3. ASSUME NEW v \in Watchers, Unlink(v)
      PROVE  file'[w] \in {file[w], Absent} /\ stdout' = stdout
  BY <1>3 DEF Unlink, Inv, TypeOK
<1>. QED
  BY <1>1, <1>2, <1>3, StepWrites

(* A state file that cannot be read is never overwritten, and nothing is     *)
(* reported from it.                                                         *)
THEOREM UnreadableAlwaysPreserved == Spec => UnreadableIsPreserved
BY WatchInvariantHolds, StepKeepsUnreadable, PTL DEF Spec, UnreadableIsPreserved
===============================================================================
