---------------------------- MODULE StepLedgerProofs ----------------------------
(***************************************************************************)
(* What StepLedger guarantees for any roster, any number of rounds and any *)
(* statuses the callers write.                                             *)
(***************************************************************************)
EXTENDS StepLedger, TLAPS

-------------------------------------------------------------------------------
(***************************************************************************)
(* Types.                                                                  *)
(***************************************************************************)

(* The new table of PutSteps: a batch fills empty hashes and nothing else. *)
Filled(batch, r) ==
  [h \in StepHashes |->
     IF \E n \in {m \in DOMAIN batch : steps[HashOf(m)] = NoStep} : HashOf(n) = h
     THEN StepRow(batch[h[1]], r) ELSE steps[h]]

LEMMA BatchType ==
  ASSUME NEW batch \in Batches
  PROVE  /\ DOMAIN batch \subseteq Names
         /\ \A n \in DOMAIN batch : batch[n] \in StepStatuses
<1>1. PICK ns \in SUBSET Names : batch \in [ns -> PutInputs]
  BY DEF Batches
<1>. QED
  BY <1>1, StatusAssumption

LEMMA StampType ==
  ASSUME TypeOK, NEW r \in Stamps
  PROVE  r \in Rounds \cup {NoRound} /\ r \in {round, NoRound}
BY DEF TypeOK, Stamps

LEMMA HashType ==
  ASSUME TypeOK, NEW n \in Names
  PROVE  HashOf(n) \in StepHashes /\ HashOf(n)[1] = n /\ Lane(HashOf(n)) = LaneOf[n]
BY DEF TypeOK, HashOf, StepHashes, Lane

LEMMA LaneType ==
  ASSUME NEW n \in Names
  PROVE  LaneOf[n] \in Lanes
BY LaneAssumption

LEMMA RowType ==
  ASSUME NEW s \in StepStatuses, NEW r \in Rounds \cup {NoRound}
  PROVE  /\ StepRow(s, r) \in Step /\ StepRow(s, r) # NoStep
         /\ StepRow(s, r).round = r
<1>1. (s = "skipped") \in BOOLEAN
  OBVIOUS
<1>2. \A b \in BOOLEAN : [round |-> r, status |-> s, reason |-> b] \in Step
  BY DEF Step
<1>3. StepRow(s, r) \in Step /\ StepRow(s, r).round = r
  BY <1>1, <1>2 DEF StepRow
<1>. QED
  BY <1>3, NoStepAssumption

LEMMA FilledType ==
  ASSUME TypeOK, NEW batch \in Batches, NEW r \in Stamps
  PROVE  /\ Filled(batch, r) \in [StepHashes -> Step \cup {NoStep}]
         /\ \A h \in StepHashes :
              steps[h] # NoStep => Filled(batch, r)[h] = steps[h]
         /\ \A h \in StepHashes :
              steps[h] = NoStep /\ Filled(batch, r)[h] # NoStep =>
                /\ Filled(batch, r)[h].round = r
                /\ \E n \in DOMAIN batch : steps[HashOf(n)] = NoStep /\ HashOf(n) = h
         /\ \A n \in DOMAIN batch : Filled(batch, r)[HashOf(n)] # NoStep
<1>1. \A h \in StepHashes :
        (\E n \in DOMAIN batch : steps[HashOf(n)] = NoStep /\ HashOf(n) = h)
          => h[1] \in DOMAIN batch
  BY BatchType, HashType
<1>2. \A h \in StepHashes : h[1] \in DOMAIN batch =>
        /\ StepRow(batch[h[1]], r) \in Step /\ StepRow(batch[h[1]], r) # NoStep
        /\ StepRow(batch[h[1]], r).round = r
  BY BatchType, StampType, RowType
<1>3. \A n \in DOMAIN batch : HashOf(n) \in StepHashes
  BY BatchType, HashType
<1>4. steps \in [StepHashes -> Step \cup {NoStep}]
  BY DEF TypeOK
<1>. QED
  BY <1>1, <1>2, <1>3, <1>4 DEF Filled

LEMMA PutStepsFills ==
  ASSUME NEW batch, NEW r, PutSteps(batch, r)
  PROVE  /\ steps' = Filled(batch, r)
         /\ fresh' = fresh \cup
              {LaneOf[n] : n \in {m \in DOMAIN batch : steps[HashOf(m)] = NoStep}}
         /\ acked' = acked \cup {LaneOf[n] : n \in DOMAIN batch}
         /\ round' = round /\ obs' = obs /\ closed' = closed
         /\ fuzzed' = fuzzed /\ mapped' = mapped
BY DEF PutSteps, Filled

LEMMA EndType == EndInputs \subseteq StepStatuses
BY StatusAssumption DEF StepStatuses, terminalStepStatuses

(* A status update keeps the type and the round of every step. *)
Restated ==
  /\ steps' \in [StepHashes -> Step \cup {NoStep}]
  /\ \A h \in StepHashes : (steps'[h] = NoStep) <=> (steps[h] = NoStep)
  /\ \A h \in StepHashes : steps[h] # NoStep => steps'[h].round = steps[h].round

LEMMA RestatedStored ==
  ASSUME Restated
  PROVE  Stored' = Stored
BY DEF Restated, Stored

LEMMA CloseRestates ==
  ASSUME TypeOK, NEW h \in StepHashes, NEW status \in StepStatuses,
         NEW kinds \in SUBSET ObsKinds, CloseStep(h, status, kinds)
  PROVE  Restated
<1>1. steps[h] \in Step
  BY DEF TypeOK, CloseStep, Stored
<1>2. [steps[h] EXCEPT !.status = status] \in Step
  BY <1>1 DEF Step
<1>. QED
  BY <1>1, <1>2, NoStepAssumption DEF CloseStep, Restated, TypeOK, Step

LEMMA StartRestates ==
  ASSUME TypeOK, NEW h \in StepHashes, ExecStart(h)
  PROVE  Restated
<1>1. steps[h] \in Step
  BY DEF TypeOK, ExecStart, Stored
<1>2. [steps[h] EXCEPT !.status = "running"] \in Step
  BY <1>1 DEF Step, StepStatuses
<1>. QED
  BY <1>1, <1>2, NoStepAssumption DEF ExecStart, Restated, TypeOK, Step

LEMMA EndRestates ==
  ASSUME TypeOK, NEW h \in StepHashes, NEW status \in EndInputs, ExecEnd(h, status)
  PROVE  Restated
<1>1. steps[h] \in Step /\ status \in StepStatuses
  BY EndType DEF TypeOK, ExecEnd, Stored
<1>2. [steps[h] EXCEPT !.status = status, !.reason = TRUE] \in Step
  BY <1>1 DEF Step
<1>. QED
  BY <1>1, <1>2, NoStepAssumption DEF ExecEnd, Restated, TypeOK, Step

-------------------------------------------------------------------------------
(***************************************************************************)
(* The invariant that needs nothing from the callers.                      *)
(***************************************************************************)
Inv == TypeOK /\ ObservationsHaveSteps /\ ClosedIsDocumented

LEMMA InitInv == Init => Inv
BY DEF Init, Inv, TypeOK, ObservationsHaveSteps, ClosedIsDocumented, Stored,
       Rounds, NoRound

LEMMA NextInv == Inv /\ [Next]_vars => Inv'
<1> SUFFICES ASSUME Inv, [Next]_vars PROVE Inv'
  OBVIOUS
<1> USE DEF Inv
<1>1. CASE OpenRound
  <2>1. round' \in Rounds \cup {NoRound}
    BY <1>1, BoundAssumption DEF OpenRound, TypeOK, Rounds, NoRound
  <2>2. steps' = steps /\ obs' = obs /\ closed' = closed /\ Stored' = Stored
    BY <1>1 DEF OpenRound, Stored
  <2>. QED
    BY <1>1, <2>1, <2>2
    DEF OpenRound, TypeOK, ObservationsHaveSteps, ClosedIsDocumented
<1>2. ASSUME NEW batch \in Batches, NEW r \in Stamps, PutSteps(batch, r) PROVE Inv'
  <2>1. steps' \in [StepHashes -> Step \cup {NoStep}] /\ Stored \subseteq Stored'
    BY <1>2, PutStepsFills, FilledType DEF Stored
  <2>2. fresh' \subseteq Lanes /\ acked' \subseteq Lanes
    BY <1>2, PutStepsFills, BatchType, LaneType DEF TypeOK
  <2>3. /\ round' = round /\ obs' = obs /\ closed' = closed
        /\ fuzzed' = fuzzed /\ mapped' = mapped
    BY <1>2, PutStepsFills
  <2>. QED
    BY <2>1, <2>2, <2>3 DEF TypeOK, ObservationsHaveSteps, ClosedIsDocumented
<1>3. ASSUME NEW h \in StepHashes, NEW kind \in ObsKinds, PutObservation(h, kind)
      PROVE  Inv'
  <2>1. h \in Stored /\ Stored' = Stored
    BY <1>3 DEF PutObservation, Stored
  <2>. QED
    BY <1>3, <2>1
    DEF PutObservation, TypeOK, ObservationsHaveSteps, ClosedIsDocumented
<1>4. ASSUME NEW h \in StepHashes, NEW status \in EndInputs, NEW kinds \in SUBSET ObsKinds,
             CloseStep(h, status, kinds)
      PROVE  Inv'
  <2>1. Restated /\ Stored' = Stored /\ h \in Stored
    BY <1>4, EndType, CloseRestates, RestatedStored DEF CloseStep
  <2>2. TypeOK'
    BY <1>4, <2>1 DEF CloseStep, Restated, TypeOK
  <2>3. ObservationsHaveSteps'
    BY <1>4, <2>1 DEF CloseStep, ObservationsHaveSteps
  <2>4. ClosedIsDocumented'
    <3>1. obs \subseteq obs' /\ closed' \subseteq closed \cup {h}
      BY <1>4 DEF CloseStep
    <3>2. h \in closed' /\ Lane(h) \in Required => "closing" \in kinds
      BY <1>4 DEF CloseStep, UnderDocumented
    <3>3. "closing" \in kinds => <<h, "closing">> \in obs'
      BY <1>4 DEF CloseStep
    <3>. QED
      BY <3>1, <3>2, <3>3 DEF ClosedIsDocumented
  <2>. QED
    BY <2>2, <2>3, <2>4
<1>5. ASSUME NEW h \in StepHashes, ExecStart(h) PROVE Inv'
  <2>1. Restated /\ Stored' = Stored
    BY <1>5, StartRestates, RestatedStored
  <2>. QED
    BY <1>5, <2>1
    DEF ExecStart, Restated, TypeOK, ObservationsHaveSteps, ClosedIsDocumented
<1>6. ASSUME NEW h \in StepHashes, NEW status \in EndInputs, ExecEnd(h, status)
      PROVE  Inv'
  <2>1. Restated /\ Stored' = Stored
    BY <1>6, EndRestates, RestatedStored
  <2>. QED
    BY <1>6, <2>1
    DEF ExecEnd, Restated, TypeOK, ObservationsHaveSteps, ClosedIsDocumented
<1>7. ASSUME NEW h \in StepHashes, PutFuzzRun(h) PROVE Inv'
  BY <1>7 DEF PutFuzzRun, TypeOK, Stored, ObservationsHaveSteps, ClosedIsDocumented
<1>8. CASE PutRegex
  BY <1>8 DEF PutRegex, TypeOK, Stored, ObservationsHaveSteps, ClosedIsDocumented
<1>9. CASE UNCHANGED vars
  BY <1>9 DEF vars, TypeOK, Stored, ObservationsHaveSteps, ClosedIsDocumented
<1>. QED
  BY <1>1, <1>2, <1>3, <1>4, <1>5, <1>6, <1>7, <1>8, <1>9 DEF Next

(* Types, foreign keys and the documentation of closed steps. *)
THEOREM StepInvariantHolds == Spec => []Inv
BY InitInv, NextInv, PTL DEF Spec

(* Every table keeps its type: statuses stay in the CHECK list of the       *)
(* schema, rounds in the ledger.                                            *)
THEOREM StepTypeCorrect == Spec => []TypeOK
BY StepInvariantHolds, PTL DEF Inv

(* No observation ever refers to a step that is not stored. *)
THEOREM ObservationsAlwaysHaveSteps == Spec => []ObservationsHaveSteps
BY StepInvariantHolds, PTL DEF Inv

(* A required lane's step that CloseStep ended keeps its closing observation, *)
(* whatever is put, restarted, replayed or closed again afterwards.           *)
THEOREM ClosedAlwaysDocumented == Spec => []ClosedIsDocumented
BY StepInvariantHolds, PTL DEF Inv
-------------------------------------------------------------------------------
(***************************************************************************)
(* The round discipline: what holds when every step carries its round_id.  *)
(***************************************************************************)
RoundInv ==
  /\ \A h \in Stored : steps[h].round \in Rounds /\ steps[h].round <= round
  /\ \A h \in Stored : steps[h].round = round => Lane(h) \in fresh
  /\ \A l \in acked : \E h \in Stored : Lane(h) = l /\ steps[h].round = round

LEMMA InitRoundInv == Init => RoundInv
BY DEF Init, RoundInv, Stored

LEMMA RestatedRoundInv ==
  ASSUME RoundInv, Restated, round' = round, fresh' = fresh, acked' = acked
  PROVE  RoundInv'
<1>1. Stored' = Stored
  BY RestatedStored
<1>2. \A h \in Stored : h \in StepHashes /\ steps'[h].round = steps[h].round
  BY DEF Restated, Stored
<1>. QED
  BY <1>1, <1>2 DEF RoundInv, Lane

LEMMA NextRoundInv ==
  ASSUME ~NullRounds
  PROVE  Inv /\ RoundInv /\ [Next]_vars => RoundInv'
<1> SUFFICES ASSUME Inv, RoundInv, [Next]_vars PROVE RoundInv'
  OBVIOUS
<1>0. TypeOK
  BY DEF Inv
<1>1. CASE OpenRound
  <2>1. round \in Nat /\ round' = round + 1 /\ steps' = steps /\ acked' = {}
    BY <1>0, <1>1 DEF OpenRound, TypeOK, Rounds, NoRound
  <2>2. \A h \in Stored : steps[h].round \in Nat /\ steps[h].round < round'
    BY <2>1 DEF RoundInv, Rounds
  <2>3. Stored' = Stored
    BY <2>1 DEF Stored
  <2>. QED
    BY <2>1, <2>2, <2>3 DEF RoundInv
<1>2. ASSUME NEW batch \in Batches, NEW r \in Stamps, PutSteps(batch, r) PROVE RoundInv'
  <2>1. r = round /\ round \in Rounds
    BY <1>0 DEF Stamps, TypeOK, NoRound
  <2>2. /\ steps' = Filled(batch, r) /\ round' = round
        /\ fresh' = fresh \cup
             {LaneOf[n] : n \in {m \in DOMAIN batch : steps[HashOf(m)] = NoStep}}
        /\ acked' = acked \cup {LaneOf[n] : n \in DOMAIN batch}
    BY <1>2, PutStepsFills
  <2>3. \A h \in Stored : h \in Stored' /\ steps'[h] = steps[h]
    BY <1>0, <2>2, FilledType DEF Stored
  <2>4. \A h \in Stored' \ Stored :
          /\ steps'[h].round = round
          /\ \E n \in DOMAIN batch : steps[HashOf(n)] = NoStep /\ HashOf(n) = h
    BY <1>0, <2>1, <2>2, FilledType DEF Stored
  <2>5. \A h \in Stored' \ Stored : Lane(h) \in fresh'
    BY <1>0, <2>2, <2>4, BatchType, HashType
  <2>6. \A n \in DOMAIN batch :
          \E h \in Stored' : Lane(h) = LaneOf[n] /\ steps'[h].round = round
    <3> SUFFICES ASSUME NEW n \in DOMAIN batch
                 PROVE  /\ HashOf(n) \in Stored' /\ Lane(HashOf(n)) = LaneOf[n]
                        /\ steps'[HashOf(n)].round = round
      OBVIOUS
    <3>1. HashOf(n) \in StepHashes /\ Lane(HashOf(n)) = LaneOf[n]
      BY <1>0, BatchType, HashType
    <3>2. HashOf(n) \in Stored'
      BY <1>0, <2>2, <3>1, FilledType DEF Stored
    <3>3. CASE HashOf(n) \in Stored
      <4>1. ~RowContradicts(HashOf(n), StepRow(batch[n], r))
        BY <1>2 DEF PutSteps
      <4>2. StepRow(batch[n], r).round = round /\ round # NoRound
        BY <2>1 DEF StepRow, Rounds, NoRound
      <4>3. steps[HashOf(n)].round = round
        BY <3>3, <4>1, <4>2 DEF RowContradicts, Stored
      <4>. QED
        BY <2>3, <3>1, <3>2, <3>3, <4>3
    <3>4. CASE HashOf(n) \notin Stored
      BY <2>4, <3>1, <3>2, <3>4
    <3>. QED
      BY <3>3, <3>4
  <2>7. \A l \in acked : \E h \in Stored' : Lane(h) = l /\ steps'[h].round = round
    BY <2>3 DEF RoundInv
  <2>8. \A h \in Stored' : steps'[h].round \in Rounds /\ steps'[h].round <= round
    BY <2>1, <2>3, <2>4 DEF RoundInv, Rounds
  <2>9. \A h \in Stored' : steps'[h].round = round => Lane(h) \in fresh'
    BY <2>2, <2>3, <2>5 DEF RoundInv
  <2>. QED
    BY <2>2, <2>6, <2>7, <2>8, <2>9 DEF RoundInv, Lane
<1>3. ASSUME NEW h \in StepHashes, NEW kind \in ObsKinds, PutObservation(h, kind)
      PROVE  RoundInv'
  BY <1>3 DEF PutObservation, RoundInv, Stored, Lane
<1>4. ASSUME NEW h \in StepHashes, NEW status \in EndInputs, NEW kinds \in SUBSET ObsKinds,
             CloseStep(h, status, kinds)
      PROVE  RoundInv'
  BY <1>0, <1>4, EndType, CloseRestates, RestatedRoundInv DEF CloseStep
<1>5. ASSUME NEW h \in StepHashes, ExecStart(h) PROVE RoundInv'
  BY <1>0, <1>5, StartRestates, RestatedRoundInv DEF ExecStart
<1>6. ASSUME NEW h \in StepHashes, NEW status \in EndInputs, ExecEnd(h, status)
      PROVE  RoundInv'
  BY <1>0, <1>6, EndRestates, RestatedRoundInv DEF ExecEnd
<1>7. ASSUME NEW h \in StepHashes, PutFuzzRun(h) PROVE RoundInv'
  BY <1>7 DEF PutFuzzRun, RoundInv, Stored, Lane
<1>8. CASE PutRegex
  BY <1>8 DEF PutRegex, RoundInv, Stored, Lane
<1>9. CASE UNCHANGED vars
  BY <1>9 DEF vars, RoundInv, Stored, Lane
<1>. QED
  BY <1>1, <1>2, <1>3, <1>4, <1>5, <1>6, <1>7, <1>8, <1>9 DEF Next

THEOREM RoundInvariantHolds ==
  ASSUME ~NullRounds
  PROVE  Spec => [](Inv /\ RoundInv)
<1>1. Init => Inv /\ RoundInv
  BY InitInv, InitRoundInv
<1>2. Inv /\ RoundInv /\ [Next]_vars => (Inv /\ RoundInv)'
  BY NextInv, NextRoundInv
<1>. QED
  BY <1>1, <1>2, PTL DEF Spec

(* With steps that all carry their round_id, no acknowledged roster row is  *)
(* swallowed by a sentinel of an earlier round, whichever lanes put the     *)
(* round into their step_hash.                                              *)
THEOREM AckedRosterAlwaysCurrent ==
  ASSUME ~NullRounds
  PROVE  Spec => []AckedRosterIsCurrent
<1>1. Inv /\ RoundInv => AckedRosterIsCurrent
  BY DEF RoundInv, AckedRosterIsCurrent, CurrentSteps, InCurrentRound, CurrentRoundOf,
         Rounds, NoRound
<1>. QED
  BY <1>1, RoundInvariantHolds, PTL

(* With steps that all carry their round_id, the gate is not green in a     *)
(* round in which a required lane had no step inserted.                     *)
THEOREM GreenAlwaysEarned ==
  ASSUME ~NullRounds
  PROVE  Spec => []GreenIsEarned
<1>1. ASSUME RoundInv, ProcessGreen, NEW l \in Required PROVE l \in fresh
  <2>1. LaneStatus(l) # "MISSING"
    BY <1>1 DEF ProcessGreen, StepsGreen, MissingLanes
  <2>2. CurrentSteps(l) # {}
    BY <2>1 DEF LaneStatus
  <2>3. PICK h \in Stored : Lane(h) = l /\ InCurrentRound(h)
    BY <2>2 DEF CurrentSteps
  <2>4. steps[h].round = round
    BY <1>1, <2>3 DEF RoundInv, InCurrentRound, CurrentRoundOf, Rounds, NoRound
  <2>. QED
    BY <1>1, <2>3, <2>4 DEF RoundInv
<1>2. Inv /\ RoundInv => GreenIsEarned
  BY <1>1 DEF GreenIsEarned
<1>. QED
  BY <1>2, RoundInvariantHolds, PTL
-------------------------------------------------------------------------------
(***************************************************************************)
(* CloseStep against the gate.                                             *)
(***************************************************************************)

(* The rows after a successful close of a required lane's step. *)
LEMMA CloseEffect ==
  ASSUME TypeOK, NEW h \in StepHashes, NEW status \in OkStatuses,
         NEW kinds \in SUBSET ObsKinds, CloseStep(h, status, kinds), Lane(h) \in Required
  PROVE  /\ Stored' = Stored /\ h \in Stored
         /\ steps'[h].status = status
         /\ \A g \in Stored : g # h => steps'[g] = steps[g]
         /\ \A g \in Stored : InCurrentRound(g)' = InCurrentRound(g)
         /\ \A l : CurrentSteps(l)' = CurrentSteps(l)
         /\ Observed(h)' /\ \A g \in Stored : Observed(g) => Observed(g)'
<1>1. status \in StepStatuses /\ status # "skipped"
  BY DEF OkStatuses, StepStatuses
<1>2. Restated /\ Stored' = Stored /\ h \in Stored /\ round' = round
  BY <1>1, CloseRestates, RestatedStored DEF CloseStep
<1>3. steps \in [StepHashes -> Step \cup {NoStep}] /\ steps[h] \in Step
  BY <1>2 DEF TypeOK, Stored
<1>4. steps' = [steps EXCEPT ![h].status = status]
  BY DEF CloseStep
<1>5. steps'[h].status = status
  BY <1>3, <1>4 DEF Step
<1>6. \A g \in Stored : g # h => steps'[g] = steps[g]
  BY <1>3, <1>4 DEF Stored
<1>7. \A g \in Stored : InCurrentRound(g)' = InCurrentRound(g)
  BY <1>2 DEF Restated, Stored, InCurrentRound, CurrentRoundOf
<1>8. \A l : CurrentSteps(l)' = CurrentSteps(l)
  BY <1>2, <1>7 DEF CurrentSteps, Lane
<1>9. obs \subseteq obs' /\ <<h, "closing">> \in obs'
  BY <1>1 DEF CloseStep, UnderDocumented
<1>10. Observed(h)' /\ \A g \in Stored : Observed(g) => Observed(g)'
  BY <1>9 DEF Observed, ObsKinds
<1>. QED
  BY <1>2, <1>5, <1>6, <1>7, <1>8, <1>10

LEMMA CloseKeepsSteps ==
  ASSUME TypeOK, StepsGreen, NEW h \in StepHashes, NEW status \in OkStatuses,
         NEW kinds \in SUBSET ObsKinds, CloseStep(h, status, kinds), Lane(h) \in Required
  PROVE  StepsGreen'
<1>0. /\ Stored' = Stored /\ h \in Stored
      /\ steps'[h].status = status
      /\ \A g \in Stored : g # h => steps'[g] = steps[g]
      /\ \A g \in Stored : InCurrentRound(g)' = InCurrentRound(g)
      /\ \A l : CurrentSteps(l)' = CurrentSteps(l)
      /\ Observed(h)' /\ \A g \in Stored : Observed(g) => Observed(g)'
  BY CloseEffect
<1>1. MissingLanes' = {}
  <2> SUFFICES ASSUME NEW l \in Required PROVE LaneStatus(l)' # "MISSING"
    BY DEF MissingLanes
  <2>1. LaneStatus(l) # "MISSING"
    BY DEF StepsGreen, MissingLanes
  <2>2. PICK g \in CurrentSteps(l) :
          \/ steps[g].status \in OkStatuses
          \/ steps[g].status = "skipped" /\ steps[g].reason
    BY <2>1 DEF LaneStatus
  <2>3. g \in CurrentSteps(l)' /\ g \in Stored
    BY <1>0, <2>2 DEF CurrentSteps
  <2>4. \/ steps'[g].status \in OkStatuses
        \/ steps'[g].status = "skipped" /\ steps'[g].reason
    BY <1>0, <2>2, <2>3
  <2>. QED
    BY <2>3, <2>4 DEF LaneStatus
<1>2. lanes_stuck_running' = {}
  <2> SUFFICES ASSUME NEW g \in lanes_stuck_running' PROVE FALSE
    OBVIOUS
  <2>1. g \in Stored /\ steps'[g].status = "running" /\ Lane(g) \in StuckLanes
        /\ InCurrentRound(g)
    BY <1>0 DEF lanes_stuck_running, Lane
  <2>2. g # h
    BY <1>0, <2>1 DEF OkStatuses
  <2>3. g \in lanes_stuck_running
    BY <1>0, <2>1, <2>2 DEF lanes_stuck_running
  <2>. QED
    BY <2>3 DEF StepsGreen
<1>3. roster_steps_missing' = {}
  BY <1>0 DEF roster_steps_missing, StepsGreen
<1>4. executed_steps_without_observation' = {}
  <2> SUFFICES ASSUME NEW g \in executed_steps_without_observation' PROVE FALSE
    OBVIOUS
  <2>1. g \in Stored /\ Executed(g)' /\ ~Observed(g)'
    BY <1>0 DEF executed_steps_without_observation
  <2>2. g # h
    BY <1>0, <2>1
  <2>3. Executed(g) /\ ~Observed(g)
    BY <1>0, <2>1, <2>2 DEF Executed
  <2>. QED
    BY <2>1, <2>3 DEF executed_steps_without_observation, StepsGreen
<1>5. UnobservedPhases' = {}
  <2> SUFFICES ASSUME NEW p \in {PhaseOf[l] : l \in Required}, PhaseSteps(p)' # {}
               PROVE  \E g \in PhaseSteps(p)' : Observed(g)'
    BY DEF UnobservedPhases
  <2>1. CASE h \in PhaseSteps(p)'
    BY <1>0, <2>1
  <2>2. CASE h \notin PhaseSteps(p)'
    <3>1. PICK g \in PhaseSteps(p)' : TRUE
      OBVIOUS
    <3>2. g \in PhaseSteps(p)
      BY <1>0, <2>2, <3>1 DEF PhaseSteps, Executed, Lane
    <3>3. Executed(g) /\ g \in Stored
      BY <3>2 DEF PhaseSteps
    <3>4. Observed(g)
      BY <3>3 DEF StepsGreen, executed_steps_without_observation
    <3>. QED
      BY <1>0, <3>1, <3>3, <3>4
  <2>. QED
    BY <2>1, <2>2
<1>. QED
  BY <1>1, <1>2, <1>3, <1>4, <1>5 DEF StepsGreen

(* What the close of a step adds to the accounting of the gate. *)
LEMMA CloseAccounts ==
  ASSUME TypeOK, ProcessGreen, NEW h \in StepHashes, NEW status \in OkStatuses,
         NEW kinds \in SUBSET ObsKinds, CloseStep(h, status, kinds), Lane(h) \in Required
  PROVE  /\ fuzz_skips_unrecorded' \subseteq {h}
         /\ regexes_unmapped' => Lane(h) \in EnumLanes
<1>1. /\ Stored' = Stored /\ h \in Stored
      /\ \A g \in Stored : g # h => steps'[g] = steps[g]
  BY CloseEffect
<1>2. fuzzed' = fuzzed /\ mapped' = mapped
  BY DEF CloseStep
<1>3. fuzz_skips_unrecorded' \subseteq {h}
  <2> SUFFICES ASSUME NEW g \in fuzz_skips_unrecorded', g # h PROVE FALSE
    OBVIOUS
  <2>1. /\ g \in Stored /\ Lane(g) \in FuzzLanes /\ g \notin fuzzed
        /\ steps'[g].status \in terminalStepStatuses
    BY <1>1, <1>2 DEF fuzz_skips_unrecorded, Lane
  <2>2. g \in fuzz_skips_unrecorded
    BY <1>1, <2>1 DEF fuzz_skips_unrecorded
  <2>. QED
    BY <2>2 DEF ProcessGreen
<1>4. regexes_unmapped' => Lane(h) \in EnumLanes
  <2> SUFFICES ASSUME regexes_unmapped', Lane(h) \notin EnumLanes PROVE FALSE
    OBVIOUS
  <2>1. ~mapped /\ \E g \in Stored : Lane(g) \in EnumLanes /\ steps'[g].status \in OkStatuses
    BY <1>1, <1>2 DEF regexes_unmapped, Lane
  <2>2. PICK g \in Stored : Lane(g) \in EnumLanes /\ steps'[g].status \in OkStatuses
    BY <2>1
  <2>3. g # h
    BY <2>2
  <2>4. regexes_unmapped
    BY <1>1, <2>1, <2>2, <2>3 DEF regexes_unmapped
  <2>. QED
    BY <2>4 DEF ProcessGreen
<1>. QED
  BY <1>3, <1>4

(* The successful close of a required lane's step turns no metric over      *)
(* lanes, steps and observations red, and the accounting of fuzz runs and   *)
(* of regexes only for the step it closes.                                  *)
THEOREM CloseAlwaysKeepsGreen == Spec => CloseKeepsGreen
<1>1. Inv /\ [Next]_vars =>
        [ProcessGreen =>
           \A h \in StepHashes, status \in OkStatuses, kinds \in SUBSET ObsKinds :
             Lane(h) \in Required /\ CloseStep(h, status, kinds) =>
               /\ StepsGreen'
               /\ fuzz_skips_unrecorded' \subseteq {h}
               /\ regexes_unmapped' => Lane(h) \in EnumLanes]_vars
  <2> SUFFICES ASSUME Inv, ProcessGreen,
                      NEW h \in StepHashes, NEW status \in OkStatuses,
                      NEW kinds \in SUBSET ObsKinds,
                      Lane(h) \in Required, CloseStep(h, status, kinds)
               PROVE  /\ StepsGreen'
                      /\ fuzz_skips_unrecorded' \subseteq {h}
                      /\ regexes_unmapped' => Lane(h) \in EnumLanes
    OBVIOUS
  <2>1. TypeOK /\ StepsGreen
    BY DEF Inv, ProcessGreen
  <2>. QED
    BY <2>1, CloseKeepsSteps, CloseAccounts
<1>. QED
  BY <1>1, StepInvariantHolds, PTL DEF Spec, CloseKeepsGreen
===============================================================================
