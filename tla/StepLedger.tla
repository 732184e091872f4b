------------------------------ MODULE StepLedger ------------------------------
(***************************************************************************)
(* Rounds, lanes and steps of a DEEP audit: the agent_steps rows that the  *)
(* orchestrator materialises and finishes, the agent_observations hung off *)
(* them, the CloseStep verb, and the process half of the completion gate   *)
(* that reads them round by round.                                         *)
(*                                                                         *)
(* Every verb is one transaction of the single writer, so an action is a   *)
(* whole verb; a writer that dies leaves its steps as they are and resumes *)
(* with any verb, which the interleaving of the actions covers.            *)
(***************************************************************************)
EXTENDS Naturals, FiniteSets

CONSTANTS
  Required,     \* v_required_deep_lanes
  OtherLanes,   \* lanes outside the mandatory roster
  StuckLanes,   \* the lanes lanes_stuck_running names
  RosterLanes,  \* the lanes roster_steps_missing_for_current_round names
  FuzzLanes,    \* the lane fuzz_skips_unrecorded names
  EnumLanes,    \* the lane regexes_unmapped names
  PhaseOf,      \* phase of each required lane
  Names,        \* steps callers materialise, before any round is put into the hash
  LaneOf,       \* lane of each name
  RoundKeyed,   \* names whose step_hash carries the round
  MaxRound,     \* bound: rounds opened
  PutInputs,    \* statuses callers Put a step with
  EndInputs,    \* terminal statuses callers finish a step with
  NullRounds,   \* callers also Put steps without a round_id
  NoStep        \* a step_hash that holds no row

Lanes == Required \cup OtherLanes

ASSUME LaneAssumption ==
  /\ StuckLanes \subseteq Required /\ RosterLanes \subseteq Required
  /\ FuzzLanes \subseteq Required /\ EnumLanes \subseteq Required
  /\ Required \subseteq DOMAIN PhaseOf
  /\ LaneOf \in [Names -> Lanes]
  /\ RoundKeyed \subseteq Names
ASSUME BoundAssumption == MaxRound \in Nat /\ NullRounds \in BOOLEAN

NoRound == 0
Rounds == 1..MaxRound

StepStatuses ==
  {"scheduled", "running", "success", "exhausted", "failed", "timed_out", "skipped"}
terminalStepStatuses == {"success", "exhausted", "failed", "timed_out", "skipped"}
OkStatuses == {"success", "exhausted"}
ExecutedStatuses == {"running", "success", "exhausted", "failed", "timed_out"}

ASSUME StatusAssumption ==
  PutInputs \subseteq StepStatuses /\ EndInputs \subseteq terminalStepStatuses

(* dead_end, invariant and blind_spot are closing kinds; the rest is other. *)
ObsKinds == {"closing", "other"}

Step == [round : Rounds \cup {NoRound}, status : StepStatuses, reason : BOOLEAN]
ASSUME NoStepAssumption == NoStep \notin Step

StepHashes == Names \X (Rounds \cup {NoRound})
Lane(h) == LaneOf[h[1]]

VARIABLES
  round,   \* the newest round_ledger id, NoRound before the first
  steps,   \* agent_steps by step_hash
  obs,     \* <<step_hash, kind>> pairs with an agent_observations row
  fuzzed,  \* step_hashes with a fuzz_runs row
  mapped,  \* whether there is a regexes row
  fresh,   \* history: lanes with a step inserted since the round opened
  acked,   \* history: lanes of the rows a Put acknowledged since the round opened
  closed   \* history: steps whose status CloseStep wrote last, not as skipped

vars == <<round, steps, obs, fuzzed, mapped, fresh, acked, closed>>

Init ==
  /\ round = NoRound
  /\ steps = [h \in StepHashes |-> NoStep]
  /\ obs = {} /\ fuzzed = {} /\ mapped = FALSE
  /\ fresh = {} /\ acked = {} /\ closed = {}

Stored == {h \in StepHashes : steps[h] # NoStep}
-------------------------------------------------------------------------------
(***************************************************************************)
(* The views of the gate.                                                  *)
(***************************************************************************)

(* The round_id that v_current_round yields for the target of round r; the *)
(* lookup of a NULL round finds no target and yields NULL.                 *)
CurrentRoundOf(r) == IF r = NoRound THEN NoRound ELSE round

(* Mutant of InCurrentRound: the view is target-global (before v0.30). *)
InAnyRound(h) == steps[h].round \in Rounds \cup {NoRound}

(* st.round_id IS NOT DISTINCT FROM the current round of its target. *)
InCurrentRound(h) == steps[h].round = CurrentRoundOf(steps[h].round)

CurrentSteps(l) == {h \in Stored : Lane(h) = l /\ InCurrentRound(h)}

(* v_lane_coverage.gate_status *)
LaneStatus(l) ==
  IF \E h \in CurrentSteps(l) : steps[h].status \in OkStatuses THEN "ok"
  ELSE IF \E h \in CurrentSteps(l) : steps[h].status = "skipped" /\ steps[h].reason
  THEN "skipped" ELSE "MISSING"

MissingLanes == {l \in Required : LaneStatus(l) = "MISSING"}

lanes_stuck_running ==
  {h \in Stored : /\ steps[h].status = "running"
                  /\ Lane(h) \in StuckLanes /\ InCurrentRound(h)}

roster_steps_missing == {l \in RosterLanes : CurrentSteps(l) = {}}

Executed(h) == steps[h].status \in ExecutedStatuses
Observed(h) == \E k \in ObsKinds : <<h, k>> \in obs

executed_steps_without_observation == {h \in Stored : Executed(h) /\ ~Observed(h)}

(* v_observation_coverage.gate_status = NO_OBSERVATION *)
PhaseSteps(p) ==
  {h \in Stored : /\ Lane(h) \in Required /\ PhaseOf[Lane(h)] = p
                  /\ Executed(h) /\ InCurrentRound(h)}
UnobservedPhases ==
  {p \in {PhaseOf[l] : l \in Required} :
     PhaseSteps(p) # {} /\ \A h \in PhaseSteps(p) : ~Observed(h)}

(* Steps of any round that ended and have no fuzz_runs row. *)
fuzz_skips_unrecorded ==
  {h \in Stored : /\ Lane(h) \in FuzzLanes /\ h \notin fuzzed
                  /\ steps[h].status \in terminalStepStatuses}

(* An enumeration step of any round succeeded and no regex was recorded. *)
regexes_unmapped ==
  /\ ~mapped
  /\ \E h \in Stored : Lane(h) \in EnumLanes /\ steps[h].status \in OkStatuses

(* The metrics over lanes, steps and the steps that have observations. *)
StepsGreen ==
  /\ MissingLanes = {}
  /\ lanes_stuck_running = {}
  /\ roster_steps_missing = {}
  /\ executed_steps_without_observation = {}
  /\ UnobservedPhases = {}

(* Gate, the metrics that read agent_steps or whether a step has            *)
(* observations: every one of them is empty.                                *)
ProcessGreen == StepsGreen /\ fuzz_skips_unrecorded = {} /\ ~regexes_unmapped
-------------------------------------------------------------------------------
(***************************************************************************)
(* The writes.                                                             *)
(***************************************************************************)

(* Put of the next round_ledger row. *)
OpenRound ==
  /\ round < MaxRound
  /\ round' = round + 1
  /\ fresh' = {} /\ acked' = {}
  /\ UNCHANGED <<steps, obs, fuzzed, mapped, closed>>

(* A row to Put: its round_id is the current one or, when the caller leaves *)
(* it out, NULL; a skip scheduled by a closure carries its reason.          *)
StepRow(s, r) == [round |-> r, status |-> s, reason |-> s = "skipped"]
Stamps == IF NullRounds THEN {round, NoRound} ELSE {round} \ {NoRound}
HashOf(n) == <<n, IF n \in RoundKeyed THEN round ELSE NoRound>>

(* Mutant of RowContradicts: the round_id is not compared. *)
RowContradictsStatusOnly(h, row) ==
  /\ steps[h] # NoStep
  /\ steps[h].status # row.status \/ row.reason # steps[h].reason

(* dedupConflict on step_hash: only the columns the row carries count. *)
RowContradicts(h, row) ==
  /\ steps[h] # NoStep
  /\ \/ steps[h].status # row.status
     \/ row.round # NoRound /\ steps[h].round # row.round
     \/ row.reason /\ ~steps[h].reason

(* PutCounts into agent_steps: all rows or, on a contradiction, none. A row *)
(* whose step_hash is stored already is skipped and acknowledged.           *)
PutSteps(batch, r) ==
  /\ r \in Stamps
  /\ \A n \in DOMAIN batch : ~RowContradicts(HashOf(n), StepRow(batch[n], r))
  /\ LET new == {n \in DOMAIN batch : steps[HashOf(n)] = NoStep}
     IN  /\ steps' = [h \in StepHashes |->
                        IF \E n \in new : HashOf(n) = h
                        THEN StepRow(batch[h[1]], r) ELSE steps[h]]
         /\ fresh' = fresh \cup {LaneOf[n] : n \in new}
  /\ acked' = acked \cup {LaneOf[n] : n \in DOMAIN batch}
  /\ UNCHANGED <<round, obs, fuzzed, mapped, closed>>

(* Put of one agent_observations row; obs_hash covers the step and the kind. *)
PutObservation(h, kind) ==
  /\ h \in Stored
  /\ obs' = obs \cup {<<h, kind>>}
  /\ UNCHANGED <<round, steps, fuzzed, mapped, fresh, acked, closed>>

(* Put of a fuzz_runs row, of a run or of its documented skip; nothing reads *)
(* the rows of another lane's steps.                                         *)
PutFuzzRun(h) ==
  /\ h \in Stored /\ Lane(h) \in FuzzLanes
  /\ fuzzed' = fuzzed \cup {h}
  /\ UNCHANGED <<round, steps, obs, mapped, fresh, acked, closed>>

(* Put of a regexes row. *)
PutRegex ==
  /\ mapped' = TRUE
  /\ UNCHANGED <<round, steps, obs, fuzzed, fresh, acked, closed>>

(* Mutants of UnderDocumented: no closing kind is asked for; nothing is. *)
UnderDocumentedAnyKind(h, status, kinds) ==
  Lane(h) \in Required /\ status # "skipped" /\ kinds = {}
UnderDocumentedNever(h, status, kinds) == FALSE

(* CloseStep refuses the close of a required lane that documents nothing. *)
UnderDocumented(h, status, kinds) ==
  Lane(h) \in Required /\ status # "skipped" /\ "closing" \notin kinds

(* CloseStep: observations and status in one transaction. It does not look *)
(* at the status the step has, nor does it write termination_reason.       *)
CloseStep(h, status, kinds) ==
  /\ h \in Stored
  /\ ~UnderDocumented(h, status, kinds)
  /\ obs' = obs \cup ({h} \X kinds)
  /\ steps' = [steps EXCEPT ![h].status = status]
  /\ closed' = IF status = "skipped" THEN closed \ {h} ELSE closed \cup {h}
  /\ UNCHANGED <<round, fuzzed, mapped, fresh, acked>>

(* vrdb exec UPDATE: a lane starts. *)
ExecStart(h) ==
  /\ h \in Stored
  /\ steps' = [steps EXCEPT ![h].status = "running"]
  /\ closed' = closed \ {h}
  /\ UNCHANGED <<round, obs, fuzzed, mapped, fresh, acked>>

(* vrdb exec UPDATE: a lane ends, with the reason the recipe asks for. *)
ExecEnd(h, status) ==
  /\ h \in Stored
  /\ steps' = [steps EXCEPT ![h].status = status, ![h].reason = TRUE]
  /\ closed' = closed \ {h}
  /\ UNCHANGED <<round, obs, fuzzed, mapped, fresh, acked>>

Batches == UNION {[ns -> PutInputs] : ns \in SUBSET Names \ {{}}}

Next ==
  \/ OpenRound
  \/ \E batch \in Batches, r \in Stamps : PutSteps(batch, r)
  \/ \E h \in StepHashes, kind \in ObsKinds : PutObservation(h, kind)
  \/ \E h \in StepHashes : PutFuzzRun(h)
  \/ PutRegex
  \/ \E h \in StepHashes, status \in EndInputs, kinds \in SUBSET ObsKinds :
       CloseStep(h, status, kinds)
  \/ \E h \in StepHashes : ExecStart(h)
  \/ \E h \in StepHashes, status \in EndInputs : ExecEnd(h, status)

Spec == Init /\ [][Next]_vars
-------------------------------------------------------------------------------
(* Types of the tables and of the histories. *)
TypeOK ==
  /\ round \in Rounds \cup {NoRound}
  /\ steps \in [StepHashes -> Step \cup {NoStep}]
  /\ obs \subseteq StepHashes \X ObsKinds
  /\ fuzzed \subseteq StepHashes /\ mapped \in BOOLEAN
  /\ fresh \subseteq Lanes /\ acked \subseteq Lanes
  /\ closed \subseteq Stored

(* No orphan observation: the step an observation hangs off exists. *)
ObservationsHaveSteps == \A o \in obs : o[1] \in Stored

(* A step of a required lane that CloseStep ended, other than as skipped,   *)
(* keeps a dead_end, invariant or blind_spot row of its own, whatever is    *)
(* replayed, restarted or closed again (T3-03).                             *)
ClosedIsDocumented ==
  \A h \in closed : Lane(h) \in Required => <<h, "closing">> \in obs

(* A roster row that a Put acknowledged is a step of the current round: no  *)
(* sentinel of an earlier round swallows it (T2-11).                        *)
AckedRosterIsCurrent == \A l \in acked : CurrentSteps(l) # {}

(* The gate is scoped to the round: it is not green in a round in which a   *)
(* required lane had no step inserted, whatever ran before (v0.30).         *)
GreenIsEarned == ProcessGreen /\ round # NoRound => Required \subseteq fresh

(* What CloseStep refuses to write covers what the metrics over lanes and   *)
(* steps, and over which steps have observations, would report: the         *)
(* successful close of a required lane's step, of any round and in any      *)
(* state, turns none of them red.  It does turn a green gate red through    *)
(* the accounting it does not look at: its own step has no fuzz_runs row,   *)
(* or it is an enumeration step and no regex was recorded.  (The metrics    *)
(* that read what an observation says are not part of the model.)           *)
CloseKeepsGreen ==
  [][ProcessGreen =>
       \A h \in StepHashes, status \in OkStatuses, kinds \in SUBSET ObsKinds :
         Lane(h) \in Required /\ CloseStep(h, status, kinds) =>
           /\ StepsGreen'
           /\ fuzz_skips_unrecorded' \subseteq {h}
           /\ regexes_unmapped' => Lane(h) \in EnumLanes]_vars
===============================================================================
