----------------------------- MODULE MCStepLedger -----------------------------
(***************************************************************************)
(* StepLedger on a small instance for TLC: the enumeration lane, whose     *)
(* step_hash carries the round, and the fuzz lane with a step whose hash   *)
(* does not.                                                               *)
(***************************************************************************)
EXTENDS StepLedger, TLC

CONSTANTS
  enum,    \* preliminary_enumeration_lane
  fuzz,    \* boundary_fuzz_lane
  s1, s2

MCRequired == {enum, fuzz}
MCEnum == {enum}
MCFuzz == {fuzz}
MCPhaseOf == enum :> "phase0_decompose" @@ fuzz :> "phase1_5_fuzz"
MCNames == {s1, s2}
MCLaneOf == s1 :> enum @@ s2 :> fuzz
MCRoundKeyed == {s1}
===============================================================================
