SPECIFICATION Spec
CONSTANTS
  enum = enum
  fuzz = fuzz
  s1 = s1
  s2 = s2
  NoStep = NoStep
  Required <- MCRequired
  OtherLanes = {}
  FuzzLanes <- MCFuzz
  EnumLanes <- MCEnum
  StuckLanes <- MCRequired
  RosterLanes <- MCRequired
  PhaseOf <- MCPhaseOf
  Names <- MCNames
  LaneOf <- MCLaneOf
  RoundKeyed <- MCRoundKeyed
  MaxRound = 2
  PutInputs = {"scheduled", "skipped"}
  EndInputs = {"success", "skipped"}
  NullRounds = FALSE
INVARIANTS
  ClosedIsDocumented
  AckedRosterIsCurrent
  GreenIsEarned
PROPERTIES
  CloseKeepsGreen
