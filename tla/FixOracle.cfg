\* Two fixes through phases 3 to 7, any tool again at any time, one fault.
SPECIFICATION Spec
CONSTANTS
  None = None
  Ghost = Ghost
  Commits = {1, 2}
  Gold = {2}
  Flagged = {1, 2}
  Ruby = {1}
  FrontEnd = {1, 2}
  Hunk <- MCHunk
  BATCH_SIZE = 2
  MaxFaults = 1
  MaxLines = 3
INVARIANTS
  ConfirmedHasItsPatch
  ScoreIsOfItsCommit
  BlameMatchesPatch
PROPERTIES
  RubyPatchIsKept
CHECK_DEADLOCK FALSE
