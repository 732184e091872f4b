\* Two scouts judge, re-judge and recover three pages.
SPECIFICATION Spec
CONSTANTS
  cve = cve
  symbol = symbol
  Original = Original
  NoCode = NoCode
  NoDoc = NoDoc
  NoReview = NoReview
  Captures = {1, 2, 3}
  Tokens <- MCTokens
  Marker = "[1]"
  Is <- MCIs
  Indented = FALSE
  Judgments <- MCJudgments
  Markdown <- MCMarkdown
  Shown <- MCShown
  Source <- MCSource
  Refs = {symbol}
  Ids = {cve}
  Scouts = {s1, s2}
  SHARED_CODE_LIMIT = 2
  MaxCommands = 4
  MaxCases = 4
  MaxReviews = 1
  MaxReports = 1
INVARIANTS
  RecoveredFromItsExcerpt
  MatchedHasTheLines
  NothingDangles
  GroupsAreComponents
SYMMETRY MCSymmetry
CHECK_DEADLOCK FALSE
