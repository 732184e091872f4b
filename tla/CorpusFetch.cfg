\* Two scouts fetch a page and the page it may redirect to.
SPECIFICATION Spec
CONSTANTS
  page = page
  target = target
  web = web
  other = other
  all = all
  deep = deep
  NoText = NoText
  Urls <- MCUrls
  Hosts = {web, other}
  HostOf <- MCHostOf
  Scouts = {s1, s2}
  Patterns <- MCPatterns
  Matches <- MCMatches
  Length <- MCLength
  Texts <- MCTexts
  MAX_REDIRECTS = 1
  MaxRuns = 2
  MaxChanges = 2
  MaxKills = 1
INVARIANTS
  StateMatchesRows
  
PROPERTIES
  SettledStays
SYMMETRY MCSymmetry
CHECK_DEADLOCK FALSE
