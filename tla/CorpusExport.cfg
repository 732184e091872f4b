\* Two processes, from init to an export.
SPECIFICATION Spec
CONSTANTS
  None = None
  s1 = s1
  s2 = s2
  cpp = cpp
  rust = rust
  Languages = {cpp, rust}
  Captures = {1, 2, 3}
  Ids = {"a", "b"}
  Judgments <- MCJudgments
  Quoted <- MCQuoted
  Splits = {"train", "test"}
  Split <- MCSplit
  Scouts = {s1, s2}
  Versions = {1, 2}
  MaxInits = 2
  MaxCommands = 4
INVARIANTS
  OneTarget
  SpansAreOfTheMarkdown
  NoLeakInAnExport
  ExportIsWhole
SYMMETRY Symmetry
CHECK_DEADLOCK FALSE
