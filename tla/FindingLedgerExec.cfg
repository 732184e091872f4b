SPECIFICATION Spec
CONSTANTS
  h1 = h1
  h2 = h2
  b1 = b1
  c1 = c1
  c2 = c2
  NoRow = NoRow
  MaxId = 2
  MaxBatch = 1
  PutTables = {"gr_findings", "refutations", "critic_findings", "mutation_log"}
  Hashes <- MCOneHash
  Bodies <- MCBodies
  Consumers <- MCConsumers
  PutInputs = {"candidate", "confirmed"}
  SeverityInputs = {"MEDIUM", "HIGH"}
  CapInputs = {"null", "dos_only", "leak", "none"}
  ExplicitIds = {}
  CountMayFail = FALSE
  OutOfBand = {"refuted"}
INVARIANTS
  ConfirmedIsJustified
PROPERTIES
  DosOnlyCapsSeverity
SYMMETRY Symmetry
