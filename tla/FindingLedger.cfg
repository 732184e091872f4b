SPECIFICATION Spec
CONSTANTS
  h1 = h1
  h2 = h2
  b1 = b1
  c1 = c1
  c2 = c2
  NoRow = NoRow
  MaxId = 2
  MaxBatch = 2
  PutTables = {"gr_findings", "refutations", "critic_findings"}
  Hashes <- MCHashes
  Bodies <- MCBodies
  Consumers <- MCOneConsumer
  PutInputs = {"candidate", "confirmed"}
  SeverityInputs = {"MEDIUM", "HIGH"}
  CapInputs = {"dos_only"}
  ExplicitIds = {1}
  CountMayFail = TRUE
  OutOfBand = {}
INVARIANTS
  KeysHoldThroughout
  AckedContentStored
PROPERTIES
  PutCountsAreTrue
  ImplementsLifecycle
SYMMETRY Symmetry
