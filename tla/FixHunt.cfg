\* Two fixes are hunted again and again; the queries are edited once.
SPECIFICATION FairSpec
CONSTANTS
  m = m
  rb = rb
  lib = lib
  spec = spec
  out = out
  past = past
  xss = xss
  misc = misc
  Worklist <- MCWorklist
  Limit = 2
  Scope = {m, past}
  Hunks <- MCHunks
  Suites <- MCSuites
  Files = {rb, lib, spec}
  Gone = Gone
  Ruby = {rb, lib, spec}
  Test = {spec}
  Found <- MCFound
  Window = 1
  MaxVersion = 2
  MaxFaults = 2
  MaxHeadRuns = 2
  MaxLine = 6
INVARIANTS
  VerdictIsOfItsQueries
  VerdictedOnce
  DiskIsReclaimed
PROPERTIES
  FindingsNeverGoBack
  FixesAreSettled
