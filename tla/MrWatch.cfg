\* Two overlapping runs of the findings watcher beside the pair watcher.
SPECIFICATION FairSpec
CONSTANTS
  a = a
  b = b
  c = c
  f1 = f1
  f2 = f2
  p1 = p1
  m = m
  Null = Null
  NoKey = NoKey
  Absent = Absent
  Malformed = Malformed
  Iids <- MCIids
  IIDS <- MCIIDS
  Runs = {f1, f2, p1}
  WatcherOf <- MCWatcherOf
  Merges = {m}
  InitFiles <- MCInitFiles
  Answers <- MCAnswers
  MaxEvents <- MCMaxEvents
  MaxFaults = 1
INVARIANTS
  LastGoodIsKept
  PersistBeforeReport
PROPERTIES
  NoStaleAnswer
  MergeIsReported
CHECK_DEADLOCK FALSE
