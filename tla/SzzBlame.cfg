SPECIFICATION SzzSpec
CONSTANTS
  Null = Null
  f1 = f1  f2 = f2
  c1 = c1  c2 = c2  c3 = c3
  ann = ann  bob = bob
  annHome = annHome  annWork = annWork  bobWork = bobWork
  a = a  b = b  c = c
  code = code  auth = auth
  Fixes = {f1, f2}
  Introducers = {c1, c2, c3}
  Authors = {ann, bob}
  Emails = {annHome, annWork, bobWork}
  Files = {a, b, c}
  Categories = {code, auth}
  Cosmetic = {c2}
  Origin <- MCOrigin
  Patches <- MCPatches
  Category <- MCCategory
  Author <- MCAuthor
  Email <- MCEmail
  Exposure <- MCExposure
  LISTED = 1  TOP = 1  GAPS = 1
  MaxFailures = 1
INVARIANTS
  EdgesAreOfTheFix
  VicinityIsBeside
  ReportCountsTheEdges
CHECK_DEADLOCK FALSE
