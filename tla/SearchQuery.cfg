SPECIFICATION Spec
CONSTANTS
  m1 = m1
  m2 = m2
  m3 = m3
  s1 = s1
  s2 = s2
  s3 = s3
  r1 = r1
  r2 = r2
  q1 = q1
  q2 = q2
  p1 = p1
  p2 = p2
  t1 = t1
  t2 = t2
  Null = Null
  Raised = Raised
  Kinds <- MCKinds
  Databases <- MCDatabases
  Queries <- MCQueries
INVARIANTS
  ScoreIsBest
  FoundIsScored
  SortedByBest
  FiltersHold
  FieldsAgree
CHECK_DEADLOCK FALSE
