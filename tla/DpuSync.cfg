SPECIFICATION FairSpec
CONSTANTS
  t1 = t1
  t2 = t2
  t3 = t3
  t4 = t4
  b1 = b1
  b2 = b2
  b3 = b3
  s1 = s1
  s2 = s2
  s3 = s3
  Tasklets = {t1, t2, t3, t4}
  Empty = Empty
  Barriers = {b1, b2, b3}
  BarrierSize <- MCBarrierSize
  Sems = {s1, s2, s3}
  SemCount <- MCSemCount
  VmIds = {0, 1, 8, 16}
  NbMutexes = 2
  Programs <- MCPrograms
INVARIANTS
  QueueExact
  SemUnits
  HandshakePaired
  VmExclusion
PROPERTIES
  BarrierGroups
  Quiesces
