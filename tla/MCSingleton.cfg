\* Three threads on two processors calling ptr() again and again; three
\* objects, so that a second creation would be told apart from the first.
CONSTANTS
  t1 = t1
  t2 = t2
  t3 = t3
  o1 = o1
  o2 = o2
  o3 = o3
  c1 = c1
  c2 = c2
  Threads <- MCThreads
  CPUs <- MCCPUs
  CpuOf <- MCCpuOf
  Objs <- MCObjs
  Null = Null
  Busy = Busy
SPECIFICATION Spec
INVARIANT TypeOK
INVARIANT SingleInstance
INVARIANT CreatorRunning
PROPERTY CallsReturn
PROPERTY RefinesSpec
