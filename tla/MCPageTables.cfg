CONSTANTS
  d1 = d1  d2 = d2  f1 = f1  f2 = f2  f3 = f3
  NoFrame = NoFrame
  Directories = {d1, d2}
  Tables = {1, 2}
  Entries = {1, 2}
  LastEntry = 2
  Frames = {f1, f2, f3}
  VolatileFrames = {f3}
  Regions <- MCRegions
  KernelDirectory = d1
SPECIFICATION Spec
INVARIANTS
  TypeOK
  PageTablesConsistent
  EntriesMatchMappings
  TableFramesExclusive
  NoEmptyPageTable
  KernelRangesExclusive
  
  FramesConserved
