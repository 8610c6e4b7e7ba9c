CONSTANTS
  Available = Available
  Reserved = Reserved
  Absent = Absent
  PageSize = 8
  AddrBits = 7
  EntrySize = 1
  PtesPerPT = 4
  UsedRanges <- MCUsedRanges2
  MemoryMaps <- MCMemoryMaps2
SPECIFICATION Spec
INVARIANT ArrayMappingOwned
CHECK_DEADLOCK FALSE
