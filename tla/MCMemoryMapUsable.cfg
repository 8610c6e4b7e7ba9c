CONSTANTS
  Available = Available
  Reserved = Reserved
  Absent = Absent
  PageSize = 4
  AddrBits = 6
  EntrySize = 1
  PtesPerPT = 2
  UsedRanges <- MCUsedRanges
  MemoryMaps <- MCMemoryMaps
SPECIFICATION Spec
INVARIANT RegionsWithinUsable
CHECK_DEADLOCK FALSE
