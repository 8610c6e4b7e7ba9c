\* Pages of 8 units and 7-bit addresses (the doubled instance).
CONSTANTS
  Available = Available
  Reserved = Reserved
  Absent = Absent
  PageSize = 8
  AddrBits = 7
  EntrySize = 1
  PtesPerPT = 4
  UsedRanges <- MCUsedRanges2
  MemoryMaps <- MCMemoryMaps2
SPECIFICATION Spec
INVARIANTS
  TypeOK
  UsedRangesExcluded
  RegionsDisjoint
  RegionsBelowTopOfMemory
  EntriesCoverFrames
  PagesRegionCarvedOut
  ReservedOutsideAvailable
  ReservedEntriesRegistered
  MmapStartNotAvailable
\* parse_memory_map and initialize_physical_pages run once and end.
CHECK_DEADLOCK FALSE
