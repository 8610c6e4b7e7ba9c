------------------------------ MODULE MemoryMap ------------------------------
(***************************************************************************)
(* MemoryManager::parse_memory_map (src/kernel/vm/MemoryManager.cpp): how  *)
(* the firmware memory map becomes the user PhysicalRegions.               *)
(*                                                                         *)
(* Each multiboot entry is one step: an available entry is page-aligned    *)
(* (in PhysicalSize arithmetic, which wraps), then every page base from    *)
(* its start up to and including start + length is visited; pages in a    *)
(* used range are skipped and the rest are coalesced into contiguous       *)
(* ranges whose `upper` is the last page added.  The last step turns each *)
(* range into PhysicalRegion::try_create(lower, upper), whose upper bound  *)
(* is exclusive.  Addresses are scaled down: PageSize units per page and   *)
(* AddrBits bits per address.                                              *)
(*                                                                         *)
(* MemoryManager::initialize_physical_pages follows as one step: it sizes  *)
(* the PhysicalPageEntry array to the highest physical address, takes the  *)
(* array and its page tables from the first user region large enough, and  *)
(* fills whole page tables (PtesPerPT entries each) with mappings of the   *)
(* pages that follow the tables.                                           *)
(***************************************************************************)
EXTENDS Naturals, Sequences, SequencesExt

CONSTANTS
  PageSize,     \* PAGE_SIZE, in address units
  AddrBits,     \* width of PhysicalSize
  UsedRanges,   \* m_used_memory_ranges: a sequence of [start, end]
  MemoryMaps,   \* the multiboot memory maps to parse: sequences of entries
  Available,    \* MULTIBOOT_MEMORY_AVAILABLE
  Reserved,     \* MULTIBOOT_MEMORY_RESERVED
  EntrySize,    \* sizeof(PhysicalPageEntry), in address units
  PtesPerPT     \* PAGE_SIZE / sizeof(PageTableEntry)

Word == 2 ^ AddrBits
Wrap(x) == x % Word

VARIABLES
  mmap,        \* the multiboot memory map being parsed
  next,        \* index of the next entry of the mmap loop
  contiguous,  \* contiguous_physical_ranges: a sequence of [lower, upper]
  regions,     \* m_user_physical_regions: a sequence of frame sets
  reserved,    \* m_reserved_memory_ranges: a sequence of [start, length]
  userPages,   \* m_system_memory_info.user_physical_pages
  entries,     \* m_physical_page_entries_count
  pagesRegion, \* m_physical_pages_region: the frames of the array and tables
  arrayMapped, \* the physical pages the array's page tables map
  halted       \* "none", or the VERIFY that stopped the boot

mmVars == <<mmap, next, contiguous, regions, reserved, userPages, entries, pagesRegion,
            arrayMapped, halted>>

(* Mutant: the start is moved by diff rather than by PAGE_SIZE - diff. *)
AlignedByDiff(e) ==
  LET diff == e.addr % PageSize
      l1   == IF diff # 0 THEN Wrap(e.len - diff) ELSE e.len
  IN  [addr |-> Wrap(e.addr + diff), len |-> l1 - (l1 % PageSize)]

(* Mutant: the length is rounded up to a whole page instead of down. *)
AlignedRoundUp(e) ==
  LET diff == e.addr % PageSize
      a1   == IF diff # 0 THEN Wrap(e.addr + (PageSize - diff)) ELSE e.addr
      l1   == IF diff # 0 THEN Wrap(e.len - (PageSize - diff)) ELSE e.len
  IN  [addr |-> a1,
       len |-> IF l1 % PageSize = 0 THEN l1 ELSE l1 + PageSize - (l1 % PageSize)]

(* The alignment fix-up of an available entry, in wrapping arithmetic.     *)
Aligned(e) ==
  LET diff == e.addr % PageSize
      a1   == IF diff # 0 THEN Wrap(e.addr + (PageSize - diff)) ELSE e.addr
      l1   == IF diff # 0 THEN Wrap(e.len - (PageSize - diff)) ELSE e.len
  IN  [addr |-> a1, len |-> l1 - (l1 % PageSize)]

(* The page bases the loop visits: from addr while page_base <= addr+len.  *)
VisitedPages(a) ==
  LET last == Wrap(a.addr + a.len)
  IN  IF last < a.addr THEN << >>
      ELSE [k \in 1..((last - a.addr) \div PageSize + 1) |->
              a.addr + (k - 1) * PageSize]

(* Mutant: the used-range loop stops after the first range. *)
ShouldSkipFirstRangeOnly(p) ==
  p >= UsedRanges[1].start /\ p <= UsedRanges[1].end

(* should_skip: the page base lies in [start, end] of some used range.     *)
ShouldSkip(p) ==
  \E i \in DOMAIN UsedRanges :
    p >= UsedRanges[i].start /\ p <= UsedRanges[i].end

(* Start a new contiguous range, or extend the last one by this page.      *)
AddPage(ranges, p) ==
  IF ranges = << >> \/ Last(ranges).upper + PageSize # p
  THEN Append(ranges, [lower |-> p, upper |-> p])
  ELSE [ranges EXCEPT ![Len(ranges)].upper = p]

(* The body of the mmap loop for one entry.                                *)
ParseEntry(ranges, e) ==
  LET a == Aligned(e)
  IN  IF e.type # Available \/ a.len < PageSize
      THEN ranges
      ELSE FoldLeft(LAMBDA r, p : IF ShouldSkip(p) THEN r ELSE AddPage(r, p),
                    ranges, VisitedPages(a))

(* Mutant: the region includes its upper page. *)
RegionFramesInclusive(r) ==
  {r.lower + k * PageSize : k \in 0..((r.upper - r.lower) \div PageSize)}

(* The frames of PhysicalRegion::try_create(lower, upper).                 *)
RegionFrames(r) ==
  {r.lower + k * PageSize : k \in 0..((r.upper - r.lower) \div PageSize) - 1}

(* Mutant: the open range is not closed after it is appended. *)
ReserveStepNoReset(acc, e) ==
  IF e.type # Reserved
  THEN IF acc.start = 0 THEN acc
       ELSE [acc EXCEPT !.out = Append(@, [start |-> acc.start,
                                           length |-> Wrap(e.addr - acc.start)])]
  ELSE IF acc.start # 0 THEN acc ELSE [acc EXCEPT !.start = e.addr]

(* One iteration of register_reserved_ranges' loop over the firmware       *)
(* ranges: a non-reserved range closes the open reserved range at its own  *)
(* start; a reserved range opens one unless one is open.  A start of 0 is  *)
(* the null address, i.e. no range is open.                                *)
ReserveStep(acc, e) ==
  IF e.type # Reserved
  THEN IF acc.start = 0 THEN acc
       ELSE [start |-> 0,
             out |-> Append(acc.out, [start |-> acc.start,
                                      length |-> Wrap(e.addr - acc.start)])]
  ELSE IF acc.start # 0 THEN acc ELSE [acc EXCEPT !.start = e.addr]

(* Mutant: the range still open after the loop is never appended. *)
ReservedRangesNoTail(m) ==
  FoldLeft(ReserveStep, [start |-> 0, out |-> << >>], m).out

(* register_reserved_ranges: the loop, then a range still open when the    *)
(* last firmware range is reserved runs to that range's end.               *)
ReservedRanges(m) ==
  LET acc == FoldLeft(ReserveStep, [start |-> 0, out |-> << >>], m)
  IN  IF Last(m).type # Reserved \/ acc.start = 0 THEN acc.out
      ELSE Append(acc.out, [start |-> acc.start,
                            length |-> Wrap(Last(m).addr + Last(m).len - acc.start)])

(* Mutant: a range is taken without checking that it reaches the start. *)
IsAllowedNoEndCheck(rs, start, size) ==
  LET i == SelectInSeq(rs, LAMBDA r : r.start <= start)
  IN  i # 0 /\ rs[i].length >= size

(* is_allowed_to_mmap_to_userspace(start_address, range): the first        *)
(* reserved range that contains start_address decides, by comparing its   *)
(* whole length with the size of the mapping.  (The VERIFY that some       *)
(* reserved range is registered is the caller's precondition here.)        *)
IsAllowedToMmapToUserspace(rs, start, size) ==
  LET i == SelectInSeq(rs, LAMBDA r : r.start <= start /\ r.start + r.length > start)
  IN  i # 0 /\ rs[i].length >= size

(* `user_physical_pages += region.size()` over the user regions.         *)
UserPhysicalPages(rs) == FoldSeq(LAMBDA r, n : Cardinality(r) + n, 0, rs)

(* Mutant: only the used ranges raise the highest address. *)
HighestUsedOnly ==
  Max({0} \cup {UsedRanges[i].end : i \in DOMAIN UsedRanges})

(* The highest end of a used range or of any firmware range, whatever its  *)
(* type (m_physical_memory_ranges keeps the entries unaligned).            *)
HighestPhysicalAddress ==
  Max({0} \cup {UsedRanges[i].end : i \in DOMAIN UsedRanges}
          \cup {Wrap(mmap[i].addr + mmap[i].len) : i \in DOMAIN mmap})

(* The entry count, the array's pages, its page tables, and their sum.     *)
EntriesCount == HighestPhysicalAddress \div PageSize + 1
ArrayPages   == (EntriesCount * EntrySize + PageSize - 1) \div PageSize
TablePages   == (ArrayPages + PtesPerPT - 1) \div PtesPerPT
NeededPages  == ArrayPages + TablePages

(* The user regions large enough to hold the array and its tables.         *)
Fitting == {i \in DOMAIN regions : Cardinality(regions[i]) >= NeededPages}

(* Mutant: one page more is taken than asked for. *)
TakePagesOffByOne(r, n) == {f \in r : f <= Min(r) + n * PageSize}

(* PhysicalRegion::try_take_pages_from_beginning(n): the n lowest frames.  *)
TakePagesFromBeginning(r, n) == {f \in r : f < Min(r) + n * PageSize}

-----------------------------------------------------------------------------
Init ==
  /\ mmap \in MemoryMaps
  /\ next = 1
  /\ contiguous = << >>
  /\ regions = << >>
  /\ reserved = << >>
  /\ userPages = 0
  /\ entries = 0
  /\ pagesRegion = {}
  /\ arrayMapped = {}
  /\ halted = "none"

(* One iteration of `for (mmap = mmap_begin; mmap < mmap_end; mmap++)`.    *)
ParseMemoryMapEntry ==
  /\ next <= Len(mmap)
  /\ contiguous' = ParseEntry(contiguous, mmap[next])
  /\ next' = next + 1
  /\ UNCHANGED <<mmap, regions, reserved, userPages, entries, pagesRegion,
                 arrayMapped, halted>>

(* `for (auto& range : contiguous_physical_ranges)` appending the regions, *)
(* user_physical_pages summed over them, then register_reserved_ranges.    *)
CreateUserRegions ==
  /\ next = Len(mmap) + 1
  /\ mmap # << >>
  /\ regions' = [i \in DOMAIN contiguous |-> RegionFrames(contiguous[i])]
  /\ userPages' = UserPhysicalPages(regions')
  /\ reserved' = ReservedRanges(mmap)
  /\ next' = next + 1
  /\ UNCHANGED <<mmap, contiguous, entries, pagesRegion, arrayMapped, halted>>

(* The same step on a memory map with no entry: register_reserved_ranges   *)
(* VERIFYs that m_physical_memory_ranges is not empty.                     *)
NoPhysicalRanges ==
  /\ next = Len(mmap) + 1
  /\ mmap = << >>
  /\ halted' = "no_ranges"
  /\ next' = Len(mmap) + 3
  /\ UNCHANGED <<mmap, contiguous, regions, reserved, userPages, entries,
                 pagesRegion, arrayMapped>>

(* initialize_physical_pages when no user region is large enough:          *)
(* VERIFY_NOT_REACHED.                                                     *)
NoRegionLargeEnough ==
  /\ next = Len(mmap) + 2
  /\ Fitting = {}
  /\ entries' = EntriesCount
  /\ halted' = "no_region"
  /\ next' = next + 1
  /\ UNCHANGED <<mmap, contiguous, regions, reserved, userPages, pagesRegion,
                 arrayMapped>>

(* initialize_physical_pages: the first fitting region is taken whole when *)
(* its size is exact, else its lowest pages are split off; the tables come *)
(* first, and each of the TablePages tables maps PtesPerPT pages from the  *)
(* array's base.  parse_memory_map then VERIFYs user_physical_pages > 0.   *)
InitializePhysicalPages ==
  /\ next = Len(mmap) + 2
  /\ Fitting # {}
  /\ LET i     == Min(Fitting)
         exact == Cardinality(regions[i]) = NeededPages
         taken == IF exact THEN regions[i]
                  ELSE TakePagesFromBeginning(regions[i], NeededPages)
         base  == Min(taken) + TablePages * PageSize
     IN  /\ regions' = IF exact THEN RemoveAt(regions, i)
                       ELSE [regions EXCEPT ![i] = @ \ taken]
         /\ pagesRegion' = taken
         /\ arrayMapped' = {base + k * PageSize : k \in 0..TablePages * PtesPerPT - 1}
  /\ userPages' = userPages - NeededPages
  /\ entries' = EntriesCount
  /\ halted' = IF userPages' > 0 THEN "none" ELSE "no_user_pages"
  /\ next' = next + 1
  /\ UNCHANGED <<mmap, contiguous, reserved>>

Next ==
  \/ ParseMemoryMapEntry
  \/ CreateUserRegions
  \/ NoPhysicalRanges
  \/ NoRegionLargeEnough
  \/ InitializePhysicalPages

Spec == Init /\ [][Next]_mmVars

-----------------------------------------------------------------------------
(* Reference: the pages the memory map and the used ranges leave usable:  *)
(* every byte of the page lies in an available entry, and the page meets   *)
(* no used range.                                                          *)
ByteAvailable(b) ==
  \E i \in DOMAIN mmap :
    mmap[i].type = Available /\ mmap[i].addr <= b /\ b < mmap[i].addr + mmap[i].len

UsablePages ==
  { p \in {k * PageSize : k \in 0..(Word \div PageSize) - 1} :
      /\ \A b \in p..p + PageSize - 1 : ByteAvailable(b)
      /\ \A i \in DOMAIN UsedRanges :
           p + PageSize <= UsedRanges[i].start \/ p >= UsedRanges[i].end }

Parsed == next > Len(mmap) + 1
Booted == next > Len(mmap) + 2 /\ halted = "none"
RegionPages == UNION {regions[i] : i \in DOMAIN regions}

TypeOK ==
  /\ next \in 1..Len(mmap) + 3
  /\ userPages \in Nat
  /\ entries \in Nat
  /\ pagesRegion \subseteq Nat
  /\ arrayMapped \subseteq Nat
  /\ reserved \in Seq([start : 0..Word - 1, length : 0..Word - 1])
  /\ halted \in {"none", "no_ranges", "no_region", "no_user_pages"}
  /\ contiguous \in Seq([lower : 0..Word - 1, upper : 0..Word - 1])
  /\ regions \in Seq(SUBSET {k * PageSize : k \in 0..(Word \div PageSize) - 1})

(* No page of a user region lies in a used range (low memory, prekernel,   *)
(* kernel image, boot modules), whatever the alignment of the entries and *)
(* of the ranges: handing one out would overwrite the kernel.              *)
UsedRangesExcluded ==
  Parsed =>
    \A p \in RegionPages, i \in DOMAIN UsedRanges :
      p + PageSize <= UsedRanges[i].start \/ p >= UsedRanges[i].end

(* No frame belongs to two user regions, although the loop visits the page *)
(* just past each entry, which is also the first page of an adjacent one.  *)
RegionsDisjoint ==
  Parsed =>
    \A i, j \in DOMAIN regions : i # j => regions[i] \cap regions[j] = {}

(* No page of a user region lies above the end of the highest available    *)
(* entry, although the loop visits the page at addr + len.                 *)
RegionsBelowTopOfMemory ==
  Parsed =>
    \A p \in RegionPages :
      \E i \in DOMAIN mmap :
        mmap[i].type = Available /\ p + PageSize <= mmap[i].addr + mmap[i].len

(* Every page of a user region is usable memory: it lies inside an         *)
(* available entry of the memory map (spec section 4.1: the remaining      *)
(* usable bytes are coalesced into PhysicalRegions).                       *)
RegionsWithinUsable ==
  Parsed => RegionPages \subseteq UsablePages

(* No reserved range registered for the physical memory device overlaps   *)
(* an available firmware entry, though one reserved range spans a run of   *)
(* reserved entries and the holes between them, and is closed only at the *)
(* next range of another type.                                             *)
ReservedOutsideAvailable ==
  Parsed =>
    \A r \in Range(reserved), i \in DOMAIN mmap :
      mmap[i].type = Available =>
        r.start + r.length <= mmap[i].addr \/ r.start >= mmap[i].addr + mmap[i].len

(* Every reserved firmware entry lies inside one registered reserved      *)
(* range: register_reserved_ranges' loop and its tail after the loop       *)
(* together cover every run of reserved entries, whether the run is closed *)
(* by an entry of another type or by the end of the map.  An entry at      *)
(* address 0 is left out: the loop takes a start of 0 for "no open range". *)
ReservedEntriesRegistered ==
  Parsed =>
    \A i \in DOMAIN mmap :
      mmap[i].type = Reserved /\ mmap[i].addr # 0 =>
        \E r \in Range(reserved) :
          r.start <= mmap[i].addr /\ mmap[i].addr + mmap[i].len <= r.start + r.length

(* Page-aligned physical addresses a mapping of the memory device may ask  *)
(* for, and the sizes of one and two pages.                                *)
MmapStarts == {k * PageSize : k \in 0..(Word \div PageSize) - 1}
MmapSizes  == {PageSize, 2 * PageSize}

(* The physical memory device never maps available RAM at the start of a  *)
(* mapping: once the map is parsed, every start address that              *)
(* is_allowed_to_mmap_to_userspace accepts lies in no available entry.    *)
(* This needs both of its bounds tests and register_reserved_ranges        *)
(* closing each range at the next entry of another type.                   *)
MmapStartNotAvailable ==
  Parsed /\ reserved # << >> =>
    \A s \in MmapStarts, z \in MmapSizes :
      IsAllowedToMmapToUserspace(reserved, s, z) => ~ByteAvailable(s)

(* Every frame the allocator can hand out or that holds the array has an   *)
(* entry: get_physical_page_entry's VERIFY(index < entries_count) holds    *)
(* for every user frame and page-table frame, though the count is taken    *)
(* from unaligned firmware ranges and the regions from aligned ones.       *)
EntriesCoverFrames ==
  Booted =>
    \A f \in RegionPages \cup pagesRegion : f \div PageSize < entries

(* The frames taken for the array and its tables leave the user regions    *)
(* and the user page count exactly: the count still equals the frames of   *)
(* the remaining regions, none of which overlaps the array's region.       *)
PagesRegionCarvedOut ==
  Booted =>
    /\ userPages = UserPhysicalPages(regions)
    /\ pagesRegion \cap RegionPages = {}

(* The page tables of the array map only frames of m_physical_pages_region *)
(* (spec section 3: a present PTE references a live frame owned by one     *)
(* region), although each table is filled with all PtesPerPT entries.      *)
ArrayMappingOwned ==
  Booted => arrayMapped \subseteq pagesRegion

=============================================================================
