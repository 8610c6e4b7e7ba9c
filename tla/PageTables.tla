----------------------------- MODULE PageTables -----------------------------
(***************************************************************************)
(* Page-table lifecycle of the MemoryManager (MemoryManager::ensure_pte,  *)
(* release_pte and quickmap_pd in src/kernel/vm/MemoryManager.cpp), driven *)
(* by Region::map and Region::unmap, which map or unmap the pages of a     *)
(* region one after the other under s_mm_lock.                             *)
(*                                                                         *)
(* A page directory entry (pde) is reached through the quickmap_pd window, *)
(* one fixed virtual page that shows the directory last passed to          *)
(* quickmap_pd.  ensure_pte takes a reference to the pde through that      *)
(* window and may then allocate a page-table frame; when the allocator has *)
(* to purge a volatile VMObject, the purge remaps that VMObject's regions  *)
(* in whatever address spaces map them, which moves the window.            *)
(*                                                                         *)
(* One directory is kernel_page_directory(): its regions are the kernel   *)
(* regions of allocate_kernel_region*, whose virtual ranges come from its  *)
(* range allocator and go back to it when ~Region has unmapped them.       *)
(*                                                                         *)
(* Tables stand for the 2 MiB ranges of a directory (m_page_tables keys)   *)
(* and Entries for the 512 page-table indices; LastEntry is 0x1ff.         *)
(***************************************************************************)
EXTENDS Naturals, FiniteSets, Sequences

CONSTANTS
  Directories,   \* PageDirectory objects (address spaces)
  Tables,        \* page-directory indices within one directory
  Entries,       \* page-table indices, ordered
  LastEntry,     \* 0x1ff
  Frames,        \* physical frames that can hold a page table
  VolatileFrames,\* frames held by volatile VMObjects, which purge() releases
  Regions,       \* regions: sequences of distinct pages <<table, entry>>
  KernelDirectory, \* kernel_page_directory()
  NoFrame

ASSUME /\ LastEntry \in Entries
       /\ KernelDirectory \in Directories
       /\ VolatileFrames \subseteq Frames
       /\ \A r \in Regions : r # << >>

Pages == Tables \X Entries
Idle  == [op |-> "idle"]

VARIABLES
  pde,        \* [Directories -> [Tables -> Frames \cup {NoFrame}]]
  ptes,       \* [Frames -> SUBSET Entries]: the present entries a frame holds
  pageTables, \* m_page_tables: [Directories -> [Tables -> Frames \cup {NoFrame}]]
  free,       \* frames on the user free lists
  volatile,   \* frames that purge() can still release
  window,     \* the directory the quickmap_pd window shows
  mapped,     \* [Directories -> SUBSET Regions]: regions Region::map has run for;
              \* for KernelDirectory, m_kernel_regions
  vfree,      \* pages the kernel directory's range allocator has free
  present,    \* [Directories -> SUBSET Pages]: pages whose entry the caller set
  cursor,     \* Idle, or the Region::map / Region::unmap in progress
  halted      \* a VERIFY failed

ptVars == <<pde, ptes, pageTables, free, volatile, window, mapped, vfree,
            present, cursor, halted>>

PagesOf(r) == {r[k] : k \in DOMAIN r}

(***************************************************************************)
(* allocate_user_physical_page(ShouldZeroFill::Yes, &did_purge) called    *)
(* while the window shows w0: a free frame; or, when there is none, the    *)
(* purge of a volatile VMObject, which remaps its regions (leaving the     *)
(* window on some directory w) and a frame from the retry.  No outcome    *)
(* when nothing can be freed: the allocation returns null.                 *)
(***************************************************************************)
AllocationOutcomesKeepFree(w0) ==
  IF free # {}
  THEN {[frame |-> f, purged |-> FALSE, free |-> free,
         volatile |-> volatile, window |-> w0] : f \in free}
  ELSE {[frame |-> f, purged |-> TRUE, free |-> volatile,
         volatile |-> {}, window |-> w] : f \in volatile, w \in Directories}

AllocationOutcomes(w0) ==
  IF free # {}
  THEN {[frame |-> f, purged |-> FALSE, free |-> free \ {f},
         volatile |-> volatile, window |-> w0] : f \in free}
  ELSE {[frame |-> f, purged |-> TRUE, free |-> volatile \ {f},
         volatile |-> {}, window |-> w] : f \in volatile, w \in Directories}

(* Mutant: the pde reference taken before the allocation is used as is. *)
WindowAfterAllocationStale(d, a) == a.window

(* ensure_pte: after a purge, quickmap_pd(page_directory, ...) again, so   *)
(* the pde reference once more shows directory d.                          *)
WindowAfterAllocation(d, a) == IF a.purged THEN d ELSE a.window

(* Mutant: the table is only checked on the last release of a range. *)
ShouldScanLastOnly(i, isLast) == isLast

(* release_pte checks the table when the caller says this is the last      *)
(* release, or when the entry is the table's last one.                     *)
ShouldScan(i, isLast) == isLast \/ i = LastEntry

(* Mutant: the scan stops one entry short. *)
AllClearSkippingLast(es) == es \subseteq {LastEntry}

(* The scan of all 512 entries for a present one.                          *)
AllClear(es) == es = {}

(* Mutant: the entry leaves m_page_tables but its page is kept. *)
RemovePageTableLeak(fr, f) == fr

(* page_directory.m_page_tables.remove(...) drops the last reference to   *)
(* the table's PhysicalPage, which returns frame f to the free pages.     *)
RemovePageTable(fr, f) == fr \cup {f}

(* ensure_pte returns nullptr: Region::map returns ENOMEM and the fault    *)
(* handler fails, so the page loop ends where it is.                       *)
NoFrameForTable(c) == Idle

(* Mutant: the page loop runs one page too far. *)
AdvancePastEnd(c) ==
  IF c.k > Len(c.region) THEN Idle ELSE [c EXCEPT !.k = @ + 1]

Advance(c) ==
  IF c.k = Len(c.region) THEN Idle ELSE [c EXCEPT !.k = @ + 1]

(* register_region / unregister_region of a kernel region: appended to or *)
(* removed from m_kernel_regions under s_mm_lock.                          *)
RegisterRegion(m, r) == [m EXCEPT ![KernelDirectory] = @ \cup {r}]
UnregisterRegion(m, r) == [m EXCEPT ![KernelDirectory] = @ \ {r}]

(* Mutant: a range is taken when any of its pages is free. *)
AllocateAnywhereOverlaps(r) == PagesOf(r) \cap vfree # {}

(* RangeAllocator::allocate_anywhere(size) returns range r: all its pages  *)
(* are free in the kernel directory's range allocator.                     *)
AllocateAnywhere(r) == PagesOf(r) \subseteq vfree

-----------------------------------------------------------------------------
Init ==
  /\ pde = [d \in Directories |-> [t \in Tables |-> NoFrame]]
  /\ ptes = [f \in Frames |-> {}]
  /\ pageTables = [d \in Directories |-> [t \in Tables |-> NoFrame]]
  /\ free = Frames \ VolatileFrames
  /\ volatile = VolatileFrames
  /\ window \in Directories
  /\ mapped = [d \in Directories |-> {}]
  /\ vfree = Pages
  /\ present = [d \in Directories |-> {}]
  /\ cursor = Idle
  /\ halted = FALSE

(* Region::map: the region takes its place in a user address space, and   *)
(* its pages are mapped one by one.  Regions of one space never overlap.   *)
BeginMap(d, r) ==
  /\ ~halted /\ cursor = Idle
  /\ d # KernelDirectory
  /\ r \notin mapped[d]
  /\ \A q \in mapped[d] : \A i \in DOMAIN q, j \in DOMAIN r : q[i] # r[j]
  /\ cursor' = [op |-> "map", dir |-> d, region |-> r, k |-> 1]
  /\ mapped' = [mapped EXCEPT ![d] = @ \cup {r}]
  /\ UNCHANGED <<pde, ptes, pageTables, free, volatile, window, vfree, present, halted>>

(* Region::unmap: release_pte for every page, is_last_release on the last. *)
BeginUnmap(d, r) ==
  /\ ~halted /\ cursor = Idle
  /\ d # KernelDirectory
  /\ r \in mapped[d]
  /\ cursor' = [op |-> "unmap", dir |-> d, region |-> r, k |-> 1]
  /\ mapped' = [mapped EXCEPT ![d] = @ \ {r}]
  /\ UNCHANGED <<pde, ptes, pageTables, free, volatile, window, vfree, present, halted>>

(***************************************************************************)
(* allocate_kernel_region_with_vmobject(range, ...): under s_mm_lock,      *)
(* Region::try_create_kernel_only; the new Region registers itself in      *)
(* m_kernel_regions (register_region) and region->map(kernel_page_directory *)
(* ()) maps its pages, whose failure is ignored.  When the Region cannot  *)
(* be created, nullptr is returned and the range is not given back.        *)
(***************************************************************************)
AllocateKernelRegionWithVMObject(r) ==
  /\ vfree' = vfree \ PagesOf(r)
  /\ \/ /\ mapped' = RegisterRegion(mapped, r)
        /\ cursor' = [op |-> "map", dir |-> KernelDirectory, region |-> r, k |-> 1]
     \/ UNCHANGED <<mapped, cursor>>
  /\ UNCHANGED <<pde, ptes, pageTables, free, volatile, window, present, halted>>

(***************************************************************************)
(* allocate_kernel_region(size), allocate_contiguous_kernel_region(size)   *)
(* and allocate_kernel_region_with_vmobject(vmobject, size): under         *)
(* s_mm_lock, allocate_anywhere(size) from the kernel directory's range    *)
(* allocator (nullptr when there is none), then the Region.  The VMObject  *)
(* is created before the range, or, for the contiguous one, its failure   *)
(* gives the range back: neither failure changes the state.                *)
(***************************************************************************)
AllocateKernelRegion(r) ==
  /\ ~halted /\ cursor = Idle
  /\ AllocateAnywhere(r)
  /\ AllocateKernelRegionWithVMObject(r)

(***************************************************************************)
(* ~Region of a kernel region: unregister_region drops it from            *)
(* m_kernel_regions, then unmap(ShouldDeallocateVirtualMemoryRange::Yes)   *)
(* releases its pages; the range goes back to the allocator after the     *)
(* last release_pte (ReleasePte).                                          *)
(***************************************************************************)
DestroyKernelRegion(r) ==
  /\ ~halted /\ cursor = Idle
  /\ r \in mapped[KernelDirectory]
  /\ mapped' = UnregisterRegion(mapped, r)
  /\ cursor' = [op |-> "unmap", dir |-> KernelDirectory, region |-> r, k |-> 1]
  /\ UNCHANGED <<pde, ptes, pageTables, free, volatile, window, vfree, present,
                 halted>>

(* kernel_region_from_vaddr: the regions of m_kernel_regions containing p. *)
KernelRegionFromVaddr(p) == {r \in mapped[KernelDirectory] : p \in PagesOf(r)}

FindUserRegionFromVaddr(d, p) == {r \in mapped[d] : p \in PagesOf(r)}

(* find_region_from_vaddr for a fault in address space d: a kernel region *)
(* first; otherwise the user region of the space whose page directory is  *)
(* in cr3.  User and kernel addresses never meet, so a fault in a user    *)
(* space is only looked up there.                                          *)
FindRegionFromVaddr(d, p) ==
  IF d = KernelDirectory THEN KernelRegionFromVaddr(p)
  ELSE FindUserRegionFromVaddr(d, p)

(***************************************************************************)
(* handle_page_fault for a not-present page p of address space d: the     *)
(* region find_region_from_vaddr returns handles the fault (Region::      *)
(* handle_fault, not in the repository: the page is mapped through         *)
(* ensure_pte, like one page of Region::map).  Without a region the fault  *)
(* is answered ShouldCrash, which changes nothing here.  The lookup and    *)
(* the handling are one step: the region is not destroyed in between.      *)
(***************************************************************************)
HandlePageFault(d, p) ==
  /\ ~halted /\ cursor = Idle
  /\ p \notin present[d]
  /\ FindRegionFromVaddr(d, p) # {}
  /\ cursor' = [op |-> "fault", dir |-> d, region |-> <<p>>, k |-> 1]
  /\ UNCHANGED <<pde, ptes, pageTables, free, volatile, window, mapped, vfree,
                 present, halted>>

(***************************************************************************)
(* One page of Region::map: ensure_pte, then the caller sets the entry.    *)
(* When the pde is not present a table frame is allocated and zero-filled; *)
(* the new pde is written through the window, and the table is recorded  *)
(* in m_page_tables of d.  Without a frame, ensure_pte returns nullptr and *)
(* Region::map gives up, leaving the pages mapped so far.                  *)
(***************************************************************************)
EnsurePte ==
  /\ ~halted /\ cursor.op \in {"map", "fault"}
  /\ LET d == cursor.dir
         t == cursor.region[cursor.k][1]
         i == cursor.region[cursor.k][2]
     IN  \/ /\ pde[d][t] # NoFrame
            /\ ptes' = [ptes EXCEPT ![pde[d][t]] = @ \cup {i}]
            /\ present' = [present EXCEPT ![d] = @ \cup {<<t, i>>}]
            /\ window' = d
            /\ cursor' = Advance(cursor)
            /\ UNCHANGED <<pde, pageTables, free, volatile, mapped, vfree, halted>>
         \/ /\ pde[d][t] = NoFrame
            /\ AllocationOutcomes(d) = {}
            /\ window' = d
            /\ cursor' = NoFrameForTable(cursor)
            /\ UNCHANGED <<pde, ptes, pageTables, free, volatile, mapped,
                           vfree, present, halted>>
         \/ /\ pde[d][t] = NoFrame
            /\ \E a \in AllocationOutcomes(d) :
                 LET w == WindowAfterAllocation(d, a)
                 IN  /\ free' = a.free
                     /\ volatile' = a.volatile
                     /\ window' = w
                     /\ IF pde[w][t] # NoFrame \/ pageTables[d][t] # NoFrame
                        THEN /\ halted' = TRUE
                             /\ UNCHANGED <<pde, ptes, pageTables, present,
                                            cursor>>
                        ELSE /\ pde' = [pde EXCEPT ![w][t] = a.frame]
                             /\ pageTables' = [pageTables EXCEPT ![d][t] = a.frame]
                             /\ ptes' = [ptes EXCEPT ![a.frame] = {i}]
                             /\ present' = [present EXCEPT ![d] = @ \cup {<<t, i>>}]
                             /\ cursor' = Advance(cursor)
                             /\ UNCHANGED halted
                     /\ UNCHANGED <<mapped, vfree>>

(***************************************************************************)
(* One page of Region::unmap: release_pte clears the entry and, when it    *)
(* scans the table and finds it empty, clears the pde and drops the table *)
(* from m_page_tables, whose RefPtr was the frame's last reference.  After *)
(* the last page of a kernel region, unmap gives its range back to the     *)
(* kernel directory's range allocator.                                     *)
(***************************************************************************)
ReleasePte ==
  /\ ~halted /\ cursor.op = "unmap"
  /\ LET d      == cursor.dir
         t      == cursor.region[cursor.k][1]
         i      == cursor.region[cursor.k][2]
         isLast == cursor.k = Len(cursor.region)
         f      == pde[d][t]
     IN  /\ window' = d
         /\ present' = [present EXCEPT ![d] = @ \ {<<t, i>>}]
         /\ cursor' = Advance(cursor)
         /\ \/ /\ f = NoFrame
               /\ UNCHANGED <<pde, ptes, pageTables, free, halted>>
            \/ /\ f # NoFrame
               /\ ptes' = [ptes EXCEPT ![f] = @ \ {i}]
               /\ IF ShouldScan(i, isLast) /\ AllClear(ptes[f] \ {i})
                  THEN /\ pde' = [pde EXCEPT ![d][t] = NoFrame]
                       /\ pageTables' = [pageTables EXCEPT ![d][t] = NoFrame]
                       /\ free' = RemovePageTable(free, f)
                       /\ halted' = (pageTables[d][t] = NoFrame)
                  ELSE UNCHANGED <<pde, pageTables, free, halted>>
         /\ vfree' = IF d = KernelDirectory /\ isLast
                     THEN vfree \cup PagesOf(cursor.region) ELSE vfree
         /\ UNCHANGED <<volatile, mapped>>

Next ==
  \/ \E d \in Directories, r \in Regions : BeginMap(d, r) \/ BeginUnmap(d, r)
  \/ \E r \in Regions : AllocateKernelRegion(r) \/ DestroyKernelRegion(r)
  \/ \E d \in Directories, p \in Pages : HandlePageFault(d, p)
  \/ EnsurePte
  \/ ReleasePte

Spec == Init /\ [][Next]_ptVars

-----------------------------------------------------------------------------
EntriesOf(d, t) == IF pde[d][t] = NoFrame THEN {} ELSE ptes[pde[d][t]]

TypeOK ==
  /\ pde \in [Directories -> [Tables -> Frames \cup {NoFrame}]]
  /\ ptes \in [Frames -> SUBSET Entries]
  /\ pageTables \in [Directories -> [Tables -> Frames \cup {NoFrame}]]
  /\ free \subseteq Frames /\ volatile \subseteq VolatileFrames
  /\ window \in Directories
  /\ mapped \in [Directories -> SUBSET Regions]
  /\ vfree \subseteq Pages
  /\ present \in [Directories -> SUBSET Pages]
  /\ halted \in BOOLEAN
  /\ \/ cursor = Idle
     \/ /\ cursor.op \in {"map", "unmap", "fault"} /\ cursor.dir \in Directories
        /\ cursor.region \in Regions \cup {<<p>> : p \in Pages}
        /\ cursor.k \in DOMAIN cursor.region

(* m_page_tables of every directory holds exactly the tables its present   *)
(* pdes point at, so the VERIFYs of ensure_pte (!pde.is_present(),         *)
(* InsertedNewEntry) and of release_pte (remove) never fail, even when the *)
(* frame allocation purged and the window moved to another directory.      *)
PageTablesConsistent ==
  /\ ~halted
  /\ pageTables = pde

(* The page-table entries are exactly the pages the regions have mapped    *)
(* and not yet unmapped: freeing an empty table never drops a live entry,  *)
(* and nothing stale is left in a reused frame.                            *)
EntriesMatchMappings ==
  \A d \in Directories, t \in Tables :
    EntriesOf(d, t) = {i \in Entries : <<t, i>> \in present[d]}

(* A frame holds at most one page table, and never while it is free.       *)
TableFramesExclusive ==
  \A d1, d2 \in Directories, t1, t2 \in Tables :
    pde[d1][t1] # NoFrame =>
      /\ pde[d1][t1] \notin free
      /\ (<<d1, t1>> # <<d2, t2>> => pde[d1][t1] # pde[d2][t2])

(* When no region operation is in progress, no directory keeps an empty   *)
(* page table: release_pte's checks on the last release and on index 0x1ff *)
(* catch every table a region unmap empties, also when the region spans   *)
(* two tables.                                                             *)
NoEmptyPageTable ==
  cursor = Idle =>
    \A d \in Directories, t \in Tables :
      pde[d][t] # NoFrame => ptes[pde[d][t]] # {}

KernelRegionsInUse ==
  mapped[KernelDirectory] \cup
    (IF cursor.op \in {"map", "unmap"} /\ cursor.dir = KernelDirectory
     THEN {cursor.region} ELSE {})

(* A kernel region owns its virtual range from allocate_anywhere until    *)
(* ~Region has unmapped it: no page of a registered region, or of one      *)
(* being mapped or unmapped, is free in the range allocator, and no page  *)
(* belongs to two such regions, through failed creations that keep their  *)
(* range and map calls that give up halfway.                               *)
KernelRangesExclusive ==
  \A r1, r2 \in KernelRegionsInUse :
    /\ PagesOf(r1) \cap vfree = {}
    /\ r1 # r2 => PagesOf(r1) \cap PagesOf(r2) = {}

TableFrames == {pageTables[d][t] : d \in Directories, t \in Tables} \ {NoFrame}

(* No frame is ever lost: until the kernel halts, every frame is free,    *)
(* still held by the volatile VMObject, or backs a page table recorded in *)
(* some directory's m_page_tables, through allocations that purge, tables *)
(* freed by release_pte's scan and tables a directory keeps while empty.  *)
FramesConserved ==
  ~halted => Frames = free \cup volatile \cup TableFrames

RegionsBeingUnmapped(d) ==
  IF cursor.op = "unmap" /\ cursor.dir = d THEN {cursor.region} ELSE {}

=============================================================================
