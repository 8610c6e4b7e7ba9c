--------------------------- MODULE PhysicalMemory ---------------------------
(***************************************************************************)
(* Physical page accounting of the MemoryManager                           *)
(* (src/kernel/vm/MemoryManager.cpp).                                      *)
(*                                                                         *)
(* The user pool is an ordered list of PhysicalRegions; m_system_memory_info*)
(* keeps three counters over it, uncommitted, committed and used.  A       *)
(* VMObject reserves pages with commit_user_physical_pages and later takes *)
(* them with allocate_committed_user_physical_page, which must never fail; *)
(* allocate_user_physical_page takes an unreserved page and, when the pool *)
(* is dry, purges the first volatile AnonymousVMObject and retries once.   *)
(* The supervisor pool has its own regions and one counter.                *)
(*                                                                         *)
(* Every operation runs under s_mm_lock, so each is one atomic step.  A    *)
(* failed VERIFY or PANIC halts the kernel: the step sets `halted` and no  *)
(* operation runs after it.                                                *)
(***************************************************************************)
EXTENDS Naturals, FiniteSets, Sequences, SequencesExt, Functions

CONSTANTS
  UserRegions,     \* m_user_physical_regions: a sequence of disjoint frame sets
  SuperRegions,    \* m_super_physical_regions: likewise
  VMObjects,       \* the VMObjects that hold user pages
  VMObjectOrder,   \* m_vmobjects: registration order, the order purge walks
  Volatile,        \* VMObjects whose pages purge() may release
  Kernel,          \* holder of supervisor pages
  MemoryManagerPages, \* holder of the shared zero page and the lazy committed page
  NoFrame,         \* a null RefPtr<PhysicalPage>
  NoOwner,         \* owner of a frame on a free list
  MaxCommit,       \* largest page_count a caller commits at once
  MaxContiguous    \* largest count of contiguous supervisor pages asked for

UserFrames  == UNION {UserRegions[i] : i \in DOMAIN UserRegions}
SuperFrames == UNION {SuperRegions[i] : i \in DOMAIN SuperRegions}
Frames      == UserFrames \cup SuperFrames

ASSUME /\ UserFrames \cap SuperFrames = {}
       /\ Volatile \subseteq VMObjects
       /\ ToSet(VMObjectOrder) = VMObjects
       /\ Cardinality(UserFrames) >= 2
       /\ {NoFrame, NoOwner, Kernel, MemoryManagerPages} \cap (Frames \cup VMObjects) = {}
       /\ MaxCommit \in Nat \ {0}
       /\ MaxContiguous \in Nat \ {0}
       /\ SuperFrames \subseteq Nat   \* supervisor frames are page numbers

(* Why the kernel stopped; "none" while it runs. *)
Running == "none"
HaltReasons == {Running, "committed_zero", "committed_page_missing",
                "purge_retry_failed", "uncommit_underflow",
                "no_super_pages"}

VARIABLES
  mm,        \* the counters of m_system_memory_info and the regions' free pages
  owner,     \* [Frames -> holder]: who holds the RefPtr<PhysicalPage> of a frame
  reserved,  \* [VMObjects -> Nat]: committed pages each VMObject has not yet taken
  halted     \* Running, or the VERIFY/PANIC that halted the kernel

pmVars == <<mm, owner, reserved, halted>>

FramesOf(v) == {f \in Frames : owner[f] = v}

(* Mutant: a region search that does not consult the free bitmap. *)
FreeInFirstRegionAnyPage(regions, free) ==
  IF Len(regions) = 0 THEN {} ELSE regions[1]

(***************************************************************************)
(* PhysicalRegion::take_free_page walked over the regions in order: the    *)
(* candidates are the free frames of the first region that has one (which *)
(* of them the region's zones hand out is left open).                      *)
(***************************************************************************)
FreeInFirstRegion(regions, free) ==
  LET i == SelectInSeq(regions, LAMBDA r : r \cap free # {})
  IN  IF i = 0 THEN {} ELSE regions[i] \cap free

(* Mutant: the page is taken but m_used_user_physical_pages not counted. *)
FindFreeUserPageUncounted(m, committed) ==
  LET m1    == IF committed THEN [m EXCEPT !.committed = @ - 1]
                            ELSE [m EXCEPT !.uncommitted = @ - 1]
      cands == FreeInFirstRegion(UserRegions, m1.userFree)
  IN  IF cands = {} \/ (committed /\ m.committed = 0)
                    \/ (~committed /\ m.uncommitted = 0)
      THEN {[mm |-> m, page |-> NoFrame, ok |-> ~committed]}
      ELSE {[mm |-> [m1 EXCEPT !.userFree = @ \ {f}], page |-> f, ok |-> TRUE]
              : f \in cands}

(***************************************************************************)
(* find_free_user_physical_page(committed): the set of its outcomes, each  *)
(* the new accounting, the page (or NoFrame) and whether its VERIFYs held. *)
(* The counter is decremented before a region is searched, and is not     *)
(* given back when no region has a free page.                              *)
(***************************************************************************)
FindFreeUserPage(m, committed) ==
  LET m1    == IF committed THEN [m EXCEPT !.committed = @ - 1]
                            ELSE [m EXCEPT !.uncommitted = @ - 1]
      cands == FreeInFirstRegion(UserRegions, m1.userFree)
  IN  CASE committed /\ m.committed = 0 ->
             {[mm |-> m, page |-> NoFrame, ok |-> FALSE]}
        [] ~committed /\ m.uncommitted = 0 ->
             {[mm |-> m, page |-> NoFrame, ok |-> TRUE]}
        [] cands = {} ->
             {[mm |-> m1, page |-> NoFrame, ok |-> ~committed]}
        [] OTHER ->
             {[mm |-> [m1 EXCEPT !.userFree = @ \ {f}, !.used = @ + 1],
               page |-> f, ok |-> TRUE] : f \in cands}

(* Mutant: a freed user page goes back to the region but not to the budget. *)
ReturnPageKeepsBudget(m, f) ==
  IF f \in UserFrames
  THEN [m EXCEPT !.userFree = @ \cup {f}, !.used = @ - 1]
  ELSE [m EXCEPT !.superFree = @ \cup {f}, !.superUsed = @ - 1]

(***************************************************************************)
(* deallocate_physical_page: the region containing the frame takes it      *)
(* back.  A user page always returns to the uncommitted pool, whichever    *)
(* way it was allocated.                                                   *)
(***************************************************************************)
ReturnPage(m, f) ==
  IF f \in UserFrames
  THEN [m EXCEPT !.userFree = @ \cup {f}, !.used = @ - 1,
                 !.uncommitted = @ + 1]
  ELSE [m EXCEPT !.superFree = @ \cup {f}, !.superUsed = @ - 1]

(* AnonymousVMObject::purge releases every page of a volatile VMObject;    *)
(* each goes through deallocate_physical_page.                             *)
Purged(v) == IF v \in Volatile THEN FramesOf(v) ELSE {}

PurgePages(m, S) ==
  [m EXCEPT !.userFree = @ \cup S, !.used = @ - Cardinality(S),
            !.uncommitted = @ + Cardinality(S)]

(* for_each_vmobject stops at the first VMObject whose purge() freed pages. *)
FirstPurgeable == SelectInSeq(VMObjectOrder, LAMBDA v : Purged(v) # {})

(***************************************************************************)
(* PhysicalRegion::take_contiguous_free_pages(count): the candidate runs   *)
(* of count free frames in a row of one region; {} stands for the empty    *)
(* vector returned when the region has none.                               *)
(***************************************************************************)
ContiguousRuns(r, free, n) ==
  LET runs == {S \in SUBSET (r \cap free) :
                 Cardinality(S) = n /\ Max(S) - Min(S) = n - 1}
  IN  IF runs = {} THEN {{}} ELSE runs

(***************************************************************************)
(* One turn of the region loop of allocate_contiguous_supervisor_physical_ *)
(* pages: physical_pages is assigned the next region's result whether or  *)
(* not it already held pages (the loop says continue, not break).  The     *)
(* vector it held is destroyed; each of its pages goes back through        *)
(* deallocate_physical_page, which returns it to its region and decrements *)
(* super_physical_pages_used, never incremented for it.                    *)
(***************************************************************************)
TakeContiguousStep(n, outs, r) ==
  UNION {{[mm    |-> [o.mm EXCEPT !.superFree = (@ \ S) \cup o.pages,
                                    !.superUsed = @ - Cardinality(o.pages)],
             pages |-> S] : S \in ContiguousRuns(r, o.mm.superFree, n)}
           : o \in outs}

(* The outcomes of the whole loop over m_super_physical_regions.           *)
TakeContiguous(m, n) ==
  FoldLeft(LAMBDA outs, r : TakeContiguousStep(n, outs, r),
           {[mm |-> m, pages |-> {}]}, SuperRegions)

Halt(reason) ==
  /\ halted' = reason
  /\ UNCHANGED <<mm, owner, reserved>>

-----------------------------------------------------------------------------
(***************************************************************************)
(* State right after the MemoryManager constructor.  parse_memory_map    *)
(* has recorded the reserved ranges (read only by the mmap checks, not    *)
(* here), let initialize_physical_pages carve the PhysicalPage array out  *)
(* of a user region (UserFrames are the pages left), set                  *)
(* user_physical_pages_uncommitted = user_physical_pages and run          *)
(* initialize_zones on every region, which puts all its pages on the free *)
(* lists; then two pages are committed and taken for m_shared_zero_page   *)
(* and m_lazy_committed_page, which the MemoryManager keeps for good.     *)
(***************************************************************************)
Parsed ==
  [userFree |-> UserFrames, superFree |-> SuperFrames,
   uncommitted |-> Cardinality(UserFrames), committed |-> 0,
   used |-> 0, superUsed |-> 0]

Init ==
  LET c == [Parsed EXCEPT !.uncommitted = @ - 2, !.committed = @ + 2]
  IN  \E r1 \in FindFreeUserPage(c, TRUE) :
      \E r2 \in FindFreeUserPage(r1.mm, TRUE) :
        /\ mm = r2.mm
        /\ owner = [f \in Frames |-> IF f \in {r1.page, r2.page}
                                      THEN MemoryManagerPages ELSE NoOwner]
        /\ reserved = [v \in VMObjects |-> 0]
        /\ halted = Running

(* Mutant: the availability check is off by one page. *)
CommitOffByOne(v, n) ==
  /\ halted = Running
  /\ \/ /\ mm.uncommitted + 1 < n
        /\ UNCHANGED pmVars
     \/ /\ mm.uncommitted + 1 >= n
        /\ mm' = [mm EXCEPT !.uncommitted = @ - n, !.committed = @ + n]
        /\ reserved' = [reserved EXCEPT ![v] = @ + n]
        /\ UNCHANGED <<owner, halted>>

(* commit_user_physical_pages(page_count), called by VMObject v. *)
CommitUserPhysicalPages(v, n) ==
  /\ halted = Running
  /\ \/ /\ mm.uncommitted < n
        /\ UNCHANGED pmVars
     \/ /\ mm.uncommitted >= n
        /\ mm' = [mm EXCEPT !.uncommitted = @ - n, !.committed = @ + n]
        /\ reserved' = [reserved EXCEPT ![v] = @ + n]
        /\ UNCHANGED <<owner, halted>>

(* uncommit_user_physical_pages(page_count): v gives back pages it holds   *)
(* in reserve (the caller never returns more than it committed).           *)
UncommitUserPhysicalPages(v, n) ==
  /\ halted = Running
  /\ reserved[v] >= n
  /\ \/ /\ mm.committed < n
        /\ Halt("uncommit_underflow")
     \/ /\ mm.committed >= n
        /\ mm' = [mm EXCEPT !.uncommitted = @ + n, !.committed = @ - n]
        /\ reserved' = [reserved EXCEPT ![v] = @ - n]
        /\ UNCHANGED <<owner, halted>>

(* Mutant: the committed allocation calls find_free_user_physical_page(false). *)
AllocateCommittedFromUncommitted(v) ==
  /\ halted = Running
  /\ reserved[v] > 0
  /\ \E r \in FindFreeUserPage(mm, FALSE) :
       /\ r.page # NoFrame
       /\ mm' = r.mm
       /\ owner' = [owner EXCEPT ![r.page] = v]
       /\ reserved' = [reserved EXCEPT ![v] = @ - 1]
       /\ UNCHANGED halted

(* allocate_committed_user_physical_page: v takes one of its reserved      *)
(* pages.  find_free_user_physical_page(true) VERIFYs that it finds one.   *)
AllocateCommittedUserPhysicalPage(v) ==
  /\ halted = Running
  /\ reserved[v] > 0
  /\ \E r \in FindFreeUserPage(mm, TRUE) :
       \/ /\ r.ok
          /\ mm' = r.mm
          /\ owner' = [owner EXCEPT ![r.page] = v]
          /\ reserved' = [reserved EXCEPT ![v] = @ - 1]
          /\ UNCHANGED halted
       \/ /\ ~r.ok
          /\ Halt(IF mm.committed = 0 THEN "committed_zero"
                                      ELSE "committed_page_missing")

(***************************************************************************)
(* allocate_user_physical_page: an unreserved page; when none is found,    *)
(* purge the first volatile VMObject that frees something and retry once  *)
(* (VERIFY(page)); if no VMObject frees anything, return null.             *)
(***************************************************************************)
AllocateUserPhysicalPage(v) ==
  /\ halted = Running
  /\ \E r \in FindFreeUserPage(mm, FALSE) :
       \/ /\ r.page # NoFrame
          /\ mm' = r.mm
          /\ owner' = [owner EXCEPT ![r.page] = v]
          /\ UNCHANGED <<reserved, halted>>
       \/ /\ r.page = NoFrame
          /\ FirstPurgeable = 0
          /\ mm' = r.mm
          /\ UNCHANGED <<owner, reserved, halted>>
       \/ /\ r.page = NoFrame
          /\ FirstPurgeable # 0
          /\ LET S  == Purged(VMObjectOrder[FirstPurgeable])
                 o1 == [f \in Frames |-> IF f \in S THEN NoOwner ELSE owner[f]]
             IN  \E r2 \in FindFreeUserPage(PurgePages(r.mm, S), FALSE) :
                   IF r2.page # NoFrame
                   THEN /\ mm' = r2.mm
                        /\ owner' = [o1 EXCEPT ![r2.page] = v]
                        /\ UNCHANGED <<reserved, halted>>
                   ELSE Halt("purge_retry_failed")

(* deallocate_physical_page: the last reference to frame f is dropped.     *)
(* Every frame belongs to the region it was taken from, so the PANIC for a *)
(* page of no region cannot happen here.                                   *)
DeallocatePhysicalPage(f) ==
  /\ halted = Running
  /\ owner[f] \notin {NoOwner, MemoryManagerPages}
  /\ mm' = ReturnPage(mm, f)
  /\ owner' = [owner EXCEPT ![f] = NoOwner]
  /\ UNCHANGED <<reserved, halted>>

(* allocate_supervisor_physical_page: VERIFY_NOT_REACHED when the          *)
(* supervisor regions are exhausted.                                       *)
AllocateSupervisorPhysicalPage ==
  /\ halted = Running
  /\ LET cands == FreeInFirstRegion(SuperRegions, mm.superFree)
     IN  \/ /\ cands = {}
            /\ Halt("no_super_pages")
         \/ \E f \in cands :
              /\ mm' = [mm EXCEPT !.superFree = @ \ {f}, !.superUsed = @ + 1]
              /\ owner' = [owner EXCEPT ![f] = Kernel]
              /\ UNCHANGED <<reserved, halted>>

(***************************************************************************)
(* allocate_contiguous_supervisor_physical_pages(count * PAGE_SIZE): the   *)
(* region loop; VERIFY_NOT_REACHED when it ends with no pages; else the   *)
(* pages are zeroed through a kernel region over them and                  *)
(* super_physical_pages_used grows by count.                               *)
(***************************************************************************)
AllocateContiguousSupervisorPhysicalPages(n) ==
  /\ halted = Running
  /\ \E o \in TakeContiguous(mm, n) :
       \/ /\ o.pages = {}
          /\ Halt("no_super_pages")
       \/ /\ o.pages # {}
          /\ mm' = [o.mm EXCEPT !.superUsed = @ + n]
          /\ owner' = [f \in Frames |-> IF f \in o.pages THEN Kernel ELSE owner[f]]
          /\ UNCHANGED <<reserved, halted>>

(* After a VERIFY failure or PANIC the kernel is stopped for good. *)
Halted ==
  /\ halted # Running
  /\ UNCHANGED pmVars

Next ==
  \/ \E v \in VMObjects, n \in 1..MaxCommit :
       \/ CommitUserPhysicalPages(v, n)
       \/ UncommitUserPhysicalPages(v, n)
  \/ \E v \in VMObjects :
       \/ AllocateCommittedUserPhysicalPage(v)
       \/ AllocateUserPhysicalPage(v)
  \/ AllocateSupervisorPhysicalPage
  \/ \E n \in 1..MaxContiguous : AllocateContiguousSupervisorPhysicalPages(n)
  \/ \E f \in Frames : DeallocatePhysicalPage(f)
  \/ Halted

Spec == Init /\ [][Next]_pmVars

-----------------------------------------------------------------------------
Holders == VMObjects \cup {Kernel, MemoryManagerPages, NoOwner}

TypeOK ==
  /\ mm \in [userFree : SUBSET UserFrames, superFree : SUBSET SuperFrames,
             uncommitted : Nat, committed : Nat, used : Nat, superUsed : Nat]
  /\ owner \in [Frames -> Holders]
  /\ reserved \in [VMObjects -> Nat]
  /\ halted \in HaltReasons

(* The three counters of m_system_memory_info always partition the user    *)
(* pool: commit, allocation, deallocation and purge each move a page from *)
(* one counter to another and never lose or create one.                    *)
AccountingBalanced ==
  mm.uncommitted + mm.committed + mm.used = Cardinality(UserFrames)

(* The regions' free lists are exactly the frames nobody holds, and the    *)
(* used counters count the frames that are held: no frame is handed to two *)
(* holders, and no freed frame is forgotten.                               *)
PagesAccounted ==
  /\ mm.userFree = {f \in UserFrames : owner[f] = NoOwner}
  /\ mm.superFree = {f \in SuperFrames : owner[f] = NoOwner}
  /\ mm.used = Cardinality(UserFrames \ mm.userFree)
  /\ mm.superUsed = Cardinality(SuperFrames \ mm.superFree)

(* The global committed count is the sum of what the VMObjects committed   *)
(* and have not yet taken or given back.                                   *)
CommittedMatchesReservations ==
  mm.committed = SumFunction(reserved)

(* A page that was committed can always be allocated: the VERIFYs in       *)
(* find_free_user_physical_page (committed) and the retry after purge in   *)
(* allocate_user_physical_page never fail, nor does uncommit underflow.    *)
(* Only supervisor exhaustion may stop the kernel.                         *)
NoAccountingPanic ==
  halted \in {Running, "no_super_pages"}

=============================================================================
