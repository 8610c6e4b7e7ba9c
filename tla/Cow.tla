--------------------------------- MODULE Cow ---------------------------------
(***************************************************************************)
(* Page tables and copy-on-write resolution of the second virtual memory  *)
(* manager (src/kernel/kernel/mem/vmm/vmm.c).                              *)
(*                                                                         *)
(* One page frame holds a group of TablesPerGroup page tables; the        *)
(* directory entries (table descs) of a group all point into that frame.  *)
(* A desc is clear, in the allocated state (frame kept, not present) or    *)
(* present, and may carry the copy-on-write flag.  Page tables are written *)
(* through the pspace window, which in each address space shows the group  *)
(* frame last mapped there.  Each table is reduced to one page entry.      *)
(*                                                                         *)
(* The state the operations of vmm.c read and write is one record, vm,     *)
(* threaded through helper operators the way the C functions call one      *)
(* another under _vmm_lock.                                                *)
(***************************************************************************)
EXTENDS Naturals, FiniteSets, Sequences, SequencesExt

CONSTANTS
  Procs,          \* processes, each with its own page directory
  Root,           \* the first process
  TablesPerGroup, \* VMM_PAGE_SIZE / PTABLE_SIZE
  Frames,         \* physical frames handed out by pmm_alloc: 1..n
  WriteValues,    \* values user code stores into its pages
  ForkSharesAllocated, \* fork may copy a group with a table in the allocated state
  NoFrame,
  NoPage

Tables == 1..TablesPerGroup
Group  == [i \in Tables |-> i]   \* the tables of the group, in loop order
Zero   == 0
Values == {Zero} \cup WriteValues

ASSUME /\ Root \in Procs
       /\ Frames \subseteq Nat \ {0}
       /\ Zero \notin WriteValues

Clear        == [st |-> "clear", frame |-> NoFrame, cow |-> FALSE]
Allocated(g) == [st |-> "allocated", frame |-> g, cow |-> FALSE]
Present(g)   == [st |-> "present", frame |-> g, cow |-> FALSE]

VARIABLES
  vm,    \* [tdesc, pspace, ptab, data, free, own, expected, halted]
  born   \* processes whose page directory exists

cowVars == <<vm, born>>

Live(m) == m.halted = "none"
Halt(m, why) == IF Live(m) THEN [m EXCEPT !.halted = why] ELSE m

(* _vmm_pdirectory_lookup(THIS_CPU->pdir, vaddr): the desc of the table   *)
(* covering page t in the directory of the running process p.            *)
PdirectoryLookup(m, p, t) == m.tdesc[p][t]

PagePresent(m, p, t) ==
  PdirectoryLookup(m, p, t).st = "present"
  /\ m.ptab[PdirectoryLookup(m, p, t).frame][t] # NoPage
PageFrame(m, p, t) == m.ptab[m.tdesc[p][t].frame][t].frame
Writable(m, p, t) ==
  PagePresent(m, p, t) /\ ~m.tdesc[p][t].cow /\ m.ptab[m.tdesc[p][t].frame][t].w

(* pmm_alloc: the lowest free block. *)
PmmAlloc(m) == Min(m.free)

(* _vmm_alloc_ptables_to_cover_page: one page frame for a group of tables. *)
AllocPtablesToCoverPage(m) == PmmAlloc(m)

(* _vmm_free_ptables_to_cover_page *)
FreePtablesToCoverPage(m, g) == [m EXCEPT !.free = @ \cup {g}]

(* _vmm_alloc_mapped_zone(VMM_PAGE_SIZE, VMM_PAGE_SIZE): a kernel zone and *)
(* a frame from pmm_alloc_aligned mapped there.  The result is not checked *)
(* against 0 (the caller sees the zone either way).                        *)
AllocMappedZone(m) ==
  [frame |-> PmmAlloc(m), m |-> [m EXCEPT !.free = @ \ {PmmAlloc(m)}]]

(* _vmm_free_mapped_zone: pmm_free of the frame the zone maps, then unmap. *)
FreeMappedZone(m, z) == [m EXCEPT !.free = @ \cup {z}]

(* _vmm_tables_set_cow (the __i386__ branch) for one desc: read-only and   *)
(* copy-on-write.  Writability of a desc is folded into the cow flag.      *)
SetCow(d) == [d EXCEPT !.cow = TRUE]

(* _vmm_is_copy_on_write *)
IsCopyOnWrite(m, p, t) == PdirectoryLookup(m, p, t).cow

(***************************************************************************)
(* vmm_allocate_ptable_lockless: a desc in the allocated state is made     *)
(* present; otherwise a fresh frame becomes the group, every desc of the   *)
(* group is reset to the allocated state on it, the frame is mapped in the *)
(* pspace window and zeroed, and the desc is made present.                 *)
(***************************************************************************)
(* Mutant: the new group frame is not mapped in the pspace window.        *)
AllocatePtableNoWindow(m, p, t) ==
  LET g == AllocPtablesToCoverPage(m)
  IN  CASE m.tdesc[p][t].st = "allocated" ->
             [ok |-> TRUE, m |-> [m EXCEPT !.tdesc[p][t] = Present(m.tdesc[p][t].frame)]]
        [] m.free = {} -> [ok |-> FALSE, m |-> m]
        [] OTHER ->
             [ok |-> TRUE,
              m  |-> [m EXCEPT !.free = @ \ {g},
                               !.ptab[g] = [u \in Tables |-> NoPage],
                               !.tdesc[p] = [u \in Tables |->
                                               IF u = t THEN Present(g) ELSE Allocated(g)]]]

AllocatePtable(m, p, t) ==
  LET g == AllocPtablesToCoverPage(m)
  IN  CASE m.tdesc[p][t].st = "allocated" ->
             [ok |-> TRUE, m |-> [m EXCEPT !.tdesc[p][t] = Present(m.tdesc[p][t].frame)]]
        [] m.free = {} -> [ok |-> FALSE, m |-> m]
        [] OTHER ->
             [ok |-> TRUE,
              m  |-> [m EXCEPT !.free = @ \ {g},
                               !.ptab[g] = [u \in Tables |-> NoPage],
                               !.pspace[p] = g,
                               !.tdesc[p] = [u \in Tables |->
                                               IF u = t THEN Present(g) ELSE Allocated(g)]]]

(* vmm_force_allocate_ptable_lockless: clear the desc, then allocate.     *)
ForceAllocatePtable(m, p, t) == AllocatePtable([m EXCEPT !.tdesc[p][t] = Clear], p, t)

(* _vmm_pspace_get_vaddr_of_active_ptable: the pspace window shows the     *)
(* table group of the directory in THIS_CPU->pdir, the running process;   *)
(* every table access below goes through it.                              *)
ActivePtable(m, p) == m.pspace[p]

(***************************************************************************)
(* vmm_map_page_lockless: allocate the table when its desc is not present  *)
(* (the result is not looked at), then write the page entry through the    *)
(* pspace window; the entry is writable unless the desc is copy-on-write. *)
(***************************************************************************)
MapPage(m, p, t, f, w) ==
  LET m1 == IF m.tdesc[p][t].st = "present" THEN m ELSE AllocatePtable(m, p, t).m
      g  == ActivePtable(m1, p)
  IN  IF g = NoFrame
      THEN Halt(m1, "ptable_fault")
      ELSE [m1 EXCEPT !.ptab[g][t] = [frame |-> f, w |-> w /\ ~m1.tdesc[p][t].cow]]

(* vmm_unmap_page_lockless: clear the entry through the pspace window.     *)
UnmapPageLockless(m, p, t) ==
  IF m.tdesc[p][t].st # "present" THEN m
  ELSE [m EXCEPT !.ptab[ActivePtable(m, p)][t] = NoPage]

(* vmm_load_page_lockless: a zeroed frame mapped with the zone's flags.    *)
LoadPage(m, p, t) ==
  IF m.free = {} THEN Halt(m, "oom")
  ELSE LET f == PmmAlloc(m)
       IN  MapPage([m EXCEPT !.free = @ \ {f}, !.data[f] = Zero], p, t, f, TRUE)

(* _vmm_copy_page_to_resolve_cow for a private zone: load a fresh page at  *)
(* the address and copy the old frame into it.                             *)
(* Mutant: the copy of the old frame is left out.                          *)
CopyPageNoCopy(m, p, t, old) == LoadPage(m, p, t)

(* Mutant: the old frame's address is stored instead of its contents.     *)
CopyPageAddress(m, p, t, old) ==
  LET m1 == LoadPage(m, p, t)
  IN  IF ~Live(m1) THEN m1 ELSE [m1 EXCEPT !.data[PageFrame(m1, p, t)] = old]

CopyPage(m, p, t, old) ==
  LET m1 == LoadPage(m, p, t)
  IN  IF ~Live(m1) THEN m1
      ELSE [m1 EXCEPT !.data[PageFrame(m1, p, t)] = m.data[old]]

(***************************************************************************)
(* _vmm_resolve_copy_on_write: copy the root page-table page into a        *)
(* scratch zone and the group's descs aside, force a new table group, then *)
(* for every table present before make its desc present and copy each      *)
(* present page of the old table; last, free the scratch zone.  The        *)
(* scratch allocation is not checked (with no frame the zone is mapped at  *)
(* physical address 0; the model stops there); an error of the forced     *)
(* allocation returns early, with the desc already cleared, the pspace     *)
(* window still on the shared group and the zone not freed.               *)
(***************************************************************************)
Resolve(m, p, t) ==
  LET orig == m.tdesc[p]
      src  == m.ptab[ActivePtable(m, p)]
      z    == AllocMappedZone(m)
      a    == ForceAllocatePtable(z.m, p, t)
      CopyTable(mm, u) ==
        IF orig[u].st # "present" THEN mm
        ELSE LET mr == [mm EXCEPT !.tdesc[p][u] = Present(mm.tdesc[p][u].frame)]
             IN  IF src[u] = NoPage THEN mr ELSE CopyPage(mr, p, u, src[u].frame)
  IN  CASE m.free = {} -> Halt(m, "scratch_alloc")
        [] ~a.ok       -> a.m
        [] OTHER       -> LET m2 == FoldLeft(CopyTable, a.m, Group)
                          IN  FreeMappedZone(m2, z.frame)

(* _vmm_ensure_cow_for_page *)
EnsureCowForPage(m, p, t) == IF IsCopyOnWrite(m, p, t) THEN Resolve(m, p, t) ELSE m

(* _vmm_load_page_with_perm for a user page of the active directory: the  *)
(* page lies in a private zone of the process (every page of the model    *)
(* does), and it is loaded with the zone's flags.                          *)
LoadPageWithPerm(m, p, t) == LoadPage(m, p, t)

(* _vmm_ensure_write_to_page: demand-load a missing page, then resolve.    *)
EnsureWriteToPage(m, p, t) ==
  EnsureCowForPage(IF PagePresent(m, p, t) THEN m ELSE LoadPageWithPerm(m, p, t), p, t)

(* _vmm_alloc_pdir: a PDIR_SIZE (one page) mapped zone for a directory.   *)
AllocPdir(m) == AllocMappedZone(m)

(***************************************************************************)
(* _vmm_pspace_gen(pdir) for the new directory of c: a frame from          *)
(* _vmm_alloc_ptables_to_cover_page, not checked, becomes c's pspace table, *)
(* filled through a temporary kernel zone with a copy of the active pspace *)
(* table, so c's window shows the groups the parent's shows; the copy's   *)
(* own pspace entry and the directory entries for the pspace point at the  *)
(* new frame.                                                              *)
(***************************************************************************)
PspaceGen(m, c, from) ==
  LET f == AllocPtablesToCoverPage(m)
  IN  IF m.free = {} THEN Halt(m, "pspace_alloc")
      ELSE [m EXCEPT !.free = @ \ {f}, !.own[c] = @ \cup {f},
                     !.pspace[c] = m.pspace[from]]

(* A page that becomes visible to q holds a freshly zeroed frame.          *)
Appeared(m0, m1) ==
  [m1 EXCEPT !.expected = [q \in Procs |-> [u \in Tables |->
      IF q \in born /\ PagePresent(m1, q, u) /\ ~PagePresent(m0, q, u)
      THEN Zero ELSE m1.expected[q][u]]]]

-----------------------------------------------------------------------------
Init ==
  /\ vm = [tdesc    |-> [p \in Procs |-> [t \in Tables |-> Clear]],
           pspace   |-> [p \in Procs |-> NoFrame],
           ptab     |-> [f \in Frames |-> [t \in Tables |-> NoPage]],
           data     |-> [f \in Frames |-> Zero],
           free     |-> Frames,
           own      |-> [p \in Procs |-> {}],
           expected |-> [p \in Procs |-> [t \in Tables |-> Zero]],
           halted   |-> "none"]
  /\ born = {Root}

(* A write by p to page t that the MMU refuses (page missing or table      *)
(* copy-on-write) enters _vmm_ensure_write_to_page.                        *)
WriteFault(p, t) ==
  /\ Live(vm) /\ p \in born
  /\ ~Writable(vm, p, t)
  /\ vm' = Appeared(vm, EnsureWriteToPage(vm, p, t))
  /\ UNCHANGED born

(* A user store to a writable page. *)
Write(p, t, v) ==
  /\ Live(vm) /\ p \in born
  /\ Writable(vm, p, t)
  /\ vm' = [vm EXCEPT !.data[PageFrame(vm, p, t)] = v, !.expected[p][t] = v]
  /\ UNCHANGED born

(* vmm_unmap_page *)
UnmapPage(p, t) ==
  /\ Live(vm) /\ p \in born
  /\ vm.tdesc[p][t].st = "present"
  /\ vm' = UnmapPageLockless(vm, p, t)
  /\ UNCHANGED born

(***************************************************************************)
(* vmm_free_ptable: refused for a desc that is not present or is           *)
(* copy-on-write; the desc goes to the allocated state, its pages are      *)
(* freed, and when no desc of the group is still present the group frame  *)
(* (found through the group's first desc) is freed, every desc cleared    *)
(* and the pspace window unmapped.  When the first desc was left clear (a  *)
(* failed resolution), its frame reads as 0 and pmm_free releases the page *)
(* at physical address 0; the model stops there.                           *)
(***************************************************************************)
(* Mutant: the copy-on-write refusal is dropped.                         *)
FreePtableNoCowCheck(p, t) ==
  /\ Live(vm) /\ p \in born
  /\ vm.tdesc[p][t].st = "present"
  /\ LET g   == ActivePtable(vm, p)
         pte == vm.ptab[g][t]
         m1  == [vm EXCEPT !.tdesc[p][t] = Allocated(vm.tdesc[p][t].frame),
                           !.ptab[g][t] = NoPage,
                           !.free = IF pte = NoPage THEN @ ELSE @ \cup {pte.frame}]
         first == m1.tdesc[p][Group[1]]
     IN  vm' = CASE \E u \in Tables : m1.tdesc[p][u].st = "present" -> m1
                 [] first.st = "clear" -> Halt(m1, "free_block0")
                 [] OTHER -> [FreePtablesToCoverPage(m1, first.frame) EXCEPT
                                !.tdesc[p] = [u \in Tables |-> Clear],
                                !.pspace[p] = NoFrame]
  /\ UNCHANGED born

FreePtable(p, t) ==
  /\ Live(vm) /\ p \in born
  /\ vm.tdesc[p][t].st = "present" /\ ~vm.tdesc[p][t].cow
  /\ LET g   == ActivePtable(vm, p)
         pte == vm.ptab[g][t]
         m1  == [vm EXCEPT !.tdesc[p][t] = Allocated(vm.tdesc[p][t].frame),
                           !.ptab[g][t] = NoPage,
                           !.free = IF pte = NoPage THEN @ ELSE @ \cup {pte.frame}]
         first == m1.tdesc[p][Group[1]]
     IN  vm' = CASE \E u \in Tables : m1.tdesc[p][u].st = "present" -> m1
                 [] first.st = "clear" -> Halt(m1, "free_block0")
                 [] OTHER -> [FreePtablesToCoverPage(m1, first.frame) EXCEPT
                                !.tdesc[p] = [u \in Tables |-> Clear],
                                !.pspace[p] = NoFrame]
  /\ UNCHANGED born

(***************************************************************************)
(* Fork (the caller of _vmm_alloc_pdir, _vmm_pspace_gen and                *)
(* _vmm_tables_set_cow): a directory for the child in a new mapped zone    *)
(* (not checked: with no frame it lies at physical address 0 and the model *)
(* stops there), a copy of the parent's directory and its own pspace table *)
(* showing the parent's groups, so whole table groups are shared; every    *)
(* table that is not clear is marked copy-on-write in both.  Fork is not  *)
(* in the repository.  Unless ForkSharesAllocated, it is taken only when   *)
(* no group is half in use (a table in the allocated state).               *)
(***************************************************************************)
Fork(p, c) ==
  /\ Live(vm) /\ p \in born /\ c \notin born
  /\ ForkSharesAllocated \/ \A u \in Tables : vm.tdesc[p][u].st # "allocated"
  /\ LET shared == [u \in Tables |->
                     IF vm.tdesc[p][u].st = "clear" THEN Clear
                     ELSE SetCow(vm.tdesc[p][u])]
         z == AllocPdir(vm)
         m2 == PspaceGen([z.m EXCEPT !.own[c] = {z.frame}], c, p)
     IN  vm' = IF vm.free = {} THEN Halt(vm, "pdir_alloc")
               ELSE IF ~Live(m2) THEN m2
               ELSE [m2 EXCEPT !.tdesc[p] = shared, !.tdesc[c] = shared,
                               !.expected[c] = vm.expected[p]]
  /\ born' = born \cup {c}

(* After a kernel fault or a panic nothing runs. *)
Halted ==
  /\ ~Live(vm)
  /\ UNCHANGED cowVars

Next ==
  \/ \E p \in Procs, t \in Tables :
       \/ WriteFault(p, t)
       \/ UnmapPage(p, t)
       \/ FreePtable(p, t)
       \/ \E v \in WriteValues : Write(p, t, v)
  \/ \E p, c \in Procs : Fork(p, c)
  \/ Halted

Spec == Init /\ [][Next]_cowVars

-----------------------------------------------------------------------------
Referenced(m) ==
  UNION {{m.pspace[q]} \cup m.own[q] \cup {m.tdesc[q][u].frame : u \in Tables}
           \cup {PageFrame(m, q, u) : u \in {x \in Tables : PagePresent(m, q, x)}}
         : q \in born}

TypeOK ==
  /\ born \subseteq Procs /\ Root \in born
  /\ vm.free \subseteq Frames
  /\ vm.halted \in {"none", "ptable_fault", "oom", "scratch_alloc", "free_block0",
                    "pdir_alloc", "pspace_alloc"}
  /\ \A q \in Procs : vm.own[q] \subseteq Frames
  /\ \A q \in Procs, u \in Tables :
       /\ vm.tdesc[q][u].st \in {"clear", "allocated", "present"}
       /\ vm.tdesc[q][u].frame \in Frames \cup {NoFrame}
       /\ vm.expected[q][u] \in Values
  /\ \A f \in Frames : vm.data[f] \in Values

(* Isolation: every page a process can see holds what that process last   *)
(* stored there (or inherited at fork, or zero when it appeared): a store  *)
(* by one process never shows through a table another process shares, in  *)
(* spite of the demand loads into shared tables and the group copies of    *)
(* _vmm_resolve_copy_on_write.                                             *)
Isolation ==
  \A q \in born, u \in Tables :
    PagePresent(vm, q, u) => vm.data[PageFrame(vm, q, u)] = vm.expected[q][u]

(* No free frame is still in use: no desc, pspace window or page entry of  *)
(* any address space refers to a frame pmm may hand out again.             *)
NoUseAfterFree ==
  Live(vm) => vm.free \cap Referenced(vm) = {}

(* Within one address space every desc of the group that is not clear     *)
(* points at the frame the pspace window shows, which vmm_free_ptable and  *)
(* vmm_map_page_lockless rely on when they go through the window or the    *)
(* group's first desc.                                                     *)
GroupConsistent ==
  \A q \in born, u \in Tables :
    vm.tdesc[q][u].st # "clear" => vm.tdesc[q][u].frame = vm.pspace[q]

=============================================================================
