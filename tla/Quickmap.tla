------------------------------ MODULE Quickmap ------------------------------
(***************************************************************************)
(* The quickmap windows of MemoryManager (src/kernel/vm/MemoryManager.cpp) *)
(* and the translation caches of the processors that use them.             *)
(*                                                                         *)
(* Three windows are mapped by entries of boot_pd_kernel_pt1023:           *)
(*   - KERNEL_QUICKMAP_PD and KERNEL_QUICKMAP_PT, one entry each, shared   *)
(*     by every processor and used only under s_mm_lock (quickmap_pd,      *)
(*     quickmap_pt);                                                       *)
(*   - one page slot per processor at KERNEL_QUICKMAP_PER_CPU_BASE + id,   *)
(*     used under that processor's m_quickmap_in_use lock (quickmap_page, *)
(*     unquickmap_page).                                                   *)
(* Every flush is flush_tlb_local: it drops a translation from the calling *)
(* processor's TLB only.  A processor keeps m_last_quickmap_pd/pt, the     *)
(* frame it last mapped, and flushes when the shared entry already holds   *)
(* the target but its own last target differs.                             *)
(*                                                                         *)
(* A processor's TLB fills a window's translation from the entry when it   *)
(* reads through the window (Access); under SpeculativeSpec it may also    *)
(* fill it at any time, as an x86 processor may.  The callers (ensure_pte, *)
(* pte, release_pte, the zero fill of a new page) are abstracted to: take  *)
(* s_mm_lock, map and read windows, release it.                            *)
(***************************************************************************)
EXTENDS FiniteSets

CONSTANTS
  CPUs,        \* the processors
  PdFrames,    \* frames of page directories (m_directory_pages[i]->paddr())
  PtFrames,    \* frames of page tables (pde.page_table_base())
  PageFrames,  \* frames handed to quickmap_page
  NoFrame,     \* a clear entry, or no translation cached
  NoCPU        \* s_mm_lock not held

Shared == {"pd", "pt"}
Windows == Shared \cup {"page"}
Frames == PdFrames \cup PtFrames \cup PageFrames

VARIABLES
  pte,     \* the entries of the shared windows: [Shared -> frame]
  slot,    \* the per-processor page-slot entries: [CPUs -> frame]
  tlb,     \* each processor's cached translations: [CPUs -> [Windows -> frame]]
  last,    \* m_last_quickmap_pd/pt: [CPUs -> [Shared -> frame]]
  lock,    \* the owner of s_mm_lock
  inUse,   \* m_quickmap_in_use of each processor
  mapped   \* what each caller expects a window to show: [CPUs -> [Windows -> frame]]

qmVars == <<pte, slot, tlb, last, lock, inUse, mapped>>

(* The frame a read through window w on processor c reaches.               *)
Translate(c, w) ==
  IF tlb[c][w] # NoFrame THEN tlb[c][w]
  ELSE IF w = "page" THEN slot[c] ELSE pte[w]

(* flush_tlb_local(vaddr) on processor c for the window at vaddr.          *)
FlushTlbLocal(c, w) == [tlb EXCEPT ![c][w] = NoFrame]

(* Mutant: a processor that finds the entry already pointing at the target *)
(* never flushes, whatever it mapped last.                                 *)
QuickmapSharedNoLastCheck(c, w, f) ==
  /\ lock = c
  /\ pte' = [pte EXCEPT ![w] = f]
  /\ tlb' = IF pte[w] # f THEN FlushTlbLocal(c, w) ELSE tlb
  /\ last' = [last EXCEPT ![c][w] = f]
  /\ mapped' = [mapped EXCEPT ![c][w] = f]
  /\ UNCHANGED <<slot, lock, inUse>>

(* quickmap_pd / quickmap_pt: VERIFY(s_mm_lock.own_lock()); rewrite the    *)
(* shared entry and flush when it points elsewhere, else flush when this   *)
(* processor last mapped another frame; then record the target as last.   *)
QuickmapShared(c, w, f) ==
  /\ lock = c
  /\ pte' = [pte EXCEPT ![w] = f]
  /\ tlb' = IF pte[w] # f \/ last[c][w] # f THEN FlushTlbLocal(c, w) ELSE tlb
  /\ last' = [last EXCEPT ![c][w] = f]
  /\ mapped' = [mapped EXCEPT ![c][w] = f]
  /\ UNCHANGED <<slot, lock, inUse>>

(* Mutant: unquickmap_page clears the entry but does not flush. *)
UnquickmapPageNoFlush(c) ==
  /\ inUse[c]
  /\ lock \in {NoCPU, c}
  /\ slot' = [slot EXCEPT ![c] = NoFrame]
  /\ inUse' = [inUse EXCEPT ![c] = FALSE]
  /\ mapped' = [mapped EXCEPT ![c]["page"] = NoFrame]
  /\ UNCHANGED <<pte, tlb, last, lock>>

(* unquickmap_page: under s_mm_lock, VERIFY the slot is in use, clear its  *)
(* entry, flush it locally and release m_quickmap_in_use.                  *)
UnquickmapPage(c) ==
  /\ inUse[c]
  /\ lock \in {NoCPU, c}
  /\ slot' = [slot EXCEPT ![c] = NoFrame]
  /\ tlb' = FlushTlbLocal(c, "page")
  /\ inUse' = [inUse EXCEPT ![c] = FALSE]
  /\ mapped' = [mapped EXCEPT ![c]["page"] = NoFrame]
  /\ UNCHANGED <<pte, last, lock>>

-----------------------------------------------------------------------------
(* MemoryManager::initialize(cpu): each processor's MemoryManagerData      *)
(* starts with no last target and the slot lock free; the boot entries of  *)
(* the windows are clear.                                                  *)
Init ==
  /\ pte = [w \in Shared |-> NoFrame]
  /\ slot = [c \in CPUs |-> NoFrame]
  /\ tlb = [c \in CPUs |-> [w \in Windows |-> NoFrame]]
  /\ last = [c \in CPUs |-> [w \in Shared |-> NoFrame]]
  /\ lock = NoCPU
  /\ inUse = [c \in CPUs |-> FALSE]
  /\ mapped = [c \in CPUs |-> [w \in Windows |-> NoFrame]]

(* A caller takes the recursive s_mm_lock (ScopedSpinLock in ensure_pte,   *)
(* release_pte, the page allocators ...).                                  *)
LockMM(c) ==
  /\ lock = NoCPU
  /\ lock' = c
  /\ UNCHANGED <<pte, slot, tlb, last, inUse, mapped>>

(* The caller releases s_mm_lock; the pointers it got from quickmap_pd and *)
(* quickmap_pt are dead.                                                   *)
UnlockMM(c) ==
  /\ lock = c
  /\ lock' = NoCPU
  /\ mapped' = [mapped EXCEPT ![c]["pd"] = NoFrame, ![c]["pt"] = NoFrame]
  /\ UNCHANGED <<pte, slot, tlb, last, inUse>>

QuickmapPd(c, f) == QuickmapShared(c, "pd", f)
QuickmapPt(c, f) == QuickmapShared(c, "pt", f)

(* quickmap_page: take m_quickmap_in_use, then s_mm_lock (held only for    *)
(* the call), rewrite this processor's slot entry and flush it locally     *)
(* when it points elsewhere.                                               *)
QuickmapPage(c, f) ==
  /\ ~inUse[c]
  /\ lock \in {NoCPU, c}
  /\ inUse' = [inUse EXCEPT ![c] = TRUE]
  /\ slot' = [slot EXCEPT ![c] = f]
  /\ tlb' = IF slot[c] # f THEN FlushTlbLocal(c, "page") ELSE tlb
  /\ mapped' = [mapped EXCEPT ![c]["page"] = f]
  /\ UNCHANGED <<pte, last, lock>>

(* The caller reads or writes through a window it mapped: the TLB caches   *)
(* the translation it used.                                                *)
Access(c, w) ==
  /\ mapped[c][w] # NoFrame
  /\ tlb' = [tlb EXCEPT ![c][w] = Translate(c, w)]
  /\ UNCHANGED <<pte, slot, last, lock, inUse, mapped>>

(* The processor caches the present translation of a shared window that no *)
(* code of it reads (speculative execution or prefetch).                   *)
SpeculativeFill(c, w) ==
  /\ pte[w] # NoFrame
  /\ tlb' = [tlb EXCEPT ![c][w] = pte[w]]
  /\ UNCHANGED <<pte, slot, last, lock, inUse, mapped>>

Next ==
  \E c \in CPUs :
    \/ LockMM(c)
    \/ UnlockMM(c)
    \/ \E f \in PdFrames : QuickmapPd(c, f)
    \/ \E f \in PtFrames : QuickmapPt(c, f)
    \/ \E f \in PageFrames : QuickmapPage(c, f)
    \/ UnquickmapPage(c)
    \/ \E w \in Windows : Access(c, w)

Spec == Init /\ [][Next]_qmVars

(* The same processors with translations filled speculatively as well.    *)
SpeculativeNext == Next \/ \E c \in CPUs, w \in Shared : SpeculativeFill(c, w)

SpeculativeSpec == Init /\ [][SpeculativeNext]_qmVars

-----------------------------------------------------------------------------
(* Every window a caller has mapped shows that caller the frame it asked   *)
(* for, on its own processor, although the shared entries are rewritten by *)
(* other processors that flush only their own TLB and the rewrite is       *)
(* skipped when the entry already holds the target: a read through the PD *)
(* or PT window never reaches another address space's tables.             *)
WindowsCoherent ==
  \A c \in CPUs, w \in Windows :
    mapped[c][w] # NoFrame => Translate(c, w) = mapped[c][w]

(* Once unquickmap_page has released a processor's slot, that processor    *)
(* has no translation left for it, so the frame it showed may be freed and *)
(* reused without a stray access through the slot reaching it.             *)
SlotReleased ==
  \A c \in CPUs : ~inUse[c] => Translate(c, "page") = NoFrame

=============================================================================
