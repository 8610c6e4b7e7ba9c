-------------------------------- MODULE Heap --------------------------------
(***************************************************************************)
(* The kernel heap of src/kernel/heap/Heap.h: Heap, a chunk arena with a   *)
(* side bitmap, and ExpandableHeap, an address-ordered list of sub-heaps   *)
(* that starts with the primordial one and grows through an injected       *)
(* expansion policy.                                                       *)
(*                                                                         *)
(* A sub-heap is a record: the address of its memory block, memory_size,  *)
(* its chunk count and the set of chunks its bitmap marks used.  An        *)
(* allocation is identified by its sub-heap and first chunk; its header    *)
(* records the chunk count.  ExpandableHeap::allocate is a call that may  *)
(* be suspended in the expansion policy (m_expanding set), during which    *)
(* the policy's own kmalloc and kfree calls run as nested calls.           *)
(***************************************************************************)
EXTENDS Naturals, FiniteSets, Sequences, SequencesExt

CONSTANTS
  ChunkSize,        \* CHUNK_SIZE
  HeaderSize,       \* sizeof(AllocationHeader)
  SubHeapSize,      \* sizeof(SubHeap)
  BestFitThreshold, \* best_fit_threshold (128)
  PrimordialSize,   \* memory_size of the primordial sub-heap m_heaps
  Blocks,           \* addresses of the blocks the expansion policy hands out
  BlockSize,        \* size of such a block
  Sizes,            \* allocation sizes callers request
  MaxLive,          \* bound on live allocations
  SizeBits          \* width of size_t

SizeMax == 2^SizeBits   \* size_t arithmetic is modulo SizeMax

Primordial == 0     \* address of the primordial heap's memory, below every block

ASSUME /\ Blocks \subseteq Nat \ {Primordial}
       /\ ChunkSize >= HeaderSize

NoCall == [size |-> 0, attempt |-> 0]

VARIABLES
  heaps,      \* m_heaps and its next-chain: a sequence of sub-heap records
  live,       \* allocations handed out and not yet freed
  expanding,  \* m_expanding
  call,       \* NoCall, or the ExpandableHeap::allocate waiting on the policy
  halted      \* a VERIFY failed

hVars == <<heaps, live, expanding, call, halted>>

(* Heap::calculate_chunks: one byte of bitmap is counted per chunk.        *)
CalculateChunks(memorySize) == memorySize \div (ChunkSize + 1)

NewSubHeap(addr, memorySize) ==
  [addr |-> addr, size |-> memorySize, chunks |-> CalculateChunks(memorySize),
   used |-> {}, allocated |-> 0]

(* Heap::free_chunks: m_total_chunks - m_allocated_chunks.                 *)
FreeChunks(h) == h.chunks - h.allocated

(* ExpandableHeap::allocated_chunks: the sum over the sub-heap chain.      *)
AllocatedChunks(hs) == FoldSeq(LAMBDA h, acc : acc + h.allocated, 0, hs)

(* Mutant: the header is left out of the chunk count. *)
ChunksNeededNoHeader(size) == ((size + ChunkSize - 1) % SizeMax) \div ChunkSize

(* Heap::allocate: real_size includes the AllocationHeader; both sums are  *)
(* size_t and wrap.                                                        *)
ChunksNeeded(size) ==
  LET realSize == (size + HeaderSize) % SizeMax
  IN  ((realSize + ChunkSize - 1) % SizeMax) \div ChunkSize

Run(s, n) == {s + k : k \in 0..n - 1}
IsFreeRun(h, s, n) == s + n <= h.chunks /\ Run(s, n) \cap h.used = {}

(* Mutant: the free-run test is one chunk short. *)
FirstFitShort(h, n) ==
  LET S == {s \in 0..h.chunks - 1 : IsFreeRun(h, s, n - 1)}
  IN  IF S = {} THEN -1 ELSE Min(S)

(* Bitmap::find_first_fit: the lowest start of n free chunks.              *)
FirstFit(h, n) ==
  LET S == {s \in 0..h.chunks - 1 : IsFreeRun(h, s, n)}
  IN  IF S = {} THEN -1 ELSE Min(S)

(* Bitmap::find_best_fit: the start of the smallest maximal free run that  *)
(* holds n chunks, the lowest one among equals.                            *)
RunLength(h, s) ==
  Max({k \in 0..h.chunks - s : IsFreeRun(h, s, k)})
FreeRunStarts(h) ==
  {s \in 0..h.chunks - 1 : s \notin h.used /\ (s = 0 \/ s - 1 \in h.used)}
BestFit(h, n) ==
  LET S == {s \in FreeRunStarts(h) : RunLength(h, s) >= n}
      best == IF S = {} THEN 0 ELSE Min({RunLength(h, s) : s \in S})
  IN  IF S = {} THEN -1 ELSE Min({s \in S : RunLength(h, s) = best})

(* Heap::allocate on one sub-heap: the first chunk, or -1 for nullptr.     *)
HeapAllocate(h, size) ==
  LET n == ChunksNeeded(size)
  IN  IF n > FreeChunks(h) THEN -1
      ELSE IF n < BestFitThreshold THEN FirstFit(h, n) ELSE BestFit(h, n)

(* The subheap loop of ExpandableHeap::allocate: the first sub-heap whose *)
(* Heap::allocate succeeds, or 0.                                          *)
FirstSubHeapWithRoom(hs, size) ==
  SelectInSeq(hs, LAMBDA h : HeapAllocate(h, size) # -1)

(* Take the allocation from sub-heap i: set_range_and_verify_that_all_bits_flip, *)
(* then m_allocated_chunks += chunks_needed.                               *)
TakeChunks(hs, i, size) ==
  LET s == HeapAllocate(hs[i], size)
  IN  [heaps |-> [hs EXCEPT ![i].used = @ \cup Run(s, ChunksNeeded(size)),
                            ![i].allocated = @ + ChunksNeeded(size)],
       alloc |-> [addr |-> hs[i].addr, start |-> s,
                  chunks |-> ChunksNeeded(size), size |-> size]]

(* Mutant: a new sub-heap is linked at the front of the chain. *)
InsertSubHeapAtFront(hs, h) == <<Head(hs), h>> \o Tail(hs)

(* add_subheap: linked after every sub-heap whose memory lies below it.    *)
InsertSubHeap(hs, h) ==
  LET k == SelectInSeq(Tail(hs), LAMBDA x : h.addr < x.addr)
      i == IF k = 0 THEN Len(hs) ELSE k
  IN  SubSeq(hs, 1, i) \o <<h>> \o SubSeq(hs, i + 1, Len(hs))

(* add_subheap(memory, memory_size): VERIFY, then memory_size minus the    *)
(* SubHeap header it places at the start of the block.                     *)
AddSubHeap(hs, addr, memorySize) ==
  IF memorySize > SubHeapSize
  THEN [ok |-> TRUE,
        heaps |-> InsertSubHeap(hs, NewSubHeap(addr, memorySize - SubHeapSize))]
  ELSE [ok |-> FALSE, heaps |-> hs]

(* Mutant: the attempt test is off by one. *)
GiveUpLate(attempt) == attempt > 2

(* `if (attempt++ >= 2) break;` in ExpandableHeap::allocate.               *)
GiveUp(attempt) == attempt >= 2

BlocksInUse == {heaps[i].addr : i \in 2..Len(heaps)}

-----------------------------------------------------------------------------
Init ==
  /\ heaps = << NewSubHeap(Primordial, PrimordialSize) >>
  /\ live = {}
  /\ expanding = FALSE
  /\ call = NoCall
  /\ halted = FALSE

(***************************************************************************)
(* ExpandableHeap::allocate(size) by a kernel client, or by the expansion  *)
(* policy while it runs (a nested call).  Without room in any sub-heap, a *)
(* client's call enters expand_memory (attempt 0); a nested call finds     *)
(* m_expanding set and returns nullptr.                                    *)
(***************************************************************************)
Allocate(size) ==
  /\ ~halted
  /\ Cardinality(live) < MaxLive
  /\ call = NoCall \/ expanding
  /\ LET i == FirstSubHeapWithRoom(heaps, size)
     IN  \/ /\ i # 0
            /\ heaps' = TakeChunks(heaps, i, size).heaps
            /\ live' = live \cup {TakeChunks(heaps, i, size).alloc}
            /\ UNCHANGED <<expanding, call, halted>>
         \/ /\ i = 0
            /\ expanding
            /\ UNCHANGED hVars
         \/ /\ i = 0
            /\ ~expanding
            /\ expanding' = TRUE
            /\ call' = [size |-> size, attempt |-> 1]
            /\ UNCHANGED <<heaps, live, halted>>

(***************************************************************************)
(* The expansion policy's add_memory returns: with false the do-while loop *)
(* ends and allocate returns nullptr; with true the policy has added a     *)
(* block through add_subheap, and the sub-heaps are scanned again; after  *)
(* the third scan (attempt 2) allocate gives up.  TemporaryChange restores *)
(* m_expanding on return.                                                  *)
(***************************************************************************)
ExpandMemory ==
  /\ ~halted
  /\ expanding /\ call # NoCall
  /\ \/ /\ expanding' = FALSE
        /\ call' = NoCall
        /\ UNCHANGED <<heaps, live, halted>>
     \/ \E b \in Blocks \ BlocksInUse :
          LET hs == AddSubHeap(heaps, b, BlockSize).heaps
              i  == FirstSubHeapWithRoom(hs, call.size)
          IN  \/ /\ i # 0
                 /\ heaps' = TakeChunks(hs, i, call.size).heaps
                 /\ live' = live \cup {TakeChunks(hs, i, call.size).alloc}
                 /\ expanding' = FALSE
                 /\ call' = NoCall
                 /\ UNCHANGED halted
              \/ /\ i = 0
                 /\ heaps' = hs
                 /\ expanding' = ~GiveUp(call.attempt)
                 /\ call' = IF ~GiveUp(call.attempt)
                            THEN [call EXCEPT !.attempt = @ + 1] ELSE NoCall
                 /\ UNCHANGED <<live, halted>>

(* Heap::contains(ptr): the allocation lies in this sub-heap's chunks.     *)
HeapContains(h, a) == h.addr = a.addr

(* Mutant: the bitmap is cleared but m_allocated_chunks is not lowered.   *)
HeapDeallocateNoCount(h, a) == [h EXCEPT !.used = @ \ Run(a.start, a.chunks)]

(* Heap::deallocate(ptr): the bitmap bits of the allocation's chunks,      *)
(* from the header's size, are cleared and m_allocated_chunks is lowered   *)
(* by that size (the VERIFY before it is HeapDeallocateFails).             *)
HeapDeallocate(h, a) ==
  [h EXCEPT !.used = @ \ Run(a.start, a.chunks), !.allocated = @ - a.chunks]

(* VERIFY(m_allocated_chunks >= a->allocation_size_in_chunks) fails.       *)
HeapDeallocateFails(h, a) == h.allocated < a.chunks

(***************************************************************************)
(* ExpandableHeap::deallocate(ptr): Heap::deallocate in the sub-heap that  *)
(* contains ptr clears the header's chunks; a sub-heap left empty that is  *)
(* not the primordial one (allocated_chunks() == 0), outside an expansion, *)
(* is unlinked and handed to remove_memory; if the policy declines,        *)
(* add_subheap is called with the sub-heap's memory_size.  A failed VERIFY *)
(* in Heap::deallocate halts before the unlink.                            *)
(***************************************************************************)
Deallocate(a) ==
  /\ ~halted
  /\ a \in live
  /\ call = NoCall \/ expanding
  /\ LET i   == SelectInSeq(heaps, LAMBDA h : HeapContains(h, a))
         h1  == HeapDeallocate(heaps[i], a)
         hs1 == [heaps EXCEPT ![i] = h1]
         hs2 == SubSeq(hs1, 1, i - 1) \o SubSeq(hs1, i + 1, Len(hs1))
         r   == AddSubHeap(hs2, h1.addr, h1.size)
         bad == HeapDeallocateFails(heaps[i], a)
         emptied == ~bad /\ h1.allocated = 0 /\ i # 1 /\ ~expanding
     IN  /\ live' = live \ {a}
         /\ UNCHANGED <<expanding, call>>
         /\ \/ /\ ~emptied
               /\ heaps' = hs1
               /\ halted' = bad
            \/ /\ emptied
               /\ \/ /\ heaps' = hs2
                     /\ UNCHANGED halted
                  \/ /\ heaps' = r.heaps
                     /\ halted' = ~r.ok

(* After a failed VERIFY the kernel is stopped. *)
Halted ==
  /\ halted
  /\ UNCHANGED hVars

Next ==
  \/ \E size \in Sizes : Allocate(size)
  \/ ExpandMemory
  \/ \E a \in live : Deallocate(a)
  \/ Halted

Spec == Init /\ [][Next]_hVars

-----------------------------------------------------------------------------
LiveIn(addr) == {a \in live : a.addr = addr}
SubHeapAddrs == {heaps[i].addr : i \in DOMAIN heaps}
SumLiveChunks == FoldSet(LAMBDA a, acc : acc + a.chunks, 0, live)

TypeOK ==
  /\ heaps \in Seq([addr : {Primordial} \cup Blocks, size : Nat, chunks : Nat,
                    used : SUBSET Nat, allocated : Nat])
  /\ live \subseteq [addr : {Primordial} \cup Blocks, start : Nat,
                     chunks : Nat, size : Sizes]
  /\ expanding \in BOOLEAN
  /\ call \in {NoCall} \cup [size : Sizes, attempt : 1..2]
  /\ halted \in BOOLEAN

(* Each sub-heap's bitmap marks exactly the chunks of the live allocations *)
(* in it, the live allocations of one sub-heap never share a chunk, and    *)
(* every live allocation lies in a linked sub-heap: the fit search, the   *)
(* nested allocations of the expansion policy and the unlinking of empty   *)
(* sub-heaps in deallocate never hand out a chunk twice nor lose one.      *)
(* Each m_allocated_chunks counts its bitmap's used chunks, so the         *)
(* allocated_chunks() == 0 test unlinks exactly the sub-heaps that are     *)
(* empty, and ExpandableHeap::allocated_chunks() totals the live chunks.  *)
HeapAccounting ==
  /\ \A a \in live : a.addr \in SubHeapAddrs
  /\ \A i \in DOMAIN heaps : heaps[i].allocated = Cardinality(heaps[i].used)
  /\ AllocatedChunks(heaps) = SumLiveChunks
  /\ \A i \in DOMAIN heaps :
       heaps[i].used = UNION {Run(a.start, a.chunks) : a \in LiveIn(heaps[i].addr)}
  /\ \A a, b \in live :
       a # b /\ a.addr = b.addr => Run(a.start, a.chunks) \cap Run(b.start, b.chunks) = {}

(* Every live allocation has room for its AllocationHeader and the bytes   *)
(* asked for, and ends inside the chunks of its sub-heap (the VERIFY of    *)
(* Heap::deallocate at line 108 never fires on a pointer allocate returned).*)
AllocationsFit ==
  \A a \in live :
    /\ a.chunks * ChunkSize >= a.size + HeaderSize
    /\ \E i \in DOMAIN heaps :
         heaps[i].addr = a.addr /\ a.start + a.chunks <= heaps[i].chunks

(* The primordial sub-heap heads the list and the others follow in         *)
(* increasing address order, through expansions and the unlink and re-add *)
(* of emptied sub-heaps in deallocate.                                     *)
SubHeapsAddressOrdered ==
  /\ heaps[1].addr = Primordial
  /\ \A i \in 1..Len(heaps) - 1 : heaps[i].addr < heaps[i + 1].addr

(* A sub-heap the expansion policy declines to take back is kept with all  *)
(* of its block (spec section 4.5: "kept as a fallback sub-heap rather     *)
(* than leaked"): every non-primordial sub-heap still manages BlockSize    *)
(* minus one SubHeap header, however often deallocate recycled it.         *)
SubHeapMemoryKept ==
  \A i \in 2..Len(heaps) : heaps[i].size = BlockSize - SubHeapSize

=============================================================================
