\* Chunk size 2, header 1, SubHeap header 3: the primordial heap (9 units)
\* and a fresh block (12 units) hold three chunks; a recycled block loses
\* three units each time (3, 2, 1 chunks, then add_subheap's VERIFY).
\* Size 6 needs four chunks, more than any sub-heap: it drives both
\* expansion attempts and the null return.
CONSTANTS
  ChunkSize = 2
  HeaderSize = 1
  SubHeapSize = 3
  BestFitThreshold = 2
  PrimordialSize = 9
  Blocks <- MCBlocks
  BlockSize = 12
  Sizes = {1, 2, 6}
  MaxLive = 3
  SizeBits = 8
SPECIFICATION Spec
INVARIANT TypeOK
INVARIANT HeapAccounting
INVARIANT AllocationsFit
INVARIANT SubHeapsAddressOrdered
