------------------------------- MODULE MCHeap -------------------------------
(* A small kernel heap: chunks of two units, a one-unit header, a           *)
(* primordial sub-heap of three chunks and two expansion blocks of three.  *)
EXTENDS Heap

MCBlocks == {100, 200}

=============================================================================
