-------------------------- MODULE MCPhysicalMemory --------------------------
(* Two user regions of three and one pages, one supervisor region of    *)
(* three pages (page numbers, so that runs of contiguous pages exist),  *)
(* and three VMObjects of which the last two are volatile.              *)
EXTENDS PhysicalMemory, TLC

CONSTANTS u1, u2, u3, u4, vmA, vmB, vmC

MCUserRegions   == << {u1, u2, u3}, {u4} >>
MCSuperRegions  == << 1..3 >>
MCVMObjects     == {vmA, vmB, vmC}
MCVMObjectOrder == << vmA, vmB, vmC >>
MCVolatile      == {vmB, vmC}

(* Pages of one region are interchangeable: take_free_page may return any. *)
MCSymmetry == Permutations({u1, u2, u3})
=============================================================================
