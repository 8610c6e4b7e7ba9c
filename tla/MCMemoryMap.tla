----------------------------- MODULE MCMemoryMap -----------------------------
(* Addresses of 6 bits and pages of 4 units: 16 pages.  Low memory is      *)
(* [0, 8) and the kernel image [24, 32).  The memory maps are every sorted *)
(* list of up to three entries between boundary points, each entry         *)
(* available, reserved or absent (a hole the firmware does not describe);  *)
(* the points include unaligned starts and one-byte entries: [20, 21) is  *)
(* aligned, [21, 22) is shorter than its alignment correction, so its     *)
(* length wraps and the page loop's end wraps below its start.            *)
EXTENDS MemoryMap, FiniteSets

CONSTANTS Absent

MCUsedRanges == << [start |-> 0, end |-> 8], [start |-> 24, end |-> 32] >>

Points == {0, 8, 14, 20, 21, 22, 24, 36, 40, 44, 52}

Boundaries(k) ==
  {b \in [1..k -> Points] : \A i \in 1..k - 1 : b[i] < b[i + 1]}

MapsOf(k) ==
  { SelectSeq([i \in 1..k - 1 |->
                 [addr |-> b[i], len |-> b[i + 1] - b[i], type |-> t[i]]],
              LAMBDA e : e.type # Absent)
    : b \in Boundaries(k), t \in [1..k - 1 -> {Available, Reserved, Absent}] }

MCMemoryMaps == UNION {MapsOf(k) : k \in 2..4}

(* The same shapes at twice the scale, for pages of 8 units and addresses  *)
(* of 7 bits, where the page-entry array of at most two pages and its      *)
(* table fit some regions exactly, fit others with room, and fit none of   *)
(* some maps.  The one-byte entry stays one byte.                          *)
MCUsedRanges2 == << [start |-> 0, end |-> 16], [start |-> 48, end |-> 64] >>

Points2 == {0, 16, 28, 40, 41, 42, 48, 72, 80, 88, 104}

Boundaries2(k) ==
  {b \in [1..k -> Points2] : \A i \in 1..k - 1 : b[i] < b[i + 1]}

MapsOf2(k) ==
  { SelectSeq([i \in 1..k - 1 |->
                 [addr |-> b[i], len |-> b[i + 1] - b[i], type |-> t[i]]],
              LAMBDA e : e.type # Absent)
    : b \in Boundaries2(k), t \in [1..k - 1 -> {Available, Reserved, Absent}] }

MCMemoryMaps2 == UNION {MapsOf2(k) : k \in 2..4}
=============================================================================
