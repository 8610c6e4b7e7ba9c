---------------------------- MODULE MCPageTables ----------------------------
(* Two address spaces, d1 the kernel's and d2 a user one, two tables of    *)
(* two entries each, three frames of which one is held by a volatile       *)
(* VMObject.  Regions (user regions, or kernel ranges the range allocator  *)
(* hands out): the first page of table 1, a region across the boundary of *)
(* tables 1 and 2, the last page of table 2, and the last page of table 1, *)
(* which overlaps the boundary-crossing one.                               *)
EXTENDS PageTables

CONSTANTS d1, d2, f1, f2, f3

MCRegions ==
  { << <<1, 1>> >>, << <<1, 2>>, <<2, 1>> >>, << <<2, 2>> >>, << <<1, 2>> >> }

=============================================================================
