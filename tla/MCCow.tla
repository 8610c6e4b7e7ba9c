-------------------------------- MODULE MCCow --------------------------------
EXTENDS Cow

CONSTANTS p1, p2, p3

\* One fork, or a fork chain of three address spaces.
MCProcs2 == {p1, p2}
MCProcs3 == {p1, p2, p3}

\* Enough frames for a fork (directory zone and pspace table) after the
\* root's table and page, and one full resolution: scratch zone, new group
\* and a copied page.
MCFrames == 1..8

\* For the fork chain: the root's table and page, two forks (two frames
\* each) and one resolution by the root (a group and a copied page) leave
\* one frame, which the next resolution's scratch zone takes, so its forced
\* table allocation fails.
MCFramesStale == 1..9

\* Fingerprint view: the contents of a free frame are never read before
\* they are overwritten (tables are zeroed on allocation, pages on load).
MCView ==
  <<born, [vm EXCEPT !.data = [f \in Frames |-> IF f \in vm.free THEN Zero ELSE @[f]],
                     !.ptab = [f \in Frames |-> IF f \in vm.free
                                               THEN [u \in Tables |-> NoPage] ELSE @[f]]]>>

=============================================================================
