\* Two address spaces, the second forked from the first; one table per
\* group, so fork never meets a half-used group; eight frames: enough for
\* the fork's directory and pspace table and a full resolution (scratch
\* zone, new group, copied page) after the parent's table and page, and
\* one more.
CONSTANTS
  p1 = p1
  p2 = p2
  p3 = p3
  Procs <- MCProcs2
  Root = p1
  TablesPerGroup = 1
  Frames <- MCFrames
  WriteValues = {1}
  ForkSharesAllocated = FALSE
  NoFrame = NoFrame
  NoPage = NoPage
SPECIFICATION Spec
VIEW MCView
INVARIANT TypeOK
INVARIANT Isolation
INVARIANT NoUseAfterFree
INVARIANT GroupConsistent
