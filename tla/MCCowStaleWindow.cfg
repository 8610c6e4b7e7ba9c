\* A fork chain of three address spaces sharing one group; nine frames, so
\* that a resolution can fail for want of a frame and a later table free
\* hands one frame back.
CONSTANTS
  p1 = p1
  p2 = p2
  p3 = p3
  Procs <- MCProcs3
  Root = p1
  TablesPerGroup = 1
  Frames <- MCFramesStale
  WriteValues = {1}
  ForkSharesAllocated = FALSE
  NoFrame = NoFrame
  NoPage = NoPage
SPECIFICATION Spec
VIEW MCView
INVARIANT Isolation
