\* Three processors, two frames of each kind; the TLB may fill speculatively.
CONSTANTS
  c1 = c1  c2 = c2  c3 = c3
  d1 = d1  d2 = d2  t1 = t1  t2 = t2  g1 = g1  g2 = g2
  NoFrame = NoFrame
  NoCPU = NoCPU
  CPUs <- MCCPUs
  PdFrames <- MCPdFrames
  PtFrames <- MCPtFrames
  PageFrames <- MCPageFrames
SYMMETRY MCSymmetry
SPECIFICATION SpeculativeSpec
INVARIANT WindowsCoherent
