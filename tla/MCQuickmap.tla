----------------------------- MODULE MCQuickmap -----------------------------
(* Processors, directory, table and page frames as model values; all of    *)
(* them are interchangeable, so each set is a symmetry set.                *)
EXTENDS Quickmap, TLC

CONSTANTS c1, c2, c3, d1, d2, t1, t2, g1, g2

MCCPUs == {c1, c2, c3}
MCPdFrames == {d1, d2}
MCPtFrames == {t1, t2}
MCPageFrames == {g1, g2}

MCSymmetry ==
  Permutations(MCCPUs) \cup Permutations(MCPdFrames)
    \cup Permutations(MCPtFrames) \cup Permutations(MCPageFrames)
=============================================================================
