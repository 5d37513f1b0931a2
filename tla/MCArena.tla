------------------------------- MODULE MCArena -------------------------------
(* Arena with the release build's configuration, or the ASAN one's, and a  *)
(* handful of sizes around the growth policy's thresholds.                  *)
EXTENDS Arena, TLC

CONSTANTS MaxBlocks   \* bound on the number of blocks

BlocksBounded == Len(blocks) <= MaxBlocks

SlotSymmetry == Permutations(Slots)
=============================================================================
