------------------------------ MODULE MCCourt ------------------------------
(* A run of a court, and one of a raw court, over two cases each.           *)
EXTENDS Court, TLC

CONSTANTS r1, r2

MCRuns == {r1, r2}
MCCases == r1 :> 2 @@ r2 :> 2
=============================================================================
