------------------------------- MODULE Cursor -------------------------------
(***************************************************************************)
(* What the decoder may assume of its input stream: a position that only   *)
(* moves forward and a stack of ends, the whole input at the bottom.       *)
(* A payload declared longer than what encloses it spoils the decode: it   *)
(* may go on for a while but can no longer succeed.                        *)
(***************************************************************************)
EXTENDS Integers, Sequences

CONSTANT Lens

VARIABLES phase, len, pos, ends, spoiled

cursorVars == <<phase, len, pos, ends, spoiled>>

Top == ends[Len(ends)]

CursorInit ==
  /\ phase = "boundary" /\ pos = 0 /\ spoiled = FALSE
  /\ len \in Lens /\ ends = <<len>>

(* Between two fields: more to read, exactly at the end, or past it. *)
Check ==
  /\ phase = "boundary"
  /\ phase' = CASE pos < Top -> "field"
                [] pos = Top /\ ~spoiled -> "end"
                [] OTHER -> "failed"
  /\ UNCHANGED <<len, pos, ends>>
  /\ spoiled' = (spoiled \/ pos > Top)

Field ==
  /\ phase = "field" /\ pos' > pos
  /\ phase' = "boundary"
  /\ UNCHANGED <<len, ends, spoiled>>

Descend ==
  /\ phase = "field" /\ pos' > pos
  /\ phase' = "boundary"
  /\ Len(ends') = Len(ends) + 1 /\ SubSeq(ends', 1, Len(ends)) = ends
  /\ ends'[Len(ends')] >= pos'
  /\ spoiled' = (spoiled \/ ends'[Len(ends')] > Top)
  /\ UNCHANGED len

Ascend ==
  /\ phase = "end" /\ Len(ends) > 1
  /\ phase' = "boundary"
  /\ ends' = SubSeq(ends, 1, Len(ends) - 1)
  /\ UNCHANGED <<len, pos, spoiled>>

Finish ==
  /\ phase = "end" /\ Len(ends) = 1
  /\ phase' = "ok" /\ UNCHANGED <<len, pos, ends, spoiled>>

(* A field that cannot be read, or an end that comes too early. *)
Fail ==
  /\ phase \in {"field", "end"} /\ phase' = "failed"
  /\ UNCHANGED <<len, pos, ends>> /\ spoiled' \in {spoiled, TRUE}

CursorNext == Check \/ Field \/ Descend \/ Ascend \/ Finish \/ Fail

CursorSpec == CursorInit /\ [][CursorNext]_cursorVars
=============================================================================
