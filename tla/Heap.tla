-------------------------------- MODULE Heap --------------------------------
(***************************************************************************)
(* What an arena promises its user, whatever its blocks look like: every   *)
(* region the user holds is private, stays where it is, and moves only if  *)
(* its owner asks for more room.  A request may fail; then nothing changes. *)
(***************************************************************************)
EXTENDS Naturals

CONSTANTS Slots, Sizes

VARIABLE regions     \* slot -> [space, lo, size], spaces being disjoint

(* Two regions share a byte. *)
Overlap(r, q) ==
  /\ r.space = q.space /\ r.size > 0 /\ q.size > 0
  /\ r.lo < q.lo + q.size /\ q.lo < r.lo + r.size

Private(slot, r) ==
  \A s \in DOMAIN regions \ {slot} : ~Overlap(r, regions[s])

ChangesOnly(slot) ==
  /\ DOMAIN regions' = DOMAIN regions \cup {slot}
  /\ \A s \in DOMAIN regions \ {slot} : regions'[s] = regions[s]

SamePlace(r, q) == r.space = q.space /\ r.lo = q.lo

HeapInit == regions = << >>

Obtain(slot, size) ==
  /\ slot \notin DOMAIN regions /\ ChangesOnly(slot)
  /\ regions'[slot].size = size /\ Private(slot, regions'[slot])

Resize(slot, size) ==
  /\ slot \in DOMAIN regions /\ ChangesOnly(slot)
  /\ regions'[slot].size = size /\ Private(slot, regions'[slot])
  /\ size <= regions[slot].size => SamePlace(regions'[slot], regions[slot])

HeapNext ==
  \E slot \in Slots, size \in Sizes : Obtain(slot, size) \/ Resize(slot, size)

HeapSpec == HeapInit /\ [][HeapNext]_regions
=============================================================================
