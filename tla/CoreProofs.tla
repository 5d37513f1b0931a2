------------------------------ MODULE CoreProofs ------------------------------
(* The crate upb-rs-core, but for the pool of fused arenas.  The arena: the *)
(* allocations of its handles never overlap and stay in their regions, and  *)
(* it is a heap.  The map and the array of a script, for all keys, values,  *)
(* elements and grants of the arena: index and entries stay inverse and the *)
(* map is a dictionary; the array's capacity is backed by storage and the   *)
(* array is a list, as long as the sizes that are asked for fit the         *)
(* machine.                                                                 *)
EXTENDS Arena, Collections, NumberProofs

-----------------------------------------------------------------------------
(* The arena *)

(* Spans are natural numbers no smaller than the size.                      *)
LEMMA SpanBound == \A x \in Nat : Span(x) \in Nat /\ Span(x) >= x
BY ConfigAssumption, SMTT(30) DEF Span, AlignUp

(* A smaller request never has a larger span.                               *)
LEMMA SpanMonotone == \A x, y \in Nat : x <= y => Span(x) <= Span(y)
<1> SUFFICES ASSUME NEW x \in Nat, NEW y \in Nat, x <= y
             PROVE  Span(x) <= Span(y)
  OBVIOUS
<1> DEFINE X == x + (Align - 1)
           Y == y + (Align - 1)
           p == X \div Align
           q == Y \div Align
<1>1. X \in Nat /\ Y \in Nat /\ X <= Y /\ Align \in Nat /\ Align > 0
  BY ConfigAssumption
<1> HIDE DEF X, Y
<1>2. p \in Nat /\ q \in Nat /\ X = Align * p + (X % Align) /\ Y = Align * q + (Y % Align)
  BY <1>1, SMTT(30)
<1>3. X % Align \in 0..(Align-1) /\ Y % Align \in 0..(Align-1)
  BY <1>1, SMTT(30)
<1> HIDE DEF p, q
<1>4. p <= q
  BY <1>1, <1>2, <1>3, SMTT(30)
<1>5. Align * p <= Align * q
  BY <1>1, <1>2, <1>4, SMTT(30)
<1>6. X - (X % Align) <= Y - (Y % Align)
  BY <1>1, <1>2, <1>3, <1>5
<1> QED BY <1>1, <1>3, <1>6, ConfigAssumption DEF Span, AlignUp, X, Y

-----------------------------------------------------------------------------
(* Initially nothing is held. *)
LEMMA InitInv == Init => ArenaInv
<1> SUFFICES ASSUME Init PROVE ArenaInv
  OBVIOUS
<1>1. TypeOK
  <2>1. DOMAIN handles = {} /\ handles = [s \in {} |-> s] /\ Len(blocks) = 0
    BY DEF Init
  <2>2. handles \in [{} -> Handle]
    BY <2>1
  <2>3. blocks \in Seq(Nat) /\ bump \in [block : Nat, ptr : Nat]
    BY DEF Init
  <2>4. failAfter \in Nat /\ maxBlockSize \in Nat
    BY InputAssumption DEF Init
  <2>5. /\ created \in BOOLEAN /\ hasAlloc \in BOOLEAN /\ buffer \in Nat
        /\ spaceAllocated \in Nat /\ total \in Nat /\ end \in Nat
        /\ lastBlockSize \in Nat /\ sizeHint \in Nat
    BY DEF Init
  <2>6. bump.block <= Len(blocks)
    BY <2>1 DEF Init
  <2> HIDE DEF Init
  <2> QED BY <2>1, <2>2, <2>3, <2>4, <2>5, <2>6 DEF TypeOK
<1>2. Fresh /\ BumpInRegion /\ InBounds /\ NoOverlap
  BY DEF Init, Fresh, BumpInRegion, InBounds, NoOverlap, Extent
<1> QED BY <1>1, <1>2 DEF ArenaInv

LEMMA UnchangedInv == ArenaInv /\ UNCHANGED vars => ArenaInv'
BY DEF ArenaInv, TypeOK, Fresh, BumpInRegion, InBounds, NoOverlap, Extent, Apart,
       NonEmpty, EndOf, vars, modeVars, blockVars, growthVars

(* Creation makes the first region; there is no handle yet.                 *)
LEMMA NewArenaInv == ArenaInv /\ NewArena => ArenaInv'
<1> SUFFICES ASSUME ArenaInv, NewArena PROVE ArenaInv'
  OBVIOUS
<1> USE ConfigAssumption, InputAssumption
<1>1. CASE \E n \in Buffers, alloc \in BOOLEAN : NewArenaInBuffer(n, alloc)
  <2> PICK n \in Buffers, alloc \in BOOLEAN : NewArenaInBuffer(n, alloc)
    BY <1>1
  <2>1. handles = << >> /\ handles' = << >> /\ created' /\ blocks' = blocks
    BY DEF ArenaInv, Fresh, NewArenaInBuffer, blockVars
  <2>2. TypeOK'
    BY <2>1 DEF ArenaInv, TypeOK, NewArenaInBuffer, blockVars
  <2>3. BumpInRegion'
    BY DEF BumpInRegion, Extent, NewArenaInBuffer
  <2> QED BY <2>1, <2>2, <2>3 DEF ArenaInv, Fresh, InBounds, NoOverlap
<1>2. CASE \E first \in FirstSizes \cup {0} : NewArenaSlow(first)
  <2> PICK first \in FirstSizes \cup {0} : NewArenaSlow(first)
    BY <1>2
  <2>1. handles = << >> /\ handles' = << >> /\ created'
    BY DEF ArenaInv, Fresh, NewArenaSlow
  <2>2. FirstDataSize(first) \in Nat /\ FirstDataSize(first) >= StateReserve
    <3>1. AlignUp(first) + Guard \in Nat
      BY SpanBound DEF Span
    <3> QED BY <3>1 DEF FirstDataSize, Greater
  <2>3. TypeOK'
    BY <2>1, <2>2 DEF ArenaInv, TypeOK, NewArenaSlow
  <2>4. BumpInRegion'
    BY <2>2 DEF BumpInRegion, Extent, NewArenaSlow
  <2> QED BY <2>1, <2>3, <2>4 DEF ArenaInv, Fresh, InBounds, NoOverlap
<1>3. CASE UNCHANGED vars
  BY <1>3, UnchangedInv
<1> QED BY <1>1, <1>2, <1>3 DEF NewArena, RefuseArena

(* What Hold leaves behind.                                                 *)
LEMMA HoldEffect ==
  ASSUME NEW slot, NEW h, Hold(slot, h)
  PROVE  /\ DOMAIN handles' = DOMAIN handles \cup {slot}
         /\ handles'[slot] = h
         /\ \A s \in DOMAIN handles \ {slot} : handles'[s] = handles[s]
         /\ handles' = [s \in DOMAIN handles' |-> handles'[s]]
BY DEF Hold

(* Room taken from the current region belongs to nobody else: the fast path *)
(* hands out the bytes from the bump pointer on.                            *)
LEMMA FastMallocInv ==
  ASSUME ArenaInv, created, NEW slot \in Slots, NEW want \in Nat,
         FastMalloc(slot, want)
  PROVE  ArenaInv'
<1> DEFINE h == [block |-> bump.block, offset |-> bump.ptr, size |-> want]
<1>1. Span(want) \in Nat
  BY SpanBound
<1>2. /\ DOMAIN handles' = DOMAIN handles \cup {slot}
      /\ handles'[slot] = h
      /\ \A s \in DOMAIN handles \ {slot} : handles'[s] = handles[s]
      /\ handles' = [s \in DOMAIN handles' |-> handles'[s]]
  BY HoldEffect DEF FastMalloc
<1>3. /\ bump' = [block |-> bump.block, ptr |-> bump.ptr + Span(want)]
      /\ end' = end /\ blocks' = blocks /\ buffer' = buffer /\ created' = created
  BY DEF FastMalloc, ArenaInv, TypeOK, blockVars, modeVars
<1>4. h \in Handle /\ h.block <= Len(blocks)
  BY DEF ArenaInv, TypeOK, Handle
<1>5. TypeOK'
  <2>1. DOMAIN handles' \subseteq Slots /\ handles' \in [DOMAIN handles' -> Handle]
    BY <1>2, <1>4 DEF ArenaInv, TypeOK
  <2>2. bump' \in [block : Nat, ptr : Nat]
    BY <1>1, <1>3 DEF ArenaInv, TypeOK
  <2> QED BY <1>2, <1>3, <1>4, <2>1, <2>2
          DEF ArenaInv, TypeOK, FastMalloc, blockVars, modeVars, growthVars
<1>6. bump.ptr + Span(want) <= end
  <2>1. RegionSize(bump.block) = end
    BY DEF ArenaInv, BumpInRegion, RegionSize, Extent
  <2>2. bump.ptr \in Nat /\ end \in Nat /\ bump.ptr <= end
    BY DEF ArenaInv, TypeOK, BumpInRegion
  <2>3. Has = end - bump.ptr
    BY <2>1, <2>2 DEF Has, Monus
  <2>4. Has >= Span(want)
    BY DEF FastMalloc
  <2> QED BY <1>1, <2>2, <2>3, <2>4
<1>7. BumpInRegion'
  BY <1>3, <1>6 DEF ArenaInv, BumpInRegion, Extent
<1>8. InBounds'
  <2> SUFFICES ASSUME NEW s \in DOMAIN handles', NonEmpty(handles'[s])
               PROVE  /\ EndOf(handles'[s]) <= Extent(handles'[s].block)
                      /\ handles'[s].block = bump.block => EndOf(handles'[s]) <= bump.ptr + Span(want)
    BY <1>3 DEF InBounds, NonEmpty, EndOf, Extent
  <2>1. CASE s = slot
    <3>1. EndOf(h) = bump.ptr + Span(want) /\ h.block = bump.block
      BY DEF EndOf
    <3>2. handles'[s] = h /\ end = Extent(h.block)
      BY <2>1, <1>2, <3>1 DEF ArenaInv, BumpInRegion
    <3> HIDE DEF h
    <3> QED BY <3>1, <3>2, <1>1, <1>6 DEF ArenaInv, TypeOK
  <2>2. CASE s # slot
    <3>1. s \in DOMAIN handles /\ handles'[s] = handles[s]
      BY <2>2, <1>2
    <3>2. handles[s] \in Handle
      BY <3>1 DEF ArenaInv, TypeOK
    <3>3. /\ EndOf(handles[s]) <= Extent(handles[s].block)
          /\ handles[s].block = bump.block => EndOf(handles[s]) <= bump.ptr
      BY <3>1 DEF ArenaInv, InBounds
    <3>4. Span(handles[s].size) \in Nat
      BY <3>2, SpanBound DEF Handle
    <3>5. EndOf(handles[s]) \in Nat
      BY <3>2, <3>4 DEF EndOf, Handle
    <3>6. bump.ptr \in Nat
      BY DEF ArenaInv, TypeOK
    <3> QED BY <3>1, <3>3, <3>5, <3>6, <1>1
  <2> QED BY <2>1, <2>2
<1>9. NoOverlap'
  <2>1. \A s \in DOMAIN handles \ {slot} : Apart(handles[s], h) /\ Apart(h, handles[s])
    BY DEF Apart, ArenaInv, InBounds
  <2> QED BY <2>1, <1>2 DEF ArenaInv, NoOverlap, Apart, NonEmpty, EndOf
<1>10. Fresh'
  BY <1>3 DEF Fresh
<1> QED BY <1>5, <1>7, <1>8, <1>9, <1>10 DEF ArenaInv

(* A block is never smaller than the span it is bought for.                 *)
LEMMA NextBlockFits ==
  ASSUME TypeOK, NEW span \in Nat
  PROVE  /\ NextBlockSize(span).size \in Nat
         /\ NextBlockSize(span).size >= span
<1> DEFINE regular   == Lesser(2 * lastBlockSize, maxBlockSize)
           hinted    == Lesser(2 * sizeHint, maxBlockSize)
           candidate == IF span > regular THEN hinted ELSE regular
<1>1. \A x, y \in Nat : Lesser(x, y) \in Nat
  BY DEF Lesser
<1>2. 2 * lastBlockSize \in Nat /\ 2 * sizeHint \in Nat /\ maxBlockSize \in Nat
  <2>1. lastBlockSize \in Nat /\ sizeHint \in Nat /\ maxBlockSize \in Nat
    BY DEF TypeOK
  <2> QED BY <2>1
<1>3. regular \in Nat /\ hinted \in Nat
  BY <1>1, <1>2
<1>4. candidate \in Nat
  BY <1>3
<1> QED BY <1>4 DEF NextBlockSize

(* Hence slow_malloc places the allocation at the start of the new block:   *)
(* as a one-off, or because the new block has more room than the old one.   *)
LEMMA SlowMallocEffect ==
  ASSUME ArenaInv, NEW slot \in Slots, NEW want \in Nat,
         SlowMalloc(slot, want)
  PROVE  LET new == Len(blocks) + 1
             data == NextBlockSize(Span(want)).size
         IN /\ Hold(slot, [block |-> new, offset |-> 0, size |-> want])
            /\ blocks' = Append(blocks, data)
            /\ spaceAllocated' = spaceAllocated + (data + MemblockReserve)
            /\ total' = total + (data + MemblockReserve)
            /\ \/ bump' = bump /\ end' = end
               \/ bump' = [block |-> new, ptr |-> Span(want)] /\ end' = data
<1> DEFINE span == Span(want)
           next == NextBlockSize(span)
<1>1. span \in Nat /\ next.size \in Nat /\ next.size >= span
  BY SpanBound, NextBlockFits DEF ArenaInv
<1>2. Has \in Nat /\ Has < span
  <2>1. /\ bump.block \in Nat /\ bump.block <= Len(blocks) /\ bump.ptr \in Nat
        /\ end \in Nat /\ blocks \in Seq(Nat)
    BY DEF ArenaInv, TypeOK
  <2>2. RegionSize(bump.block) \in Nat
    BY <2>1 DEF RegionSize
  <2>3. Has \in Nat
    BY <2>1, <2>2 DEF Has, Monus
  <2>4. Has < span
    BY DEF SlowMalloc
  <2> QED BY <2>3, <2>4
<1>3. next.size > Has
  BY <1>1, <1>2
<1>4. AddBlock(next.size)
  BY DEF SlowMalloc
<1> HIDE DEF next
<1> QED BY <1>4, <1>1, <1>3 DEF SlowMalloc, AddBlock, next

(* A new block holds the new allocation and nothing else.                   *)
LEMMA SlowMallocInv ==
  ASSUME ArenaInv, created, NEW slot \in Slots, NEW want \in Nat,
         SlowMalloc(slot, want)
  PROVE  ArenaInv'
<1> DEFINE new  == Len(blocks) + 1
           data == NextBlockSize(Span(want)).size
           h    == [block |-> new, offset |-> 0, size |-> want]
<1>1. Span(want) \in Nat /\ data \in Nat /\ data >= Span(want)
  BY SpanBound, NextBlockFits DEF ArenaInv
<1>2. /\ Hold(slot, h) /\ blocks' = Append(blocks, data)
      /\ spaceAllocated' = spaceAllocated + (data + MemblockReserve)
      /\ total' = total + (data + MemblockReserve)
      /\ \/ bump' = bump /\ end' = end
         \/ bump' = [block |-> new, ptr |-> Span(want)] /\ end' = data
  BY SlowMallocEffect
<1>3. buffer' = buffer /\ created' = created
  BY DEF SlowMalloc, modeVars
<1> HIDE DEF data
<1>4. /\ DOMAIN handles' = DOMAIN handles \cup {slot}
      /\ handles'[slot] = h
      /\ \A s \in DOMAIN handles \ {slot} : handles'[s] = handles[s]
      /\ handles' = [s \in DOMAIN handles' |-> handles'[s]]
  BY <1>2, HoldEffect
<1>5. blocks \in Seq(Nat) /\ blocks' \in Seq(Nat)
  BY <1>1, <1>2 DEF ArenaInv, TypeOK
<1>6. /\ Len(blocks') = new /\ new \in Nat /\ new > Len(blocks)
      /\ blocks'[new] = data
      /\ \A b \in 1..Len(blocks) : blocks'[b] = blocks[b]
  BY <1>1, <1>2, <1>5
<1>7. h \in Handle /\ h.block = new /\ EndOf(h) = Span(want)
  BY <1>1, <1>6 DEF Handle, EndOf
<1> HIDE DEF h, new
<1> DEFINE ext(b) == IF b = 0 THEN buffer' ELSE blocks'[b]
<1>8. \A s \in DOMAIN handles \ {slot} :
        /\ handles[s] \in Handle /\ handles[s].block <= Len(blocks)
        /\ handles[s].block # new
        /\ ext(handles[s].block) = Extent(handles[s].block)
  <2> TAKE s \in DOMAIN handles \ {slot}
  <2>1. handles[s] \in Handle /\ handles[s].block <= Len(blocks)
    BY DEF ArenaInv, TypeOK
  <2>2. handles[s].block \in Nat
    BY <2>1 DEF Handle
  <2> QED BY <2>1, <2>2, <1>3, <1>4, <1>5, <1>6 DEF Extent
<1>9. TypeOK'
  <2>1. DOMAIN handles' \subseteq Slots /\ handles' \in [DOMAIN handles' -> Handle]
    BY <1>4, <1>7 DEF ArenaInv, TypeOK
  <2>2. \A s \in DOMAIN handles' : handles'[s].block <= Len(blocks')
    BY <1>4, <1>5, <1>6, <1>7, <1>8 DEF Handle
  <2>3. /\ bump' \in [block : Nat, ptr : Nat] /\ end' \in Nat
        /\ bump'.block <= Len(blocks')
    <3>1. /\ bump \in [block : Nat, ptr : Nat] /\ end \in Nat
          /\ bump.block \in Nat /\ bump.block <= Len(blocks)
      BY DEF ArenaInv, TypeOK
    <3>2. CASE bump' = bump /\ end' = end
      BY <3>1, <3>2, <1>5, <1>6
    <3>3. CASE bump' = [block |-> new, ptr |-> Span(want)] /\ end' = data
      BY <3>3, <1>1, <1>6
    <3> QED BY <1>2, <3>2, <3>3
  <2>4. lastBlockSize' \in Nat /\ sizeHint' \in Nat
    <3>1. Lesser(sizeHint + (Span(want) \div 2), maxBlockSize \div 2) \in Nat
      <4>1. \A x \in Nat : x \div 2 \in Nat
        OBVIOUS
      <4>2. sizeHint \in Nat /\ maxBlockSize \in Nat /\ Span(want) \in Nat
        BY <1>1 DEF ArenaInv, TypeOK
      <4>3. sizeHint + (Span(want) \div 2) \in Nat /\ maxBlockSize \div 2 \in Nat
        BY <4>1, <4>2
      <4> QED BY <4>3 DEF Lesser
    <3> QED BY <1>1, <3>1 DEF SlowMalloc, UpdateGrowthState, ArenaInv, TypeOK, data
  <2>5. spaceAllocated' \in Nat /\ total' \in Nat
    <3>1. /\ spaceAllocated \in Nat /\ total \in Nat
          /\ MemblockReserve \in Nat /\ data \in Nat
      BY <1>1, ConfigAssumption DEF ArenaInv, TypeOK
    <3>2. /\ spaceAllocated' = spaceAllocated + (data + MemblockReserve)
          /\ total' = total + (data + MemblockReserve)
      BY <1>2
    <3> QED BY <3>1, <3>2
  <2>6. UNCHANGED modeVars
    BY DEF SlowMalloc
  <2> QED BY <1>5, <2>1, <2>2, <2>3, <2>4, <2>5, <2>6 DEF ArenaInv, TypeOK, modeVars
<1>10. BumpInRegion'
  <2>1. CASE bump' = bump /\ end' = end
    <3>1. bump.block \in Nat /\ bump.block <= Len(blocks)
      BY DEF ArenaInv, TypeOK
    <3>2. ext(bump.block) = Extent(bump.block)
      BY <3>1, <1>3, <1>5, <1>6 DEF Extent
    <3>3. bump.ptr <= end /\ end = Extent(bump.block)
      BY DEF ArenaInv, BumpInRegion
    <3> QED BY <2>1, <3>2, <3>3 DEF BumpInRegion, Extent
  <2>2. CASE bump' = [block |-> new, ptr |-> Span(want)] /\ end' = data
    BY <2>2, <1>1, <1>5, <1>6 DEF BumpInRegion, Extent
  <2> QED BY <1>2, <2>1, <2>2
<1>11. InBounds'
  <2> SUFFICES ASSUME NEW s \in DOMAIN handles', NonEmpty(handles'[s])
               PROVE  /\ EndOf(handles'[s]) <= ext(handles'[s].block)
                      /\ handles'[s].block = bump'.block => EndOf(handles'[s]) <= bump'.ptr
    BY DEF InBounds, NonEmpty, EndOf, Extent
  <2>1. CASE s = slot
    <3>1. ext(new) = data
      BY <1>5, <1>6
    <3>2. bump'.block = new => bump'.ptr = Span(want)
      <4>1. bump.block \in Nat /\ bump.block <= Len(blocks) /\ Len(blocks) \in Nat
        BY DEF ArenaInv, TypeOK
      <4>2. bump.block # new
        BY <4>1, <1>6
      <4>3. CASE bump' = bump
        BY <4>2, <4>3
      <4>4. CASE bump' = [block |-> new, ptr |-> Span(want)]
        BY <4>4
      <4> QED BY <1>2, <4>3, <4>4
    <3> QED BY <2>1, <3>1, <3>2, <1>1, <1>4, <1>7
  <2>2. CASE s # slot
    <3>1. s \in DOMAIN handles \ {slot} /\ handles'[s] = handles[s]
      BY <2>2, <1>4
    <3>2. bump'.block = handles[s].block => bump' = bump
      BY <1>2, <1>8, <3>1
    <3> QED BY <3>1, <3>2, <1>8 DEF ArenaInv, InBounds
  <2> QED BY <2>1, <2>2
<1>12. NoOverlap'
  <2>1. \A s \in DOMAIN handles \ {slot} : Apart(handles[s], h) /\ Apart(h, handles[s])
    BY <1>7, <1>8 DEF Apart
  <2> QED BY <2>1, <1>4 DEF ArenaInv, NoOverlap, Apart, NonEmpty, EndOf
<1>13. Fresh'
  BY <1>3 DEF Fresh
<1> QED BY <1>9, <1>10, <1>11, <1>12, <1>13 DEF ArenaInv

(* The numbers a handle in use gives rise to.                               *)
LEMMA HandleTypes ==
  ASSUME TypeOK, NEW s \in DOMAIN handles
  PROVE  /\ handles[s] \in Handle /\ handles[s].block <= Len(blocks)
         /\ Span(handles[s].size) \in Nat /\ EndOf(handles[s]) \in Nat
         /\ Extent(handles[s].block) \in Nat
<1>1. handles[s] \in Handle /\ handles[s].block <= Len(blocks)
  BY DEF TypeOK
<1>2. handles[s].block \in Nat /\ handles[s].offset \in Nat /\ handles[s].size \in Nat
  BY <1>1 DEF Handle
<1>3. Span(handles[s].size) \in Nat
  BY <1>2, SpanBound
<1>4. EndOf(handles[s]) \in Nat
  BY <1>2, <1>3 DEF EndOf
<1>5. Extent(handles[s].block) \in Nat
  <2>1. buffer \in Nat /\ blocks \in Seq(Nat)
    BY DEF TypeOK
  <2> QED BY <1>1, <1>2, <2>1 DEF Extent
<1> QED BY <1>1, <1>3, <1>4, <1>5

(* Nothing in the current region lies above its last allocation, even when  *)
(* several empty handles claim to be the last one.                          *)
LEMMA LastIsTop ==
  ASSUME ArenaInv, NEW slot \in DOMAIN handles, WasLastAlloc(handles[slot]),
         NEW s \in DOMAIN handles \ {slot}, NonEmpty(handles[s]),
         handles[s].block = bump.block
  PROVE  EndOf(handles[s]) <= handles[slot].offset
<1>1. handles[s] \in Handle /\ handles[slot] \in Handle
  BY DEF ArenaInv, TypeOK
<1>2. Span(handles[s].size) \in Nat /\ Span(handles[slot].size) \in Nat
  BY <1>1, SpanBound DEF Handle
<1>3. EndOf(handles[s]) <= bump.ptr
  BY DEF ArenaInv, InBounds
<1>4. Apart(handles[s], handles[slot])
  BY DEF ArenaInv, NoOverlap
<1> QED BY <1>1, <1>2, <1>3, <1>4 DEF Apart, WasLastAlloc, EndOf, NonEmpty, Handle

(* A handle resized in place keeps the invariant when it is the last one    *)
(* and the bump pointer follows its end, or when it gives bytes up.         *)
LEMMA InPlaceInv ==
  ASSUME ArenaInv, created, NEW slot \in DOMAIN handles, NEW want \in Nat,
         NEW p \in Nat, p <= end,
         bump' = [block |-> bump.block, ptr |-> p],
         Resized(slot, want), UNCHANGED <<modeVars, blockVars, growthVars, end>>,
         \/ WasLastAlloc(handles[slot]) /\ p = handles[slot].offset + Span(want)
         \/ p = bump.ptr /\ Span(want) <= Span(handles[slot].size)
  PROVE  ArenaInv'
<1> DEFINE h == handles[slot]
           g == [block |-> h.block, offset |-> h.offset, size |-> want]
<1>1. /\ h \in Handle /\ h.block <= Len(blocks) /\ g \in Handle
      /\ g.block = h.block /\ g.offset = h.offset
      /\ EndOf(g) = h.offset + Span(want)
  BY DEF ArenaInv, TypeOK, Handle, EndOf
<1>2. /\ DOMAIN handles' = DOMAIN handles /\ handles'[slot] = g
      /\ \A s \in DOMAIN handles \ {slot} : handles'[s] = handles[s]
      /\ handles' \in [DOMAIN handles -> Handle]
  <2>1. handles \in [DOMAIN handles -> Handle]
    BY DEF ArenaInv, TypeOK
  <2>2. [h EXCEPT !.size = want] = g
    BY <1>1 DEF Handle
  <2> QED BY <1>1, <2>1, <2>2 DEF Resized
<1>3. Span(want) \in Nat /\ Span(h.size) \in Nat
  BY <1>1, SpanBound DEF Handle
<1>4. /\ bump \in [block : Nat, ptr : Nat] /\ bump.block <= Len(blocks)
      /\ bump.ptr <= end /\ end = Extent(bump.block) /\ end \in Nat
  BY DEF ArenaInv, TypeOK, BumpInRegion
<1>5. /\ blocks' = blocks /\ buffer' = buffer /\ end' = end /\ created' = created
      /\ bump'.block = bump.block /\ bump'.ptr = p
  BY DEF blockVars, modeVars
<1> HIDE DEF g
<1>6. TypeOK'
  <2>1. DOMAIN handles' \subseteq Slots /\ handles' \in [DOMAIN handles' -> Handle]
    BY <1>2 DEF ArenaInv, TypeOK
  <2>2. \A s \in DOMAIN handles' : handles'[s].block <= Len(blocks')
    BY <1>1, <1>2, <1>5 DEF ArenaInv, TypeOK
  <2>3. bump' \in [block : Nat, ptr : Nat] /\ bump'.block <= Len(blocks')
    BY <1>4, <1>5
  <2> QED BY <2>1, <2>2, <2>3, <1>5
          DEF ArenaInv, TypeOK, blockVars, modeVars, growthVars
<1>7. BumpInRegion'
  BY <1>4, <1>5 DEF BumpInRegion, Extent
<1>8. \A s \in DOMAIN handles \ {slot} :
        NonEmpty(handles[s]) =>
          /\ EndOf(handles[s]) <= Extent(handles[s].block)
          /\ handles[s].block = bump.block => EndOf(handles[s]) <= p
  <2> TAKE s \in DOMAIN handles \ {slot}
  <2> HAVE NonEmpty(handles[s])
  <2>1. EndOf(handles[s]) \in Nat /\ handles[slot].offset \in Nat
    BY <1>1, HandleTypes DEF ArenaInv, Handle
  <2>2. /\ EndOf(handles[s]) <= Extent(handles[s].block)
        /\ handles[s].block = bump.block => EndOf(handles[s]) <= bump.ptr
    BY DEF ArenaInv, InBounds
  <2>3. CASE WasLastAlloc(h) /\ p = h.offset + Span(want)
    <3>1. handles[s].block = bump.block => EndOf(handles[s]) <= h.offset
      BY <2>3, LastIsTop
    <3> QED BY <2>1, <2>2, <2>3, <3>1, <1>3
  <2>4. CASE p = bump.ptr
    BY <2>2, <2>4
  <2> QED BY <2>3, <2>4
<1>9. NonEmpty(g) => /\ EndOf(g) <= Extent(g.block)
                     /\ g.block = bump.block => EndOf(g) <= p
  <2> HAVE NonEmpty(g)
  <2>1. CASE WasLastAlloc(h) /\ p = h.offset + Span(want)
    BY <2>1, <1>1, <1>4 DEF WasLastAlloc
  <2>2. CASE p = bump.ptr /\ Span(want) <= Span(h.size)
    <3>1. Span(want) > 0
      BY <1>2, <1>1 DEF NonEmpty, g
    <3>2. NonEmpty(h)
      BY <2>2, <3>1, <1>3 DEF NonEmpty
    <3>3. /\ EndOf(h) <= Extent(h.block)
          /\ h.block = bump.block => EndOf(h) <= bump.ptr
      BY <3>2 DEF ArenaInv, InBounds
    <3>4. Extent(h.block) \in Nat
      BY HandleTypes DEF ArenaInv
    <3>5. EndOf(g) <= EndOf(h) /\ EndOf(g) \in Nat /\ EndOf(h) \in Nat
      BY <2>2, <1>1, <1>3 DEF EndOf, Handle
    <3> QED BY <2>2, <1>1, <1>4, <3>3, <3>4, <3>5
  <2> QED BY <2>1, <2>2
<1>10. InBounds'
  BY <1>2, <1>5, <1>8, <1>9 DEF InBounds, NonEmpty, EndOf, Extent
<1>11. \A s \in DOMAIN handles \ {slot} : Apart(handles[s], g) /\ Apart(g, handles[s])
  <2> TAKE s \in DOMAIN handles \ {slot}
  <2>1. CASE ~NonEmpty(handles[s]) \/ ~NonEmpty(g) \/ handles[s].block # h.block
    BY <2>1, <1>1 DEF Apart
  <2>2. CASE NonEmpty(handles[s]) /\ NonEmpty(g) /\ handles[s].block = h.block
    <3>1. CASE WasLastAlloc(h)
      BY <3>1, <2>2, <1>1, LastIsTop DEF Apart, WasLastAlloc
    <3>2. CASE Span(want) <= Span(h.size)
      <4>1. NonEmpty(h) /\ EndOf(g) <= EndOf(h)
        BY <3>2, <2>2, <1>1, <1>3 DEF NonEmpty, EndOf, Handle, g
      <4>2. Apart(handles[s], h)
        BY DEF ArenaInv, NoOverlap
      <4>3. handles[s] \in Handle
        BY DEF ArenaInv, TypeOK
      <4>4. EndOf(g) \in Nat /\ EndOf(h) \in Nat
        BY <1>1, <1>3 DEF EndOf, Handle
      <4> QED BY <4>1, <4>2, <4>3, <4>4, <2>2, <1>1 DEF Apart, Handle
    <3> QED BY <3>1, <3>2
  <2> QED BY <2>1, <2>2
<1>12. NoOverlap'
  BY <1>2, <1>11 DEF ArenaInv, NoOverlap, Apart, NonEmpty, EndOf
<1>13. Fresh'
  BY <1>5 DEF Fresh
<1> QED BY <1>6, <1>7, <1>10, <1>12, <1>13 DEF ArenaInv

-----------------------------------------------------------------------------
(* The operations *)

LEMMA MallocIntoInv ==
  ASSUME ArenaInv, created, NEW slot \in Slots, NEW want \in Nat,
         MallocInto(slot, want)
  PROVE  ArenaInv'
BY FastMallocInv, SlowMallocInv DEF MallocInto

LEMMA HasType ==
  ASSUME ArenaInv
  PROVE  Has \in Nat /\ bump.ptr + Has = end
<1>1. RegionSize(bump.block) = end
  BY DEF ArenaInv, BumpInRegion, RegionSize, Extent
<1> QED BY <1>1 DEF Has, Monus, ArenaInv, TypeOK, BumpInRegion

LEMMA TryExtendInv ==
  ASSUME ArenaInv, created, NEW slot \in Slots, NEW want \in Nat,
         TryExtend(slot, want)
  PROVE  ArenaInv'
<1> DEFINE h == handles[slot]
           x == Extension(h, want)
<1>1. slot \in DOMAIN handles /\ WasLastAlloc(h) /\ Has >= x
  BY DEF TryExtend, CanExtend
<1>2. /\ h \in Handle /\ Span(h.size) \in Nat /\ Span(want) \in Nat
      /\ h.offset \in Nat /\ bump.ptr \in Nat /\ end \in Nat
  BY <1>1, HandleTypes, SpanBound DEF ArenaInv, TypeOK, Handle
<1>3. x \in Nat /\ (Span(want) >= Span(h.size) => x = Span(want) - Span(h.size))
        /\ (Span(want) < Span(h.size) => x = 0)
  BY <1>2 DEF Extension, Monus
<1>4. bump' = [block |-> bump.block, ptr |-> bump.ptr + x]
  BY DEF TryExtend, ArenaInv, TypeOK
<1> HIDE DEF x
<1>5. bump.ptr + x \in Nat /\ bump.ptr + x <= end
  BY <1>1, <1>2, <1>3, HasType
<1>6. h.offset + Span(h.size) = bump.ptr
  BY <1>1 DEF WasLastAlloc
<1>7. \/ bump.ptr + x = h.offset + Span(want)
      \/ bump.ptr + x = bump.ptr /\ Span(want) <= Span(h.size)
  BY <1>2, <1>3, <1>6
<1> QED BY <1>1, <1>4, <1>5, <1>7, InPlaceInv DEF TryExtend

LEMMA ShrinkInv ==
  ASSUME ArenaInv, created, NEW slot \in DOMAIN handles, NEW want \in Nat,
         ShrinkInPlace(slot, want)
  PROVE  ArenaInv'
<1> DEFINE h == handles[slot]
<1>1. /\ h \in Handle /\ Span(h.size) \in Nat /\ Span(want) \in Nat
      /\ h.offset \in Nat /\ bump.ptr \in Nat /\ end \in Nat /\ bump.ptr <= end
      /\ bump = [block |-> bump.block, ptr |-> bump.ptr]
  BY HandleTypes, SpanBound DEF ArenaInv, TypeOK, Handle, BumpInRegion
<1>2. Span(want) <= Span(h.size)
  BY <1>1, SpanMonotone DEF ShrinkInPlace, Handle
<1>3. CASE WasLastAlloc(h)
  <2>1. bump' = [block |-> bump.block, ptr |-> h.offset + Span(want)]
    BY <1>3 DEF ShrinkInPlace, ArenaInv, TypeOK
  <2>2. h.offset + Span(want) \in Nat /\ h.offset + Span(want) <= end
    BY <1>1, <1>2, <1>3 DEF WasLastAlloc
  <2> QED BY <1>3, <2>1, <2>2, InPlaceInv DEF ShrinkInPlace
<1>4. CASE ~WasLastAlloc(h)
  <2>1. bump' = [block |-> bump.block, ptr |-> bump.ptr]
    BY <1>1, <1>4 DEF ShrinkInPlace
  <2> QED BY <1>1, <1>2, <2>1, InPlaceInv DEF ShrinkInPlace
<1> QED BY <1>3, <1>4

LEMMA SetMaxInv ==
  ASSUME ArenaInv, NEW m \in MaxBlockSizes, SetMaxBlockSize(m)
  PROVE  ArenaInv'
BY InputAssumption
   DEF SetMaxBlockSize, ArenaInv, TypeOK, Fresh, BumpInRegion, InBounds, NoOverlap,
       Extent, Apart, NonEmpty, EndOf, blockVars, growthVars

LEMMA NextInv == ArenaInv /\ [Next]_vars => ArenaInv'
<1> SUFFICES ASSUME ArenaInv, [Next]_vars PROVE ArenaInv'
  OBVIOUS
<1> USE InputAssumption
<1>1. CASE NewArena
  BY <1>1, NewArenaInv
<1>2. CASE \E m \in MaxBlockSizes : SetMaxBlockSize(m)
  BY <1>2, SetMaxInv
<1>3. CASE \E slot \in Slots, want \in Sizes :
             \/ Malloc(slot, want) \/ Realloc(slot, want)
             \/ ShrinkLast(slot, want) \/ TryExtend(slot, want)
  <2> PICK slot \in Slots, want \in Sizes :
             \/ Malloc(slot, want) \/ Realloc(slot, want)
             \/ ShrinkLast(slot, want) \/ TryExtend(slot, want)
    BY <1>3
  <2>1. want \in Nat
    OBVIOUS
  <2>2. slot \in DOMAIN handles => created
    BY DEF ArenaInv, Fresh
  <2>3. CASE Malloc(slot, want)
    BY <2>1, <2>3, MallocIntoInv, UnchangedInv DEF Malloc, RefuseMalloc
  <2>4. CASE Realloc(slot, want)
    <3>1. slot \in DOMAIN handles /\ created
      BY <2>2, <2>4 DEF Realloc
    <3>2. CASE ShrinkInPlace(slot, want)
      BY <2>1, <3>1, <3>2, ShrinkInv
    <3>3. CASE GrowInPlace(slot, want)
      BY <2>1, <3>1, <3>3, TryExtendInv DEF GrowInPlace
    <3>4. CASE Move(slot, want)
      BY <2>1, <3>1, <3>4, MallocIntoInv, UnchangedInv DEF Move, RefuseMalloc
    <3> QED BY <2>4, <3>2, <3>3, <3>4 DEF Realloc
  <2>5. CASE ShrinkLast(slot, want)
    <3>1. slot \in DOMAIN handles /\ created
      BY <2>2, <2>5 DEF ShrinkLast
    <3>2. ShrinkInPlace(slot, want)
      BY <2>5 DEF ShrinkLast, ShrinkInPlace
    <3> QED BY <2>1, <3>1, <3>2, ShrinkInv
  <2>6. CASE TryExtend(slot, want)
    <3>1. created
      BY <2>2, <2>6 DEF TryExtend
    <3> QED BY <2>1, <2>6, <3>1, TryExtendInv
  <2> QED BY <2>3, <2>4, <2>5, <2>6
<1>4. CASE UNCHANGED vars
  BY <1>4, UnchangedInv
<1> QED BY <1>1, <1>2, <1>3, <1>4 DEF Next

(* In every reachable state of every arena, whatever its configuration and  *)
(* the requests made: the handles in use lie within their blocks and below  *)
(* the bump pointer, and no two of them share a byte (malloc, realloc,      *)
(* shrink_last and try_extend of arena.rs).                                 *)
THEOREM ArenaSafe == Spec => []ArenaInv
<1> QED BY InitInv, NextInv, PTL DEF Spec

-----------------------------------------------------------------------------
(* A slow allocation of an arena that has blocks either keeps the current   *)
(* region or replaces it by one with more room left.                        *)
LEMMA SlowMallocKeepsRoom ==
  ASSUME ArenaInv, ArenaInv', blocks # << >>, NEW slot \in Slots,
         NEW want \in Nat, SlowMalloc(slot, want)
  PROVE  Has' >= Has
<1> DEFINE span == Span(want)
           next == NextBlockSize(span)
<1>1. span \in Nat /\ next.size \in Nat /\ next.size >= span /\ Has \in Nat
  BY SpanBound, NextBlockFits, HasType DEF ArenaInv
<1>2. Has' \in Nat /\ bump'.ptr + Has' = end'
  <2>1. RegionSize(bump.block)' = end'
    BY DEF ArenaInv, BumpInRegion, RegionSize, Extent
  <2>2. bump'.ptr \in Nat /\ end' \in Nat /\ bump'.ptr <= end'
    BY DEF ArenaInv, TypeOK, BumpInRegion
  <2>3. Has' = Monus(end', bump'.ptr)
    BY <2>1 DEF Has, Monus
  <2> QED BY <2>2, <2>3 DEF Monus
<1>3. CASE next.oneOff
  <2>1. next.size = span
    BY <1>3 DEF NextBlockSize
  <2> HIDE DEF next
  <2>2. WouldReduceFreeSpace(Has, span, next.size)
    BY <1>1, <2>1 DEF WouldReduceFreeSpace
  <2>3. bump' = bump /\ end' = end
    BY <1>3, <2>2 DEF SlowMalloc, next
  <2>4. bump.ptr \in Nat /\ end \in Nat /\ bump.ptr + Has = end
    BY HasType DEF ArenaInv, TypeOK
  <2> QED BY <1>1, <1>2, <2>3, <2>4
<1>4. CASE ~next.oneOff
  <2>1. ~WouldReduceFreeSpace(Has, span, next.size)
    BY <1>4 DEF NextBlockSize
  <2>2. next.size > Has + span
    BY <1>1, <2>1 DEF WouldReduceFreeSpace
  <2> HIDE DEF next
  <2>3. bump' = [block |-> Len(blocks) + 1, ptr |-> span] /\ end' = next.size
    BY <1>1, <1>4, <2>2 DEF SlowMalloc, next
  <2> QED BY <1>1, <1>2, <2>2, <2>3
<1> QED BY <1>3, <1>4

(* The room an arena has left never shrinks because it had to add a block   *)
(* (_upb_Arena_WouldReduceFreeSpace, as next_block_size and slow_malloc use *)
(* it).                                                                     *)
THEOREM RoomIsKept == Spec => FreeSpaceKept
<1>1. ASSUME ArenaInv, ArenaInv', [Next]_vars, blocks # << >>, blocks' # blocks
      PROVE  Has' >= Has
  <2>1. blocks' = blocks \/ \E slot \in Slots, want \in Sizes : SlowMalloc(slot, want)
    <3>1. NewArena => created = FALSE
      BY DEF NewArena, NewArenaInBuffer, NewArenaSlow, RefuseArena
    <3>2. ~NewArena
      BY <1>1, <3>1 DEF ArenaInv, Fresh
    <3>3. ASSUME NEW slot \in Slots, NEW want \in Sizes, Malloc(slot, want)
          PROVE  blocks' = blocks \/ SlowMalloc(slot, want)
      BY <3>3 DEF Malloc, MallocInto, FastMalloc, RefuseMalloc, blockVars, vars
    <3>4. ASSUME NEW slot \in Slots, NEW want \in Sizes, Realloc(slot, want)
          PROVE  blocks' = blocks \/ SlowMalloc(slot, want)
      <4>1. CASE ShrinkInPlace(slot, want)
        BY <4>1 DEF ShrinkInPlace, blockVars
      <4>2. CASE GrowInPlace(slot, want)
        BY <4>2 DEF GrowInPlace, TryExtend, blockVars
      <4>3. CASE Move(slot, want)
        BY <4>3 DEF Move, MallocInto, FastMalloc, RefuseMalloc, blockVars, vars
      <4> QED BY <3>4, <4>1, <4>2, <4>3 DEF Realloc
    <3>5. ASSUME NEW slot \in Slots, NEW want \in Sizes,
                 ShrinkLast(slot, want) \/ TryExtend(slot, want)
          PROVE  blocks' = blocks
      BY <3>5 DEF ShrinkLast, TryExtend, blockVars
    <3>6. ASSUME NEW n \in MaxBlockSizes, SetMaxBlockSize(n)
          PROVE  blocks' = blocks
      BY <3>6 DEF SetMaxBlockSize, blockVars
    <3>7. vars' = vars => blocks' = blocks
      BY DEF vars, blockVars
    <3> QED BY <1>1, <3>2, <3>3, <3>4, <3>5, <3>6, <3>7 DEF Next
  <2> QED BY <1>1, <2>1, SlowMallocKeepsRoom, InputAssumption
<1> QED BY InitInv, NextInv, <1>1, PTL DEF Spec, FreeSpaceKept

-----------------------------------------------------------------------------
(* Refinement of Heap *)

RegionOf(h) == [space |-> h.block, lo |-> h.offset, size |-> h.size]

(* Handles whose spans do not meet are regions without a common byte.       *)
LEMMA ApartRegions ==
  ASSUME NEW h \in Handle, NEW g \in Handle, Apart(h, g)
  PROVE  ~H!Overlap(RegionOf(h), RegionOf(g))
<1>1. /\ Span(h.size) \in Nat /\ Span(g.size) \in Nat
      /\ Span(h.size) >= h.size /\ Span(g.size) >= g.size
  BY SpanBound DEF Handle
<1>2. /\ h.size \in Nat /\ g.size \in Nat /\ h.offset \in Nat /\ g.offset \in Nat
  BY DEF Handle
<1> QED BY <1>1, <1>2 DEF Apart, NonEmpty, EndOf, H!Overlap, RegionOf

(* A handle that was allocated, resized or moved is a private region, and   *)
(* no other region changes.                                                 *)
LEMMA RegionsAfter ==
  ASSUME ArenaInv', NEW slot \in DOMAIN handles',
         DOMAIN handles' = DOMAIN handles \cup {slot},
         \A s \in DOMAIN handles \ {slot} : handles'[s] = handles[s]
  PROVE  /\ H!ChangesOnly(slot)
         /\ HeapRegions'[slot].size = handles'[slot].size
         /\ H!Private(slot, HeapRegions'[slot])
<1>1. /\ DOMAIN HeapRegions = DOMAIN handles /\ DOMAIN HeapRegions' = DOMAIN handles'
      /\ \A s \in DOMAIN handles : HeapRegions[s] = RegionOf(handles[s])
      /\ \A s \in DOMAIN handles' : HeapRegions'[s] = RegionOf(handles'[s])
  BY DEF HeapRegions, RegionOf
<1>2. \A s \in DOMAIN handles \ {slot} : HeapRegions'[s] = HeapRegions[s]
  BY <1>1
<1>3. \A s \in DOMAIN handles \ {slot} :
        ~H!Overlap(HeapRegions'[slot], HeapRegions[s])
  <2> TAKE s \in DOMAIN handles \ {slot}
  <2>1. s \in DOMAIN handles' /\ slot # s
    OBVIOUS
  <2>2. /\ handles'[slot] \in Handle /\ handles'[s] \in Handle
        /\ Apart(handles'[slot], handles'[s])
    BY <2>1 DEF ArenaInv, TypeOK, NoOverlap, Apart, NonEmpty, EndOf
  <2> QED BY <1>1, <1>2, <2>2, ApartRegions
<1>4. HeapRegions'[slot].size = handles'[slot].size
  <2>1. HeapRegions'[slot] = RegionOf(handles'[slot])
    BY <1>1
  <2>2. RegionOf(handles'[slot]).size = handles'[slot].size
    BY DEF RegionOf
  <2> QED BY <2>1, <2>2
<1> QED BY <1>1, <1>2, <1>3, <1>4 DEF H!ChangesOnly, H!Private

(* Where a step puts the handle it was asked about.                         *)
LEMMA MallocIntoEffect ==
  ASSUME ArenaInv, NEW slot \in Slots, NEW want \in Nat, MallocInto(slot, want)
  PROVE  /\ DOMAIN handles' = DOMAIN handles \cup {slot}
         /\ handles'[slot].size = want
         /\ \A s \in DOMAIN handles \ {slot} : handles'[s] = handles[s]
<1>1. CASE FastMalloc(slot, want)
  <2> DEFINE h == [block |-> bump.block, offset |-> bump.ptr, size |-> want]
  <2>1. Hold(slot, h) /\ h.size = want
    BY <1>1 DEF FastMalloc
  <2> HIDE DEF h
  <2> QED BY <2>1, HoldEffect
<1>2. CASE SlowMalloc(slot, want)
  <2> DEFINE h == [block |-> Len(blocks) + 1, offset |-> 0, size |-> want]
  <2>1. Hold(slot, h) /\ h.size = want
    BY <1>2, SlowMallocEffect
  <2> HIDE DEF h
  <2> QED BY <2>1, HoldEffect
<1> QED BY <1>1, <1>2 DEF MallocInto

LEMMA ResizedEffect ==
  ASSUME ArenaInv, NEW slot \in DOMAIN handles, NEW want \in Nat, Resized(slot, want)
  PROVE  /\ DOMAIN handles' = DOMAIN handles \cup {slot}
         /\ handles'[slot].size = want
         /\ handles'[slot].block = handles[slot].block
         /\ handles'[slot].offset = handles[slot].offset
         /\ \A s \in DOMAIN handles \ {slot} : handles'[s] = handles[s]
<1>1. handles \in [DOMAIN handles -> Handle]
  BY DEF ArenaInv, TypeOK
<1>2. handles' = [handles EXCEPT ![slot] = [@ EXCEPT !.size = want]]
  BY DEF Resized
<1>3. DOMAIN handles' = DOMAIN handles
      /\ handles'[slot] = [handles[slot] EXCEPT !.size = want]
      /\ \A s \in DOMAIN handles \ {slot} : handles'[s] = handles[s]
  BY <1>1, <1>2
<1>4. handles[slot] \in Handle
  BY <1>1
<1>5. /\ handles'[slot].size = want
      /\ handles'[slot].block = handles[slot].block
      /\ handles'[slot].offset = handles[slot].offset
  BY <1>3, <1>4 DEF Handle
<1> QED BY <1>3, <1>5

LEMMA ResizedRefines ==
  ASSUME ArenaInv, ArenaInv', NEW slot \in DOMAIN handles, NEW want \in Nat,
         Resized(slot, want)
  PROVE  H!Resize(slot, want)
<1>1. /\ DOMAIN handles' = DOMAIN handles \cup {slot} /\ slot \in DOMAIN handles'
      /\ \A s \in DOMAIN handles \ {slot} : handles'[s] = handles[s]
  BY ResizedEffect
<1>2. /\ H!ChangesOnly(slot) /\ HeapRegions'[slot].size = want
      /\ H!Private(slot, HeapRegions'[slot])
  BY <1>1, RegionsAfter, ResizedEffect
<1>3. slot \in DOMAIN HeapRegions /\ H!SamePlace(HeapRegions'[slot], HeapRegions[slot])
  BY <1>1, ResizedEffect DEF HeapRegions, H!SamePlace
<1> QED BY <1>2, <1>3 DEF H!Resize

LEMMA ArenaNextRefines ==
  ASSUME ArenaInv, ArenaInv', [Next]_vars
  PROVE  [H!HeapNext]_HeapRegions
<1> USE InputAssumption
<1>1. ASSUME NEW slot \in Slots, NEW want \in Sizes, slot \notin DOMAIN handles,
             MallocInto(slot, want)
      PROVE  H!HeapNext
  <2>1. /\ H!ChangesOnly(slot) /\ HeapRegions'[slot].size = want
        /\ H!Private(slot, HeapRegions'[slot])
    BY <1>1, MallocIntoEffect, RegionsAfter
  <2>2. slot \notin DOMAIN HeapRegions
    BY <1>1 DEF HeapRegions
  <2> QED BY <2>1, <2>2 DEF H!HeapNext, H!Obtain
<1>2. ASSUME NEW slot \in Slots, NEW want \in Sizes, slot \in DOMAIN handles,
             MallocInto(slot, want), want > handles[slot].size
      PROVE  H!HeapNext
  <2>1. MallocInto(slot, want) /\ want > handles[slot].size
    BY <1>2
  <2>2. /\ H!ChangesOnly(slot) /\ HeapRegions'[slot].size = want
        /\ H!Private(slot, HeapRegions'[slot])
    BY <1>2, <2>1, MallocIntoEffect, RegionsAfter
  <2>3. slot \in DOMAIN HeapRegions /\ ~(want <= HeapRegions[slot].size)
    <3>1. handles[slot].size \in Nat
      BY <1>2, HandleTypes DEF ArenaInv, Handle
    <3>2. slot \in DOMAIN HeapRegions /\ HeapRegions[slot].size = handles[slot].size
      BY <1>2 DEF HeapRegions
    <3>3. want \in Nat
      BY <1>2
    <3>4. ~(want <= handles[slot].size)
      BY <2>1, <3>1, <3>3
    <3> QED BY <3>2, <3>4
  <2> QED BY <2>2, <2>3 DEF H!HeapNext, H!Resize
<1>3. ASSUME NEW slot \in Slots, NEW want \in Sizes, slot \in DOMAIN handles,
             Resized(slot, want)
      PROVE  H!HeapNext
  BY <1>3, ResizedRefines DEF H!HeapNext
<1>4. CASE handles' = handles
  BY <1>4 DEF HeapRegions
<1>5. CASE NewArena \/ \E m \in MaxBlockSizes : SetMaxBlockSize(m)
  BY <1>4, <1>5
     DEF NewArena, NewArenaInBuffer, NewArenaSlow, RefuseArena, SetMaxBlockSize, vars
<1>6. CASE \E slot \in Slots, want \in Sizes :
             \/ Malloc(slot, want) \/ Realloc(slot, want)
             \/ ShrinkLast(slot, want) \/ TryExtend(slot, want)
  BY <1>1, <1>2, <1>3, <1>4, <1>6
     DEF Malloc, Realloc, ShrinkInPlace, GrowInPlace, Move, RefuseMalloc, ShrinkLast,
         TryExtend, vars
<1> QED BY <1>4, <1>5, <1>6 DEF Next, vars

(* The arena, with all its blocks, one-offs and in-place changes, is the    *)
(* heap of private and stable regions its user relies on.                   *)
THEOREM ArenaIsHeap == Spec => ImplementsHeap
<1>1. Init => H!HeapInit
  BY DEF Init, H!HeapInit, HeapRegions
<1>2. ArenaInv /\ ArenaInv' /\ [Next]_vars => [H!HeapNext]_HeapRegions
  BY ArenaNextRefines
<1> QED BY InitInv, NextInv, <1>1, <1>2, PTL DEF Spec, ImplementsHeap, H!HeapSpec

-----------------------------------------------------------------------------
(* The accounts                                                             *)

AccountInv == ArenaInv /\ AccountExact

LEMMA ChargesShape ==
  ASSUME ArenaInv
  PROVE  /\ Len(blocks) \in Nat
         /\ Charges \in [1 .. Len(blocks) -> Nat]
<1>1. blocks \in Seq(Nat)
  BY DEF ArenaInv, TypeOK
<1>2. \A i \in 1 .. Len(blocks) : blocks[i] + MemblockReserve \in Nat
  BY <1>1, ConfigAssumption
<1> QED
  BY <1>1, <1>2 DEF Charges

(* An arena without blocks is charged nothing.                              *)
LEMMA NoCharges ==
  ASSUME blocks = << >>
  PROVE  SumOf(Charges) = 0
<1> DEFINE F == [i \in 0 .. 0 |-> 0]
<1>1. Len(blocks) = 0 /\ Charges \in [1 .. 0 -> Nat]
  BY DEF Charges
<1>2. SumsOf(F, Charges, 0) /\ F[0] = 0
  BY DEF SumsOf
<1> HIDE DEF F
<1> QED
  BY <1>1, <1>2, SumIs

LEMMA SameAccount ==
  ASSUME AccountExact, UNCHANGED <<blockVars, failAfter>>
  PROVE  AccountExact'
<1>1. UNCHANGED <<blocks, spaceAllocated, total, failAfter>>
  BY DEF blockVars
<1>2. Charges' = Charges
  BY <1>1 DEF Charges
<1> QED
  BY <1>1, <1>2 DEF AccountExact

(* One more block is charged once, to either account.                       *)
LEMMA BlockCharged ==
  ASSUME AccountInv, NEW data \in Nat,
         blocks' = Append(blocks, data),
         spaceAllocated' = spaceAllocated + (data + MemblockReserve),
         total' = total + (data + MemblockReserve),
         CanTake(data + MemblockReserve), failAfter' = failAfter
  PROVE  AccountExact'
<1> DEFINE n == Len(blocks)
           v == data + MemblockReserve
<1>1. blocks \in Seq(Nat) /\ n \in Nat /\ v \in Nat /\ Charges \in [1 .. n -> Nat]
  <2>1. ArenaInv /\ blocks \in Seq(Nat)
    BY DEF AccountInv, ArenaInv, TypeOK
  <2>2. v \in Nat
    BY ConfigAssumption
  <2>3. Charges \in [1 .. n -> Nat] /\ n \in Nat
    BY <2>1, ChargesShape
  <2> QED
    BY <2>1, <2>2, <2>3
<1>2. /\ Len(blocks') = n + 1 /\ blocks'[n + 1] = data
      /\ \A i \in 1 .. n : blocks'[i] = blocks[i]
  BY <1>1
<1>3. Added(Charges', Charges, v, n, Nat)
  <2>1. DOMAIN Charges' = 1 .. n + 1 /\ Charges' = [i \in 1 .. n + 1 |-> blocks'[i] + MemblockReserve]
    BY <1>2 DEF Charges
  <2>2. Charges'[n + 1] = v /\ \A i \in 1 .. n : Charges'[i] = Charges[i]
    BY <1>1, <1>2, <2>1 DEF Charges
  <2>3. \A i \in 1 .. n + 1 : Charges'[i] \in Nat
    <3>1. \A i \in 1 .. n + 1 : i = n + 1 \/ i \in 1 .. n
      BY <1>1
    <3> QED
      BY <1>1, <2>2, <3>1
  <2> QED
    BY <2>1, <2>2, <2>3 DEF Added
<1>4. SumOf(Charges') = SumOf(Charges) + v
  BY <1>1, <1>3, SumGrown
<1>5. spaceAllocated' = SumOf(Charges') /\ total' = spaceAllocated'
  BY <1>4 DEF AccountInv, AccountExact
<1>6. failAfter' # 0 => total' <= failAfter'
  BY DEF CanTake
<1> QED
  BY <1>5, <1>6 DEF AccountExact

LEMMA MallocAccount ==
  ASSUME AccountInv, NEW slot \in Slots, NEW want \in Nat, MallocInto(slot, want)
  PROVE  AccountExact'
<1>1. CASE FastMalloc(slot, want)
  BY <1>1, SameAccount DEF AccountInv, FastMalloc, modeVars
<1>2. CASE SlowMalloc(slot, want)
  <2> DEFINE data == NextBlockSize(Span(want)).size
  <2>1. /\ blocks' = Append(blocks, data)
        /\ spaceAllocated' = spaceAllocated + (data + MemblockReserve)
        /\ total' = total + (data + MemblockReserve)
    BY <1>2, SlowMallocEffect DEF AccountInv
  <2>2. data \in Nat
    BY SpanBound, NextBlockFits DEF AccountInv, ArenaInv
  <2>3. CanTake(data + MemblockReserve) /\ failAfter' = failAfter
    BY <1>2 DEF SlowMalloc, modeVars
  <2> QED
    BY <2>1, <2>2, <2>3, BlockCharged
<1> QED
  BY <1>1, <1>2 DEF MallocInto

LEMMA NewArenaAccount ==
  ASSUME AccountInv, NewArena
  PROVE  AccountExact'
<1>1. CASE \E n \in Buffers, alloc \in BOOLEAN : NewArenaInBuffer(n, alloc)
  BY <1>1, SameAccount DEF AccountInv, NewArenaInBuffer
<1>2. ASSUME NEW first \in Nat, NewArenaSlow(first)
      PROVE  AccountExact'
  <2> DEFINE data == FirstDataSize(first)
  <2>1. ~created /\ blocks = << >> /\ total = 0
    BY <1>2, NoCharges DEF NewArenaSlow, AccountInv, ArenaInv, Fresh, AccountExact
  <2>2. data \in Nat
    BY <1>2, SpanBound, ConfigAssumption DEF FirstDataSize, Greater, Span
  <2>3. spaceAllocated = 0
    BY <2>1 DEF AccountInv, AccountExact
  <2>4. /\ blocks' = Append(blocks, data)
        /\ spaceAllocated' = spaceAllocated + (data + MemblockReserve)
        /\ total' = total + (data + MemblockReserve)
        /\ CanTake(data + MemblockReserve) /\ failAfter' = failAfter
    <3>1. data + MemblockReserve \in Nat
      BY <2>2, ConfigAssumption
    <3>2. Append(blocks, data) = <<data>>
      BY <2>1
    <3> HIDE DEF data
    <3> QED
      BY <1>2, <2>1, <2>3, <3>1, <3>2 DEF NewArenaSlow, data
  <2> QED
    BY <2>2, <2>4, BlockCharged
<1>3. CASE UNCHANGED vars
  BY <1>3, SameAccount DEF AccountInv, vars, modeVars
<1> QED
  BY <1>1, <1>2, <1>3, InputAssumption DEF NewArena, RefuseArena

LEMMA NextAccount == AccountInv /\ [Next]_vars => AccountExact'
<1> SUFFICES ASSUME AccountInv, [Next]_vars PROVE AccountExact'
  OBVIOUS
<1>1. CASE NewArena
  BY <1>1, NewArenaAccount
<1>2. CASE \E m \in MaxBlockSizes : SetMaxBlockSize(m)
  BY <1>2, SameAccount DEF SetMaxBlockSize, AccountInv
<1>3. ASSUME NEW slot \in Slots, NEW want \in Sizes,
             \/ Malloc(slot, want) \/ Realloc(slot, want)
             \/ ShrinkLast(slot, want) \/ TryExtend(slot, want)
      PROVE  AccountExact'
  <2>1. want \in Nat
    BY InputAssumption
  <2>2. CASE MallocInto(slot, want)
    BY <2>1, <2>2, MallocAccount
  <2>3. CASE UNCHANGED <<blockVars, failAfter>>
    BY <2>3, SameAccount DEF AccountInv
  <2> QED
    BY <1>3, <2>2, <2>3
    DEF Malloc, Realloc, ShrinkInPlace, GrowInPlace, Move, RefuseMalloc, ShrinkLast,
        TryExtend, modeVars, vars
<1>4. CASE UNCHANGED vars
  BY <1>4, SameAccount DEF AccountInv, vars, modeVars
<1> QED
  BY <1>1, <1>2, <1>3, <1>4 DEF Next

(* What the arena says it takes is what the allocator gave it: the sum over *)
(* its blocks, headers included, whatever was refused in between, and never *)
(* more than the limit (alloc_block and ControlledAllocator::take).         *)
THEOREM AccountAlwaysExact == Spec => []AccountExact
<1>1. Init => AccountExact
  BY NoCharges, InputAssumption DEF Init, AccountExact
<1> QED
  BY <1>1, InitInv, NextInv, NextAccount, PTL DEF Spec, AccountInv

-----------------------------------------------------------------------------
(* The map *)

MapInv == MapTypeOK /\ IndexInverse

LEMMA EntryShape ==
  ASSUME NEW k \in Keys, NEW v \in Values
  PROVE  /\ [key |-> k, value |-> v] \in Entry
         /\ [key |-> k, value |-> v].key = k
         /\ [key |-> k, value |-> v].value = v
  BY DEF Entry

(* What delete leaves of a sequence: everything but one position. *)
LEMMA WithoutShape ==
  ASSUME NEW S, NEW s \in Seq(S), NEW i \in 1 .. Len(s)
  PROVE  /\ Without(s, i) \in Seq(S)
         /\ Len(Without(s, i)) = Len(s) - 1
         /\ \A j \in 1 .. Len(s) - 1 :
              Without(s, i)[j] = IF j < i THEN s[j] ELSE s[j + 1]
<1> DEFINE w == Without(s, i)
<1>1. Len(s) \in Nat /\ Len(s) - 1 \in Nat
  OBVIOUS
<1>2. \A j \in 1 .. Len(s) - 1 : (IF j < i THEN s[j] ELSE s[j + 1]) \in S
  OBVIOUS
<1>3. w \in [1 .. Len(s) - 1 -> S]
  BY <1>2 DEF Without
<1>4. w \in Seq(S) /\ Len(w) = Len(s) - 1
  BY <1>1, <1>3
<1>5. \A j \in 1 .. Len(s) - 1 : w[j] = IF j < i THEN s[j] ELSE s[j + 1]
  BY DEF Without
<1> QED
  BY <1>4, <1>5

LEMMA InsertKeepsInv ==
  ASSUME NEW k \in Keys, NEW v \in Values, MapInv, Insert(k, v)
  PROVE  MapInv'
<1> DEFINE e == [key |-> k, value |-> v]
<1> USE DEF MapInv
<1>1. e \in Entry /\ e.key = k
  BY EntryShape
<1> HIDE DEF e
<1>2. CASE k \in DOMAIN index
  <2>1. /\ entries' = [entries EXCEPT ![index[k]] = e]
        /\ index' = index
    BY <1>2 DEF Insert, e
  <2>2. index[k] \in 1 .. Len(entries) /\ entries[index[k]].key = k
    BY <1>2 DEF MapTypeOK, IndexInverse
  <2>3. entries' \in Seq(Entry) /\ Len(entries') = Len(entries)
    BY <1>1, <2>1, <2>2 DEF MapTypeOK
  <2>4. \A i \in 1 .. Len(entries) :
          entries'[i] = IF i = index[k] THEN e ELSE entries[i]
    BY <2>1, <2>2 DEF MapTypeOK
  <2>5. \A i \in 1 .. Len(entries) : entries'[i].key = entries[i].key
    BY <1>1, <2>2, <2>4
  <2>6. MapTypeOK'
    BY <2>1, <2>3 DEF MapTypeOK
  <2>7. IndexInverse'
    BY <2>1, <2>3, <2>5 DEF MapTypeOK, IndexInverse
  <2> QED BY <2>6, <2>7
<1>3. CASE k \notin DOMAIN index
  <2> DEFINE n == Len(entries)
  <2>1. /\ entries' = Append(entries, e)
        /\ index' = [x \in DOMAIN index \cup {k} |->
                       IF x = k THEN n + 1 ELSE index[x]]
    BY <1>3 DEF Insert, e
  <2>2. entries' \in Seq(Entry) /\ Len(entries') = n + 1 /\ n \in Nat
    BY <1>1, <2>1 DEF MapTypeOK
  <2>3. /\ entries'[n + 1] = e
        /\ \A i \in 1 .. n : entries'[i] = entries[i]
    BY <1>1, <2>1 DEF MapTypeOK
  <2>4. DOMAIN index' = DOMAIN index \cup {k}
    BY <2>1
  <2>5. /\ index'[k] = n + 1
        /\ \A x \in DOMAIN index : index'[x] = index[x] /\ index[x] \in 1 .. n
    BY <1>3, <2>1 DEF MapTypeOK
  <2>6. index' \in [DOMAIN index' -> 1 .. n + 1]
    BY <2>1, <2>2, <2>4, <2>5
  <2>7. MapTypeOK'
    BY <2>2, <2>4, <2>6 DEF MapTypeOK
  <2>8. ASSUME NEW x \in DOMAIN index' PROVE entries'[index'[x]].key = x
    BY <1>1, <2>3, <2>4, <2>5 DEF IndexInverse
  <2>9. ASSUME NEW i \in 1 .. n + 1
        PROVE  entries'[i].key \in DOMAIN index' /\ index'[entries'[i].key] = i
    <3>1. CASE i = n + 1
      BY <1>1, <2>3, <2>4, <2>5, <3>1
    <3>2. CASE i # n + 1
      <4>1. i \in 1 .. n
        BY <2>2, <3>2
      <4> QED BY <2>3, <2>4, <2>5, <4>1 DEF IndexInverse
    <3> QED BY <3>1, <3>2
  <2>10. IndexInverse'
    BY <2>2, <2>8, <2>9 DEF IndexInverse
  <2> QED BY <2>7, <2>10
<1> QED BY <1>2, <1>3

LEMMA DeleteKeepsInv ==
  ASSUME NEW k \in Keys, MapInv, Delete(k)
  PROVE  MapInv'
<1> USE DEF MapInv
<1>1. CASE k \in DOMAIN index
  <2> DEFINE n == Len(entries)
             d == index[k]
  <2>1. /\ entries' = Without(entries, d)
        /\ index' = [x \in DOMAIN index \ {k} |-> Shifted(d, index[x])]
    BY <1>1 DEF Delete
  <2>2. d \in 1 .. n /\ n \in Nat /\ entries \in Seq(Entry)
    BY <1>1 DEF MapTypeOK
  <2>3. /\ entries' \in Seq(Entry) /\ Len(entries') = n - 1
        /\ \A j \in 1 .. n - 1 :
             entries'[j] = IF j < d THEN entries[j] ELSE entries[j + 1]
    BY <2>1, <2>2, WithoutShape
  <2>4. DOMAIN index' = DOMAIN index \ {k}
    BY <2>1
  <2>5. \A x \in DOMAIN index' :
          index'[x] = IF index[x] > d THEN index[x] - 1 ELSE index[x]
    BY <2>1 DEF Shifted
  <2>6. \A x \in DOMAIN index' : index[x] \in 1 .. n /\ index[x] # d
    BY <1>1, <2>4 DEF MapTypeOK, IndexInverse
  <2> HIDE DEF d
  <2>7. \A x \in DOMAIN index' : index'[x] \in 1 .. n - 1
    BY <2>2, <2>5, <2>6
  <2>8. index' \in [DOMAIN index' -> 1 .. n - 1]
    BY <2>1, <2>4, <2>7
  <2>9. MapTypeOK'
    BY <2>3, <2>4, <2>8 DEF MapTypeOK
  <2>10. ASSUME NEW x \in DOMAIN index' PROVE entries'[index'[x]].key = x
    <3>1. entries[index[x]].key = x
      BY <2>4 DEF IndexInverse
    <3>2. CASE index[x] > d
      <4>1. index'[x] = index[x] - 1 /\ ~(index'[x] < d)
        BY <2>2, <2>5, <2>6, <3>2
      <4>2. entries'[index'[x]] = entries[index'[x] + 1]
        BY <2>3, <2>7, <4>1
      <4> QED BY <2>6, <3>1, <4>1, <4>2
    <3>3. CASE ~(index[x] > d)
      <4>1. index'[x] = index[x] /\ index'[x] < d
        BY <2>2, <2>5, <2>6, <3>3
      <4> QED BY <2>3, <2>7, <3>1, <4>1
    <3> QED BY <3>2, <3>3
  <2>11. ASSUME NEW j \in 1 .. n - 1
         PROVE  entries'[j].key \in DOMAIN index' /\ index'[entries'[j].key] = j
    <3> DEFINE i == IF j < d THEN j ELSE j + 1
               x == entries[i].key
    <3>1. i \in 1 .. n /\ i # d /\ entries'[j] = entries[i]
      <4>1. CASE j < d
        BY <2>2, <2>3, <4>1
      <4>2. CASE ~(j < d)
        BY <2>2, <2>3, <4>2
      <4> QED BY <4>1, <4>2
    <3>2. x \in DOMAIN index /\ index[x] = i
      BY <3>1 DEF IndexInverse
    <3>3. x # k
      BY <3>1, <3>2 DEF d
    <3>4. x \in DOMAIN index'
      BY <2>4, <3>2, <3>3
    <3>5. index'[x] = j
      BY <2>2, <2>5, <3>2, <3>4
    <3> QED BY <3>1, <3>4, <3>5
  <2>12. IndexInverse'
    BY <2>3, <2>10, <2>11 DEF IndexInverse
  <2> QED BY <2>9, <2>12
<1>2. CASE k \notin DOMAIN index
  BY <1>2 DEF Delete, MapTypeOK, IndexInverse
<1> QED BY <1>1, <1>2

LEMMA NextKeepsInv == MapInv /\ [MapNext]_mapVars => MapInv'
<1> SUFFICES ASSUME MapInv, [MapNext]_mapVars PROVE MapInv'
  OBVIOUS
<1>1. CASE UNCHANGED mapVars
  BY <1>1 DEF mapVars, MapInv, MapTypeOK, IndexInverse
<1>2. ASSUME NEW k \in Keys, Get(k) PROVE MapInv'
  BY <1>2 DEF Get, MapInv, MapTypeOK, IndexInverse
<1>3. ASSUME NEW k \in Keys, Delete(k) PROVE MapInv'
  BY <1>3, DeleteKeepsInv
<1>4. ASSUME NEW k \in Keys, NEW v \in Values, Insert(k, v) PROVE MapInv'
  BY <1>4, InsertKeepsInv
<1> QED BY <1>1, <1>2, <1>3, <1>4 DEF MapNext

(* For any keys and values, after any calls, the index and the entries are  *)
(* each other's inverse: no entry is lost or shadowed.                      *)
THEOREM MapIndexed == MapSpec => [](MapTypeOK /\ IndexInverse)
<1>1. MapInit => MapInv
  BY DEF MapInit, MapInv, MapTypeOK, IndexInverse
<1> QED BY <1>1, NextKeepsInv, PTL DEF MapSpec, MapInv

(* The dictionary that the entries and the index stand for. *)
Dict == [k \in DOMAIN index |-> entries[index[k]].value]

LEMMA NextRefines == MapInv /\ [MapNext]_mapVars => [D!DictNext]_(D!dictVars)
<1> SUFFICES ASSUME MapInv, [MapNext]_mapVars PROVE [D!DictNext]_(D!dictVars)
  OBVIOUS
<1>0. MapInv'
  BY NextKeepsInv
<1> USE DEF Dict
<1>1. CASE UNCHANGED mapVars
  BY <1>1 DEF mapVars, D!dictVars
<1>2. ASSUME NEW k \in Keys, Get(k) PROVE D!Lookup(k)
  BY <1>2 DEF Get, D!Lookup
<1>3. ASSUME NEW k \in Keys, Delete(k) PROVE D!Remove(k)
  <2>1. CASE k \in DOMAIN index
    <3>1. DOMAIN index' = DOMAIN index \ {k}
      BY <1>3, <2>1 DEF Delete
    <3>2. reply' = Dict[k]
      BY <1>3, <2>1 DEF Delete
    <3>3. ASSUME NEW x \in DOMAIN index'
          PROVE  entries'[index'[x]] = entries[index[x]]
      <4> DEFINE n == Len(entries)
                 d == index[k]
      <4>1. /\ entries' = Without(entries, d)
            /\ index'[x] = Shifted(d, index[x])
        BY <1>3, <2>1, <3>1 DEF Delete
      <4>2. /\ d \in 1 .. n /\ n \in Nat /\ entries \in Seq(Entry)
            /\ index[x] \in 1 .. n /\ index[x] # d
        BY <2>1, <3>1 DEF MapInv, MapTypeOK, IndexInverse
      <4>3. \A j \in 1 .. n - 1 :
              entries'[j] = IF j < d THEN entries[j] ELSE entries[j + 1]
        BY <4>1, <4>2, WithoutShape
      <4> HIDE DEF d
      <4>4. CASE index[x] > d
        <5>1. index'[x] = index[x] - 1 /\ index'[x] \in 1 .. n - 1
              /\ ~(index'[x] < d)
          BY <4>1, <4>2, <4>4 DEF Shifted
        <5> QED BY <4>2, <4>3, <5>1
      <4>5. CASE ~(index[x] > d)
        <5>1. index'[x] = index[x] /\ index'[x] \in 1 .. n - 1 /\ index'[x] < d
          BY <4>1, <4>2, <4>5 DEF Shifted
        <5> QED BY <4>2, <4>3, <5>1
      <4> QED BY <4>4, <4>5
    <3>4. Dict' = [x \in DOMAIN Dict \ {k} |-> Dict[x]]
      BY <3>1, <3>3
    <3> QED BY <2>1, <3>2, <3>4 DEF D!Remove
  <2>2. CASE k \notin DOMAIN index
    <3>1. Dict' = Dict /\ reply' = None
      BY <1>3, <2>2 DEF Delete
    <3>2. Dict = [x \in DOMAIN Dict \ {k} |-> Dict[x]]
      BY <2>2
    <3> QED BY <2>2, <3>1, <3>2 DEF D!Remove
  <2> QED BY <2>1, <2>2
<1>4. ASSUME NEW k \in Keys, NEW v \in Values, Insert(k, v) PROVE D!Store(k, v)
  <2> DEFINE e == [key |-> k, value |-> v]
  <2>0. e \in Entry /\ e.value = v
    BY EntryShape
  <2> HIDE DEF e
  <2>1. CASE k \in DOMAIN index
    <3>1. /\ entries' = [entries EXCEPT ![index[k]] = e]
          /\ index' = index /\ reply' = "Replaced"
      BY <1>4, <2>1 DEF Insert, e
    <3>2. ASSUME NEW x \in DOMAIN index
          PROVE  entries'[index[x]] = IF x = k THEN e ELSE entries[index[x]]
      <4>1. /\ index[x] \in 1 .. Len(entries) /\ entries \in Seq(Entry)
            /\ index[x] = index[k] => x = k
        BY <2>1 DEF MapInv, MapTypeOK, IndexInverse
      <4> QED BY <3>1, <4>1
    <3>3. Dict' = [x \in DOMAIN Dict \cup {k} |-> IF x = k THEN v ELSE Dict[x]]
      BY <2>0, <2>1, <3>1, <3>2
    <3> QED BY <2>1, <3>1, <3>3 DEF D!Store
  <2>2. CASE k \notin DOMAIN index
    <3>1. /\ entries' = Append(entries, e) /\ reply' = "Inserted"
          /\ index' = [x \in DOMAIN index \cup {k} |->
                         IF x = k THEN Len(entries) + 1 ELSE index[x]]
      BY <1>4, <2>2 DEF Insert, e
    <3>2. entries \in Seq(Entry) /\ Len(entries) \in Nat
      BY DEF MapInv, MapTypeOK
    <3>3. entries'[index'[k]] = e
      BY <2>0, <3>1, <3>2
    <3>4. ASSUME NEW x \in DOMAIN index
          PROVE  entries'[index'[x]] = entries[index[x]]
      <4>1. index'[x] = index[x] /\ index[x] \in 1 .. Len(entries)
        BY <2>2, <3>1 DEF MapInv, MapTypeOK
      <4> QED BY <2>0, <3>1, <3>2, <4>1
    <3>5. Dict' = [x \in DOMAIN Dict \cup {k} |-> IF x = k THEN v ELSE Dict[x]]
      BY <2>0, <2>2, <3>1, <3>3, <3>4
    <3> QED BY <2>2, <3>1, <3>5 DEF D!Store
  <2> QED BY <2>1, <2>2
<1> QED BY <1>1, <1>2, <1>3, <1>4 DEF MapNext, D!DictNext

(* The entry list with its index implements a dictionary: every reply is    *)
(* the one the dictionary gives.                                            *)
THEOREM MapIsDictionary == MapSpec => ImplementsDictionary
<1>1. MapInit => D!DictInit
  BY DEF MapInit, D!DictInit
<1>2. MapInit => MapInv
  BY DEF MapInit, MapInv, MapTypeOK, IndexInverse
<1> QED BY <1>1, <1>2, NextKeepsInv, NextRefines, PTL
        DEF MapSpec, ImplementsDictionary, D!DictSpec

-----------------------------------------------------------------------------
(* Powers of two                                                            *)

P(n) == A!PowerOf2(n)

LEMMA SamePower ==
  ASSUME NEW n
  PROVE  P(n) = PowerOf2(n)
BY DEF P, A!PowerOf2, PowerOf2

LEMMA ArrayPowers ==
  /\ P(0) = 1 /\ \A i \in 0 .. WordBits : P(i) \in Nat /\ P(i) >= 1
  /\ \A i \in 1 .. WordBits : P(i) = 2 * P(i - 1)
<1>1. WordBits \in Nat
  BY WordAssumption
<1>2. P(0) = 1
  BY Powers, SamePower
<1>3. ASSUME NEW i \in 0 .. WordBits PROVE P(i) \in Nat /\ P(i) >= 1
  <2>1. PowerOf2(i) \in Nat /\ PowerOf2(i) >= 1
    BY <1>1, Powers
  <2> QED
    BY <2>1, SamePower
<1>4. ASSUME NEW i \in 1 .. WordBits PROVE P(i) = 2 * P(i - 1)
  <2>1. PICK j : j = i - 1
    OBVIOUS
  <2>2. j \in Nat /\ j + 1 = i
    BY <1>1, <2>1
  <2>3. PowerOf2(j + 1) = 2 * PowerOf2(j)
    BY <2>2, Powers
  <2>4. P(i) = PowerOf2(i) /\ P(j) = PowerOf2(j)
    BY SamePower
  <2> QED
    BY <2>1, <2>2, <2>3, <2>4
<1> QED
  BY <1>2, <1>3, <1>4

LEMMA ArrayPowersGrow ==
  ASSUME NEW n \in 0 .. WordBits, NEW i \in 0 .. WordBits, i <= n
  PROVE  P(i) <= P(n) /\ P(i) >= 1
<1>1. n \in Nat /\ i \in 0 .. n
  BY WordAssumption
<1>2. PowerOf2(i) <= PowerOf2(n)
  BY <1>1, PowersGrow
<1>3. P(i) = PowerOf2(i) /\ P(n) = PowerOf2(n) /\ P(i) >= 1
  BY SamePower, ArrayPowers
<1> QED
  BY <1>2, <1>3

-----------------------------------------------------------------------------
(* The doubling                                                             *)

(* The capacity that doubling reaches: a power of two, at least what was    *)
(* asked for and less than twice that, unless the word overflows.           *)
LEMMA DoubledIs ==
  ASSUME NEW m \in Nat, NEW j \in 0 .. WordBits, capacity = P(j), capacity < m
  PROVE  /\ A!Doubled(m) \in Nat
         /\ A!Doubled(m) < P(WordBits) =>
              /\ m <= A!Doubled(m) /\ A!Doubled(m) < 2 * m
              /\ \E i \in 0 .. WordBits : A!Doubled(m) = P(i)
<1> DEFINE step == [x \in Nat |-> IF x >= m THEN x ELSE 2 * x]
           g == [i \in 1 .. WordBits |-> step]
<1>1. WordBits \in Nat /\ capacity \in Nat /\ step \in [Nat -> Nat] /\ capacity >= 1
  BY WordAssumption, ArrayPowers
<1>a. \A x \in Nat : step[x] = IF x >= m THEN x ELSE 2 * x
  OBVIOUS
<1> HIDE DEF step
<1>b. g \in [1 .. WordBits -> [Nat -> Nat]] /\ \A i \in 1 .. WordBits : g[i] = step
  BY <1>1
<1> HIDE DEF g
<1>2. PICK F : Tabled(F, g, capacity, WordBits, Nat)
  BY <1>1, <1>b, TableExists
<1>3. /\ F \in [0 .. WordBits -> Nat] /\ F[0] = capacity
      /\ \A i \in 1 .. WordBits : F[i] = step[F[i - 1]]
  BY <1>2, <1>b DEF Tabled
<1>4. ASSUME NEW i \in 1 .. WordBits PROVE i - 1 \in 0 .. WordBits /\ F[i - 1] \in Nat
  <2>1. i - 1 \in 0 .. WordBits
    BY <1>1
  <2> QED
    BY <1>3, <2>1
<1>5. ASSUME NEW i \in 1 .. WordBits
      PROVE  F[i] = IF F[i - 1] >= m THEN F[i - 1] ELSE 2 * F[i - 1]
  BY <1>3, <1>4, <1>a, Zenon
<1> DEFINE R(f) == f = [k \in 0 .. WordBits |->
                          IF k = 0 THEN capacity
                          ELSE IF f[k - 1] >= m THEN f[k - 1] ELSE 2 * f[k - 1]]
           c == CHOOSE f : R(f)
<1>6. R(F)
  <2>1. ASSUME NEW k \in 0 .. WordBits
        PROVE  F[k] = IF k = 0 THEN capacity
                      ELSE IF F[k - 1] >= m THEN F[k - 1] ELSE 2 * F[k - 1]
    <3>1. k = 0 \/ k \in 1 .. WordBits
      BY <1>1
    <3> QED
      BY <1>3, <1>5, <3>1, Zenon
  <2>2. F = [k \in 0 .. WordBits |-> F[k]]
    BY <1>3
  <2> QED
    BY <2>1, <2>2
<1>7. A!Doubled(m) = c[WordBits]
  BY DEF A!Doubled
<1>8. R(c)
  BY <1>6
<1> HIDE DEF c
<1>9. c[WordBits] = F[WordBits]
  <2> DEFINE T == {i \in Nat : i <= WordBits /\ c[i] # F[i]}
  <2>1. SUFFICES ASSUME T # {} PROVE FALSE
    BY <1>1
  <2>2. PICK k \in T : \A y \in T : k <= y
    BY <2>1, LeastNat
  <2>3. k \in Nat /\ k <= WordBits /\ c[k] # F[k] /\ k \in 0 .. WordBits
    BY <1>1, <2>2
  <2>4. k # 0
    BY <1>3, <1>8, <2>3
  <2>5. PICK i : i = k - 1
    OBVIOUS
  <2>6. i \in Nat /\ i <= WordBits /\ i \notin T /\ k \in 1 .. WordBits
    BY <1>1, <2>2, <2>3, <2>4, <2>5
  <2>7. c[i] = F[i]
    BY <2>6
  <2>a. c[k] = IF c[k - 1] >= m THEN c[k - 1] ELSE 2 * c[k - 1]
    BY <1>8, <2>3, <2>4
  <2>b. F[k] = IF F[k - 1] >= m THEN F[k - 1] ELSE 2 * F[k - 1]
    BY <1>5, <2>6
  <2> QED
    BY <2>3, <2>5, <2>7, <2>a, <2>b
<1> HIDE DEF R
<1> DEFINE Good(k) == /\ F[k] < 2 * m
                      /\ F[k] >= m \/ F[k] >= P(k)
                      /\ F[k] >= P(WordBits) \/ \E i \in 0 .. WordBits : F[k] = P(i)
<1>10. Good(WordBits)
  <2> DEFINE T == {i \in Nat : i <= WordBits /\ ~Good(i)}
  <2>1. SUFFICES ASSUME T # {} PROVE FALSE
    <3>1. WordBits \notin T
      BY <2>1
    <3> QED
      BY <1>1, <3>1
  <2> HIDE DEF Good
  <2>2. PICK k \in T : \A y \in T : k <= y
    BY <2>1, LeastNat
  <2>3. k \in Nat /\ k <= WordBits /\ ~Good(k) /\ k \in 0 .. WordBits
    BY <1>1, <2>2
  <2>4. k # 0
    <3>1. Good(0)
      <4>1. F[0] = capacity /\ P(0) = 1 /\ capacity < 2 * m
        BY <1>1, <1>3, ArrayPowers
      <4> QED
        BY <1>1, <4>1 DEF Good
    <3> QED
      BY <2>3, <3>1
  <2>5. PICK l : l = k - 1
    OBVIOUS
  <2>6. l \in Nat /\ l <= WordBits /\ l \notin T /\ k \in 1 .. WordBits /\ l \in 0 .. WordBits
        /\ k = l + 1
    BY <1>1, <2>2, <2>3, <2>4, <2>5
  <2>7. Good(l)
    BY <2>6
  <2>8. F[k] = (IF F[l] >= m THEN F[l] ELSE 2 * F[l]) /\ F[l] \in Nat
    BY <1>4, <1>5, <2>5, <2>6
  <2>9. P(k) = 2 * P(l) /\ P(l) \in Nat /\ P(WordBits) \in Nat
    BY <1>1, <2>5, <2>6, ArrayPowers
  <2>10. CASE F[l] >= m
    BY <2>3, <2>7, <2>8, <2>10 DEF Good
  <2>11. CASE ~(F[l] >= m)
    <3>1. F[k] = 2 * F[l] /\ F[l] < m /\ F[l] >= P(l)
      BY <2>7, <2>8, <2>9, <2>11 DEF Good
    <3>2. F[k] < 2 * m /\ F[k] >= P(k)
      BY <2>8, <2>9, <3>1
    <3>3. CASE F[l] >= P(WordBits)
      <4>1. F[k] >= P(WordBits)
        BY <2>8, <2>9, <3>1, <3>3
      <4> QED
        BY <2>3, <3>2, <4>1 DEF Good
    <3>4. CASE ~(F[l] >= P(WordBits))
      <4>1. PICK i \in 0 .. WordBits : F[l] = P(i)
        BY <2>7, <3>4 DEF Good
      <4>2. i # WordBits
        BY <2>8, <2>9, <3>4, <4>1
      <4>3. PICK h : h = i + 1
        OBVIOUS
      <4>4. h \in 1 .. WordBits /\ h - 1 = i /\ h \in 0 .. WordBits
        BY <1>1, <4>2, <4>3
      <4>5. F[k] = P(h)
        BY <3>1, <4>1, <4>4, ArrayPowers
      <4> QED
        BY <2>3, <3>2, <4>4, <4>5 DEF Good
    <3> QED
      BY <3>3, <3>4
  <2> QED
    BY <2>10, <2>11
<1>11. F[WordBits] \in Nat /\ P(WordBits) \in Nat
  BY <1>1, <1>3, ArrayPowers
<1>12. A!Doubled(m) = F[WordBits]
  BY <1>7, <1>9
<1>13. F[WordBits] < P(WordBits) =>
         m <= F[WordBits] /\ \E i \in 0 .. WordBits : F[WordBits] = P(i)
  BY <1>10, <1>11
<1> QED
  BY <1>10, <1>11, <1>12, <1>13

-----------------------------------------------------------------------------
(* The array *)

(* The elements that fill the address space.                                *)
Holds == P(WordBits - Lg2)

(* What is asked for either fits the address space, when it is doubled, or  *)
(* makes the doubling overflow; and so does what the arena grants.          *)
RequestsFit ==
  /\ \A m \in Requests : 2 * m <= Holds \/ 2 * m > P(WordBits)
  /\ \A c \in {A!DefaultInitialCapacity, LargestGrant} : 2 * (c + 1) <= Holds

ArrayInv ==
  /\ A!TypeOK /\ A!CapacityBacked
  /\ \E j \in 0 .. WordBits : capacity = P(j)
  /\ capacity = A!DefaultInitialCapacity \/ capacity <= LargestGrant

LEMMA ArrayShape ==
  ASSUME ArrayInv
  PROVE  /\ size \in Nat /\ capacity \in Nat /\ size <= capacity
         /\ content \in Seq(Elements) /\ Len(content) = capacity
BY DEF ArrayInv, A!TypeOK, A!CapacityBacked

(* A growth that is granted is granted in full and keeps what there was.    *)
LEMMA Granted ==
  ASSUME ArrayInv, NEW m \in Nat, A!Grant(m),
         m <= capacity \/ 2 * m <= Holds \/ 2 * m > P(WordBits)
  PROVE  /\ capacity' \in Nat /\ m <= capacity' /\ capacity <= capacity'
         /\ \E j \in 0 .. WordBits : capacity' = P(j)
         /\ capacity' = capacity \/ capacity' <= LargestGrant
         /\ A!Storage(m) \in Seq(Elements) /\ Len(A!Storage(m)) = capacity'
         /\ \A i \in 1 .. capacity : A!Storage(m)[i] = content[i]
<1>1. /\ size \in Nat /\ capacity \in Nat /\ size <= capacity
      /\ content \in Seq(Elements) /\ Len(content) = capacity
  BY ArrayShape
<1>2. CASE m <= capacity
  <2>1. A!Storage(m) = content /\ capacity' = capacity
    BY <1>2 DEF A!Storage, A!Grant, A!Room
  <2> QED
    BY <1>1, <1>2, <2>1 DEF ArrayInv
<1>3. CASE ~(m <= capacity)
  <2>1. PICK d : d = A!Doubled(m)
    OBVIOUS
  <2>2. PICK j \in 0 .. WordBits : capacity = P(j)
    BY DEF ArrayInv
  <2>3. /\ capacity' = d /\ d < P(WordBits)
        /\ A!Backing(d) <= A!Greater(Len(content), LargestGrant)
    BY <1>3, <2>1 DEF A!Grant, A!Room, A!MayReserve, P
  <2>a. capacity < m
    BY <1>1, <1>3
  <2>4. /\ d \in Nat /\ m <= d /\ d < 2 * m
        /\ \E i \in 0 .. WordBits : d = P(i)
    BY <2>1, <2>2, <2>3, <2>a, DoubledIs
  <2>5. PICK i \in 0 .. WordBits : d = P(i)
    BY <2>4
  <2>6. WordBits \in Nat /\ WordBits - Lg2 \in 0 .. WordBits
    BY WordAssumption
  <2>7. P(WordBits) \in Nat /\ Holds \in Nat
    BY <2>6, ArrayPowers DEF Holds
  <2>8. 2 * d <= P(WordBits)
    <3>1. i # WordBits
      BY <2>3, <2>4, <2>5, <2>7
    <3>2. PICK h : h = i + 1
      OBVIOUS
    <3>3. h \in 1 .. WordBits /\ h \in 0 .. WordBits /\ h - 1 = i
      BY <2>6, <3>1, <3>2
    <3>4. P(h) = 2 * d
      BY <2>5, <3>3, ArrayPowers
    <3>5. P(h) <= P(WordBits)
      BY <2>6, <3>3, ArrayPowersGrow
    <3> QED
      BY <3>4, <3>5
  <2>9. d < Holds
    <3>1. 2 * m <= Holds
      BY <1>3, <2>4, <2>7, <2>8
    <3> QED
      BY <2>4, <2>7, <3>1
  <2>10. A!Backing(d) = d
    <3>1. A!Backing(d) = d % Holds
      BY DEF A!Backing, Holds, P
    <3> QED
      BY <2>4, <2>7, <2>9, <3>1
  <2>11. d <= LargestGrant
    BY <1>1, <2>3, <2>4, <2>10, <2>a, RequestAssumption DEF A!Greater
  <2> DEFINE s == [k \in 1 .. d |-> IF k <= Len(content) THEN content[k] ELSE Zero]
  <2>12. A!Storage(m) = s
    BY <1>3, <2>1, <2>10 DEF A!Storage
  <2>13. \A k \in 1 .. d : (IF k <= Len(content) THEN content[k] ELSE Zero) \in Elements
    BY <1>1, ElementAssumption
  <2>14. s \in Seq(Elements) /\ Len(s) = d
    <3>1. s \in [1 .. d -> Elements]
      BY <2>13
    <3> QED
      BY <2>4, <3>1
  <2>15. \A k \in 1 .. capacity : s[k] = content[k]
    BY <1>1, <2>4, <2>a
  <2> HIDE DEF s
  <2> QED
    BY <1>1, <2>3, <2>4, <2>5, <2>11, <2>12, <2>14, <2>15, <2>a
<1> QED
  BY <1>2, <1>3

LEMMA Prefix ==
  ASSUME NEW S, NEW s \in Seq(S), NEW n \in Nat, n <= Len(s)
  PROVE  /\ SubSeq(s, 1, n) \in Seq(S) /\ Len(SubSeq(s, 1, n)) = n
         /\ \A i \in 1 .. n : SubSeq(s, 1, n)[i] = s[i]
OBVIOUS

LEMMA SamePrefix ==
  ASSUME NEW S, NEW s \in Seq(S), NEW t \in Seq(S), NEW n \in Nat,
         n <= Len(s), n <= Len(t), \A i \in 1 .. n : s[i] = t[i]
  PROVE  SubSeq(s, 1, n) = SubSeq(t, 1, n)
<1> DEFINE u == SubSeq(s, 1, n)
           v == SubSeq(t, 1, n)
<1>1. u \in Seq(S) /\ Len(u) = n /\ \A i \in 1 .. n : u[i] = s[i]
  BY Prefix
<1>2. v \in Seq(S) /\ Len(v) = n /\ \A i \in 1 .. n : v[i] = t[i]
  BY Prefix
<1> HIDE DEF u, v
<1>3. \A i \in 1 .. n : u[i] = v[i]
  BY <1>1, <1>2
<1>4. u = [i \in 1 .. n |-> u[i]] /\ v = [i \in 1 .. n |-> v[i]]
  BY <1>1, <1>2
<1> QED
  BY <1>3, <1>4 DEF u, v

Items == SubSeq(content, 1, size)

LEMMA ItemsShape ==
  ASSUME ArrayInv
  PROVE  /\ Items \in Seq(Elements) /\ Len(Items) = size
         /\ \A i \in 1 .. size : Items[i] = content[i]
BY ArrayShape, Prefix DEF Items

(* A step of the array keeps its invariant and is one of the list's.        *)
Listed == ArrayInv' /\ A!L!ListNext

LEMMA RefusedListed ==
  ASSUME ArrayInv, shown' = FALSE, UNCHANGED <<size, capacity, content>>
  PROVE  Listed
<1>1. ArrayInv'
  BY DEF ArrayInv, A!TypeOK, A!CapacityBacked
<1>2. A!L!Refuse
  BY DEF A!L!Refuse
<1> QED
  BY <1>1, <1>2 DEF Listed, A!L!ListNext

LEMMA ReserveListed ==
  ASSUME ArrayInv, RequestsFit, NEW n \in Requests, A!Reserve(n)
  PROVE  Listed
<1>1. CASE A!Refuse(n)
  BY <1>1, RefusedListed DEF A!Refuse
<1>2. CASE A!Grant(n) /\ content' = A!Storage(n) /\ UNCHANGED size
  <2>1. n \in Nat /\ (2 * n <= Holds \/ 2 * n > P(WordBits))
    BY RequestAssumption DEF RequestsFit
  <2>2. /\ capacity' \in Nat /\ capacity <= capacity'
        /\ \E j \in 0 .. WordBits : capacity' = P(j)
        /\ capacity' = capacity \/ capacity' <= LargestGrant
        /\ content' \in Seq(Elements) /\ Len(content') = capacity'
        /\ \A i \in 1 .. capacity : content'[i] = content[i]
    BY <1>2, <2>1, Granted
  <2>3. shown' = TRUE /\ size' = size
    BY <1>2 DEF A!Grant
  <2>4. /\ size \in Nat /\ capacity \in Nat /\ size <= capacity
        /\ content \in Seq(Elements) /\ Len(content) = capacity
    BY ArrayShape
  <2>5. ArrayInv'
    BY <2>2, <2>3, <2>4 DEF ArrayInv, A!TypeOK, A!CapacityBacked
  <2>6. \A i \in 1 .. size : content'[i] = content[i]
    BY <2>2, <2>4
  <2>7. SubSeq(content', 1, size) = SubSeq(content, 1, size)
    BY <2>2, <2>4, <2>6, SamePrefix
  <2>8. A!L!Keep
    BY <2>3, <2>7 DEF A!L!Keep
  <2> QED
    BY <2>5, <2>8 DEF Listed, A!L!ListNext
<1> QED
  BY <1>1, <1>2 DEF A!Reserve

LEMMA ResizeListed ==
  ASSUME ArrayInv, RequestsFit, NEW n \in Requests, A!Resize(n)
  PROVE  Listed
<1>1. CASE A!Refuse(n)
  BY <1>1, RefusedListed DEF A!Refuse
<1>2. CASE A!Grant(n) /\ content' = A!Storage(n) /\ size' = n
  <2>1. n \in Nat /\ (2 * n <= Holds \/ 2 * n > P(WordBits))
    BY RequestAssumption DEF RequestsFit
  <2>2. /\ capacity' \in Nat /\ capacity <= capacity' /\ n <= capacity'
        /\ \E j \in 0 .. WordBits : capacity' = P(j)
        /\ capacity' = capacity \/ capacity' <= LargestGrant
        /\ content' \in Seq(Elements) /\ Len(content') = capacity'
        /\ \A i \in 1 .. capacity : content'[i] = content[i]
    BY <1>2, <2>1, Granted
  <2>3. shown' = TRUE /\ size' = n
    BY <1>2 DEF A!Grant
  <2>4. /\ size \in Nat /\ capacity \in Nat /\ size <= capacity
        /\ content \in Seq(Elements) /\ Len(content) = capacity
    BY ArrayShape
  <2>5. ArrayInv'
    BY <2>1, <2>2, <2>3, <2>4 DEF ArrayInv, A!TypeOK, A!CapacityBacked
  <2>6. /\ SubSeq(content', 1, n) \in Seq(Elements)
        /\ Len(SubSeq(content', 1, n)) = n
        /\ \A i \in 1 .. n : SubSeq(content', 1, n)[i] = content'[i]
    BY <2>1, <2>2, Prefix
  <2>7. /\ Len(Items) = size /\ \A i \in 1 .. size : Items[i] = content[i]
    BY ItemsShape
  <2>8. ASSUME NEW i \in 1 .. n, i <= Len(Items)
        PROVE  SubSeq(content', 1, n)[i] = Items[i]
    <3>1. i \in 1 .. size /\ i \in 1 .. capacity
      BY <2>4, <2>7, <2>8
    <3> QED
      BY <2>2, <2>6, <2>7, <3>1
  <2>9. A!L!SetLength(n)
    BY <2>3, <2>6, <2>8 DEF A!L!SetLength, Items
  <2> QED
    BY <2>5, <2>9 DEF Listed, A!L!ListNext
<1> QED
  BY <1>1, <1>2 DEF A!Resize

LEMMA AppendListed ==
  ASSUME ArrayInv, RequestsFit, NEW x \in Elements, A!AppendElement(x)
  PROVE  Listed
<1>1. CASE A!Refuse(size + 1)
  BY <1>1, RefusedListed DEF A!Refuse
<1>2. CASE /\ A!Grant(size + 1) /\ size < Len(A!Storage(size + 1))
           /\ content' = [A!Storage(size + 1) EXCEPT ![size + 1] = x]
           /\ size' = size + 1
  <2>1. /\ size \in Nat /\ capacity \in Nat /\ size <= capacity
        /\ content \in Seq(Elements) /\ Len(content) = capacity
    BY ArrayShape
  <2>2. PICK n : n = size + 1
    OBVIOUS
  <2>3. n \in Nat /\ (n <= capacity \/ 2 * n <= Holds)
    <3>1. Holds \in Nat
      BY WordAssumption, ArrayPowers DEF Holds
    <3>2. /\ 2 * (A!DefaultInitialCapacity + 1) <= Holds
          /\ 2 * (LargestGrant + 1) <= Holds
      BY DEF RequestsFit
    <3>3. capacity = A!DefaultInitialCapacity \/ capacity <= LargestGrant
      BY DEF ArrayInv
    <3>4. CASE n <= capacity
      BY <2>1, <2>2, <3>4
    <3>5. CASE ~(n <= capacity) /\ capacity = A!DefaultInitialCapacity
      BY <2>1, <2>2, <3>1, <3>2, <3>5
    <3>6. CASE ~(n <= capacity) /\ capacity <= LargestGrant
      BY <2>1, <2>2, <3>1, <3>2, <3>6, RequestAssumption
    <3> QED
      BY <3>3, <3>4, <3>5, <3>6
  <2> DEFINE s == A!Storage(n)
  <2>4. /\ capacity' \in Nat /\ capacity <= capacity' /\ n <= capacity'
        /\ \E j \in 0 .. WordBits : capacity' = P(j)
        /\ capacity' = capacity \/ capacity' <= LargestGrant
        /\ s \in Seq(Elements) /\ Len(s) = capacity'
        /\ \A i \in 1 .. capacity : s[i] = content[i]
    BY <1>2, <2>2, <2>3, Granted
  <2>5. shown' = TRUE /\ size' = n /\ content' = [s EXCEPT ![n] = x]
    BY <1>2, <2>2 DEF A!Grant
  <2> HIDE DEF s
  <2>6. n \in 1 .. Len(s)
    BY <2>1, <2>2, <2>4
  <2>7. /\ content' \in Seq(Elements) /\ Len(content') = capacity' /\ content'[n] = x
        /\ \A i \in 1 .. size : content'[i] = content[i]
    <3>1. content' \in Seq(Elements) /\ Len(content') = capacity' /\ content'[n] = x
      BY <2>4, <2>5, <2>6
    <3>2. ASSUME NEW i \in 1 .. size PROVE content'[i] = content[i]
      <4>1. i \in 1 .. capacity /\ i # n /\ i \in 1 .. Len(s)
        BY <2>1, <2>2, <2>4
      <4>2. content'[i] = s[i]
        BY <2>4, <2>5, <4>1
      <4> QED
        BY <2>4, <4>1, <4>2
    <3> QED
      BY <3>1, <3>2
  <2>8. ArrayInv'
    BY <2>3, <2>4, <2>5, <2>7 DEF ArrayInv, A!TypeOK, A!CapacityBacked
  <2> DEFINE t == SubSeq(content', 1, n)
             u == Append(Items, x)
  <2>9. t \in Seq(Elements) /\ Len(t) = n /\ \A i \in 1 .. n : t[i] = content'[i]
    BY <2>3, <2>4, <2>7, Prefix
  <2>10. Items \in Seq(Elements) /\ Len(Items) = size /\ \A i \in 1 .. size : Items[i] = content[i]
    BY ItemsShape
  <2>11. u \in Seq(Elements) /\ Len(u) = n /\ u[n] = x /\ \A i \in 1 .. size : u[i] = content[i]
    BY <2>1, <2>2, <2>10
  <2> HIDE DEF t, u
  <2>12. \A i \in 1 .. n : i = n \/ i \in 1 .. size
    BY <2>1, <2>2
  <2>13. \A i \in 1 .. n : t[i] = u[i]
    BY <2>7, <2>9, <2>11, <2>12
  <2>14. t = [i \in 1 .. n |-> t[i]] /\ u = [i \in 1 .. n |-> u[i]]
    BY <2>9, <2>11
  <2>15. t = u
    BY <2>13, <2>14
  <2>16. A!L!Push(x)
    BY <2>5, <2>15 DEF A!L!Push, t, u, Items
  <2> QED
    BY <2>8, <2>16 DEF Listed, A!L!ListNext
<1> QED
  BY <1>1, <1>2 DEF A!AppendElement

LEMMA Overwritten ==
  ASSUME NEW S, NEW s \in Seq(S), NEW k, NEW x \in S
  PROVE  [s EXCEPT ![k] = x] \in Seq(S) /\ Len([s EXCEPT ![k] = x]) = Len(s)
<1> DEFINE h == [s EXCEPT ![k] = x]
<1>1. Len(s) \in Nat /\ DOMAIN s = 1 .. Len(s) /\ \A i \in 1 .. Len(s) : s[i] \in S
  OBVIOUS
<1>2. DOMAIN h = DOMAIN s /\ \A i \in DOMAIN s : h[i] = IF i = k THEN x ELSE s[i]
  OBVIOUS
<1>3. h = [i \in DOMAIN h |-> h[i]]
  OBVIOUS
<1> HIDE DEF h
<1>4. h \in [1 .. Len(s) -> S]
  BY <1>1, <1>2, <1>3
<1>5. h \in Seq(S) /\ Len(h) = Len(s)
  BY <1>1, <1>4
<1> QED
  BY <1>5 DEF h

LEMMA SetListed ==
  ASSUME ArrayInv, NEW n \in Requests, NEW x \in Elements, A!Set(n, x)
  PROVE  Listed
<1>1. /\ size \in Nat /\ capacity \in Nat /\ size <= capacity
      /\ content \in Seq(Elements) /\ Len(content) = capacity /\ n \in Nat
  BY ArrayShape, RequestAssumption
<1>2. CASE shown' = FALSE /\ UNCHANGED <<size, capacity, content>>
  BY <1>2, RefusedListed
<1>3. CASE /\ n < capacity /\ n < Len(content)
           /\ content' = [content EXCEPT ![n + 1] = x] /\ shown' = TRUE
           /\ UNCHANGED <<size, capacity>>
  <2>1. PICK k : k = n + 1
    OBVIOUS
  <2>2. k \in 1 .. capacity /\ content' = [content EXCEPT ![k] = x]
    BY <1>1, <1>3, <2>1
  <2>3. /\ content' \in Seq(Elements) /\ Len(content') = capacity /\ content'[k] = x
        /\ \A i \in 1 .. capacity : i # k => content'[i] = content[i]
    BY <1>1, <2>2
  <2>4. ArrayInv'
    BY <1>1, <1>3, <2>3 DEF ArrayInv, A!TypeOK, A!CapacityBacked
  <2> DEFINE t == SubSeq(content', 1, size)
             u == IF n < Len(Items) THEN [Items EXCEPT ![k] = x] ELSE Items
  <2>5. t \in Seq(Elements) /\ Len(t) = size /\ \A i \in 1 .. size : t[i] = content'[i]
    BY <1>1, <2>3, Prefix
  <2>6. Items \in Seq(Elements) /\ Len(Items) = size /\ \A i \in 1 .. size : Items[i] = content[i]
    BY ItemsShape
  <2> HIDE DEF t
  <2>7. u \in Seq(Elements) /\ Len(u) = size
    <3>1. [Items EXCEPT ![k] = x] \in Seq(Elements) /\ Len([Items EXCEPT ![k] = x]) = Len(Items)
      BY <2>6, Overwritten
    <3> QED
      BY <2>6, <3>1
  <2>8. ASSUME NEW i \in 1 .. size PROVE t[i] = u[i]
    <3>1. i \in 1 .. capacity /\ t[i] = content'[i] /\ i \in 1 .. Len(Items)
      BY <1>1, <2>5, <2>6
    <3>2. CASE i = k
      <4>1. n < Len(Items)
        BY <1>1, <2>1, <2>6, <3>2
      <4>2. u[i] = x
        BY <2>6, <3>1, <3>2, <4>1
      <4> QED
        BY <2>3, <3>1, <3>2, <4>2
    <3>3. CASE i # k
      <4>1. u[i] = Items[i]
        BY <2>6, <3>1, <3>3
      <4> QED
        BY <2>3, <2>6, <3>1, <3>3, <4>1
    <3> QED
      BY <3>2, <3>3
  <2> HIDE DEF u
  <2>9. t = [i \in 1 .. size |-> t[i]] /\ u = [i \in 1 .. size |-> u[i]]
    BY <2>5, <2>7
  <2>10. t = u
    BY <2>8, <2>9
  <2>11. A!L!Put(n, x)
    BY <1>3, <2>1, <2>10 DEF A!L!Put, t, u, Items
  <2> QED
    BY <2>4, <2>11 DEF Listed, A!L!ListNext
<1> QED
  BY <1>2, <1>3 DEF A!Set

LEMMA GetListed ==
  ASSUME ArrayInv, NEW n \in Requests, A!Get(n)
  PROVE  Listed
<1>1. /\ size \in Nat /\ capacity \in Nat /\ size <= capacity
      /\ content \in Seq(Elements) /\ Len(content) = capacity /\ n \in Nat
  BY ArrayShape, RequestAssumption
<1>2. /\ shown' = (IF n < size THEN content[n + 1] ELSE None)
      /\ UNCHANGED <<size, capacity, content>>
  BY DEF A!Get
<1>3. Items \in Seq(Elements) /\ Len(Items) = size /\ \A i \in 1 .. size : Items[i] = content[i]
  BY ItemsShape
<1>4. n < size => n + 1 \in 1 .. size /\ n + 1 \in 1 .. capacity /\ content[n + 1] \in Elements
  BY <1>1
<1>5. shown' = (IF n < Len(Items) THEN Items[n + 1] ELSE None)
  BY <1>2, <1>3, <1>4
<1>6. shown' \in Elements \cup BOOLEAN \cup {None}
  BY <1>2, <1>4
<1>7. ArrayInv'
  BY <1>2, <1>6 DEF ArrayInv, A!TypeOK, A!CapacityBacked
<1>8. A!L!Look(n)
  BY <1>2, <1>5 DEF A!L!Look, Items
<1> QED
  BY <1>7, <1>8 DEF Listed, A!L!ListNext

LEMMA ArrayNextListed ==
  ASSUME ArrayInv, RequestsFit, A!Next
  PROVE  Listed
<1>1. ASSUME NEW x \in Elements, A!AppendElement(x) PROVE Listed
  BY <1>1, AppendListed
<1>2. ASSUME NEW n \in Requests, A!Reserve(n) PROVE Listed
  BY <1>2, ReserveListed
<1>3. ASSUME NEW n \in Requests, A!Resize(n) PROVE Listed
  BY <1>3, ResizeListed
<1>4. ASSUME NEW n \in Requests, A!Get(n) PROVE Listed
  BY <1>4, GetListed
<1>5. ASSUME NEW n \in Requests, NEW x \in Elements, A!Set(n, x) PROVE Listed
  BY <1>5, SetListed
<1> QED
  BY <1>1, <1>2, <1>3, <1>4, <1>5 DEF A!Next

-----------------------------------------------------------------------------
(* The script *)

(* Nothing is in a map that was not made, or not yet. *)
Unmade == made # "map" => entries = << >> /\ index = << >> /\ reply = None

LEMMA SameArray ==
  ASSUME ArrayInv, UNCHANGED arrayVars
  PROVE  ArrayInv' /\ UNCHANGED A!L!listVars
<1>1. UNCHANGED <<size, capacity, content, shown>>
  BY DEF arrayVars
<1> QED
  BY <1>1 DEF ArrayInv, A!TypeOK, A!CapacityBacked, A!L!listVars

LEMMA SameMap ==
  ASSUME MapInv, UNCHANGED <<entries, index>>
  PROVE  MapInv'
BY DEF MapInv, MapTypeOK, IndexInverse

LEMMA ArrayStep ==
  ASSUME RequestsFit, ArrayInv, [ColNext]_colVars
  PROVE  ArrayInv' /\ [A!L!ListNext]_(A!L!listVars)
<1>1. CASE UNCHANGED arrayVars
  BY <1>1, SameArray
<1>2. CASE ArrayCall
  <2>1. CASE A!Next
    BY <2>1, ArrayNextListed DEF Listed
  <2>2. CASE WrongWidth
    BY <2>2, RefusedListed DEF WrongWidth, Listed
  <2> QED
    BY <1>2, <2>1, <2>2 DEF ArrayCall
<1>3. CASE NoArrayCall
  BY <1>3, RefusedListed DEF NoArrayCall, Listed
<1> QED
  BY <1>1, <1>2, <1>3 DEF ColNext, NewArray, NewMap, colVars

LEMMA MapStep ==
  ASSUME MapInv, Unmade, [ColNext]_colVars
  PROVE  MapInv' /\ Unmade' /\ [D!DictNext]_(D!dictVars)
<1>1. CASE UNCHANGED <<entries, index, reply>> /\ (made' = made \/ made = "nothing")
  <2>1. Unmade'
    BY <1>1 DEF Unmade
  <2> QED
    BY <1>1, <2>1, SameMap DEF D!dictVars
<1>2. CASE MapCall
  <2>1. MapNext /\ made' = "map"
    BY <1>2 DEF MapCall
  <2> QED
    BY <2>1, NextKeepsInv, NextRefines DEF Unmade
<1>3. CASE NoMapCall
  <2>1. made = "no map" /\ made' = made /\ reply' = None /\ UNCHANGED <<entries, index>>
    BY <1>3 DEF NoMapCall
  <2>2. reply = None
    BY <2>1 DEF Unmade
  <2> QED
    BY <1>1, <2>1, <2>2
<1> QED
  BY <1>1, <1>2, <1>3
  DEF ColNext, colVars, mapVars, NewArray, ArrayCall, NoArrayCall, NewMap

LEMMA InitCol ==
  ASSUME ColInit
  PROVE  /\ MapInv /\ Unmade /\ D!DictInit
         /\ RequestsFit => ArrayInv /\ A!L!ListInit
<1>1. MapInv /\ Unmade /\ D!DictInit
  BY DEF ColInit, MapInit, MapInv, MapTypeOK, IndexInverse, Unmade, D!DictInit
<1>2. ASSUME RequestsFit PROVE ArrayInv /\ A!L!ListInit
  <2>1. /\ size = 0 /\ capacity = 4 /\ content = [i \in 1 .. 4 |-> Zero] /\ shown = None
    BY DEF ColInit, A!Init, A!DefaultInitialCapacity
  <2>2. content \in Seq(Elements) /\ Len(content) = 4
    <3>1. content \in [1 .. 4 -> Elements]
      BY <2>1, ElementAssumption
    <3> QED
      BY <2>1, <3>1
  <2>3. \E j \in 0 .. WordBits : capacity = P(j)
    <3>1. WordBits \in Nat /\ WordBits - Lg2 \in 0 .. WordBits
      BY WordAssumption
    <3>2. 10 <= P(WordBits - Lg2)
      BY <1>2 DEF RequestsFit, Holds, A!DefaultInitialCapacity
    <3>3. WordBits >= 2
      <4>1. P(0) = 1 /\ (WordBits >= 1 => P(1) = 2)
        <5>1. WordBits >= 1 => 1 \in 1 .. WordBits /\ 1 - 1 = 0
          BY <3>1
        <5> QED
          BY <5>1, ArrayPowers
      <4>2. WordBits < 2 => WordBits - Lg2 = 0 \/ (WordBits - Lg2 = 1 /\ WordBits >= 1)
        BY <3>1, WordAssumption
      <4> QED
        BY <3>1, <3>2, <4>1, <4>2
    <3>4. 1 \in 1 .. WordBits /\ 2 \in 1 .. WordBits /\ 2 \in 0 .. WordBits
      BY <3>1, <3>3
    <3>5. P(1) = 2 * P(0) /\ P(2) = 2 * P(1) /\ P(0) = 1
      <4>1. 1 - 1 = 0 /\ 2 - 1 = 1
        OBVIOUS
      <4> QED
        BY <3>4, <4>1, ArrayPowers
    <3>6. P(2) = 4
      BY <3>5
    <3> QED
      BY <2>1, <3>4, <3>6
  <2>4. ArrayInv
    BY <2>1, <2>2, <2>3 DEF ArrayInv, A!TypeOK, A!CapacityBacked, A!DefaultInitialCapacity
  <2>5. SubSeq(content, 1, 0) = << >>
    BY <2>2
  <2> QED
    BY <2>1, <2>4, <2>5 DEF A!L!ListInit
<1> QED
  BY <1>1, <1>2

(* In every script, whatever collections were made or could not be: the     *)
(* map's index is the inverse of its entries, and the map's replies are a   *)
(* dictionary's (map.rs, called by the interpreter of the court).           *)
THEOREM ScriptMapIsDictionary == ColSpec => []IndexInverse /\ ImplementsDictionary
<1>1. ColInit => MapInv /\ Unmade /\ D!DictInit
  BY InitCol
<1>2. MapInv /\ Unmade /\ [ColNext]_colVars => MapInv' /\ Unmade' /\ [D!DictNext]_(D!dictVars)
  BY MapStep
<1>3. MapInv => IndexInverse
  BY DEF MapInv
<1> QED
  BY <1>1, <1>2, <1>3, PTL DEF ColSpec, ImplementsDictionary, D!DictSpec

(* As long as sizes and grants fit the machine, an array has the storage    *)
(* its capacity says, through every reserve, resize and append, whichever   *)
(* the arena refuses (array_reserve in array.rs).                           *)
THEOREM CapacityAlwaysBacked == RequestsFit => (ColSpec => []CapacityBacked)
<1> SUFFICES ASSUME RequestsFit PROVE ColSpec => []CapacityBacked
  OBVIOUS
<1>1. ColInit => MapInv /\ Unmade /\ ArrayInv
  BY InitCol
<1>2. MapInv /\ Unmade /\ ArrayInv /\ [ColNext]_colVars => MapInv' /\ Unmade' /\ ArrayInv'
  BY MapStep, ArrayStep
<1>3. MapInv /\ ArrayInv => CapacityBacked
  BY DEF MapInv, ArrayInv, CapacityBacked
<1> QED
  BY <1>1, <1>2, <1>3, PTL DEF ColSpec

(* Under the same condition the array is a list: what was written is what   *)
(* is read, growth keeps every element, a refused call changes nothing.     *)
THEOREM ArrayIsList == RequestsFit => (ColSpec => ImplementsList)
<1> SUFFICES ASSUME RequestsFit PROVE ColSpec => ImplementsList
  OBVIOUS
<1>1. ColInit => ArrayInv /\ A!L!ListInit
  BY InitCol
<1>2. ArrayInv /\ [ColNext]_colVars => ArrayInv' /\ [A!L!ListNext]_(A!L!listVars)
  BY ArrayStep
<1> QED
  BY <1>1, <1>2, PTL DEF ColSpec, ImplementsList, A!ImplementsList, A!L!ListSpec
=============================================================================
