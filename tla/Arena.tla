------------------------------- MODULE Arena -------------------------------
(***************************************************************************)
(* One arena of crates/upb-rs-core/src/arena.rs: a bump allocator over a   *)
(* list of blocks that never move, fed by an allocator that may run out.   *)
(*                                                                         *)
(* The arena's user holds handles (block, offset, size).  It allocates,    *)
(* reallocates, shrinks and extends them; nothing is given back before the *)
(* whole arena is freed, so a handle lives as long as the arena does.      *)
(* Fuse groups and freeing are in ArenaFuse.                               *)
(*                                                                         *)
(* Sizes are bytes.  Block 0 is the user's initial buffer (usize::MAX in   *)
(* the code), block i + 1 is blocks[i] of the code.                        *)
(***************************************************************************)
EXTENDS Naturals, Sequences, Numbers

CONSTANTS
  Align,            \* cfg.malloc_align, a power of two
  Guard,            \* cfg.guard_size, added to every allocation span
  MemblockReserve,  \* cfg.memblock_reserve, accounted for every block
  StateReserve,     \* cfg.state_reserve, taken from the first region
  Slots,            \* names for the user's handles
  Sizes,            \* the sizes the user asks for
  FirstSizes,       \* the size hints given to new_arena
  Buffers,          \* the sizes of the initial buffers given to new_arena
  MaxBlockSizes,    \* the arguments of set_max_block_size
  FailAfters        \* ControlledAllocator thresholds, 0 = never fails

ASSUME ConfigAssumption ==
  /\ Align \in Nat \ {0} /\ Guard \in Nat
  /\ MemblockReserve \in Nat /\ StateReserve \in Nat
ASSUME InputAssumption ==
  /\ Sizes \subseteq Nat /\ FirstSizes \subseteq Nat /\ Buffers \subseteq Nat
  /\ MaxBlockSizes \subseteq Nat /\ FailAfters \subseteq Nat

VARIABLES
  created,          \* new_arena has returned Some
  hasAlloc,         \* the arena may add blocks
  buffer,           \* size of the initial buffer, 0 without one
  blocks,           \* data sizes of the blocks, in order
  bump,             \* the current region: [block, ptr]
  end,              \* the end of the current region
  lastBlockSize, sizeHint, spaceAllocated,
  total, failAfter, \* the ControlledAllocator
  maxBlockSize,
  handles           \* slot -> the handle the user holds

growthVars == <<lastBlockSize, sizeHint>>
blockVars  == <<blocks, spaceAllocated, total>>
modeVars   == <<created, hasAlloc, buffer, failAfter, maxBlockSize>>
vars == <<modeVars, blockVars, growthVars, bump, end, handles>>

Handle == [block : Nat, offset : Nat, size : Nat]

Lesser(x, y)  == IF x <= y THEN x ELSE y
Greater(x, y) == IF x >= y THEN x ELSE y
Monus(x, y)   == IF x >= y THEN x - y ELSE 0   \* saturating_sub

(* (x + Align - 1) & !(Align - 1) *)
AlignUp(x) == (x + (Align - 1)) - ((x + (Align - 1)) % Align)
Span(size) == AlignUp(size) + Guard

RegionSize(b) == IF b = 0 THEN end ELSE blocks[b]
Has == Monus(RegionSize(bump.block), bump.ptr)

(* ControlledAllocator::take *)
CanTake(bytes) == failAfter = 0 \/ total + bytes <= failAfter

-----------------------------------------------------------------------------
(* Creation *)

Init ==
  /\ created = FALSE /\ hasAlloc = FALSE /\ buffer = 0
  /\ blocks = << >> /\ spaceAllocated = 0 /\ total = 0
  /\ bump = [block |-> 0, ptr |-> 0] /\ end = 0
  /\ lastBlockSize = 0 /\ sizeHint = 0
  /\ failAfter \in FailAfters
  /\ maxBlockSize \in MaxBlockSizes
  /\ handles = << >>

FirstDataSize(first) ==
  StateReserve + Greater(Greater(Align, AlignUp(first) + Guard), 256)

(* new_arena over a user buffer that is large enough for the arena state *)
NewArenaInBuffer(n, alloc) ==
  /\ ~created /\ n >= StateReserve
  /\ created' = TRUE /\ hasAlloc' = alloc /\ buffer' = n
  /\ bump' = [block |-> 0, ptr |-> StateReserve] /\ end' = n
  /\ lastBlockSize' = 128 /\ sizeHint' = 128
  /\ UNCHANGED <<blockVars, failAfter, maxBlockSize, handles>>

(* init_slow: the arena's state lives at the start of its first block.  A  *)
(* buffer that is too small is ignored, and its size is not a hint.        *)
NewArenaSlow(first) ==
  LET data == FirstDataSize(first) IN
  /\ ~created /\ CanTake(data + MemblockReserve)
  /\ created' = TRUE /\ hasAlloc' = TRUE
  /\ blocks' = <<data>>
  /\ spaceAllocated' = data + MemblockReserve
  /\ total' = total + (data + MemblockReserve)
  /\ bump' = [block |-> 1, ptr |-> StateReserve] /\ end' = data
  /\ lastBlockSize' = data /\ sizeHint' = data
  /\ UNCHANGED <<buffer, failAfter, maxBlockSize, handles>>

(* init_slow without an allocator, or with one that has had enough. *)
RefuseArena(first, alloc) ==
  /\ ~created
  /\ alloc => ~CanTake(FirstDataSize(first) + MemblockReserve)
  /\ UNCHANGED vars

NewArena ==
  \/ \E n \in Buffers, alloc \in BOOLEAN : NewArenaInBuffer(n, alloc)
  \/ \E first \in FirstSizes : NewArenaSlow(first)
  \/ /\ \E n \in Buffers : n < StateReserve
     /\ NewArenaSlow(0)
  \/ \E first \in FirstSizes, alloc \in BOOLEAN : RefuseArena(first, alloc)

SetMaxBlockSize(m) ==
  /\ maxBlockSize' = m
  /\ UNCHANGED <<created, hasAlloc, buffer, failAfter, blockVars, growthVars,
                 bump, end, handles>>

-----------------------------------------------------------------------------
(* Allocation *)

(* The code's `blockSize - span` wraps to a huge value below zero. *)
WouldReduceFreeSpace(free, span, blockSize) ==
  blockSize >= span /\ free >= blockSize - span

(* Variant of NextBlockSize: the room of the current region is not looked   *)
(* at.                                                                      *)
NextBlockSizeGreedy(span) ==
  LET regular == Lesser(2 * lastBlockSize, maxBlockSize)
      hinted  == Lesser(2 * sizeHint, maxBlockSize)
      candidate == IF span > regular THEN hinted ELSE regular
  IN [oneOff |-> span > candidate,
      size |-> IF span > candidate THEN span ELSE candidate]

NextBlockSize(span) ==
  LET regular   == Lesser(2 * lastBlockSize, maxBlockSize)
      hinted    == Lesser(2 * sizeHint, maxBlockSize)
      candidate == IF span > regular THEN hinted ELSE regular
      free      == IF blocks = << >> THEN 0 ELSE Has
      oneOff    == \/ span > candidate
                   \/ WouldReduceFreeSpace(free, span, candidate)
  IN [oneOff |-> oneOff, size |-> IF oneOff THEN span ELSE candidate]

Hold(slot, h) ==
  handles' = [s \in DOMAIN handles \cup {slot} |->
                IF s = slot THEN h ELSE handles[s]]

(* the fast path of malloc *)
FastMalloc(slot, size) ==
  /\ Has >= Span(size)
  /\ Hold(slot, [block |-> bump.block, offset |-> bump.ptr, size |-> size])
  /\ bump' = [bump EXCEPT !.ptr = @ + Span(size)]
  /\ UNCHANGED <<modeVars, blockVars, growthVars, end>>

(* Variant: the block's header is not accounted for.                        *)
AddBlockNoReserve(size) ==
  /\ blocks' = Append(blocks, size)
  /\ spaceAllocated' = spaceAllocated + size
  /\ total' = total + (size + MemblockReserve)

AddBlock(size) ==
  /\ blocks' = Append(blocks, size)
  /\ spaceAllocated' = spaceAllocated + (size + MemblockReserve)
  /\ total' = total + (size + MemblockReserve)

UpdateGrowthState(span, blockSize, oneOff) ==
  IF oneOff
    THEN /\ sizeHint' = Lesser(sizeHint + (span \div 2), maxBlockSize \div 2)
         /\ UNCHANGED lastBlockSize
    ELSE lastBlockSize' = blockSize /\ sizeHint' = blockSize

(* slow_malloc once alloc_block has added a block: either the whole block  *)
(* is the allocation (one-off), or the block becomes the bump region if it *)
(* has more room and the fast path is entered again.                       *)
SlowMalloc(slot, size) ==
  LET span   == Span(size)
      next   == NextBlockSize(span)
      new    == Len(blocks) + 1
      \* taken again with the block that was obtained; the block of a
      \* one-off is exactly its span, so here the answer stays the same
      oneOff == next.oneOff /\ WouldReduceFreeSpace(Has, span, next.size)
      used   == ~oneOff /\ next.size > Has
      from   == IF used THEN [block |-> new, ptr |-> 0] ELSE bump
  IN /\ Has < span /\ hasAlloc /\ CanTake(next.size + MemblockReserve)
     /\ AddBlock(next.size)
     /\ UpdateGrowthState(span, next.size, oneOff)
     /\ IF oneOff
          THEN /\ Hold(slot, [block |-> new, offset |-> 0, size |-> size])
               /\ UNCHANGED bump
          ELSE /\ Hold(slot, [block |-> from.block, offset |-> from.ptr,
                              size |-> size])
               /\ bump' = [from EXCEPT !.ptr = @ + span]
     /\ end' = IF used THEN next.size ELSE end
     /\ UNCHANGED modeVars

(* Variant: the arena counts its block before the allocator has agreed.     *)
RefuseMallocCharged(size) ==
  /\ Has < Span(size)
  /\ hasAlloc => ~CanTake(NextBlockSize(Span(size)).size + MemblockReserve)
  /\ spaceAllocated' = spaceAllocated +
       (IF hasAlloc THEN NextBlockSize(Span(size)).size + MemblockReserve ELSE 0)
  /\ UNCHANGED <<modeVars, blocks, total, growthVars, bump, end, handles>>

(* slow_malloc returns None: the arena has no allocator, or the allocator   *)
(* refuses the block, and both accounts stay as they were.                  *)
RefuseMalloc(size) ==
  /\ Has < Span(size)
  /\ hasAlloc => ~CanTake(NextBlockSize(Span(size)).size + MemblockReserve)
  /\ UNCHANGED vars

MallocInto(slot, size) == FastMalloc(slot, size) \/ SlowMalloc(slot, size)

Malloc(slot, size) ==
  /\ created /\ slot \notin DOMAIN handles
  /\ MallocInto(slot, size) \/ RefuseMalloc(size)

-----------------------------------------------------------------------------
(* Reallocation *)

(* Variant: the block is not compared.                                      *)
WasLastAllocAnyBlock(h) == h.offset + Span(h.size) = bump.ptr

WasLastAlloc(h) ==
  h.block = bump.block /\ h.offset + Span(h.size) = bump.ptr

Extension(h, size) == Monus(Span(size), Span(h.size))

CanExtend(h, size) == WasLastAlloc(h) /\ Has >= Extension(h, size)

Resized(slot, size) ==
  handles' = [handles EXCEPT ![slot] = [@ EXCEPT !.size = size]]

(* shrink_last: the user only asks for less than it has *)
ShrinkLast(slot, size) ==
  /\ slot \in DOMAIN handles /\ size <= handles[slot].size
  /\ WasLastAlloc(handles[slot])
  /\ bump' = [bump EXCEPT !.ptr = handles[slot].offset + Span(size)]
  /\ Resized(slot, size)
  /\ UNCHANGED <<modeVars, blockVars, growthVars, end>>

TryExtend(slot, size) ==
  /\ slot \in DOMAIN handles /\ CanExtend(handles[slot], size)
  /\ bump' = [bump EXCEPT !.ptr = @ + Extension(handles[slot], size)]
  /\ Resized(slot, size)
  /\ UNCHANGED <<modeVars, blockVars, growthVars, end>>

(* realloc *)
ShrinkInPlace(slot, size) ==
  /\ size <= handles[slot].size
  /\ bump' = IF WasLastAlloc(handles[slot])
               THEN [bump EXCEPT !.ptr = handles[slot].offset + Span(size)]
               ELSE bump
  /\ Resized(slot, size)
  /\ UNCHANGED <<modeVars, blockVars, growthVars, end>>

GrowInPlace(slot, size) ==
  size > handles[slot].size /\ TryExtend(slot, size)

Move(slot, size) ==
  /\ size > handles[slot].size /\ ~CanExtend(handles[slot], size)
  /\ MallocInto(slot, size) \/ RefuseMalloc(size)

Realloc(slot, size) ==
  /\ slot \in DOMAIN handles
  /\ \/ ShrinkInPlace(slot, size)
     \/ GrowInPlace(slot, size)
     \/ Move(slot, size)

(* The calls a trace makes of one arena.  The handle that realloc returns   *)
(* replaces the one it was given.                                           *)
Next ==
  \/ NewArena
  \/ \E m \in MaxBlockSizes : SetMaxBlockSize(m)
  \/ \E slot \in Slots, size \in Sizes :
       \/ Malloc(slot, size)
       \/ Realloc(slot, size)
       \/ ShrinkLast(slot, size)
       \/ TryExtend(slot, size)

Spec == Init /\ [][Next]_vars

-----------------------------------------------------------------------------
(* Correctness *)

(* Every variable has the shape the code gives it; a handle names a block  *)
(* that exists and the current region is one of the blocks.                *)
TypeOK ==
  /\ created \in BOOLEAN /\ hasAlloc \in BOOLEAN /\ buffer \in Nat
  /\ blocks \in Seq(Nat) /\ spaceAllocated \in Nat /\ total \in Nat
  /\ bump \in [block : Nat, ptr : Nat] /\ end \in Nat
  /\ bump.block <= Len(blocks)
  /\ lastBlockSize \in Nat /\ sizeHint \in Nat
  /\ failAfter \in Nat /\ maxBlockSize \in Nat
  /\ DOMAIN handles \subseteq Slots
  /\ handles \in [DOMAIN handles -> Handle]
  /\ \A s \in DOMAIN handles : handles[s].block <= Len(blocks)

Extent(b) == IF b = 0 THEN buffer ELSE blocks[b]
NonEmpty(h) == Span(h.size) > 0
EndOf(h) == h.offset + Span(h.size)

(* The bump pointer never passes the end of its region, which the code     *)
(* keeps twice: as `end` and as the size of the block.                     *)
BumpInRegion == bump.ptr <= end /\ end = Extent(bump.block)

(* Every handle that spans a byte, its alignment padding and guard         *)
(* included, lies inside its block, and below the bump pointer when its    *)
(* block is the current region.                                            *)
InBounds ==
  \A s \in DOMAIN handles : NonEmpty(handles[s]) =>
    /\ EndOf(handles[s]) <= Extent(handles[s].block)
    /\ handles[s].block = bump.block => EndOf(handles[s]) <= bump.ptr

Apart(h, g) ==
  \/ ~NonEmpty(h) \/ ~NonEmpty(g) \/ h.block # g.block
  \/ EndOf(h) <= g.offset \/ EndOf(g) <= h.offset

(* No two handles the user holds share a byte, padding and guard included, *)
(* whatever was allocated, shrunk, extended and moved before.              *)
NoOverlap ==
  \A s, t \in DOMAIN handles : s # t => Apart(handles[s], handles[t])

(* Before the arena is created there is nothing to hold.                   *)
Fresh == ~created => handles = << >> /\ blocks = << >> /\ buffer = 0

(* What makes the arena safe: it may only extend a handle at the bump       *)
(* pointer, above every other handle of its block.  The parts hold         *)
(* together, each step needs them all.                                     *)
ArenaInv == TypeOK /\ Fresh /\ BumpInRegion /\ InBounds /\ NoOverlap

(* The arena's own account and the allocator's agree, byte for byte, with  *)
(* the blocks held, whichever requests were refused in between, and the     *)
(* injected limit is never exceeded (the two are kept by different          *)
(* functions of the code, on different paths).                              *)
Charges == [i \in 1 .. Len(blocks) |-> blocks[i] + MemblockReserve]
AccountExact ==
  /\ spaceAllocated = SumOf(Charges) /\ total = spaceAllocated
  /\ failAfter # 0 => total <= failAfter

(* A block bought for one request never costs the arena the room it had    *)
(* left: an arena that has blocks never ends a slow allocation with *)
(* less free space than before (what _upb_Arena_WouldReduceFreeSpace is    *)
(* for).                                                                   *)
FreeSpaceKept ==
  [][(blocks # << >> /\ blocks' # blocks) => Has' >= Has]_vars

(* The arena is the heap its user expects. *)
HeapRegions ==
  [s \in DOMAIN handles |->
     [space |-> handles[s].block, lo |-> handles[s].offset,
      size |-> handles[s].size]]

H == INSTANCE Heap WITH regions <- HeapRegions

(* Each malloc, realloc, shrink and extend hands out a private region and  *)
(* moves a handle only when it grows.                                      *)
ImplementsHeap == H!HeapSpec
=============================================================================
