# A TLA+ model of upb-rs

upb-rs re-implements the runtime of upb (the C protobuf library) in Rust and
compares itself with it case by case: *courts* feed the same cases to the Rust
code and to an *oracle* process around the C library.  This directory holds
TLA+ modules translated from the Rust code, the TLC configurations that check
them on small instances, and TLAPS proofs of the results that hold for every
value of the constants.

The runtime has one thread.  What is hard in it is not interleaving but long
sequences of legal calls that share state (handles of an arena, fused arenas,
nested limits of a stream), steps that are refused half way, values kept twice,
and arithmetic at the edges of words, windows and blocks.  The courts are two
processes that talk over pipes; there, the death of either one and the order of
what they write is what can go wrong.

## The system

| Part | Source | State | Operations |
|---|---|---|---|
| Arena | `upb-rs-core/src/arena.rs` | blocks, bump region and its end, growth hints, the space accounts, an allocator that may run out | new, malloc, realloc, shrink_last, try_extend, set_max_block_size |
| Arena pool | the same file | slots, union-find parents, handle counts and member lists of roots, cleanups | new, fuse, is_fused, set_cleanup, space_allocated, free |
| Array | `upb-rs-core/src/array.rs` | size, capacity, element bytes, a handle into the arena | new, reserve, resize, append, set, get |
| Map | `upb-rs-core/src/map.rs` | entries in insertion order, an index from keys to positions | insert, get, delete, iterate |
| Input stream | `upb-rs-wire/src/stream.rs` | a window, its end, a limit relative to it, a base, an error flag | init, is_done, push_limit, pop_limit, check_size |
| Wire reader | `upb-rs-wire/src/reader.rs` | none: it reads the window | varints, tags, sizes, fixed values, skipping values and groups |
| Empty-table decoder | `upb-rs-wire/src/message.rs` | position, captured span | decode_empty |
| Message decoder | `upb-rs-wire/src/message_known.rs` | a message (slots, hasbits, oneof cases, arrays, maps, submessages, unknown bytes), depth | decode_known, decode_submsg |
| Encoder, message operations | the same file | output bytes, depth | encode, merge, clear, clone |
| Table pool | the same file | message tables, enum tables, links | from_pool, sub, sub_enum, reject_deferred |
| Mini tables | `upb-rs-mini-table/src/*.rs` | a parser's field number, modifiers and oneof lists; the table's layout; an enum's mask and tail | build_mini_table, build_mini_table_enum, check_value |
| Oracle client | `upb-rs-oracle/src/*.rs` | two pipes, the next request id | request, request_value, drop |
| Courts | `courts/*/src/main.rs` | verdicts, counts, a receipt's files | run a corpus, compare, write a receipt |
| Corpus | `tools/corpus/src/*.rs` | a descriptor being written | EnumEncoder, MessageEncoder; the lists of cases |
| Oracle server | `tools/oracle/src/oracle.c` | a line at a time | read a line, answer it |

How they interact: the decoder owns a stream and calls the reader on its
window; every delimited payload pushes a limit on the stream, and the decoder
recurses under it.  Decoded values go to arrays, maps and submessages of the
message.  Arrays take their storage from an arena of the pool; arenas of a
pool share one allocator and are freed in groups.  Tables are built from
descriptors by the mini-table decoder and linked by the table pool, and both
decoder and encoder follow the links.  The corpus tool writes the descriptors.
Courts call all of this and, through the client, the oracle.

What makes each part correct:

- *Arena*: handles never overlap nor leave their block, whatever is moved,
  shrunk or extended; a slow allocation keeps the room there was; the accounts
  are exact after refusals.
- *Pool*: the count of a group is the number of its unfreed handles, a group
  ends exactly with its last handle, and every cleanup runs once.
- *Array*, *map*: they are a list and a dictionary; a refused call changes
  nothing.
- *Stream*: through all windows it is a cursor over the input; a read never
  leaves the window; nested payloads stay nested.
- *Reader*, *empty-table decoder*: every well-formed sequence of fields is
  accepted and nothing else, however windows and padding fall.
- *Decoder*: a decode that succeeds has read whole fields, balanced groups and
  valid strings within the depth, and gives the message the input says: the
  last scalar, merged submessages, one member of a oneof, the last clean entry
  of a key, and every unknown field in order; every decode returns.
- *Encoder*, *operations*: what is written says what the message was; the depth
  budget is exact; a merge, done through bytes, merges field by field; a
  deterministic encode does not show insertion order.
- *Mini tables*: a descriptor is read as it was written; the slots of a layout
  are disjoint, aligned and inside the message; an enum answers for its values.
- *Table pool*: links lead where they say; what is decoded as a map has entries.
- *Courts*: a verdict is about one case and its own answer, "equal" means that
  the two agree, a receipt is complete, and a court ends.

## The modules

| Module | Models | Notes |
|---|---|---|
| `Heap` | abstract: private regions that move only when they grow | what a user of an arena relies on |
| `Arena` | one arena | state and names as in `ArenaState`; block 0 is the initial buffer |
| `MCArena` | bounds for TLC | |
| `Numbers` | sums and powers of two | recursive functions |
| `NumberProofs` | what those are, and induction over numbers | used by all the proofs |
| `Lifetimes` | abstract: groups of arenas and their end | |
| `ArenaFuse` | the pool | arena *i* + 1 is `arenas[i]` |
| `PoolProofs` | proofs about `ArenaFuse` | |
| `List` | abstract: a list whose calls may be refused | |
| `UpbArray` | one array | storage counted in elements of 2^Lg2 bytes |
| `Dictionary` | abstract: the last value per key | |
| `UpbMap` | one map | position *i* + 1 is `entries[i]` |
| `Collections` | a script of the collections court on an array or a map | composes `UpbArray` and `UpbMap` |
| `CoreProofs` | proofs about `Arena`, `UpbArray`, `UpbMap` and `Collections` | |
| `Cursor` | abstract: a position and a stack of ends | |
| `EpsCopyStream` | the stream under a decode loop | a byte is the input position it came from |
| `StreamProofs` | proofs about `EpsCopyStream` | |
| `Fields` | abstract: a plain reading of the wire format | no window, no padding |
| `WireReader` | the readers byte by byte, `decode_empty` and the primitives | uses the actions of `EpsCopyStream` |
| `ReaderProofs` | proofs about `WireReader` | uses the lemmas of `StreamProofs` |
| `Messages` | the message model: presence, oneofs, side tables, conversions | a table is a sequence of linked fields |
| `WireUnits` | the units of the wire | what inputs and outputs are made of |
| `Encoder` | the encoder | recursive operators |
| `Decoder` | `decode_message` with `skip_group_inner` | a frame per call in progress; the encoder is a parameter |
| `DecoderProofs` | proofs about `Decoder` | |
| `Content` | a reading of an input without a decoder, to which decodes are compared | joins `Decoder` and `Encoder` |
| `MsgOps` | `encode_submsg`, `msgop_submsg` | runs the decoder up to three times |
| `MCPools` | tables and units for TLC | |
| `MCDecoder`, `MCMsgOps` | the decoder and the operations over those pools | |
| `MiniTable` | `build_mini_table`: parsing loops and layout | a token per turn of a loop |
| `MiniTableProofs` | proofs about `MiniTable` and `TableSet` | |
| `Base92` | the varints of descriptors, both directions | |
| `EnumTable` | `EnumEncoder`, `build_mini_table_enum`, `check_value` | |
| `Descriptor` | `MessageEncoder`, and the text taken apart into tokens | |
| `TableSet` | `from_pool`, `reject_deferred`, following links | composes `EnumTable` and `Descriptor` |
| `MCTables` | pools of descriptors for TLC | |
| `OracleClient` | the client, the pipes, the oracle's loop | a line is an id and how much of it is there |
| `Verdicts` | the comparisons of all courts | |
| `Court` | a court's run: exchange, verdicts, receipt | composes `OracleClient` and `Verdicts` |
| `MCCourt` | two runs for TLC | |
| `CourtProofs` | proofs about `Court` | |

### Arena

`Malloc` is the code's `malloc` with its fast path and `slow_malloc` as two
disjuncts, the latter with every call it makes: `next_block_size`,
`alloc_block` (`AddBlock`), the second one-off decision, `update_growth_state`,
`use_block` and the re-entered fast path.  `Realloc` has one disjunct per
outcome.  A request that the allocator refuses, or an arena without one, is
`RefuseMalloc` (`RefuseArena` for the arena itself): the accounts and the growth
state stay as they were.  The block of a one-off is exactly its span, so that
the second one-off decision always agrees with the first; it is modelled as
the code has it.  Sizes are natural numbers: the word width of `usize` is not
modelled here.  The user holds one handle per slot.  It gives `shrink_last` only smaller sizes,
its contract, and extends or reallocates only handles it holds.

### The pool

What an arena does with its blocks is reduced to bytes taken from the shared
allocator.  A slot that `init_slow` pushed before it was refused stays in the
pool, as in the code.  `find_root` is written without recursion: the ancestors
of an arena are the least set closed under parents.  `fuse` and `free`
compress the paths they walk.  The user frees a handle once.

### The collections

In `UpbArray`, `Backing` is `capacity << lg2` in elements: `checked_shl` does
not notice lost bits.  The arena grants or refuses any growth up to
`LargestGrant`, and always grants what needs no more room.  An access to
storage that is not there is a panic and therefore no step.  `Collections` adds
what the court's interpreter does around the calls: a collection that could
not be made answers every call, and an element of another width is refused.

### The stream and the reader

`EpsCopyStream` is the stream together with the part of the decode loops that
moves it: `phase` says where the loop is (before `is_done`, in a field, at an
end).  A field takes a tag and a scalar from the window (`Reads` bytes; the
zero padding is never a tag), skips or takes a delimited payload, or descends
into one (`PushLimit`).  A payload is skipped against the limit (`skip_value`)
and taken against the input (`read_string_payload`), as in the code; any field
may also turn out malformed.  The saved deltas are those the recursion of
`decode_message` keeps on its stack.

`WireReader` puts bytes into that window.  They are chosen as they are read,
and every word, number and fixed value is scaled: a byte carries 4 bits
instead of 7, a tag has 2 bytes instead of 5, a varint 3 instead of 10.  The
code's trick of summing `byte - 1` to cancel the continuation bit is as it is,
wrapping included.  The operation "packed" reads the first `span` bytes of the
input as a packed payload, as `message_known.rs` does from its own slice; the
conversion of an element to its type is in `Messages`.

### Messages, decoder and encoder

The input is a sequence of *units*: a field with a scalar, the header of a
delimited field, one unit of its payload, or the start or end of a group.  A
unit stands for the bytes of a tag and what follows it, so payload sizes count
units instead of bytes; the bytes themselves are the business of `WireReader`
and, for what the stream does with them, of `EpsCopyStream`.  A header of
a string or packed field carries its payload; that of a message is followed by
the units of the message, or by fewer or more, since the size is any number.
Inputs are chosen as they are read: `Coming` is the unit that is there, or any
unit of the pool.  `Malformed` stands for every tag or value a reader refuses.

A message has the code's parts: scalars by place (`Offset`: the members of a
oneof share one), hasbits, oneof cases, and the side tables by field number.
`Word` is 2^32 scaled down, and the conversions (`Munge`, `EncodeScalar`) are
those of the code at that width: truncation, zigzag, sign extension.

`Decoder` turns the recursion into a stack of frames.  `OpenPayload` pushes the
limit before it looks at the depth, as each of the three branches of
`decode_message` does; `ClosePayload` and `CloseGroup` do what the caller does
on return (`Returned`): keep the submessage, append the element, or insert the
entry - or, if the entry has unknown fields, encode it anew into the parent's
unknown fields with the default depth.  That encode is a parameter of `Decoder`
(`EncodedEntry`, `EncodeRefuses`): the configurations give it the operators of
`Encoder`, and the proofs hold whatever it gives.  A skipped group is a stack of numbers
of its own, and its units are captured when the outermost ends.  The decoder
moves by the actions of `Cursor`, which `EpsCopyStream` implements; that is what
joins the two.

`Content` says what an input means from the input alone, by recursion on its
tree of fields: it knows occurrences, cuts at the last rival of a oneof, and
concatenates the occurrences of a submessage instead of merging messages.
`View` is the same picture of a decoded message as `dump` gives it, with the
case of a oneof told by the member that is present; the two must agree.

In `MsgOps`, `Finish` chooses the options only at the end, because nothing
before the last encode looks at them.  Map entries are encoded in reverse, as
in the code, and sorted by its comparators first if the encode is
deterministic.  A map whose field has a hasbit is written only by a clone,
because the decoder never sets it: `ViewAs` is the view with or without them.

### Tables

`MiniTable` reads a descriptor chosen token by token, then runs the code's
layout passes one after the other: hasbits, the map-entry check, alignment,
offsets by rep with the oneofs' slots, sub slots.  The code chains the members
of a oneof through their `offset` fields; here a oneof is the set of its
members.  That chain puts a bound on the number of fields (its links are
`u16`s, which wrap from 65532 fields on) that the model does not have; nor is
`allocate_subs` dropping a sub whose slot number exceeds a `u16` reached.  The
limits of `i16` and `u16` on offsets are constants and are reached.

`Descriptor` and `EnumTable` write a descriptor as the corpus tool does and
read it back character by character.  Where a character has no place in a
message descriptor, `MiniTable` has one step, `Malformed`, for the errors of the
code and for the panic of `decode_varint` on a character outside of the
alphabet.
`TableSet` builds up to `MaxPool` of these, takes any links for them, one index
outside of the pool included, links them, and then walks as a decode does.

### Oracle and courts

A line in a pipe is an id and a part: whole, a head or a tail (the oracle reads
at most `MAX_LINE` bytes at a time and takes a longer request for two), or
torn (it died while it wrote).  Either process may die at any time.  A court
that panics drops its client, which kills the oracle; one that exits with 2, or
is killed, only closes its pipes, and the oracle finds the end of its input.

`Verdicts` has the answers the oracle and the Rust code may give, over two
messages and their encodings, and each court's comparison of the two.  A run
of a court that reads a corpus may compare a case as any such court does; the
raw courts (arena, collections), which do not look at the ids of responses,
are runs of their own.  They compare traces, or the code with which an arena
could not be made.  A receipt's files are written one step at a time.

## The runs

| Run | Shows | Bounds |
|---|---|---|
| `arena` | no overlap, nothing out of bounds, the heap is implemented; room is kept; accounts exact, through refusals too | 2 handles, sizes 0, 40, 300, 600, buffers of 40 and 200 bytes, small and default maximum block size, with and without a limit, 2 blocks |
| `pool` | counts, lists, cleanups, reports, lifetimes | 3 arenas, 2 cleanup ids, a limit that refuses |
| `collections` | a list and a dictionary, also refused or never made; capacity backed by storage; index and entries inverse | 4 keys, 2 values, 2 elements of 4 bytes, 8-bit words, grants up to 8 elements |
| `stream` | a cursor through all windows; reads in the window; payloads nested | slop 4, inputs of 0 to 11 bytes, 2 nested payloads |
| `wire_reader` | reads in the window; values and consumption exact; decode_empty accepts the well-formed inputs; each field is one of the stream's | slop 6, 4-bit bytes, inputs of up to 13, groups 1 and 2 deep, packed payloads of 0, 1 and 3 |
| `decoder` | the decode of an input is what it says; accepted inputs are sound and read to their end; nesting within the budget; a cursor; returns | inputs of 5 units over 4 tables with 6 to 13 units each, depths 3 and the default, scaled to 1 |
| `msgops` | encode, merge, clear and clone against the same reading; the depth budget; map order | inputs of 3 units over 5 tables, depth 3 and the default, scaled to 2, all options |
| `mini_table` | slots and cases apart, aligned, inside; hasbits owned; the dense prefix; sub slots | 3 fields of 4 types, 2 oneofs, one skip, limits scaled to 65 and 63 bytes |
| `table_set` | descriptors read as written; links followed; map fields have entries; enums answer for their values | up to 3 descriptors; enums of up to 4 values around the mask's bounds; two fields with gaps of up to 3 digits |
| `court` | verdicts about their own case; receipts complete; every court ends | a corpus run and a raw run of 2 cases each, in one second |
| `links_by_descriptor` (violation) | with an enum before a message, other links are followed than those given | as `table_set` |
| `enum_asserts` (violation) | a debug assertion fails at an enum's second sparse value | as `table_set` |

Why the bounds are enough.  *arena*: two handles in two blocks are the least
with which one is extended while the other is next to it, in the same block or
at the same offset of another; the sizes hit an exact fit, a fit in the first
block, one that needs a block and one that is a one-off, and the two maxima
fall on both sides of them.  *pool*: three arenas give a group whose absorbed
root is freed first and a path of two parents to compress.  *collections*: four
keys give a deletion with two positions behind it and one before; sizes are
either below 64 elements, where the byte count of an 8-bit word does not wrap,
or 200, where the doubling itself overflows (between the two, `CapacityBacked`
fails, as with 100; see below).  *stream*: the slop is only compared with and added to
lengths; with 4 instead of 16, inputs up to 11 bytes begin in the patch (0..4),
below twice the slop (5..7) and above, and payloads of 12 bytes are larger than
any input.  *wire_reader*: 13 bytes are more than two slops, so that a field
begins in the second window and its bytes end in the padding; the bytes are
the tags of every wire type, with and without continuation, and the largest
digits.

*decoder*: five units are enough for a submessage, a rival and a second
occurrence with a field each, for a map entry with a key and a value followed
by another one, and for two groups within each other that end in either order.
The default depth, 100 in the code, is 1 in `decoder` and 2 in `msgops`: only
then are the steps reached that use it whatever the depth of the case is (an
entry encoded anew, a merge).  With `Word` 4 a value of a varint is below 16: 7
and 3 agree in their low word and 2 is not a value of the enum, so truncation,
sign and refused values all occur.  In `msgops` maps have integer keys, or
strings of which one begins the other or the first byte tells them apart.

*mini_table*: three fields are a oneof of two beside a third, two oneofs, or
three reps with padding between them.  *table_set*: three descriptors are a
message, a map entry and what the entry's value leads to, or an enum between
messages; words have 20 bits instead of 32, so that a skip of four digits still
wraps them, and `MaskOnly` is the code's 512.  *court*: two runs in one second
are the two kinds of court at once.  Two runs of one kind would share a
directory, which the code does not prevent (see below).

Fairness.  `decoder` (and with it `stream` and `msgops`) assumes weak fairness
of the whole next-state relation, because the decoder is one thread that runs
until it returns; no choice within a step is assumed to be fair.  `court` assumes weak fairness of each
run's own steps and of its oracle's answers, since the operating system
schedules both processes; it assumes nothing of crashes, kills or starts.
`CourtsEnd` holds with oracles that never answer a second time because they
died, and not without the check for the end of the file.  It says nothing of an
oracle that lives and never answers: the client has no timeout and would wait.  No other run has a
liveness property (`Terminates` and `CourtsEnd` are the two): nothing else in
the code waits.  Deadlock is not checked
where the modelled work really ends: a decode returns, tables are refused, and
in the pool every arena may be freed.

## What is proved

Every theorem is for all values of the constants that the named assumptions
allow, and so for the code's own sizes, which no run can have.

`NumberProofs` comes first.  The library's induction theorems take an operator,
which the provers cannot instantiate, so induction is done over sets: a set of
numbers that is not empty has a least element (`LeastNat`), and one that holds 0
and with every number the next holds them all (`CountUp`).  From these follow
that a function given step by step exists and is the one that its recursive
definition denotes (`TableExists`, `TablesAgree`), what a sum becomes when its
sequence grows, changes in one place or is joined to another (`SumGrown`,
`SumBumped`, `SumJoined`), the powers of two, and remainders.

`CoreProofs`, on the arena:

- `ArenaSafe`: `ArenaInv` always holds: types, the bump pointer in its region,
  handles inside their blocks and apart.  No part of it is inductive alone:
  that a handle may be extended at the bump pointer without meeting another
  needs that every handle of the current block ends at or below the pointer,
  which in turn needs that the region's two ends agree; what there is before
  creation is a part of its own.  The proof has one lemma per action.
- `RoomIsKept`: from the one-off rule, a slow allocation keeps the room.
- `ArenaIsHeap`: every step is a step of `Heap` or a stutter.
- `AccountAlwaysExact`: the space an arena reports is the sum over its blocks
  and what the allocator gave, below its limit, whatever was refused.

`PoolProofs` (for any number of arenas, handles, cleanups and limits):

- `ForestAlwaysMatches` and `HeldAlwaysAlive`: the parents lead every arena to
  the root in whose list it is; the count of a root is that of the unfreed
  handles of its tree; no arena with a handle is freed, and no cleanup runs
  twice.
- `PoolIsLifetimes`: every step is one of `Lifetimes`.
- `SpaceAlwaysReported`: what the roots report adds up to what the allocator
  gave.

The parents alone are not inductive, because path compression rewrites them.
`PoolInv` says that there are a root for every arena and a *height* that falls
along every parent: compression keeps both (it only shortens paths), fusing
raises nothing but one tree, and `find_root`, the one fixed point above an
arena, is that root (`RootFound`).  Lists and counts are then compared with the
trees of that function.  The reported space needs sums of sums, over lists that
are concatenated when two arenas fuse.

`CoreProofs`, on the map and the array:

- `MapIndexed`, `MapIsDictionary`: index and entries are always inverse, an
  invariant that is inductive as it stands; every step is the dictionary's,
  with the same reply.  `ScriptMapIsDictionary` is the same of a map in a
  script, which may also not have been made.
- `CapacityAlwaysBacked`, `ArrayIsList`: the array has the storage that its
  capacity says, and is a list.  Capacities are powers of two (`DoubledIs`: the
  doubling ends at one that is at least the request and less than twice it,
  or overflows), and granted ones are at most what the arena grants.  Both have
  the hypothesis `RequestsFit`: a size, doubled, fits the address space in
  bytes or overflows it in elements.  Between the two `array_reserve` misses a
  byte count that wraps, and both properties fail.  The run's sizes satisfy it.

`StreamProofs` (for every slop, every set of input lengths, reads and payloads,
and every depth):

- `WindowShowsInput`: the window shows the input, zero behind its end, through
  the patch and every fallback.
- `SlopAlwaysReadable`: where a field begins, a slop of bytes is there to be
  read; the copy of the patch stays inside the window; and without an error the
  position lands in the patch.
- `EndsAlwaysNested`: the ends that the saved deltas stand for are nested and
  begin with the input's.
- `StreamIsCursor`: every step is one of `Cursor`.

The invariant is `StreamInv`.  That a window of two slops is enough needs the
input to end at most a slop beyond it (`WindowInv`).  That the copy's
assertions hold needs more: no limit reaches beyond the input, and limits are
kept as differences.  So `LimitInv` says that there are absolute ends, one for
each payload in progress, from which all saved deltas are the differences and
which, while there is no error, lie within the input; a step that changes the
stack names the new ends, and `EndsAre` shows that they are those which the
property adds up.

`ReaderProofs` (for every width of bytes, words, tags and varints, and every
slop that has room for a tag and a value):

- `ReadsAlwaysInWindow`: no byte of a number and no fixed value is read beyond
  the window, whatever the bytes say.
- `DecodeEmptyKeepsStream`: each field of `decode_empty` is one of the
  stream's: 1 to `Slop` - 1 bytes, the first of them real, and a payload that
  is skipped only when it fits the limit from where its size ends.
- `PrimitivesAlwaysExact`: a primitive operation answers the base-128 value of
  the bytes it consumed, a packed payload is taken to its last byte, and an
  operation is bounded just when these bytes are all of the input.
- `DecodeEmptyExact`: `decode_empty` implements `Fields`.

`ReaderInv` bounds the next byte by where the field began and by what was read
of it; and it says, for `decode_empty`, that a number which has a byte began
with a real one.  This is the point at which the padding is harmless: a zero is
no continuation, so a tag or size that begins in the padding is 0, and a tag of
0 is refused before a size is read.  What the stream keeps is not proved again:
the lemmas of `StreamProofs` are instantiated.

The answers are those of `PrimitiveInv`: a number that is being read has said
"more" with each of its bytes, and the answer is where the stream stands.
`ValueIsLeb` has the munged sum and the base-128 value differ, after each byte,
by the weight of the next place, modulo a word: that weight is what the bit
above the payload has added, and what the -1 of the next byte takes away
(`MungeStep`).  `ElementsComplete` is the same question for a packed payload:
it splits into numbers that all end.

For the refinement, `EmptyInv` adds where the fields of `decode_empty` begin
and end: a field begins within the input, and the stream says so only at its
last byte.  Within the input, a number of a tag's length is narrower than the
word, so that its sum in the word is the plain sum (`LebBounds`); a varint may
be wider and wrap, but then nothing depends on it.  A byte beyond the input is
padding and ends its number; `ReadBeyond` shows that whatever is made of it,
the position stays beyond the end or the decoder has failed, and `Fields`
rejects there at once.

`DecoderProofs` (for every pool of tables, all units an input may be made of,
every length, every budget and every encoder of an entry):

- `DecoderIsCursor`: every step of the decode loop is one of `Cursor`, which
  `StreamIsCursor` has the stream implement.  A payload is entered once and left
  once, at its very end; the return is that of an input with no payload open.
- `InputAlwaysRead`: a decode that returns Ok has read the input to its last
  unit, with no error set; and
- `BudgetAlwaysKept`: calls and skipped groups together stay within the budget,
  although `decode_message` and `skip_group_inner` count them apart.  Both are
  parts of `OkIsSound`.
- `DecoderTyped`: the state has its shape.

Calls and payloads do not correspond one to one: a group is a call without an
end of its own, so that a call which returns may or may not take an end with it.
`DecoderInv` therefore counts: there are as many ends as frames that are no
groups (`StackInv`, `PayloadFrames`), and the first frame is such a one.  From
that follow both that a payload which ends above the root has an end to give up
(`InnerPayload`), and that at the root only the input's is left.  For the input
it says that, while there is no error, no end lies beyond it (`EndsInv`), which
is why an unknown field that a skipped group holds cannot be taken past it.
`TopChanged`, `FramePushed` and `FramePopped` are what the three ways to change
the stack do to that count.

`MiniTableProofs` (for descriptors of any length, up to the number of fields
that the oneofs' links of the code can count; see Tables above):

- `SlotsAlwaysApart`, `SlotsAlwaysInside`: fields, oneof cases and hasbits have
  bytes of their own, aligned and inside the message.
- `LookupsAlwaysAgree`: the required count, the signs and ranges of presences
  and the dense prefix are what a decode takes them for.
- `SubsAlwaysFollow`: the *k*-th field with a sub points at the *k*-th slot
  behind the fields.  Its hypothesis `SubsFit` is that the fields are so few
  that every distance to a slot fits a `u16`; `allocate_subs` drops the slots of
  longer tables.

`TableInv` has the loops' part (numbers ascend, and are indices until one is
skipped; members of a oneof have its class and its size, and are in no other)
and the layout's: after the hasbits, a presence is the field's place among
those with a hasbit (`HasbitsSet`); after the alignments, the slots of each rep
are a region behind the regions before it (`RegionsSet`).  Slots are counted:
two fields of one rep have different indices below the region's count, and so
different bytes.  The distances to the sub slots are a recursive function, of
which `DistanceOf` gives the closed form.

and of `TableSet` (for any messages, enums and links, and every width of a
word from six bits on):

- `PoolDescriptorsRead`: what `MessageEncoder` writes is read back as the fields,
  modifiers and oneof it was written for.
- `PoolEnumAnswers`: a closed enum answers for the values `EnumEncoder` described,
  or those a descriptor of any origin stands for, but for the shadowed ones.
- `PoolLinksFollowed`: with the enums behind the messages a decode follows the
  links that were given, and no index panics.
- `PoolMapFields`: a field in map mode leads to a map entry of two fields, which
  is not within another entry, and no other field leads to one.

The base-92 numbers come first.  `VarintRead` has a varint decode to
what was encoded: the two formulas for the width of a digit agree on all three
ranges (`DigitBits`), and a number of as many digits as it needs is the sum of
its digits (`VarintDigits`).  `Reads` then says, of a text that is being
written, what splitting and reading make of it so far, and of which kind the
last token is; `PutReads` is that a varint which follows a token of another
kind becomes one token and one step of the reader, although nothing marks its
end.  Each lemma after it (`SkipPut`, `FieldPut`, `FieldsPut`, `OneofPut`) is one
call of `MessageEncoder`.  For enums, `Encodes` ties the encoder, which holds
back the values of a mask, to the table that its tokens make so far, and
`EnumEncoded` ends it.  `PoolInv`, at last, has the place of every entry as long
as no enum came before it, and of every link that was set that it fits its
field, which is what `set_sub` refuses otherwise; linking writes nothing that
the rules look at (`LinksMade`).

`CourtProofs` (for any set of runs and every corpus):

- `VerdictsAlwaysAnswered`: in every state, whatever crashed, the last verdict
  of a run is about the answer to its own case, whole or at least its head;
  "equal" is said of answers that agree; and verdicts and cases are as many.
- `ReceiptAlwaysComplete`: a manifest comes with the summary and the residuals
  it speaks of, and they account for every case, for the runs that share their
  directory with no other.

The invariant of the first, `CourtInv`, counts the compared cases from the number of the
next request (`Numbered`), ties the verdict, the equal cases and the residuals
to that count (`Tally`), and says of a raw run that its pipes hold nothing but
the request it waits for or what is left of its answer (`OneLine`).  That is
why a raw court, which compares no ids, has no leftover to take; the others
read whatever is in their pipes, and the id decides.  `EqualIsAgreed` is the
lemma over the courts' comparisons.  That of the second adds what each file of
the directory holds by the stage the run has reached, in the order in which
they are written (`ReceiptsInv`).

The proofs rest on the assumptions the modules name, which TLC evaluates for
the runs: constants are numbers, positive where they count bytes of a unit
(`ConfigAssumption`, `InputAssumption`, `PoolAssumption`, `StreamAssumption`,
`WordAssumption`, `RequestAssumption`); no value looks like a reply, an answer
or a run (`NoneAssumption`, `ElementAssumption`, `CourtAssumption`, which also
gives every corpus a case); the readers have a slop with room for a tag and the
longest value, a tag is no longer than a varint, its bytes hold more than a
tag's bits and no more than a word's, and a depth of 0 may be asked for
(`ReaderAssumption`: 16, 5 and 10 bytes, 32, 35 and 64 bits in the code); and
the required fields and a map entry fit the limits of 16-bit offsets, which are
a multiple of eight (`LimitsAssumption`, `DescriptorsAssumption`: 63, 2^15 - 1
and 2^16 - 1 in the code); a digit fits the word (`WordBitsAssumption`: 32
bits); messages have ascending numbers within the word, one oneof at most, and,
as map entries, the two fields `map_descriptor` writes (`MessagesAssumption`);
the values of an enum ascend, as `EnumEncoder` asks for (`EnumsAssumption`); a
field links a table of the pool or none (`TablesAssumption`, which `PoolLinksFollowed`
is about), and the units of an input have numbers and sizes (`UnitsAssumption`,
`DecoderAssumption`).

Only model-checked: what a decode gives (`DecodesContent`) and the rest of `OkIsSound`, the
encoder and the message operations, whose properties compare recursive readings
of trees, in modules with RECURSIVE operators; and every termination (`Terminates`, `CourtsEnd`), since liveness
under fairness and ENABLED are beyond the prover.

## Disagreements found

With a run that shows them:

- `links_by_descriptor`: `from_pool` and `slot_of` find the links of a message
  by its place among the messages, and the decode loop asks by its place in the
  pool.  `PROTOCOL.md` (195) has `links[t]` as the links of descriptor *t*.
  Once an enum stands before a message, another table's links are followed or
  the index panics.  `LinksFollowed` is the part that holds: with all enums
  behind the messages.
- `enum_asserts`: `build_mini_table_enum` asserts (decode.rs 254) that its data
  holds the mask words only; from the second sparse value on it does not.

Seen in the definitions:

- `array_resize` does not zero what it adds: elements written beyond the size,
  or left by a shrink, come back.  `PROTOCOL.md` (316) says they are
  zero-filled.
- `array_reserve` computes the byte count with `checked_shl` (array.rs 114),
  which checks the shift's amount and not the lost bits.  A capacity whose byte
  count does not fit a `usize` is granted with what is left of it, down to no
  storage at all, while `capacity` is commented as the allocated storage (47).
  With a request of 100 elements among those of `collections`, `CapacityBacked`
  fails; `CapacityAlwaysBacked` is the part that holds.
- `is_done` (stream.rs 115) asserts that the overrun is below the slop; after a
  payload declared longer than what holds it, it need not be.  A release build
  rejects the same input.  `SlopIsReadable` asks for the assertion only while
  there is no error.
- A oneof set to a submessage, to a scalar and to the submessage again keeps
  only the second one; the comment of the test that does this
  (message_known.rs 2376) says they merge (the test looks at a field both set).
- The comment on `from_pool` (message_known.rs 246) has links out of range
  leave a slot unlinked; the code refuses them (333).
- `MessageEncoder` never writes the `~` its comment (mdgen.rs 36) puts between
  two oneofs, so the case "mt-two-oneofs" of the corpus (main.rs 917) runs
  member 2 of the first and member 3 of the second together into one number
  and is refused.
- `allocate_subs` (decode.rs 727) calls unreachable what a table of some twenty
  thousand fields reaches, unless an earlier check refuses it.
- `OracleClient`'s comment pairs every response by its id; `request_value` does
  not look at it, nor at the status.  The raw courts rest on it.
- The court of wire primitives counts any two errors as equal, also one about
  the request itself.  The one of known messages never equates a schema that
  the Rust code does not support with one that the oracle refused, as the one
  of submessages does.  The courts of encodes and message operations read
  differing bytes again with the Rust decoder only; the latter then leaves the
  dumps unseen, although its comment (main.rs 226) speaks of bytes.
- A request longer than `MAX_LINE`, or with more than 8191 bytes of payload, is
  answered as if its payload were empty, and the comparison is made with that.
- `README.md` (38) has receipts immutable and one per run; two runs of a court
  in one second share a directory and overwrite each other's files.  It also
  (58) names `receipts/latest`, which nothing makes.  The courts document exit
  code 1 for a failure of the infrastructure, which is a panic (101).
- The random scripts for arrays append 8 bytes to arrays of 4-byte elements
  (collections main.rs 252), which the interpreter refuses: they test nothing
  but the refusal.
- A zero-size allocation without a guard takes no space and shares its address
  with the next handle, where `Alloc`'s comment says an address is never
  reused; the window of an input of 17 to 31 bytes is shorter than the comment
  on `EpsCopyStream` says; unknown fields are written after the known ones,
  where the comment on `encode_message` has them first; and a clone writes maps
  its source leaves out (`EncodesContent` says which), where the comment on
  `msgop_submsg` calls the two equal.

## Plan

`UpbArray` composed with `Arena`: the data region is a part of another handle.

## Not modelled

Formatting, JSON, command lines and the reading of files; the traces that the
arena court compares (its calls are those of `Arena` and `ArenaFuse`); the
lists of cases in the corpus tool and its random numbers (test data); what the
oracle answers, which a library does that is not in the repository;
`inspect.rs` (a rendering); the records of `upb-rs-casefile` but for the
completeness of a receipt; `upb-rs` (re-exports).  In the decoder, field number
0, word-sized depths, and allocation, which the message model of the code does
not have; in the arena, sizes near 2^64.
