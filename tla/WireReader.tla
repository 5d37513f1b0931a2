----------------------------- MODULE WireReader -----------------------------
(***************************************************************************)
(* The byte-level readers of crates/upb-rs-wire/src/reader.rs, over the    *)
(* stream of EpsCopyStream: under decode_empty (message.rs), and under the *)
(* primitive operations of courts/wire-primitives.                         *)
(*                                                                         *)
(* The bytes of the input are chosen as they are read, each from Bytes;    *)
(* padding is zero.  A byte has PayloadBits + 1 bits, and the numbers,     *)
(* words and the slop are scaled with it: 7 bits, 5 and 10 bytes, 32 and   *)
(* 64 bits, 4, 8 and 16 bytes in the code.                                 *)
(***************************************************************************)
EXTENDS Numbers, SequencesExt

CONSTANTS
  Slop, Lens, Bytes, PayloadBits, TagBytes, VarintBytes, TagBits,
  WordBits,          \* of the word in which numbers are summed
  Fixed32, Fixed64,  \* see Fields
  MaxDepths,         \* the max_depth of a call; 0 stands for DefaultDepth
  DefaultDepth,
  Ops,               \* "decode_empty" and the primitive operations
  GivenTags,         \* the tags that skip_value and skip_group are given
  Packed,            \* lengths of the packed payloads
  None

ASSUME ReaderAssumption ==
  /\ Lens \subseteq Nat /\ Packed \subseteq Nat
  /\ MaxDepths \subseteq Nat /\ 0 \in MaxDepths /\ GivenTags \subseteq Nat
  /\ {Slop, DefaultDepth, Fixed32, Fixed64} \subseteq Nat
  /\ {PayloadBits, TagBytes, VarintBytes, TagBits, WordBits} \subseteq Nat \ {0}
  /\ PayloadBits \in 3 .. WordBits /\ Bytes \subseteq 0 .. PowerOf2(PayloadBits + 1) - 1
  /\ TagBytes * PayloadBits \in TagBits + 1 .. WordBits /\ TagBytes <= VarintBytes
  /\ VarintBytes * PayloadBits >= WordBits /\ WordBits >= TagBits
  /\ TagBytes + VarintBytes < Slop /\ TagBytes + Fixed64 < Slop
  /\ Fixed32 < Fixed64
  /\ None \notin [value : Nat \cup {None}, consumed : Nat]

VARIABLES
  len, window, end, limit, base, error, ptr, phase,  \* see EpsCopyStream
  op, depth,
  at,      \* the position of the next byte in the window
  number,  \* what is read there: "tag", "varint", "size", or "value", when
           \* the tag is given
  read,    \* its bytes so far
  groups,  \* the end tags of the groups being skipped
  span,    \* the length of the packed payload
  outcome  \* of a primitive operation: [value, consumed]

S == INSTANCE EpsCopyStream WITH
       deltas <- << >>, MaxDepth <- 0,
       Reads <- 1 .. Slop - 1, Payloads <- 0 .. PowerOf2(TagBits - 1) - 1

streamVars == <<len, window, end, limit, base, error, ptr>>
readerVars == <<at, number, read, groups, span, outcome>>
vars == <<streamVars, phase, op, depth, readerVars>>

More(b) == b >= PowerOf2(PayloadBits)

(* The value of a number: the first byte is carried raw, the (byte - 1) of  *)
(* each later one cancels the bit that said more would follow.              *)
(* Variant: the byte itself is added.                                       *)
ValueRaw(s) ==
  LET val[i \in 0 .. Len(s) - 1] ==
        IF i = 0 THEN s[1]
        ELSE (val[i - 1] + s[i + 1] * PowerOf2(PayloadBits * i)) % PowerOf2(WordBits)
  IN val[Len(s) - 1]
Value(s) ==
  LET val[i \in 0 .. Len(s) - 1] ==
        IF i = 0 THEN s[1]
        ELSE (val[i - 1] + (s[i + 1] - 1) * PowerOf2(PayloadBits * i)) % PowerOf2(WordBits)
  IN val[Len(s) - 1]

(* MAX_TAG_BYTES and MAX_VARINT_BYTES, u32::MAX and i32::MAX.  Variant: a   *)
(* number goes on for as long as its bytes say.                             *)
LongestNone == 2 * Slop
Longest == IF number = "varint" THEN VarintBytes ELSE TagBytes
Largest ==
  CASE number = "tag" -> PowerOf2(TagBits) - 1
    [] number = "size" -> PowerOf2(TagBits - 1) - 1
    [] OTHER -> PowerOf2(WordBits) - 1

(* window_byte: what a position of the window may hold *)
ByteAt(p) == IF window[p + 1] = S!Zero THEN {0} ELSE Bytes

Depths == {IF d = 0 THEN DefaultDepth ELSE d : d \in MaxDepths}

WireType(tag) == tag % 8
FieldNumber(tag) == tag \div 8
EndGroupTag(tag) == 8 * FieldNumber(tag) + 4

FirstNumber ==
  CASE op \in {"decode_empty", "skip_group", "read_tag"} -> "tag"
    [] op = "read_size" -> "size"
    [] op \in {"read_varint", "skip_varint", "packed"} -> "varint"
    [] OTHER -> "value"

Init ==
  /\ S!Init
  /\ op \in Ops
  /\ \/ op = "decode_empty" /\ depth \in Depths
     \/ op # "decode_empty" /\ depth = DefaultDepth
  /\ at = 0 /\ number = FirstNumber /\ read = << >> /\ outcome = None
  /\ IF op = "skip_group"
       THEN \E tag \in GivenTags : groups = <<EndGroupTag(tag)>>
       ELSE groups = << >>
  /\ IF op = "packed" THEN span \in {n \in Packed : n <= len} ELSE span = 0

(* is_done, between two fields, and after a primitive operation for whether *)
(* what it read was in bounds                                               *)
IsDone ==
  /\ op # "packed" /\ S!IsDone /\ at' = ptr'
  /\ UNCHANGED <<op, depth, number, read, groups, span, outcome>>

Reading == phase = "field" /\ outcome = None /\ op # "packed"

Fail(error1) ==
  /\ phase' = "failed" /\ error' = error1
  /\ UNCHANGED <<len, window, end, limit, base, ptr, op, depth, readerVars>>

(* The field, or the operation, ends at window position p. *)
EndField(p, value, open, bytes) ==
  /\ ptr' = p /\ at' = p /\ phase' = "boundary"
  /\ groups' = open
  /\ IF op = "decode_empty" \/ open # << >>
       THEN number' = "tag" /\ read' = << >> /\ UNCHANGED outcome
       ELSE /\ outcome' = [value |-> value, consumed |-> S!Absolute(p)]
            /\ read' = bytes /\ UNCHANGED number
  /\ UNCHANGED <<len, window, end, limit, base, error, op, depth, span>>

Expect(kind, p) ==
  /\ number' = kind /\ at' = p /\ read' = << >>
  /\ UNCHANGED <<streamVars, phase, op, depth, groups, span, outcome>>

-----------------------------------------------------------------------------
(* Numbers *)

(* one more byte of a number *)
ReadByte(b) ==
  /\ Reading /\ number # "value" /\ b \in ByteAt(at)
  /\ More(b) /\ Len(read) + 1 < Longest
  /\ at' = at + 1 /\ read' = Append(read, b)
  /\ UNCHANGED <<streamVars, phase, op, depth, number, groups, span, outcome>>

TooLong(b) ==
  /\ Reading /\ number # "value" /\ b \in ByteAt(at)
  /\ More(b) /\ Len(read) + 1 = Longest
  /\ Fail(error)

TooLarge(b) ==
  /\ Reading /\ number # "value" /\ b \in ByteAt(at)
  /\ ~More(b) /\ Value(Append(read, b)) > Largest
  /\ Fail(error)

(* the last byte of a number of this kind, whose value fits *)
LastByte(kind, b) ==
  /\ Reading /\ number = kind /\ b \in ByteAt(at)
  /\ ~More(b) /\ Value(Append(read, b)) <= Largest

ReadVarint(b) ==
  /\ LastByte("varint", b)
  /\ EndField(at + 1, Value(Append(read, b)), groups, Append(read, b))

-----------------------------------------------------------------------------
(* skip_value, for a tag that was read or given; p is where the value is *)

(* Variant: a group that reaches the limit is not refused.                  *)
MayOpenAlways == TRUE
(* skip_group_inner: depth_limit is the depth less the groups around *)
MayOpen == depth - Len(groups) - 1 >= 0

SkipValue(tag, p) ==
  \/ FieldNumber(tag) = 0 /\ Fail(error)
  \/ /\ FieldNumber(tag) # 0
     /\ \/ WireType(tag) = 0 /\ Expect("varint", p)
        \/ WireType(tag) = 1 /\ EndField(p + Fixed64, None, groups, << >>)
        \/ WireType(tag) = 2 /\ Expect("size", p)
        \/ /\ WireType(tag) = 3 /\ MayOpen
           /\ EndField(p, None, Append(groups, EndGroupTag(tag)), << >>)
        \/ WireType(tag) = 3 /\ ~MayOpen /\ Fail(error)
        \/ WireType(tag) = 5 /\ EndField(p + Fixed32, None, groups, << >>)
        \/ WireType(tag) \in {4, 6, 7} /\ Fail(error)

(* A tag: the end of the innermost group, or that of a value to skip.       *)
ReadTag(b) ==
  LET tag == Value(Append(read, b)) IN
  /\ LastByte("tag", b)
  /\ IF op = "read_tag"
       THEN EndField(at + 1, tag, << >>, Append(read, b))
     ELSE IF groups # << >> /\ tag = Last(groups)
       THEN EndField(at + 1, None, Front(groups), << >>)
     ELSE SkipValue(tag, at + 1)

SkipGivenValue ==
  /\ Reading /\ number = "value" /\ op = "skip_value"
  /\ \E tag \in GivenTags : SkipValue(tag, at)

ReadFixed ==
  /\ Reading /\ number = "value"
  /\ \/ op = "read_fixed32" /\ EndField(at + Fixed32, None, << >>, << >>)
     \/ op = "read_fixed64" /\ EndField(at + Fixed64, None, << >>, << >>)

(* Variant: the bytes of the size itself are not counted.                   *)
FitsBefore(size) == S!CheckSize(ptr, size)
Fits(size) == S!CheckSize(at + 1, size)

(* A size is the operation's answer, or that of a delimited value. *)
ReadSize(b) ==
  LET size == Value(Append(read, b)) IN
  /\ LastByte("size", b)
  /\ IF op = "read_size"
       THEN EndField(at + 1, size, << >>, Append(read, b))
     ELSE IF Fits(size)
       THEN EndField(at + 1 + size, None, groups, << >>)
     ELSE Fail(TRUE)

-----------------------------------------------------------------------------
(* parse_packed_varints: the payload is read from the input itself, where   *)
(* zeros follow its last byte, and `read` keeps all its bytes.  Here it is  *)
(* the first span bytes of the input, and the elements are not yet munged.  *)

Parsing == op = "packed" /\ phase = "boundary" /\ outcome = None

(* The bytes of the payload, one element after the other.                   *)
Elements(s) ==
  LET elems[i \in 0 .. Len(s)] ==
        IF i = 0 THEN << >>
        ELSE IF elems[i - 1] # << >> /\ More(Last(Last(elems[i - 1])))
          THEN Append(Front(elems[i - 1]), Append(Last(elems[i - 1]), s[i]))
          ELSE Append(elems[i - 1], <<s[i]>>)
  IN elems[Len(s)]

(* The element that the next byte belongs to *)
Element(b) == Last(Elements(Append(read, b)))

(* read_packed_varint looks beyond the payload for the end of an element,   *)
(* which is too late then.  Variant: it is not.                             *)
TooLateNever(b) == More(b) /\ Len(Element(b)) = VarintBytes
TooLate(b) == IF More(b) THEN Len(Element(b)) = VarintBytes ELSE at + 1 > span

InElement == read # << >> /\ More(Last(read))

ReadPacked(b) ==
  /\ Parsing /\ (at < span \/ InElement)
  /\ b \in IF at < len THEN Bytes ELSE {0}
  /\ \/ TooLate(b) /\ Fail(error)
     \/ /\ ~TooLate(b)
        /\ at' = at + 1 /\ read' = Append(read, b)
        /\ UNCHANGED <<streamVars, phase, op, depth, number, groups, span, outcome>>

EndPacked ==
  /\ Parsing /\ at >= span /\ ~InElement
  /\ LET elems == Elements(read) IN
       outcome' = [value |-> [i \in DOMAIN elems |-> Value(elems[i])], consumed |-> at]
  /\ phase' = "ok"
  /\ UNCHANGED <<streamVars, op, depth, at, number, read, groups, span>>

-----------------------------------------------------------------------------
(* The end of the input *)

(* decode_empty returns the whole input; its capture is in bounds *)
Return ==
  /\ op = "decode_empty" /\ groups = << >>
  /\ S!Return /\ UNCHANGED <<op, depth, readerVars>>

(* The input ends within a group.  (The primitives answer "eof" when it is  *)
(* empty, before they read.)                                                *)
Unterminated ==
  /\ phase = "end" /\ groups # << >> /\ S!Absolute(ptr) > 0
  /\ Fail(error)

Next ==
  \/ IsDone \/ SkipGivenValue \/ ReadFixed \/ Return \/ Unterminated
  \/ EndPacked
  \/ \E b \in Bytes \cup {0} :
       ReadByte(b) \/ TooLong(b) \/ TooLarge(b) \/ ReadVarint(b) \/ ReadTag(b)
         \/ ReadSize(b) \/ ReadPacked(b)

Spec == Init /\ [][Next]_vars

-----------------------------------------------------------------------------
(* Correctness *)

(* "The slop guarantee makes every reachable read in-bounds": window_byte   *)
(* never has to answer for a position the window lacks.                     *)
ReadsInWindow ==
  /\ Reading /\ number # "value" => at < Len(window)
  /\ Reading /\ op \in {"read_fixed32", "read_fixed64"} =>
       at + Fixed64 <= Len(window)

Leb(s) ==
  LET sum[i \in 0 .. Len(s)] ==
        IF i = 0 THEN 0
        ELSE (sum[i - 1] + (s[i] % PowerOf2(PayloadBits)) * PowerOf2(PayloadBits * (i - 1)))
               % PowerOf2(WordBits)
  IN sum[Len(s)]

(* What a primitive operation answers: the base-128 value of the bytes it   *)
(* consumed, and "bounded" just when all of these are of the input.  A      *)
(* packed payload is its elements, none of which borrows the bytes that     *)
(* follow it.                                                               *)
PrimitiveExact ==
  outcome # None =>
    /\ op = "packed" =>
         /\ outcome.consumed = span
         /\ outcome.value = [i \in DOMAIN Elements(read) |-> Leb(Elements(read)[i])]
    /\ op \in {"read_varint", "read_tag", "read_size"} => outcome.value = Leb(read)
    /\ op # "packed" /\ phase # "boundary" => (phase = "failed" <=> outcome.consumed > len)

(* decode_empty as Fields has it.  What it read from the padding, or        *)
(* skipped beyond the end, is as good as rejected: it may go on for a field *)
(* but cannot succeed.                                                      *)
Rejected == phase = "failed" \/ S!Absolute(at) > len
Plain == op = "decode_empty" /\ ~Rejected

plainAt     == IF Plain THEN S!Absolute(at) ELSE 0
plainNumber == IF Plain THEN number ELSE "tag"
plainRead   == IF Plain THEN read ELSE << >>
plainGroups == IF Plain THEN groups ELSE << >>
verdict ==
  IF op # "decode_empty" THEN "reading"
  ELSE IF Rejected THEN "rejected"
  ELSE IF phase = "ok" THEN "accepted" ELSE "reading"

F == INSTANCE Fields WITH
  at <- plainAt, number <- plainNumber, read <- plainRead, groups <- plainGroups

(* decode_empty accepts exactly the well-formed inputs, read without any    *)
(* window, padding or wrapping sum.                                         *)
ImplementsFields == F!FieldsSpec

(* Each field is one of EpsCopyStream's: at most Slop - 1 bytes, whose      *)
(* first is real, and a payload checked against the limit.                  *)
ImplementsStream ==
  S!Init /\ [][op = "decode_empty" => S!Next]_<<streamVars, phase>>
=============================================================================
