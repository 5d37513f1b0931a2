------------------------------- MODULE Fields -------------------------------
(***************************************************************************)
(* What decode_empty promises: an input is accepted if and only if it is a *)
(* sequence of well-formed fields, to its last byte.  A plain reading of   *)
(* the wire format, one byte after the other from the input alone: tags    *)
(* and sizes are base-128 numbers, groups are closed by their own number   *)
(* and nest to a limited depth, and nothing extends beyond the input.      *)
(***************************************************************************)
EXTENDS Numbers

CONSTANTS
  Lens, Depths, Bytes,
  PayloadBits,           \* of a byte; the bit above says that more follow
  TagBytes, VarintBytes, \* the longest numbers
  TagBits,               \* the width of a tag; a size has one bit less
  Fixed32, Fixed64       \* the lengths of the fixed values

VARIABLES
  len, depth,  \* the input's length, and how deep groups may nest
  at,          \* how much of it was read
  number,      \* what is read next: "tag", "varint" or "size"
  read,        \* its bytes so far
  groups,      \* the end tags of the open groups
  verdict

fieldVars == <<len, depth, at, number, read, groups, verdict>>

More(b) == b >= PowerOf2(PayloadBits)
Leb(s) ==
  SumOf([i \in DOMAIN s |->
           (s[i] % PowerOf2(PayloadBits)) * PowerOf2(PayloadBits * (i - 1))])

Longest == IF number = "varint" THEN VarintBytes ELSE TagBytes
Largest ==
  CASE number = "tag" -> PowerOf2(TagBits) - 1
    [] number = "size" -> PowerOf2(TagBits - 1) - 1
    [] OTHER -> PowerOf2(PayloadBits * VarintBytes) - 1

WireType(tag) == tag % 8
FieldNumber(tag) == tag \div 8
EndTag(tag) == 8 * FieldNumber(tag) + 4

FieldsInit ==
  /\ len \in Lens /\ depth \in Depths
  /\ at = 0 /\ number = "tag" /\ read = << >> /\ groups = << >>
  /\ verdict = "reading"

Reject ==
  /\ verdict' = "rejected"
  /\ at' = 0 /\ number' = "tag" /\ read' = << >> /\ groups' = << >>

Expect(kind) ==
  /\ number' = kind /\ at' = at + 1 /\ read' = << >>
  /\ UNCHANGED <<groups, verdict>>

(* The field ends after n more bytes, and leaves these groups open. *)
EndField(n, open) ==
  IF at + 1 + n > len THEN Reject
  ELSE /\ at' = at + 1 + n /\ number' = "tag" /\ read' = << >>
       /\ groups' = open /\ UNCHANGED verdict

TakeTag(tag) ==
  IF groups # << >> /\ tag = groups[Len(groups)]
    THEN EndField(0, SubSeq(groups, 1, Len(groups) - 1))
  ELSE IF FieldNumber(tag) = 0 THEN Reject
  ELSE CASE WireType(tag) = 0 -> Expect("varint")
         [] WireType(tag) = 1 -> EndField(Fixed64, groups)
         [] WireType(tag) = 2 -> Expect("size")
         [] WireType(tag) = 3 /\ Len(groups) < depth ->
              EndField(0, Append(groups, EndTag(tag)))
         [] WireType(tag) = 5 -> EndField(Fixed32, groups)
         [] OTHER -> Reject

TakeByte(b) ==
  LET s == Append(read, b) IN
  /\ verdict = "reading" /\ at < len
  /\ CASE More(b) /\ Len(s) < Longest ->
            at' = at + 1 /\ read' = s /\ UNCHANGED <<number, groups, verdict>>
       [] More(b) /\ Len(s) = Longest -> Reject
       [] ~More(b) /\ Leb(s) > Largest -> Reject
       [] ~More(b) /\ Leb(s) <= Largest ->
            CASE number = "tag" -> TakeTag(Leb(s))
              [] number = "size" -> EndField(Leb(s), groups)
              [] OTHER -> EndField(0, groups)
  /\ UNCHANGED <<len, depth>>

(* The input ends: between two fields and outside all groups, or else. *)
Finish ==
  /\ verdict = "reading" /\ at = len
  /\ IF number = "tag" /\ read = << >> /\ groups = << >>
       THEN verdict' = "accepted" /\ UNCHANGED <<at, number, read, groups>>
       ELSE Reject
  /\ UNCHANGED <<len, depth>>

FieldsNext == Finish \/ \E b \in Bytes : TakeByte(b)

FieldsSpec == FieldsInit /\ [][FieldsNext]_fieldVars
=============================================================================
