------------------------------ MODULE EnumTable ------------------------------
(* Closed enums: the descriptor EnumEncoder (mdgen.rs) writes for a list of *)
(* values, the table build_mini_table_enum (decode.rs) makes of it, and     *)
(* what check_value (model.rs) answers.                                     *)
EXTENDS Base92, FiniteSets

CONSTANTS
  MaskOnly   \* values up to this one are always kept in the mask, 512

(* A descriptor is a sequence of masks, of five values each, and skips.    *)
Mask(bits) == [kind |-> "mask", bits |-> bits]
EnumTokens == [kind : {"mask"}, bits : SUBSET (0 .. 4)]
              \cup [kind : {"skip"}, digits : Seq(0 .. 31)]
SkipBy(delta) == [kind |-> "skip", digits |-> EncodeVarint(delta, SkipRange)]

(***************************************************************************)
(* EnumEncoder                                                             *)
(***************************************************************************)
NewEncoder == [out |-> <<>>, present |-> {}, last |-> 0]

\* Variant: the mask's values are not skipped.
FlushMaskStays(e) == [e EXCEPT !.out = Append(@, Mask(e.present)), !.present = {}]
FlushMask(e) == [out |-> Append(e.out, Mask(e.present)),
                 present |-> {}, last |-> (e.last + 5) % Word]

EncodeValue(e, val) ==
  LET flushed == IF val - e.last >= 5 /\ e.present # {} THEN FlushMask(e) ELSE e
      delta == val - flushed.last
  IN IF delta >= 5
     THEN [out |-> Append(flushed.out, SkipBy(delta)),
           present |-> flushed.present \cup {0}, last |-> val]
     ELSE [flushed EXCEPT !.present = @ \cup {delta}]

EncodeValues(values) ==
  LET encoded[i \in 0 .. Len(values)] ==
        IF i = 0 THEN NewEncoder ELSE EncodeValue(encoded[i - 1], values[i])
  IN encoded[Len(values)]
EncodeEnum(values) ==
  LET e == EncodeValues(values)
  IN IF e.present = {} THEN e.out ELSE FlushMask(e).out

(***************************************************************************)
(* build_mini_table_enum                                                   *)
(***************************************************************************)
(* `mask` holds the values set in the mask words, `tail` the words behind  *)
(* them; `asserted` whether every debug_assert in BuildValue held.         *)
NewEnum == [maskLimit |-> 64, mask |-> {}, tail |-> <<>>, total |-> 0,
            base |-> 0, asserted |-> TRUE]

BuildValue(e) ==
  LET v == e.base
      total == e.total + 1
  IN IF e.tail # <<>> \/ (v > MaskOnly /\ total < v \div 32)
     THEN [e EXCEPT !.tail = Append(@, v), !.total = total,
                    !.asserted = @ /\ e.tail = <<>>]
     ELSE LET limit == (v \div 32 + 1) * 32
          IN [e EXCEPT !.mask = @ \cup {v}, !.total = total,
                       !.maskLimit = IF @ < limit THEN limit ELSE @]

Advance(e, n) == [e EXCEPT !.base = (@ + n) % Word]

BuildBit(e, set) == Advance(IF set THEN BuildValue(e) ELSE e, 1)
BuildMask(e, bits) ==
  LET built[i \in 0 .. 5] ==
        IF i = 0 THEN e ELSE BuildBit(built[i - 1], i - 1 \in bits)
  IN built[5]

BuildToken(e, token) ==
  IF token.kind = "mask" THEN BuildMask(e, token.bits)
  ELSE Advance(e, DecodeVarint(token.digits, SkipRange))

(* An overlong skip is the one way a run of masks and skips is refused.    *)
Buildable(tokens) ==
  \A k \in 1 .. Len(tokens) :
    tokens[k].kind = "skip" =>
      DecodeVarint(tokens[k].digits, SkipRange) # Overlong
BuildEnum(tokens) ==
  LET built[i \in 0 .. Len(tokens)] ==
        IF i = 0 THEN NewEnum ELSE BuildToken(built[i - 1], tokens[i])
  IN built[Len(tokens)]

(* The values a descriptor stands for, whatever a table makes of them.     *)
Describe(acc, token) ==
  IF token.kind = "mask"
  THEN [base |-> acc.base + 5,
        values |-> acc.values \cup {(acc.base + bit) % Word : bit \in token.bits}]
  ELSE [acc EXCEPT !.base = @ + DecodeVarint(token.digits, SkipRange)]
Described(tokens) ==
  LET described[i \in 0 .. Len(tokens)] ==
        IF i = 0 THEN [base |-> 0, values |-> {}]
        ELSE Describe(described[i - 1], tokens[i])
  IN described[Len(tokens)].values

CheckValue(e, v) == IF v < e.maskLimit THEN v \in e.mask
                    ELSE v \in ToSet(e.tail)
=============================================================================
