------------------------------- MODULE Base92 -------------------------------
(* The varints of mini descriptors (upb-rs-mini-table base92.rs).  A varint *)
(* is a run of characters of one range of the alphabet; a character is a    *)
(* digit, its distance from the low end of the range, least digit first.    *)
EXTENDS Numbers, SequencesExt

CONSTANTS
  WordBits   \* the width of the value, 32 in the code

(* A digit of the widest range fits.                                        *)
ASSUME WordBitsAssumption == WordBits \in Nat /\ WordBits >= 6

Word == PowerOf2(WordBits)

Log2Ceiling(x) == CHOOSE k \in 0 .. WordBits :
                    /\ x <= PowerOf2(k)
                    /\ k = 0 \/ PowerOf2(k - 1) < x

(* The decoder takes the width of a digit from the distance of the range's *)
(* ends, the encoder from the number of its characters.                    *)
BitsPerChar(range) == Log2Ceiling(range.max - range.min)
BitsPerCharEnc(range) == Log2Ceiling(range.max - range.min + 1)

(* The base92 values of the ends of the ranges `L`..`[`, `_`..`~`, ` `..`b` *)
ModifierRange == [min |-> 42, max |-> 57]
SkipRange == [min |-> 60, max |-> 91]
OneofRange == [min |-> 0, max |-> 63]

EncodeVarint(val, range) ==
  LET bits == BitsPerCharEnc(range)
      count == CHOOSE n \in 1 .. WordBits :
                 val < PowerOf2(bits * n) /\ (n = 1 \/ val >= PowerOf2(bits * (n - 1)))
  IN [k \in 1 .. count |-> (val \div PowerOf2(bits * (k - 1))) % PowerOf2(bits)]

Overlong == -1   \* the error, not a value

(* Bits beyond the word are shifted out; a digit whose place is beyond it  *)
(* is an error.                                                            *)
DecodeVarint(digits, range) ==
  LET bits == BitsPerChar(range)
  IN IF (Len(digits) - 1) * bits >= WordBits
     THEN Overlong
     ELSE SumOf([k \in DOMAIN digits |->
                   (digits[k] * PowerOf2(bits * (k - 1))) % Word])
=============================================================================
