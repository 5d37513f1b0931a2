------------------------------- MODULE Messages -------------------------------
(***************************************************************************)
(* The message model of crates/upb-rs-wire/src/message_known.rs: a buffer  *)
(* of scalars with hasbits and oneof cases, and side tables by field       *)
(* number for everything that does not fit the buffer.                     *)
(*                                                                         *)
(* A table is a sequence of fields                                         *)
(*   [num, type, mode, presence, sub, valid, packed]                       *)
(* where presence is a hasbit (> 0), a oneof (< 0) or 0, sub the linked    *)
(* table (0: not linked) and valid the values of a closed enum.            *)
(***************************************************************************)
EXTENDS Integers, Sequences, SequencesExt, TLC

CONSTANTS
  Tables,  \* the pool of tables
  Word     \* 2^32 scaled down: a 32-bit integer is below Word, a varint
           \* below Word * Word

ASSUME MessagesAssumption == Word \in {4, 16, 256}

(* A field links a table of the pool or none.                               *)
ASSUME TablesAssumption ==
  \A t \in DOMAIN Tables : \A i \in DOMAIN Tables[t] :
    i \in Nat /\ Tables[t][i].sub \in {0} \cup DOMAIN Tables

VarintTypes == {"bool", "int32", "uint32", "int64", "sint32", "enum"}
FixedTypes == {"fixed32", "fixed64"}
StringTypes == {"string", "bytes"}
MessageTypes == {"message", "group"}

(* find_field_index: the first field with the number *)
FieldsByNumber ==
  [t \in DOMAIN Tables |->
    [num \in {Tables[t][i].num : i \in DOMAIN Tables[t]} |->
      Tables[t][CHOOSE i \in DOMAIN Tables[t] :
                  /\ Tables[t][i].num = num
                  /\ \A j \in DOMAIN Tables[t] : Tables[t][j].num = num => i <= j]]]
IsField(t, num) == num \in DOMAIN FieldsByNumber[t]
FieldOf(t, num) == FieldsByNumber[t][num]

-----------------------------------------------------------------------------
(* HashMaps by field number *)

Empty == [x \in {} |-> x]
Lookup(map, k, default) == IF k \in DOMAIN map THEN map[k] ELSE default
Put(map, k, v) == (k :> v) @@ map
Push(map, k, elems) == Put(map, k, Lookup(map, k, << >>) \o elems)

-----------------------------------------------------------------------------
(* struct Message *)

NewMessage ==
  [buf |-> Empty, has |-> {}, cases |-> Empty, strings |-> Empty,
   arrays |-> Empty, submsgs |-> Empty, subArrays |-> Empty, maps |-> Empty,
   unknown |-> << >>]

(* Where a scalar lies in buf: the members of a oneof share their place.    *)
Offset(f) == IF f.presence < 0 THEN f.presence ELSE f.num

OneofCase(m, f) == Lookup(m.cases, f.presence, 0)

FieldPresent(m, f) ==
  CASE f.presence > 0 -> f.presence \in m.has
    [] f.presence < 0 -> OneofCase(m, f) = f.num
    [] OTHER -> TRUE

SetPresence(m, f) ==
  CASE f.presence > 0 -> [m EXCEPT !.has = @ \cup {f.presence}]
    [] f.presence < 0 -> [m EXCEPT !.cases = Put(@, f.presence, f.num)]
    [] OTHER -> m

ApplyScalar(m, f, v) ==
  [SetPresence(m, f) EXCEPT !.buf = Put(@, Offset(f), v)]

ApplyString(m, f, bytes) ==
  [SetPresence(m, f) EXCEPT !.strings = Put(@, f.num, bytes)]

(* Variant: a oneof that switches back finds the value it left behind.      *)
MergesAlways(m, f) == f.num \in DOMAIN m.submsgs
(* prepare_singular_submsg: an occurrence merges into the one before it,    *)
(* unless another member of its oneof was set in between.                   *)
Merges(m, f) ==
  /\ f.num \in DOMAIN m.submsgs
  /\ f.presence < 0 => OneofCase(m, f) = f.num

PrepareSubmsg(m, f) ==
  [SetPresence(m, f) EXCEPT
     !.submsgs = Put(@, f.num, IF Merges(m, f) THEN @[f.num] ELSE NewMessage)]

(* upb_Map_Insert: the last value of a key wins, in the first one's place.  *)
Insert(entries, e) ==
  IF \E i \in DOMAIN entries : entries[i].key = e.key
    THEN [i \in DOMAIN entries |-> IF entries[i].key = e.key THEN e ELSE entries[i]]
    ELSE Append(entries, e)

-----------------------------------------------------------------------------
(* Conversions between the wire and the buffer *)

(* zigzag32: the sign is in the lowest bit.                                 *)
Zigzag(n) == IF n % 2 = 0 THEN n \div 2 ELSE Word - 1 - n \div 2

(* munge, and the truncation of a stored value to its width *)
Munge(f, v) ==
  CASE f.type = "bool" -> IF v = 0 THEN 0 ELSE 1
    [] f.type = "sint32" -> Zigzag(v % Word)
    [] f.type \in {"int32", "uint32", "enum"} -> v % Word
    [] OTHER -> v

IsClosedEnum(f) == f.type = "enum"

(* check_value takes the low word *)
CheckValue(f, v) == v % Word \in f.valid

(* The default a field reads when it was never set. *)
Zero(f) == IF f.type \in StringTypes THEN << >> ELSE 0

(* entry_field_bytes, and what dump shows of a scalar *)
Stored(m, f) ==
  IF f.type \in StringTypes THEN Lookup(m.strings, f.num, Zero(f))
                            ELSE Lookup(m.buf, Offset(f), Zero(f))
=============================================================================
