-------------------------------- MODULE Encoder --------------------------------
(* The encoder of crates/upb-rs-wire/src/message_known.rs.                  *)
EXTENDS WireUnits

(* zigzag_encode_32 *)
ZigzagEncode(v) == IF v < Word \div 2 THEN 2 * v ELSE 2 * (Word - v) - 1

(* encode_scalar: an int32 or enum is written as 64 bits with its sign.     *)
EncodeScalar(type, v) ==
  CASE type = "sint32" -> ZigzagEncode(v)
    [] type \in {"int32", "enum"} /\ v >= Word \div 2 -> v + Word * Word - Word
    [] OTHER -> v

WireTypeFor(type) ==
  CASE type \in VarintTypes -> "varint"
    [] type \in FixedTypes -> type
    [] type = "group" -> "start"
    [] OTHER -> "delimited"

ScalarField(f, v) ==
  IF f.type \in StringTypes THEN Bytes(f.num, v)
    ELSE <<Unit(WireTypeFor(f.type), f.num, EncodeScalar(f.type, v), 0, << >>)>>

MessageField(f, units) ==
  IF f.type = "group" THEN Group(f.num, units) ELSE Delimited(f.num, units)

(* encode_shouldencode *)
NonEmpty(map, num) == num \in DOMAIN map /\ map[num] # << >>
ShouldEncode(m, f) ==
  IF f.presence # 0 THEN FieldPresent(m, f)
  ELSE CASE f.mode = "map" -> NonEmpty(m.maps, f.num)
         [] f.mode = "array" /\ f.type \in MessageTypes -> NonEmpty(m.subArrays, f.num)
         [] f.mode = "array" -> NonEmpty(m.arrays, f.num)
         [] f.type \in MessageTypes -> f.num \in DOMAIN m.submsgs
         [] OTHER -> Stored(m, f) # Zero(f)

-----------------------------------------------------------------------------
(* Variant: a string key and a longer one that begins with it tie.          *)
KeyPrecedesUnlessPrefix(keyField, a, b) ==
  IF keyField.type \notin StringTypes THEN a.key < b.key
  ELSE \E i \in 1 .. Len(a.key) :
         /\ i <= Len(b.key) /\ a.key[i] > b.key[i]
         /\ \A j \in 1 .. i - 1 : a.key[j] = b.key[j]

(* sort_map_entries: integer keys ascend; string keys descend, but for a    *)
(* key that is a prefix of the other.                                       *)
KeyPrecedes(keyField, a, b) ==
  IF keyField.type \notin StringTypes THEN a.key < b.key
  ELSE LET common == IF Len(a.key) < Len(b.key) THEN Len(a.key) ELSE Len(b.key)
           differ == {i \in 1 .. common : a.key[i] # b.key[i]}
       IN IF differ = {} THEN Len(a.key) < Len(b.key)
          ELSE LET i == CHOOSE i \in differ : \A j \in differ : i <= j
               IN a.key[i] > b.key[i]

(* Variant: the entries keep the order they were inserted in.               *)
EntriesUnsorted(f, entries, options) == Reverse(entries)
(* What an encode emits: the reverse of the sorted or insertion order.      *)
EntriesEmitted(f, entries, options) ==
  LET keyField == Tables[f.sub][1] IN
  Reverse(IF options.deterministic
            THEN SortSeq(entries, LAMBDA a, b : KeyPrecedes(keyField, a, b))
            ELSE entries)

(* encode_message_inner without its depth budget *)
RECURSIVE Encode(_, _, _)

(* encode_map_entry_content: both fields, whatever their presence *)
EncodeEntry(f, e, options) ==
  LET key == Tables[f.sub][1]
      val == Tables[f.sub][2]
  IN Delimited(f.num,
       ScalarField(key, e.key) \o
       (IF val.type = "message"
          THEN MessageField(val, IF val.sub = 0 THEN << >>
                                 ELSE Encode(e.value, val.sub, options))
          ELSE ScalarField(val, e.value)))

EncodeField(m, f, options) ==
  CASE f.mode = "map" ->
         FlattenSeq([i \in DOMAIN Lookup(m.maps, f.num, << >>) |->
           EncodeEntry(f, EntriesEmitted(f, m.maps[f.num], options)[i], options)])
    [] f.mode = "array" /\ f.type \in MessageTypes ->
         FlattenSeq([i \in DOMAIN m.subArrays[f.num] |->
           MessageField(f, Encode(m.subArrays[f.num][i], f.sub, options))])
    [] f.mode = "array" /\ f.packed /\ f.type \notin StringTypes ->
         LET elems == m.arrays[f.num] IN
         Bytes(f.num, [i \in DOMAIN elems |-> EncodeScalar(f.type, elems[i])])
    [] f.mode = "array" ->
         FlattenSeq([i \in DOMAIN m.arrays[f.num] |->
           ScalarField(f, m.arrays[f.num][i])])
    [] f.type \in MessageTypes ->
         MessageField(f, IF f.num \notin DOMAIN m.submsgs THEN << >>
                         ELSE Encode(m.submsgs[f.num], f.sub, options))
    [] OTHER -> ScalarField(f, Stored(m, f))

(* Variant: unknown fields are dropped.                                     *)
EncodeKnown(m, t, options) ==
  FlattenSeq([i \in DOMAIN Tables[t] |->
    IF ShouldEncode(m, Tables[t][i]) THEN EncodeField(m, Tables[t][i], options)
                                     ELSE << >>])
(* encode_message_inner: the fields in table order, then the unknown ones.  *)
Encode(m, t, options) ==
  FlattenSeq([i \in DOMAIN Tables[t] |->
    IF ShouldEncode(m, Tables[t][i]) THEN EncodeField(m, Tables[t][i], options)
                                     ELSE << >>])
  \o (IF options.skipUnknown THEN << >> ELSE m.unknown)

(* The messages an encode descends into from a field, each of which costs   *)
(* one level (an entry of a map costs none).                                *)
Nested(m, f) ==
  CASE ~ShouldEncode(m, f) -> {}
    [] f.mode = "map" ->
         IF Tables[f.sub][2].type # "message" THEN {}
         ELSE {<<Tables[f.sub][2].sub, e.value>> : e \in Range(Lookup(m.maps, f.num, << >>))}
    [] f.type \notin MessageTypes -> {}
    [] f.mode = "array" -> {<<f.sub, e>> : e \in Range(m.subArrays[f.num])}
    [] OTHER -> {<<f.sub, Lookup(m.submsgs, f.num, NewMessage)>>}

(* Variant: the encoder refuses where the decoder does.                     *)
TooDeepAtZero(depth) == depth - 1 < 0
(* The budget of a level is spent when it falls to 0.                       *)
Spent(depth) == depth - 1 = 0

(* encode_message_inner fails with MaxDepthExceeded *)
RECURSIVE EncodeFails(_, _, _)
EncodeFails(m, t, depth) ==
  \E i \in DOMAIN Tables[t] : \E n \in Nested(m, Tables[t][i]) :
    n[1] # 0 /\ (Spent(depth) \/ EncodeFails(n[2], n[1], depth - 1))
=============================================================================
