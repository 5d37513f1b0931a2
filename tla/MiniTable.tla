------------------------------ MODULE MiniTable ------------------------------
(* build_mini_table of upb-rs-mini-table: a mini descriptor is read token   *)
(* by token, then hasbits, alignments, offsets and sub slots are assigned.  *)
(* A token is what one turn of a parsing loop consumes: a field character,  *)
(* a modifier or skip varint, `^`, an oneof member or `~`.  The descriptor  *)
(* is chosen as it is read.                                                 *)
EXTENDS Integers, Sequences, FiniteSets, SequencesExt

CONSTANTS
  Types,            \* the encoded types descriptors use, of EncodedTypes
  RepeatedTypes,    \* those they also use repeated
  FieldModifiers,   \* the field modifiers they use, each a set of names
  MessageModifiers, \* the message modifiers they use, each a set of names
  Skips,            \* the skip values they use
  MaxFields,        \* bound on the number of fields
  MaxOneofs,        \* bound on the number of oneofs
  MaxFieldNumber,   \* MAX_FIELD_NUMBER
  MaxRequired,      \* required fields before "Too many required fields"
  I16Max, U16Max,   \* the largest hasbit or case offset, and offset or size
  U8Size            \* the number of values of a u8

EncodedTypes ==
  {"double", "float", "fixed32", "fixed64", "sfixed32", "sfixed64", "int32",
   "uint32", "sint32", "int64", "uint64", "sint64", "open_enum", "bool",
   "bytes", "string", "group", "message", "closed_enum"}

ASSUME DescriptorsAssumption ==
  /\ Types \subseteq EncodedTypes /\ RepeatedTypes \subseteq Types
  /\ Skips \subseteq Nat
(* Required fields and the map entry fit their limits, and sizes wrap at a  *)
(* multiple of eight: 63, 2^15 - 1 and 2^16 - 1 in the code.                *)
ASSUME LimitsAssumption ==
  /\ MaxFields \in Nat /\ MaxOneofs \in Nat /\ MaxFieldNumber \in Nat
  /\ MaxRequired \in Nat /\ I16Max \in Nat /\ U16Max \in Nat
  /\ U8Size \in Nat \ {0}
  /\ 63 + MaxRequired <= I16Max /\ I16Max < 8 * U16Max
  /\ 48 <= U16Max /\ (U16Max + 1) % 8 = 0

VARIABLES
  pc,         \* what is done next: "version", "body", "oneofs", "hasbits",
              \* "map", "align", "offsets", "subs", "done" or "error"
  version,    \* the version tag
  token,      \* the last token: two varints never stand side by side
  mods,       \* d.msg_modifiers
  ext,        \* d.ext and table.ext
  fields,     \* d.fields
  number,     \* d.last_field_number
  denseBelow, \* d.dense_below, Undecided while d.need_dense_below
  item,       \* the oneof under construction
  oneofs,     \* d.oneofs
  required,   \* d.required_count
  repBase,    \* d.rep_counts once it holds the next offset of each rep
  size        \* table.size

parseVars == <<version, token, mods, ext, number, denseBelow, item, oneofs>>
layoutVars == <<required, repBase, size>>
vars == <<pc, parseVars, layoutVars, fields>>

Undecided == -1
NoSub == -1
ReservedHasbytes == 8
ReservedHasbits == 8 * ReservedHasbytes

Reps == 0 .. 3
OneByte == 0  FourByte == 1  StringView == 2  EightByte == 3

SizeOf(rep) == CASE rep = OneByte -> 1
                 [] rep = FourByte -> 4
                 [] rep = StringView -> 16
                 [] OTHER -> 8
AlignOf(rep) == CASE rep = OneByte -> 1
                  [] rep = FourByte -> 4
                  [] OTHER -> 8

AlignUp(v, align) == ((v + align - 1) \div align) * align

EncodedRep(type) ==
  CASE type = "bool" -> OneByte
    [] type \in {"float", "fixed32", "sfixed32", "int32", "uint32", "sint32",
                 "open_enum", "closed_enum"} -> FourByte
    [] type \in {"string", "bytes"} -> StringView
    [] OTHER -> EightByte

Packable(type) == type \notin {"string", "group", "message", "bytes"}

(* The field a type character adds: its presence class is kept in `class`  *)
(* until its offset is known.                                              *)
NewField(n, type, repeated) ==
  LET stored == CASE type = "open_enum" -> "int32"
                  [] type = "string" /\ "validate_utf8" \notin mods -> "bytes"
                  [] type = "closed_enum" -> "enum"
                  [] OTHER -> type
      sub == stored \in {"group", "message", "enum"}
  IN [number |-> n, type |-> stored, repeated |-> repeated,
      class |-> IF repeated THEN "none" ELSE "hasbit",
      alternate |-> type = "open_enum" \/ (type = "string" /\ stored = "bytes"),
      packed |-> repeated /\ Packable(stored) /\ "default_packed" \in mods,
      rep |-> IF repeated THEN EightByte ELSE EncodedRep(type),
      sub |-> IF sub THEN 0 ELSE NoSub,
      offset |-> 0, presence |-> 0]

(* upb_MiniTableField_Type: what the field is, its alternate resolved.     *)
FieldType(f) == CASE f.alternate /\ f.type = "int32" -> "enum"
                  [] f.alternate /\ f.type = "bytes" -> "string"
                  [] OTHER -> f.type

Indices == 1 .. Len(fields)

(***************************************************************************)
(* Reading the descriptor.                                                 *)
(***************************************************************************)
NoItem == [members |-> {}, rep |-> OneByte]

Init ==
  /\ pc = "version" /\ version = "none" /\ token = "none"
  /\ mods = {} /\ ext = {} /\ fields = <<>> /\ number = 0
  /\ denseBelow = Undecided /\ item = NoItem /\ oneofs = <<>>
  /\ required = 0 /\ repBase = [r \in Reps |-> 0] /\ size = ReservedHasbytes

(* An error drops the decoder and the table with everything read so far.   *)
Fail ==
  /\ pc' = "error" /\ version' = "none" /\ token' = "none"
  /\ mods' = {} /\ ext' = {} /\ fields' = <<>> /\ number' = 0
  /\ denseBelow' = Undecided /\ item' = NoItem /\ oneofs' = <<>>
  /\ required' = 0 /\ repBase' = [r \in Reps |-> 0] /\ size' = ReservedHasbytes

(* An empty descriptor is a message without fields, laid out as built.     *)
Empty ==
  /\ pc = "version"
  /\ pc' = "subs" /\ denseBelow' = 0
  /\ UNCHANGED <<version, token, mods, ext, number, item, oneofs, layoutVars,
                 fields>>

Version ==
  /\ pc = "version"
  /\ \E v \in {"message", "map"} : version' = v
  /\ pc' = "body"
  /\ UNCHANGED <<token, mods, ext, number, denseBelow, item, oneofs,
                 layoutVars, fields>>

MessageSet ==
  /\ pc = "version"
  /\ version' = "message_set" /\ ext' = {"message_set"} /\ denseBelow' = 0
  /\ pc' = "subs"
  /\ UNCHANGED <<token, mods, number, item, oneofs, layoutVars, fields>>

(* A character no branch takes, an overlong varint, an unknown version or  *)
(* type, the body of a message set.                                        *)
Malformed == pc \in {"version", "body", "oneofs"} /\ Fail

Field(type, repeated) ==
  /\ pc = "body" /\ Len(fields) < MaxFields
  /\ IF number + 1 > MaxFieldNumber
     THEN Fail
     ELSE /\ number' = number + 1
          /\ fields' = Append(fields, NewField(number + 1, type, repeated))
          /\ token' = "field"
          /\ UNCHANGED <<pc, version, mods, ext, denseBelow, item, oneofs,
                         layoutVars>>

MessageModifier(m) ==
  /\ pc = "body" /\ fields = <<>> /\ token # "modifier"
  /\ mods' = m
  /\ ext' = IF "extendable" \in m THEN ext \cup {"extendable"} ELSE ext
  /\ token' = "modifier"
  /\ UNCHANGED <<pc, version, number, denseBelow, item, oneofs, layoutVars,
                 fields>>

(* modify_field, in the order of its checks; it modifies the last field    *)
(* again when only a skip stands in between.                               *)
Modified(f, m) ==
  LET flipped == IF "flip_utf8" \in m
                 THEN [f EXCEPT !.type = "string", !.alternate = FALSE]
                 ELSE f
      class == CASE "singular" \in m -> "none"
                 [] "required" \in m -> "required"
                 [] OTHER -> f.class
  IN [flipped EXCEPT !.packed = (f.packed # ("flip_packed" \in m)),
                     !.class = class]
Modifiable(f, m) ==
  /\ "flip_packed" \in m => f.repeated /\ Packable(f.type)
  /\ "flip_utf8" \in m => f.type = "bytes" /\ f.alternate
  /\ m \cap {"singular", "required"} # {} => f.class = "hasbit"
  /\ ~({"singular", "required"} \subseteq m)
  /\ "singular" \in m => f.type \notin {"group", "message"}

FieldModifier(m) ==
  /\ pc = "body" /\ fields # <<>> /\ token # "modifier"
  /\ LET f == Last(fields)
     IN IF Modifiable(f, m)
        THEN /\ fields' = [fields EXCEPT ![Len(fields)] = Modified(f, m)]
             /\ token' = "modifier"
             /\ UNCHANGED <<pc, version, mods, ext, number, denseBelow, item,
                            oneofs, layoutVars>>
        ELSE Fail

DenseBelow == IF denseBelow = Undecided THEN Len(fields) % U8Size ELSE denseBelow

Skip(n) ==
  /\ pc = "body" /\ token # "skip"
  /\ number <= MaxFieldNumber   \* bound: later fields are all refused
  /\ IF n = 0
     THEN Fail
     ELSE /\ number' = number + n - 1
          /\ denseBelow' = DenseBelow /\ token' = "skip"
          /\ UNCHANGED <<pc, version, mods, ext, item, oneofs, layoutVars,
                         fields>>

StartOneofs ==
  /\ pc = "body" /\ pc' = "oneofs"
  /\ item' = NoItem
  /\ UNCHANGED <<version, token, mods, ext, number, denseBelow, oneofs,
                 layoutVars, fields>>

(* The slot of an oneof takes the rep of its largest member.               *)
Larger(r, s) == \/ SizeOf(r) > SizeOf(s)
                \/ SizeOf(r) = SizeOf(s) /\ AlignOf(r) > AlignOf(s)

(* A member that is not a field with a hasbit, among them one that is in   *)
(* an oneof already, is refused.  The members are a set here; the code      *)
(* chains them by 16-bit indices, which wrap from 65532 fields on.          *)
OneofMember(n) ==
  /\ pc = "oneofs"
  /\ IF \E i \in Indices : fields[i].number = n /\ fields[i].class = "hasbit"
     THEN \E i \in Indices :
            /\ fields[i].number = n
            /\ fields' = [fields EXCEPT ![i].class = "oneof"]
            /\ item' = [members |-> item.members \cup {i},
                        rep |-> IF Larger(fields[i].rep, item.rep)
                                THEN fields[i].rep ELSE item.rep]
            /\ UNCHANGED <<pc, version, token, mods, ext, number, denseBelow,
                           oneofs, layoutVars>>
     ELSE Fail

(* push_oneof at a `~`: the next oneof starts with this one's rep.         *)
NextOneof ==
  /\ pc = "oneofs" /\ Len(oneofs) < MaxOneofs
  /\ IF item.members = {}
     THEN Fail
     ELSE /\ oneofs' = Append(oneofs, item)
          /\ item' = [item EXCEPT !.members = {}]
          /\ UNCHANGED <<pc, version, token, mods, ext, number, denseBelow,
                         layoutVars, fields>>

EndOfBody ==
  /\ pc = "body"
  /\ denseBelow' = DenseBelow /\ pc' = "hasbits"
  /\ UNCHANGED <<version, token, mods, ext, number, item, oneofs, layoutVars,
                 fields>>

(* The end of the input pushes the last oneof.                             *)
EndOfOneofs ==
  /\ pc = "oneofs" /\ Len(oneofs) < MaxOneofs
  /\ IF item.members = {}
     THEN Fail
     ELSE /\ oneofs' = Append(oneofs, item)
          /\ denseBelow' = DenseBelow /\ pc' = "hasbits"
          /\ UNCHANGED <<version, token, mods, ext, number, item, layoutVars,
                         fields>>

(***************************************************************************)
(* Layout.  The counters the code steps through the fields are counted     *)
(* here: a field's rank among those that draw from the same counter.       *)
(***************************************************************************)
OfClass(class) == {i \in Indices : fields[i].class = class}
UpTo(S, i) == Cardinality({j \in S : j <= i})

(* Required fields get the first hasbits, then the others that have one.   *)
(* Variant: hasbits follow the order of the fields.                        *)
HasbitInOrder(i) ==
  IF fields[i].class \in {"required", "hasbit"}
  THEN ReservedHasbits - 1 + UpTo(OfClass("required") \cup OfClass("hasbit"), i)
  ELSE 0
Hasbit(i) ==
  CASE fields[i].class = "required" ->
         ReservedHasbits - 1 + UpTo(OfClass("required"), i)
    [] fields[i].class = "hasbit" ->
         ReservedHasbits - 1 + Cardinality(OfClass("required"))
                             + UpTo(OfClass("hasbit"), i)
    [] OTHER -> 0
LastHasbit == ReservedHasbits - 1 + Cardinality(OfClass("required"))
                                  + Cardinality(OfClass("hasbit"))

AssignHasbits ==
  /\ pc = "hasbits"
  /\ IF \/ Cardinality(OfClass("required")) > MaxRequired
        \/ OfClass("hasbit") # {} /\ LastHasbit > I16Max
     THEN Fail
     ELSE /\ fields' = [i \in Indices |->
                          [fields[i] EXCEPT !.presence = Hasbit(i)]]
          /\ required' = Cardinality(OfClass("required"))
          /\ size' = (LastHasbit + 8) \div 8
          /\ pc' = IF version = "map" THEN "map" ELSE "align"
          /\ UNCHANGED <<parseVars, repBase>>

(* upb_MtDecoder_ParseMap: the layout of upb_MapEntry.                     *)
ParseMap ==
  /\ pc = "map"
  /\ IF /\ Len(fields) = 2 /\ oneofs = <<>>
        /\ \A i \in 1 .. 2 : fields[i].number = i /\ ~fields[i].repeated
        /\ FieldType(fields[1]) \notin
             {"float", "double", "message", "group", "bytes", "enum"}
        /\ FieldType(fields[2]) # "group"
     THEN /\ fields' = [i \in Indices |-> [fields[i] EXCEPT !.offset = 16 * i]]
          /\ size' = 48 /\ ext' = ext \cup {"map_entry"}
          /\ pc' = "subs"
          /\ UNCHANGED <<version, token, mods, number, denseBelow, item, oneofs,
                         required, repBase>>
     ELSE Fail

Plain(rep) == {i \in Indices : fields[i].class # "oneof" /\ fields[i].rep = rep}
Holding(rep) == {k \in 1 .. Len(oneofs) : oneofs[k].rep = rep}
\* Variant: an oneof's case takes no slot.
CasesUncounted(rep, k) == 0
CasesUpTo(rep, k) == IF rep = FourByte THEN k ELSE 0
SlotCount(rep) == Cardinality(Plain(rep)) + Cardinality(Holding(rep))
                    + CasesUpTo(rep, Len(oneofs))

\* Variant: a region starts where the one before it ends.
RegionStartPacked(base, rep) == base
RegionStart(base, rep) == AlignUp(base, AlignOf(rep))
RegionEnd(base, rep) == IF SlotCount(rep) = 0 THEN base
                        ELSE RegionStart(base, rep) + SizeOf(rep) * SlotCount(rep)

CalculateAlignments ==
  /\ pc = "align"
  /\ LET e0 == RegionEnd(size, OneByte)
         e1 == RegionEnd(e0, FourByte)
         e2 == RegionEnd(e1, StringView)
         e3 == RegionEnd(e2, EightByte)
     IN IF e3 > U16Max
        THEN Fail
        ELSE /\ repBase' = [r \in Reps |->
                              IF SlotCount(r) = 0 THEN 0
                              ELSE RegionStart(CASE r = OneByte -> size
                                                 [] r = FourByte -> e0
                                                 [] r = StringView -> e1
                                                 [] OTHER -> e2, r)]
             /\ size' = e3 /\ pc' = "offsets"
             /\ UNCHANGED <<parseVars, required, fields>>

(* Plain fields come first, then each oneof's case slot and data slot.     *)
SlotOffset(rep, before) == repBase[rep] + SizeOf(rep) * before
PlainOffset(i) == SlotOffset(fields[i].rep, UpTo(Plain(fields[i].rep), i) - 1)
CaseOffset(k) ==
  SlotOffset(FourByte, Cardinality(Plain(FourByte))
                         + UpTo(Holding(FourByte), k - 1) + k - 1)
DataOffset(k) ==
  LET rep == oneofs[k].rep
  IN SlotOffset(rep, Cardinality(Plain(rep)) + UpTo(Holding(rep), k - 1)
                       + CasesUpTo(rep, k))

InOneof(i, k) == k \in 1 .. Len(oneofs) /\ i \in oneofs[k].members
Placed(i) ==
  IF fields[i].class = "oneof"
  THEN LET k == CHOOSE k \in 1 .. Len(oneofs) : InOneof(i, k)
       IN [fields[i] EXCEPT !.offset = DataOffset(k),
                            !.presence = -CaseOffset(k) - 1]
  ELSE [fields[i] EXCEPT !.offset = PlainOffset(i)]

AssignOffsets ==
  /\ pc = "offsets"
  /\ IF \E k \in 1 .. Len(oneofs) : CaseOffset(k) > I16Max
     THEN Fail
     ELSE /\ fields' = [i \in Indices |-> Placed(i)]
          /\ size' = AlignUp(size, 8) % (U16Max + 1)
          /\ pc' = "subs"
          /\ UNCHANGED <<parseVars, required, repBase>>

(* Sub slots follow the fields, eight bytes each; a field keeps the        *)
(* distance from itself in units of four bytes.  A distance beyond a u16   *)
(* drops the slot and, as the code's `continue` does, forgets to step over *)
(* the field.                                                              *)
FieldBytes == AlignUp(12 * Len(fields), 8)
Kept(f, ofs) == f.sub # NoSub /\ ofs \div 4 <= U16Max
\* Variant: a field of 12 bytes is stepped over before its slot is taken.
AllocateSubAfter(f, ofs) == IF f.sub # NoSub THEN (ofs - 12) \div 4 ELSE NoSub
AllocateSub(f, ofs) == IF Kept(f, ofs) THEN ofs \div 4 ELSE NoSub
StepOver(f, ofs) == CASE Kept(f, ofs) -> ofs + 8 - 12
                      [] f.sub = NoSub -> ofs - 12
                      [] OTHER -> ofs
(* From each field to the next free slot, before the field's own.          *)
Distances ==
  LET ofs[n \in 0 .. Len(fields)] ==
        IF n = 0 THEN FieldBytes ELSE StepOver(fields[n], ofs[n - 1])
  IN [i \in Indices |-> ofs[i - 1]]

AllocateSubs ==
  /\ pc = "subs"
  /\ fields' = [i \in Indices |->
                  [fields[i] EXCEPT !.sub = AllocateSub(fields[i], Distances[i])]]
  /\ pc' = "done"
  /\ UNCHANGED <<parseVars, layoutVars>>

Stop == pc \in {"done", "error"} /\ UNCHANGED vars

Next ==
  \/ Empty \/ Version \/ MessageSet \/ Malformed
  \/ \E t \in Types : Field(t, FALSE)
  \/ \E t \in RepeatedTypes : Field(t, TRUE)
  \/ \E m \in MessageModifiers : MessageModifier(m)
  \/ \E m \in FieldModifiers : FieldModifier(m)
  \/ \E n \in Skips : Skip(n)
  \/ StartOneofs
  \/ \E n \in 1 .. MaxFieldNumber : OneofMember(n)
  \/ NextOneof \/ EndOfBody \/ EndOfOneofs
  \/ AssignHasbits \/ ParseMap \/ CalculateAlignments \/ AssignOffsets
  \/ AllocateSubs \/ Stop

Spec == Init /\ [][Next]_vars
-----------------------------------------------------------------------------
FieldRecord ==
  [number : Nat, type : EncodedTypes \cup {"enum"}, repeated : BOOLEAN,
   class : {"none", "hasbit", "required", "oneof"}, alternate : BOOLEAN,
   packed : BOOLEAN, rep : Reps, sub : Nat \cup {NoSub}, offset : Nat,
   presence : Int]

(* Every variable holds a value of the type the code declares for it.      *)
TypeOK ==
  /\ pc \in {"version", "body", "oneofs", "hasbits", "map", "align", "offsets",
             "subs", "done", "error"}
  /\ version \in {"none", "message", "map", "message_set"}
  /\ token \in {"none", "field", "modifier", "skip"}
  /\ mods \in {{}} \cup MessageModifiers
  /\ ext \subseteq {"extendable", "message_set", "map_entry"}
  /\ fields \in Seq(FieldRecord)
  /\ number \in Nat
  /\ denseBelow \in {Undecided} \cup 0 .. U8Size - 1
  /\ item \in [members : SUBSET Indices, rep : Reps]
  /\ oneofs \in Seq([members : SUBSET Indices, rep : Reps])
  /\ required \in 0 .. MaxRequired
  /\ repBase \in [Reps -> Nat]
  /\ size \in 0 .. U16Max

LaidOut == pc \in {"subs", "done"}

Apart(a, aSize, b, bSize) == a + aSize <= b \/ b + bSize <= a

Case(i) == -(fields[i].presence) - 1
SharesOneof(i, j) == /\ fields[i].presence < 0
                     /\ fields[i].presence = fields[j].presence

(* No byte of a laid out message serves two purposes: two fields' storage, *)
(* unless they are members of one oneof, which share theirs; a field's     *)
(* storage and an oneof's case; two oneofs' cases; either of these and a   *)
(* hasbit or the message header.  (The offsets come from four counters     *)
(* that oneofs take two slots from, whichever rep they hold.)              *)
SlotsApart ==
  LaidOut =>
    \A i \in Indices :
      LET f == fields[i]
      IN /\ f.offset >= ReservedHasbytes
         /\ f.presence < 0 => Case(i) >= ReservedHasbytes
         /\ \A j \in Indices :
              LET g == fields[j]
              IN /\ i # j => IF SharesOneof(i, j)
                             THEN f.offset = g.offset
                             ELSE Apart(f.offset, SizeOf(f.rep),
                                        g.offset, SizeOf(g.rep))
                 /\ f.presence < 0 =>
                      /\ Apart(Case(i), 4, g.offset, SizeOf(g.rep))
                      /\ g.presence < 0 =>
                           Case(i) = Case(j) \/ Apart(Case(i), 4, Case(j), 4)
                 /\ f.presence > 0 =>
                      /\ Apart(f.presence \div 8, 1, g.offset, SizeOf(g.rep))
                      /\ g.presence < 0 => Apart(f.presence \div 8, 1, Case(j), 4)

(* The message is as large as its storage, and storage is aligned for what *)
(* it holds.  The size is rounded up to eight after it was checked against *)
(* the limit, so it wraps to zero from U16Max - 6 on: that size is exempt. *)
SlotsInside ==
  /\ TypeOK
  /\ LaidOut =>
       \A i \in Indices :
         LET f == fields[i]
         IN /\ f.offset % AlignOf(f.rep) = 0
            /\ size # 0 => f.offset + SizeOf(f.rep) <= size
            /\ f.presence < 0 => /\ Case(i) % 4 = 0 /\ Case(i) <= I16Max
                                 /\ size # 0 => Case(i) + 4 <= size

(* A hasbit belongs to one field, and the required fields hold exactly the *)
(* first ones: required_count is all a decoder keeps to check for them.    *)
(* Only members of an oneof have a case, and no member is in two.          *)
HasbitsOwned ==
  LaidOut =>
    /\ \A i, j \in Indices :
         i # j /\ fields[i].presence > 0 => fields[i].presence # fields[j].presence
    /\ {fields[i].presence : i \in OfClass("required")} =
         ReservedHasbits .. ReservedHasbits + required - 1
    /\ \A i \in Indices :
         /\ fields[i].presence <= I16Max
         /\ fields[i].presence < 0 <=> fields[i].class = "oneof"
         /\ fields[i].class = "oneof" =>
              \E k \in 1 .. Len(oneofs) :
                /\ InOneof(i, k) /\ SizeOf(fields[i].rep) <= SizeOf(oneofs[k].rep)
                /\ \A l \in 1 .. Len(oneofs) : InOneof(i, l) => l = k

(* Field numbers ascend, and the first dense_below fields are those with   *)
(* the numbers 1, 2, ...: a lookup takes number - 1 for their index.       *)
DensePrefix ==
  /\ \A i, j \in Indices : i < j => fields[i].number < fields[j].number
  /\ LaidOut => \A i \in 1 .. denseBelow : /\ i <= Len(fields)
                                          /\ fields[i].number = i

(* What a decode with the table relies on without looking again: the       *)
(* required_count, the sign and the range of a presence, dense_below.      *)
LookupsAgree == HasbitsOwned /\ DensePrefix

(* The k-th field with a sub slot points at the k-th slot after the        *)
(* fields, and every submessage, group and closed enum field has one.      *)
SubsFollowFields ==
  pc = "done" =>
    LET subs == {i \in Indices : fields[i].type \in {"group", "message", "enum"}}
    IN \A i \in Indices :
         IF i \in subs
         THEN /\ fields[i].sub # NoSub
              /\ 12 * (i - 1) + 4 * fields[i].sub
                   = FieldBytes + 8 * (UpTo(subs, i) - 1)
         ELSE fields[i].sub = NoSub
=============================================================================
