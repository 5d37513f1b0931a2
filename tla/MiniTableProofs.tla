-------------------------- MODULE MiniTableProofs --------------------------
(***************************************************************************)
(* Proofs about mini tables: of MiniTable, for descriptors of any length   *)
(* whose oneofs the code's 16-bit links can chain (below 65532 fields),    *)
(* and of TableSet, for any messages and enums that its assumptions allow. *)
(***************************************************************************)
EXTENDS MiniTable, TableSet, NumberProofs, FiniteSetTheorems

(* Field numbers ascend up to the last one, and as long as none was skipped *)
(* a field's number is its index.                                           *)
Numbered ==
  /\ \A i \in Indices : fields[i].number <= number
  /\ \A i, j \in Indices : i < j => fields[i].number < fields[j].number
  /\ denseBelow = Undecided =>
       number = Len(fields) /\ \A i \in Indices : fields[i].number = i
  /\ \A i \in 1 .. denseBelow : i <= Len(fields) /\ fields[i].number = i
  /\ pc = "version" => fields = <<>> /\ required = 0

(* The members of an oneof, or of the one under construction, have its      *)
(* class, fit in its slot, and are in no other; nothing else has the class. *)
Fits(i, o) == fields[i].class = "oneof" /\ SizeOf(fields[i].rep) <= SizeOf(o.rep)

Pending == IF pc = "oneofs" THEN item.members ELSE {}

Grouped ==
  /\ \A k \in 1 .. Len(oneofs) : \A i \in oneofs[k].members : Fits(i, oneofs[k])
  /\ \A i \in Pending : Fits(i, item)
  /\ \A k, l \in 1 .. Len(oneofs) :
       k # l => oneofs[k].members \cap oneofs[l].members = {}
  /\ \A k \in 1 .. Len(oneofs) : Pending \cap oneofs[k].members = {}
  /\ \A i \in Indices : fields[i].class = "oneof" =>
       i \in Pending \/ \E k \in 1 .. Len(oneofs) : InOneof(i, k)
  /\ pc \in {"version", "body"} => oneofs = <<>>

SubTypes == {"group", "message", "enum"}

SubsKnown ==
  pc # "done" =>
    \A i \in Indices :
      fields[i].sub = IF fields[i].type \in SubTypes THEN 0 ELSE NoSub

ParseInv == TypeOK /\ Numbered /\ Grouped /\ SubsKnown

(* After the hasbits: the header ends behind the last of them.              *)
HeaderBytes == (LastHasbit + 8) \div 8

HasbitsSet ==
  /\ \A i \in Indices : fields[i].presence = Hasbit(i)
  /\ required = Cardinality(OfClass("required"))
  /\ LastHasbit <= I16Max

(* After the alignments: the slots of each rep are a region, behind the     *)
(* header and the regions before it.                                        *)
RegionTop(r) == repBase[r] + SizeOf(r) * SlotCount(r)

RegionsSet ==
  /\ \A r \in Reps : SlotCount(r) # 0 =>
       /\ HeaderBytes <= repBase[r] /\ repBase[r] % AlignOf(r) = 0
       /\ RegionTop(r) <= size
  /\ \A q, r \in Reps :
       q < r /\ SlotCount(q) # 0 /\ SlotCount(r) # 0 => RegionTop(q) <= repBase[r]

LayoutInv ==
  /\ pc \in {"map", "align", "offsets"} => HasbitsSet
  /\ pc \in {"map", "align"} => size = HeaderBytes
  /\ pc = "offsets" => RegionsSet
  /\ SlotsApart /\ SlotsInside /\ HasbitsOwned

TableInv == ParseInv /\ LayoutInv

-----------------------------------------------------------------------------
(* Counting                                                                 *)

(* UpTo counts the elements of a set of indices up to one of them.          *)
LEMMA UpToType ==
  ASSUME NEW n \in Nat, NEW S \in SUBSET (1 .. n), NEW i \in Nat
  PROVE  /\ IsFiniteSet(S) /\ Cardinality(S) \in Nat
         /\ UpTo(S, i) \in Nat /\ UpTo(S, i) <= Cardinality(S)
         /\ UpTo(S, 0) = 0 /\ UpTo(S, n) = Cardinality(S)
<1>1. IsFiniteSet(S)
  <2>1. IsFiniteSet(1 .. n)
    BY FS_Interval
  <2> QED
    BY <2>1, FS_Subset
<1>2. {j \in S : j <= i} \in SUBSET S /\ {j \in S : j <= 0} = {} /\ {j \in S : j <= n} = S
  <2>1. \A j \in S : j <= n /\ ~(j <= 0)
    OBVIOUS
  <2> QED
    BY <2>1
<1>3. Cardinality({j \in S : j <= 0}) = 0
  BY <1>2, FS_EmptySet
<1> QED
  BY <1>1, <1>2, <1>3, FS_Subset, FS_CardinalityType DEF UpTo

LEMMA UpToBound ==
  ASSUME NEW n \in Nat, NEW S \in SUBSET (1 .. n), NEW i \in Nat
  PROVE  UpTo(S, i) <= i
<1> DEFINE A == {j \in S : j <= i}
<1>1. \A j \in A : j \in 1 .. i
  OBVIOUS
<1>2. A \in SUBSET (1 .. i)
  <2> HIDE DEF A
  <2> QED
    BY <1>1
<1>3. IsFiniteSet(1 .. i) /\ Cardinality(1 .. i) = i
  <2>1. 1 \in Int /\ i \in Int
    OBVIOUS
  <2>2. Cardinality(1 .. i) = IF 1 > i THEN 0 ELSE i - 1 + 1
    BY <2>1, FS_Interval
  <2> QED
    BY <2>1, <2>2, FS_Interval
<1>4. Cardinality(A) <= Cardinality(1 .. i)
  BY <1>2, <1>3, FS_Subset
<1> QED
  BY <1>3, <1>4 DEF UpTo

LEMMA UpToStep ==
  ASSUME NEW n \in Nat, NEW S \in SUBSET (1 .. n), NEW i \in Nat, i > 0
  PROVE  /\ i \in S => UpTo(S, i) = UpTo(S, i - 1) + 1
         /\ i \notin S => UpTo(S, i) = UpTo(S, i - 1)
<1> DEFINE A == {j \in S : j <= i - 1}
           B == {j \in S : j <= i}
<1>1. IsFiniteSet(A) /\ i \notin A
  <2>1. A \in SUBSET S
    OBVIOUS
  <2> QED
    BY <2>1, UpToType, FS_Subset
<1>2. \A j \in S : j <= i <=> j <= i - 1 \/ j = i
  OBVIOUS
<1>3. i \in S => B = A \cup {i}
  BY <1>2
<1>4. i \notin S => B = A
  BY <1>2
<1> QED
  BY <1>1, <1>3, <1>4, FS_AddElement DEF UpTo

LEMMA UpToGrows ==
  ASSUME NEW n \in Nat, NEW S \in SUBSET (1 .. n), NEW i \in Nat, NEW j \in Nat, i <= j
  PROVE  UpTo(S, i) <= UpTo(S, j)
<1> DEFINE A == {k \in S : k <= i}
           B == {k \in S : k <= j}
<1>1. A \in SUBSET B /\ B \in SUBSET S
  <2>1. \A k \in S : k <= i => k <= j
    OBVIOUS
  <2> QED
    BY <2>1
<1>2. IsFiniteSet(B)
  BY <1>1, UpToType, FS_Subset
<1> QED
  BY <1>1, <1>2, FS_Subset DEF UpTo

(* Each element has a rank of its own, the first the rank 1.                *)
LEMMA RankGrows ==
  ASSUME NEW n \in Nat, NEW S \in SUBSET (1 .. n), NEW i \in S, NEW j \in Nat, j < i
  PROVE  UpTo(S, j) < UpTo(S, i)
<1>1. i \in Nat /\ i > 0 /\ i - 1 \in Nat /\ j <= i - 1
  OBVIOUS
<1>2. UpTo(S, i) = UpTo(S, i - 1) + 1 /\ UpTo(S, j) <= UpTo(S, i - 1)
  BY <1>1, UpToStep, UpToGrows
<1>3. UpTo(S, i - 1) \in Nat /\ UpTo(S, j) \in Nat
  BY <1>1, UpToType
<1> QED
  BY <1>2, <1>3

LEMMA Rank ==
  ASSUME NEW n \in Nat, NEW S \in SUBSET (1 .. n), NEW i \in S
  PROVE  /\ UpTo(S, i) \in 1 .. Cardinality(S)
         /\ \A j \in S : i # j => UpTo(S, i) # UpTo(S, j)
<1>0. \A j \in S : j \in Nat /\ 0 < j
  OBVIOUS
<1>1. i \in Nat /\ 0 < i /\ UpTo(S, 0) = 0 /\ UpTo(S, i) \in Nat
      /\ UpTo(S, i) <= Cardinality(S) /\ Cardinality(S) \in Nat
  BY <1>0, UpToType
<1>2. UpTo(S, 0) < UpTo(S, i)
  BY <1>1, RankGrows
<1>3. ASSUME NEW j \in S, i # j PROVE UpTo(S, i) # UpTo(S, j)
  <2>1. j \in Nat /\ UpTo(S, j) \in Nat
    BY <1>0, UpToType
  <2>2. CASE i < j
    <3>1. UpTo(S, i) < UpTo(S, j)
      BY <1>1, <2>2, RankGrows
    <3> QED
      BY <1>1, <2>1, <3>1
  <2>3. CASE j < i
    <3>1. UpTo(S, j) < UpTo(S, i)
      BY <2>1, <2>3, RankGrows
    <3> QED
      BY <1>1, <2>1, <3>1
  <2> QED
    BY <1>1, <1>3, <2>1, <2>2, <2>3
<1> QED
  BY <1>1, <1>2, <1>3

LEMMA RankTaken ==
  ASSUME NEW n \in Nat, NEW S \in SUBSET (1 .. n), NEW c \in 1 .. Cardinality(S)
  PROVE  \E i \in S : UpTo(S, i) = c
<1> DEFINE T == {i \in Nat : UpTo(S, i) >= c}
<1>1. c \in Nat /\ c > 0 /\ Cardinality(S) \in Nat /\ c <= Cardinality(S)
  BY UpToType
<1>2. n \in T /\ 0 \notin T
  BY <1>1, UpToType
<1>3. PICK i \in T : \A y \in T : i <= y
  BY <1>2, LeastNat
<1>4. i \in Nat /\ i > 0 /\ i - 1 \in Nat /\ UpTo(S, i) >= c
  BY <1>2, <1>3
<1>5. i - 1 \notin T
  BY <1>3, <1>4
<1>6. UpTo(S, i - 1) \in Nat /\ UpTo(S, i - 1) < c
  <2>1. UpTo(S, i - 1) \in Nat
    BY <1>4, UpToType
  <2> QED
    BY <1>1, <1>4, <1>5, <2>1
<1>7. i \in S /\ UpTo(S, i) = UpTo(S, i - 1) + 1
  BY <1>4, <1>6, UpToStep
<1> QED
  BY <1>1, <1>4, <1>6, <1>7

-----------------------------------------------------------------------------
(* Reading                                                                  *)

Blank ==
  /\ pc \in {"version", "error"} /\ version = "none" /\ token = "none"
  /\ mods = {} /\ ext = {} /\ fields = <<>> /\ number = 0
  /\ denseBelow = Undecided /\ item = NoItem /\ oneofs = <<>>
  /\ required = 0 /\ repBase = [r \in Reps |-> 0] /\ size = ReservedHasbytes

Parsing == {"version", "body", "oneofs", "hasbits", "error"}

LEMMA ParsingLayout == ParseInv /\ pc \in Parsing => TableInv
BY DEF ParseInv, TableInv, Parsing, LayoutInv, SlotsApart, SlotsInside, HasbitsOwned, LaidOut

LEMMA NextParsing ==
  ASSUME ParseInv', pc' \in Parsing
  PROVE  TableInv'
<1>1. (ParseInv /\ pc \in Parsing)' => TableInv'
  BY ParsingLayout, PTL
<1> QED
  BY <1>1

LEMMA BlankInv == Blank => TableInv
<1> SUFFICES ASSUME Blank PROVE TableInv
  OBVIOUS
<1>1. Indices = {} /\ Len(fields) = 0 /\ 1 .. Len(oneofs) = {} /\ 1 .. denseBelow = {}
  BY DEF Blank, Indices, Undecided
<1>2. /\ fields \in Seq(FieldRecord) /\ oneofs \in Seq([members : SUBSET Indices, rep : Reps])
      /\ item \in [members : SUBSET Indices, rep : Reps] /\ repBase \in [Reps -> Nat]
  BY DEF Blank, NoItem, OneByte, Reps
<1>3. TypeOK
  BY <1>2, LimitsAssumption DEF Blank, TypeOK, ReservedHasbytes, Undecided
<1>4. Numbered /\ Grouped /\ SubsKnown
  BY <1>1 DEF Blank, Numbered, Grouped, SubsKnown, Pending, Undecided
<1> QED
  BY <1>3, <1>4, ParsingLayout DEF ParseInv, Blank, Parsing

LEMMA FailKeeps == Fail => TableInv'
<1>1. Fail => Blank'
  BY DEF Fail, Blank
<1> QED
  BY <1>1, BlankInv, PTL

(* A table without fields.                                                  *)
LEMMA NoFields == ParseInv /\ fields = <<>> /\ required = 0 /\ pc = "subs" => TableInv
<1> SUFFICES ASSUME ParseInv, fields = <<>>, required = 0, pc = "subs" PROVE TableInv
  OBVIOUS
<1>1. Indices = {} /\ TypeOK
  BY DEF Indices, ParseInv
<1>2. OfClass("required") = {}
  BY <1>1 DEF OfClass
<1>3. ReservedHasbits .. ReservedHasbits + required - 1 = {}
  BY DEF ReservedHasbits, ReservedHasbytes
<1> QED
  BY <1>1, <1>2, <1>3 DEF TableInv, LayoutInv, SlotsApart, SlotsInside, HasbitsOwned

LEMMA NextNoFields ==
  ASSUME ParseInv', fields' = <<>>, required' = 0, pc' = "subs"
  PROVE  TableInv'
<1>1. (ParseInv /\ fields = <<>> /\ required = 0 /\ pc = "subs")' => TableInv'
  BY NoFields, PTL
<1> QED
  BY <1>1

LEMMA FieldsAreTyped ==
  ASSUME TypeOK, NEW i \in Indices
  PROVE  /\ fields[i] \in FieldRecord /\ fields[i].number \in Nat
         /\ fields[i].offset \in Nat /\ fields[i].presence \in Int
         /\ fields[i].class \in {"none", "hasbit", "required", "oneof"}
         /\ fields[i].rep \in Reps /\ fields[i].type \in EncodedTypes \cup {"enum"}
         /\ fields[i].repeated \in BOOLEAN /\ fields[i].alternate \in BOOLEAN
<1>1. fields[i] \in FieldRecord
  BY DEF TypeOK, Indices
<1> QED
  BY <1>1 DEF FieldRecord

LEMMA Element ==
  ASSUME NEW S, NEW s \in Seq(S), NEW k \in 1 .. Len(s)
  PROVE  s[k] \in S
OBVIOUS

LEMMA OneofTypes ==
  ASSUME TypeOK, NEW k \in 1 .. Len(oneofs)
  PROVE  /\ oneofs[k] \in [members : SUBSET Indices, rep : Reps]
         /\ oneofs[k].members \subseteq Indices /\ oneofs[k].rep \in Reps
<1>1. oneofs \in Seq([members : SUBSET Indices, rep : Reps])
  BY DEF TypeOK
<1>2. oneofs[k] \in [members : SUBSET Indices, rep : Reps]
  BY <1>1, Element
<1> QED
  BY <1>2

(* Steps that leave the fields alone.                                       *)
LEMMA StartKeeps ==
  ASSUME ParseInv, Empty \/ Version \/ MessageSet \/ StartOneofs
  PROVE  TableInv'
<1>1. /\ pc \in {"version", "body"} /\ oneofs = <<>> /\ pc' # "version"
      /\ UNCHANGED <<fields, number, oneofs, required, repBase, size>>
  BY DEF Empty, Version, MessageSet, StartOneofs, ParseInv, Grouped, layoutVars
<1>2. Indices' = Indices /\ Pending = {} /\ Pending' = {} /\ 1 .. Len(oneofs) = {}
  BY <1>1 DEF Indices, Pending, StartOneofs, NoItem, Empty, Version, MessageSet
<1>3. TypeOK'
  <2>1. TypeOK
    BY DEF ParseInv
  <2>2. item' \in [members : SUBSET Indices, rep : Reps]
    BY <2>1 DEF TypeOK, Empty, Version, MessageSet, StartOneofs, NoItem, OneByte, Reps
  <2>3. denseBelow' \in {Undecided} \cup 0 .. U8Size - 1
    BY <2>1, LimitsAssumption DEF TypeOK, Empty, Version, MessageSet, StartOneofs
  <2>4. /\ pc' \in {"body", "oneofs", "subs"} /\ token' = token /\ mods' = mods
        /\ version' \in {"none", "message", "map", "message_set"}
        /\ ext' \subseteq {"extendable", "message_set", "map_entry"}
    BY <2>1 DEF TypeOK, Empty, Version, MessageSet, StartOneofs
  <2> QED
    BY <1>1, <1>2, <2>1, <2>2, <2>3, <2>4 DEF TypeOK
<1>4. Numbered'
  <2>1. CASE denseBelow' = denseBelow
    BY <1>1, <1>2, <2>1 DEF ParseInv, Numbered
  <2>2. CASE denseBelow' = 0
    BY <1>1, <1>2, <2>2 DEF ParseInv, Numbered, Undecided
  <2> QED
    BY <2>1, <2>2 DEF Empty, Version, MessageSet, StartOneofs
<1>5. Grouped' /\ SubsKnown'
  BY <1>1, <1>2 DEF ParseInv, Grouped, SubsKnown, Empty, Version, MessageSet, StartOneofs
<1>6. ParseInv'
  BY <1>3, <1>4, <1>5 DEF ParseInv
<1>7. CASE Version \/ StartOneofs
  BY <1>6, <1>7, NextParsing DEF Version, StartOneofs, Parsing
<1>8. CASE Empty \/ MessageSet
  <2>1. fields' = <<>> /\ required' = 0 /\ pc' = "subs"
    BY <1>1, <1>8 DEF ParseInv, Numbered, Empty, MessageSet
  <2> QED
    BY <1>6, <2>1, NextNoFields
<1> QED
  BY <1>7, <1>8

LEMMA ModifierKeeps ==
  ASSUME ParseInv, NEW m \in MessageModifiers, MessageModifier(m)
  PROVE  TableInv'
<1>1. /\ UNCHANGED <<pc, version, fields, number, denseBelow, item, oneofs, required, repBase, size>>
      /\ pc = "body"
  BY DEF MessageModifier, layoutVars
<1>2. Indices' = Indices /\ Pending' = Pending
  BY <1>1 DEF Indices, Pending
<1>3. TypeOK'
  BY <1>1, <1>2 DEF ParseInv, TypeOK, MessageModifier
<1>4. Numbered' /\ Grouped' /\ SubsKnown'
  BY <1>1, <1>2 DEF ParseInv, Numbered, Grouped, SubsKnown, Fits, InOneof
<1> QED
  BY <1>1, <1>3, <1>4, NextParsing DEF ParseInv, Parsing

LEMMA SkipKeeps ==
  ASSUME ParseInv, NEW n \in Skips, Skip(n)
  PROVE  TableInv'
<1>1. CASE Fail
  BY <1>1, FailKeeps
<1>2. CASE ~Fail
  <2>1. /\ UNCHANGED <<pc, version, mods, ext, fields, item, oneofs, required, repBase, size>>
        /\ pc = "body" /\ number' = number + n - 1 /\ n # 0 /\ n \in Nat
        /\ denseBelow' = DenseBelow /\ token' = "skip"
    BY <1>2, DescriptorsAssumption DEF Skip, layoutVars
  <2>2. Indices' = Indices /\ Pending' = Pending /\ number \in Nat /\ Len(fields) \in Nat
    BY <2>1 DEF Indices, Pending, ParseInv, TypeOK
  <2>3. number' \in Nat /\ number <= number'
    BY <2>1, <2>2
  <2>4. /\ denseBelow' \in 0 .. U8Size - 1
        /\ \A i \in 1 .. denseBelow' : i <= Len(fields) /\ fields[i].number = i
    <3>1. CASE denseBelow = Undecided
      <4>1. denseBelow' = Len(fields) % U8Size
        BY <2>1, <3>1 DEF DenseBelow
      <4>2. Len(fields) % U8Size \in 0 .. U8Size - 1 /\ Len(fields) % U8Size <= Len(fields)
        BY <2>2, LimitsAssumption
      <4>3. \A i \in Indices : fields[i].number = i
        BY <3>1 DEF ParseInv, Numbered
      <4> QED
        BY <2>2, <4>1, <4>2, <4>3 DEF Indices
    <3>2. CASE denseBelow # Undecided
      <4>1. denseBelow' = denseBelow
        BY <2>1, <3>2 DEF DenseBelow
      <4> QED
        BY <3>2, <4>1 DEF ParseInv, Numbered, TypeOK
    <3> QED
      BY <3>1, <3>2
  <2>5. TypeOK'
    BY <2>1, <2>2, <2>3, <2>4 DEF ParseInv, TypeOK
  <2>6. Numbered'
    <3>1. \A i \in Indices : fields[i].number \in Nat /\ fields[i].number <= number
      BY FieldsAreTyped DEF ParseInv, Numbered
    <3>2. \A i \in Indices : fields[i].number <= number'
      BY <2>2, <2>3, <3>1
    <3>3. denseBelow' # Undecided
      BY <2>4, LimitsAssumption DEF Undecided
    <3> QED
      BY <2>1, <2>2, <2>4, <3>2, <3>3 DEF ParseInv, Numbered
  <2>7. Grouped' /\ SubsKnown'
    BY <2>1, <2>2 DEF ParseInv, Grouped, SubsKnown, Fits, InOneof
  <2> QED
    BY <2>1, <2>5, <2>6, <2>7, NextParsing DEF ParseInv, Parsing
<1> QED
  BY <1>1, <1>2

(* set_field makes a field of the next number.                              *)
LEMMA NewFieldTypes ==
  ASSUME NEW n \in Nat, NEW type \in EncodedTypes, NEW repeated \in BOOLEAN
  PROVE  LET f == NewField(n, type, repeated) IN
         /\ f \in FieldRecord /\ f.number = n /\ f.class # "oneof"
         /\ f.sub = IF f.type \in SubTypes THEN 0 ELSE NoSub
<1> DEFINE f == NewField(n, type, repeated)
           stored == CASE type = "open_enum" -> "int32"
                       [] type = "string" /\ "validate_utf8" \notin mods -> "bytes"
                       [] type = "closed_enum" -> "enum"
                       [] OTHER -> type
<1>1. stored \in EncodedTypes \cup {"enum"}
  BY Zenon DEF EncodedTypes
<1>2. EncodedRep(type) \in Reps
  BY DEF EncodedRep, Reps, OneByte, FourByte, StringView, EightByte
<1>3. /\ f.number = n /\ f.type = stored /\ f.repeated = repeated
      /\ f.class = IF repeated THEN "none" ELSE "hasbit"
      /\ f.rep = IF repeated THEN EightByte ELSE EncodedRep(type)
      /\ f.sub = IF stored \in SubTypes THEN 0 ELSE NoSub
      /\ f.offset = 0 /\ f.presence = 0
  BY DEF NewField, SubTypes
<1>4. f.alternate \in BOOLEAN /\ f.packed \in BOOLEAN
  BY Zenon DEF NewField
<1>5. f = [number |-> f.number, type |-> f.type, repeated |-> f.repeated,
           class |-> f.class, alternate |-> f.alternate, packed |-> f.packed,
           rep |-> f.rep, sub |-> f.sub, offset |-> f.offset, presence |-> f.presence]
  BY DEF NewField
<1> HIDE DEF f, stored
<1>6. f.sub \in Nat \cup {NoSub} /\ f.rep \in Reps /\ f.class \in {"none", "hasbit", "required", "oneof"}
  BY <1>2, <1>3 DEF Reps, EightByte
<1>7. f \in FieldRecord
  BY <1>1, <1>3, <1>4, <1>5, <1>6 DEF FieldRecord
<1>8. f.class # "oneof"
  BY <1>3
<1> QED
  BY <1>3, <1>7, <1>8 DEF f

(* The fields after one was added, or changed in place.                     *)
LEMMA FieldKeeps ==
  ASSUME ParseInv, NEW type \in Types, NEW repeated \in BOOLEAN, Field(type, repeated)
  PROVE  TableInv'
<1>1. CASE number + 1 > MaxFieldNumber
  BY <1>1, FailKeeps DEF Field
<1>2. CASE ~(number + 1 > MaxFieldNumber)
  <2>1. PICK f : f = NewField(number + 1, type, repeated)
    OBVIOUS
  <2>2. /\ pc = "body" /\ number' = number + 1 /\ token' = "field"
        /\ fields' = Append(fields, f)
        /\ UNCHANGED <<pc, version, mods, ext, denseBelow, item, oneofs, required, repBase, size>>
    BY <1>2, <2>1 DEF Field, layoutVars
  <2>3. number \in Nat /\ number + 1 \in Nat /\ type \in EncodedTypes
    BY DescriptorsAssumption DEF ParseInv, TypeOK
  <2>4. /\ f \in FieldRecord /\ f.number = number + 1 /\ f.class # "oneof"
        /\ f.sub = IF f.type \in SubTypes THEN 0 ELSE NoSub
    BY <2>1, <2>3, NewFieldTypes
  <2>5. PICK n : n = Len(fields) + 1
    OBVIOUS
  <2>6. /\ fields \in Seq(FieldRecord) /\ Len(fields) \in Nat /\ n \in Nat /\ n > 0
        /\ oneofs = <<>> /\ Pending = {} /\ 1 .. Len(oneofs) = {}
    BY <2>2, <2>5 DEF ParseInv, TypeOK, Grouped, Pending
  <2>7. /\ fields' \in Seq(FieldRecord) /\ Len(fields') = n /\ fields'[n] = f
        /\ \A i \in Indices : fields'[i] = fields[i]
    BY <2>2, <2>4, <2>5, <2>6 DEF Indices
  <2>8. /\ Indices' = 1 .. n /\ n \notin Indices /\ \A i \in Indices : i \in 1 .. n /\ i < n
        /\ \A i \in Indices' : i = n \/ i \in Indices
    BY <2>5, <2>6, <2>7 DEF Indices
  <2>9. TypeOK'
    <3>1. item' \in [members : SUBSET Indices', rep : Reps]
      BY <2>2, <2>8 DEF ParseInv, TypeOK
    <3>2. oneofs' \in Seq([members : SUBSET Indices', rep : Reps])
      BY <2>2, <2>6
    <3> QED
      BY <2>2, <2>3, <2>7, <3>1, <3>2 DEF ParseInv, TypeOK
  <2>10. Numbered'
    <3>1. \A i \in Indices : fields[i].number \in Nat /\ fields[i].number <= number
      BY FieldsAreTyped DEF ParseInv, Numbered
    <3>2. \A i \in Indices' : fields'[i].number <= number'
      BY <2>2, <2>3, <2>4, <2>7, <2>8, <3>1
    <3>3. ASSUME NEW i \in Indices', NEW j \in Indices', i < j
          PROVE  fields'[i].number < fields'[j].number
      <4>1. i \in Indices
        BY <2>8, <3>3
      <4>2. CASE j = n
        BY <2>3, <2>4, <2>7, <3>1, <4>1, <4>2
      <4>3. CASE j \in Indices
        BY <2>7, <3>3, <4>1, <4>3 DEF ParseInv, Numbered
      <4> QED
        BY <2>8, <4>2, <4>3
    <3>4. denseBelow' = Undecided =>
            number' = Len(fields') /\ \A i \in Indices' : fields'[i].number = i
      BY <2>2, <2>4, <2>5, <2>7, <2>8 DEF ParseInv, Numbered
    <3>5. ASSUME NEW i \in 1 .. denseBelow'
          PROVE  i <= Len(fields') /\ fields'[i].number = i
      <4>1. i \in 1 .. denseBelow /\ i <= Len(fields) /\ fields[i].number = i
        BY <2>2 DEF ParseInv, Numbered
      <4>2. i \in Indices /\ i <= n
        BY <2>5, <2>6, <4>1 DEF Indices
      <4> QED
        BY <2>7, <4>1, <4>2
    <3> QED
      BY <2>2, <3>2, <3>3, <3>4, <3>5 DEF Numbered
  <2>11. Grouped'
    <3>1. Pending' = {} /\ oneofs' = <<>>
      BY <2>2, <2>6 DEF Pending
    <3>2. \A i \in Indices' : fields'[i].class # "oneof"
      BY <2>4, <2>6, <2>7, <2>8 DEF ParseInv, Grouped, InOneof
    <3> QED
      BY <3>1, <3>2 DEF Grouped
  <2>12. SubsKnown'
    BY <2>2, <2>4, <2>7, <2>8 DEF ParseInv, SubsKnown
  <2> QED
    BY <2>2, <2>9, <2>10, <2>11, <2>12, NextParsing DEF ParseInv, Parsing
<1> QED
  BY <1>1, <1>2

(* modify_field keeps what a field is stored as.                            *)
LEMMA ModifiedTypes ==
  ASSUME NEW f \in FieldRecord, NEW m, Modifiable(f, m), f.class # "oneof",
         f.sub = IF f.type \in SubTypes THEN 0 ELSE NoSub
  PROVE  LET g == Modified(f, m) IN
         /\ g \in FieldRecord /\ g.number = f.number /\ g.class # "oneof"
         /\ g.sub = IF g.type \in SubTypes THEN 0 ELSE NoSub
<1> DEFINE g == Modified(f, m)
<1>1. /\ g.number = f.number /\ g.sub = f.sub /\ g.repeated = f.repeated /\ g.rep = f.rep
      /\ g.offset = f.offset /\ g.presence = f.presence
  BY DEF Modified, FieldRecord
<1>2. g.type = IF "flip_utf8" \in m THEN "string" ELSE f.type
  BY DEF Modified, FieldRecord
<1>3. g.class \in {"none", "required", f.class}
  BY DEF Modified, FieldRecord
<1>4. g.alternate \in BOOLEAN /\ g.packed \in BOOLEAN
  <2>1. g.alternate = IF "flip_utf8" \in m THEN FALSE ELSE f.alternate
    BY DEF Modified, FieldRecord
  <2>2. g.packed = (f.packed # ("flip_packed" \in m))
    BY Zenon DEF Modified, FieldRecord
  <2> QED
    BY <2>1, <2>2, Zenon DEF FieldRecord
<1>5. g = [number |-> g.number, type |-> g.type, repeated |-> g.repeated,
           class |-> g.class, alternate |-> g.alternate, packed |-> g.packed,
           rep |-> g.rep, sub |-> g.sub, offset |-> g.offset, presence |-> g.presence]
  <2>1. DOMAIN f = {"number", "type", "repeated", "class", "alternate", "packed", "rep",
                    "sub", "offset", "presence"}
    BY DEF FieldRecord
  <2>2. DOMAIN g = DOMAIN f /\ g = [x \in DOMAIN g |-> g[x]]
    <3>1. PICK h : h = IF "flip_utf8" \in m
                         THEN [f EXCEPT !.type = "string", !.alternate = FALSE] ELSE f
      OBVIOUS
    <3>2. PICK packed, class : g = [h EXCEPT !.packed = packed, !.class = class]
      BY <3>1 DEF Modified
    <3>3. f = [x \in DOMAIN f |-> f[x]]
      BY DEF FieldRecord
    <3> HIDE DEF g
    <3>4. DOMAIN h = DOMAIN f /\ h = [x \in DOMAIN h |-> h[x]]
      <4>1. CASE h = f
        BY <3>3, <4>1
      <4>2. CASE h = [f EXCEPT !.type = "string", !.alternate = FALSE]
        BY <4>2
      <4> QED
        BY <3>1, <4>1, <4>2
    <3> QED
      BY <3>2, <3>4
  <2> HIDE DEF g
  <2> QED
    BY <2>1, <2>2
<1>6. "flip_utf8" \in m => f.type = "bytes"
  BY DEF Modifiable
<1> HIDE DEF g
<1>7. g \in FieldRecord
  BY <1>1, <1>2, <1>3, <1>4, <1>5 DEF FieldRecord, EncodedTypes
<1>8. g.sub = IF g.type \in SubTypes THEN 0 ELSE NoSub
  BY <1>1, <1>2, <1>6 DEF SubTypes
<1> QED
  BY <1>1, <1>3, <1>7, <1>8 DEF g

LEMMA FieldModifierKeeps ==
  ASSUME ParseInv, NEW m, FieldModifier(m)
  PROVE  TableInv'
<1>1. PICK n : n = Len(fields)
  OBVIOUS
<1>2. /\ fields \in Seq(FieldRecord) /\ fields # <<>> /\ pc = "body"
      /\ oneofs = <<>> /\ Pending = {} /\ 1 .. Len(oneofs) = {}
  BY DEF FieldModifier, ParseInv, TypeOK, Grouped, Pending
<1>3. n \in Nat /\ n \in Indices /\ Indices = 1 .. n /\ Last(fields) = fields[n]
  BY <1>1, <1>2 DEF Indices, Last
<1>4. CASE ~Modifiable(fields[n], m)
  BY <1>3, <1>4, FailKeeps DEF FieldModifier
<1>5. CASE Modifiable(fields[n], m)
  <2>1. PICK g : g = Modified(fields[n], m)
    OBVIOUS
  <2>2. /\ fields' = [fields EXCEPT ![n] = g] /\ token' = "modifier"
        /\ UNCHANGED <<pc, version, mods, ext, number, denseBelow, item, oneofs, required, repBase, size>>
    BY <1>1, <1>3, <1>5, <2>1 DEF FieldModifier, layoutVars
  <2>3. \A i \in Indices : fields[i].class # "oneof"
    BY <1>2 DEF ParseInv, Grouped
  <2>4. /\ g \in FieldRecord /\ g.number = fields[n].number /\ g.class # "oneof"
        /\ g.sub = IF g.type \in SubTypes THEN 0 ELSE NoSub
    <3>1. fields[n].sub = IF fields[n].type \in SubTypes THEN 0 ELSE NoSub
      BY <1>2, <1>3 DEF ParseInv, SubsKnown
    <3> QED
      BY <1>2, <1>3, <1>5, <2>1, <2>3, <3>1, ModifiedTypes, FieldsAreTyped DEF ParseInv
  <2>5. /\ fields' \in Seq(FieldRecord) /\ Len(fields') = n /\ fields'[n] = g
        /\ \A i \in Indices : i # n => fields'[i] = fields[i]
    BY <1>1, <1>2, <1>3, <2>2, <2>4
  <2>6. Indices' = Indices /\ Pending' = {}
    BY <1>2, <1>3, <2>2, <2>5 DEF Indices, Pending
  <2>7. \A i \in Indices : fields'[i].number = fields[i].number /\ fields'[i].class # "oneof"
    BY <2>3, <2>4, <2>5
  <2>8. TypeOK'
    BY <2>2, <2>5, <2>6 DEF ParseInv, TypeOK
  <2>9. Numbered'
    <3>1. \A i \in 1 .. denseBelow : i <= n /\ i \in Indices
      <4>1. TAKE i \in 1 .. denseBelow
      <4>2. i <= Len(fields)
        BY DEF ParseInv, Numbered
      <4>3. i \in Nat /\ i >= 1
        OBVIOUS
      <4>4. Len(fields) = n /\ n \in Nat
        BY <1>1, <1>2, <1>3
      <4> QED
        BY <4>2, <4>3, <4>4 DEF Indices
    <3> QED
      BY <1>1, <1>2, <2>2, <2>5, <2>6, <2>7, <3>1 DEF ParseInv, Numbered
  <2>10. Grouped'
    BY <1>2, <2>2, <2>6, <2>7 DEF Grouped
  <2>11. SubsKnown'
    BY <1>2, <2>2, <2>4, <2>5, <2>6 DEF ParseInv, SubsKnown
  <2> QED
    BY <1>2, <2>2, <2>8, <2>9, <2>10, <2>11, NextParsing DEF ParseInv, Parsing
<1> QED
  BY <1>4, <1>5

LEMMA RepSizes ==
  /\ \A r \in Reps : SizeOf(r) \in {1, 4, 8, 16} /\ AlignOf(r) \in {1, 4, 8}
  /\ \A q, r \in Reps : SizeOf(q) <= SizeOf(r) => AlignOf(q) <= AlignOf(r)
BY DEF Reps, SizeOf, AlignOf, OneByte, FourByte, StringView

LEMMA LargerIsLarger ==
  ASSUME NEW q \in Reps, NEW r \in Reps
  PROVE  LET s == IF Larger(q, r) THEN q ELSE r IN
         s \in Reps /\ SizeOf(q) <= SizeOf(s) /\ SizeOf(r) <= SizeOf(s)
<1>1. SizeOf(q) \in Nat /\ SizeOf(r) \in Nat
  BY RepSizes
<1> QED
  BY <1>1 DEF Larger

LEMMA OneofMemberKeeps ==
  ASSUME ParseInv, NEW n, OneofMember(n)
  PROVE  TableInv'
<1>1. CASE Fail
  BY <1>1, FailKeeps
<1>2. CASE ~Fail
  <2>1. PICK i \in Indices :
          /\ fields[i].class = "hasbit"
          /\ fields' = [fields EXCEPT ![i].class = "oneof"]
          /\ item' = [members |-> item.members \cup {i},
                      rep |-> IF Larger(fields[i].rep, item.rep)
                              THEN fields[i].rep ELSE item.rep]
          /\ UNCHANGED <<pc, version, token, mods, ext, number, denseBelow, oneofs,
                         required, repBase, size>>
    <3>1. PICK i \in Indices :
            /\ fields[i].number = n
            /\ fields' = [fields EXCEPT ![i].class = "oneof"]
            /\ item' = [members |-> item.members \cup {i},
                        rep |-> IF Larger(fields[i].rep, item.rep)
                                THEN fields[i].rep ELSE item.rep]
            /\ UNCHANGED <<pc, version, token, mods, ext, number, denseBelow, oneofs,
                           layoutVars>>
      BY <1>2 DEF OneofMember
    <3>2. PICK j \in Indices : fields[j].number = n /\ fields[j].class = "hasbit"
      BY <1>2 DEF OneofMember
    <3>3. i = j
      <4>1. i \in Nat /\ j \in Nat /\ n \in Nat
        BY <3>1, FieldsAreTyped DEF ParseInv, Indices
      <4>2. ~(i < j) /\ ~(j < i)
        BY <3>1, <3>2, <4>1 DEF ParseInv, Numbered
      <4> QED
        BY <4>1, <4>2
    <3> QED
      BY <3>1, <3>2, <3>3 DEF layoutVars
  <2>2. /\ fields \in Seq(FieldRecord) /\ pc = "oneofs" /\ item.members \subseteq Indices
        /\ item.rep \in Reps /\ Pending = item.members
        /\ oneofs \in Seq([members : SUBSET Indices, rep : Reps])
    BY DEF ParseInv, TypeOK, OneofMember, Pending
  <2>3. PICK g : g = [fields[i] EXCEPT !.class = "oneof"]
    OBVIOUS
  <2>4. /\ g \in FieldRecord /\ g.class = "oneof" /\ g.number = fields[i].number
        /\ g.rep = fields[i].rep /\ g.sub = fields[i].sub /\ g.type = fields[i].type
    BY <2>3, FieldsAreTyped DEF FieldRecord, ParseInv
  <2>5. /\ fields' \in Seq(FieldRecord) /\ Len(fields') = Len(fields) /\ fields'[i] = g
        /\ \A j \in Indices : j # i => fields'[j] = fields[j]
    <3>1. fields' = [fields EXCEPT ![i] = g]
      BY <2>1, <2>2, <2>3 DEF Indices
    <3> QED
      BY <2>2, <2>4, <3>1 DEF Indices
  <2>6. /\ Indices' = Indices /\ Pending' = item.members \cup {i}
        /\ item' \in [members : SUBSET Indices, rep : Reps]
        /\ SizeOf(item.rep) <= SizeOf(item'.rep) /\ SizeOf(fields[i].rep) <= SizeOf(item'.rep)
    <3>1. fields[i].rep \in Reps
      BY FieldsAreTyped DEF ParseInv
    <3>2. PICK r : r = IF Larger(fields[i].rep, item.rep) THEN fields[i].rep ELSE item.rep
      OBVIOUS
    <3>3. r \in Reps /\ SizeOf(item.rep) <= SizeOf(r) /\ SizeOf(fields[i].rep) <= SizeOf(r)
      BY <2>2, <3>1, <3>2, LargerIsLarger
    <3>4. item' = [members |-> item.members \cup {i}, rep |-> r]
      BY <2>1, <3>2
    <3> QED
      BY <2>1, <2>2, <2>5, <3>3, <3>4 DEF Indices, Pending
  <2>7. /\ \A j \in item.members : j # i
        /\ \A k \in 1 .. Len(oneofs) : i \notin oneofs[k].members
    BY <2>1, <2>2 DEF ParseInv, Grouped, Fits
  <2>8. TypeOK'
    BY <2>1, <2>2, <2>5, <2>6 DEF ParseInv, TypeOK
  <2>9. Numbered'
    <3>1. \A j \in Indices : fields'[j].number = fields[j].number
      BY <2>4, <2>5
    <3>2. \A j \in 1 .. denseBelow : j \in Indices
      BY <2>2 DEF ParseInv, Numbered, Indices, TypeOK
    <3> QED
      BY <2>1, <2>2, <2>5, <2>6, <3>1, <3>2 DEF ParseInv, Numbered
  <2>10. Grouped'
    <3>1. \A k \in 1 .. Len(oneofs) : oneofs[k].members \subseteq Indices /\ i \notin oneofs[k].members
      BY <2>7, OneofTypes DEF ParseInv
    <3>2. \A k \in 1 .. Len(oneofs) : \A j \in oneofs[k].members : Fits(j, oneofs[k])'
      BY <2>1, <2>5, <3>1 DEF ParseInv, Grouped, Fits
    <3>3. ASSUME NEW j \in item.members \cup {i} PROVE Fits(j, item)'
      <4>1. CASE j = i
        BY <2>4, <2>5, <2>6, <4>1 DEF Fits
      <4>2. CASE j \in item.members /\ j # i
        <5>1. /\ fields[j].class = "oneof" /\ SizeOf(fields[j].rep) <= SizeOf(item.rep)
              /\ fields'[j] = fields[j] /\ fields[j].rep \in Reps
          BY <2>2, <2>5, <4>2, FieldsAreTyped DEF ParseInv, Grouped, Fits
        <5>2. SizeOf(fields[j].rep) \in Nat /\ SizeOf(item.rep) \in Nat /\ SizeOf(item'.rep) \in Nat
          BY <2>2, <2>6, <5>1, RepSizes
        <5>3. SizeOf(fields[j].rep) <= SizeOf(item'.rep)
          BY <2>6, <5>1, <5>2
        <5> QED
          BY <5>1, <5>3 DEF Fits
      <4> QED
        BY <3>3, <4>1, <4>2
    <3>4. \A k \in 1 .. Len(oneofs) : Pending' \cap oneofs[k].members = {}
      BY <2>2, <2>6, <3>1 DEF ParseInv, Grouped
    <3>5. ASSUME NEW j \in Indices, fields'[j].class = "oneof"
          PROVE  j \in Pending' \/ \E k \in 1 .. Len(oneofs) : InOneof(j, k)
      BY <2>2, <2>5, <2>6, <3>5 DEF ParseInv, Grouped
    <3>6. \A j, k : InOneof(j, k)' <=> InOneof(j, k)
      BY <2>1 DEF InOneof
    <3>7. \A k, l \in 1 .. Len(oneofs) : k # l => oneofs[k].members \cap oneofs[l].members = {}
      BY DEF ParseInv, Grouped
    <3> QED
      BY <2>1, <2>2, <2>6, <3>2, <3>3, <3>4, <3>5, <3>6, <3>7 DEF Grouped
  <2>11. SubsKnown'
    BY <2>1, <2>2, <2>4, <2>5, <2>6 DEF ParseInv, SubsKnown
  <2> QED
    BY <2>1, <2>2, <2>8, <2>9, <2>10, <2>11, NextParsing DEF ParseInv, Parsing
<1> QED
  BY <1>1, <1>2

(* push_oneof: the oneof under construction becomes one of the oneofs.      *)
LEMMA PushKeeps ==
  ASSUME ParseInv, pc = "oneofs", oneofs' = Append(oneofs, item), fields' = fields,
         Pending' = {}, pc' # "version", pc' # "body", pc' # "done"
  PROVE  /\ oneofs' \in Seq([members : SUBSET Indices, rep : Reps])
         /\ Grouped' /\ SubsKnown'
<1>1. PICK n : n = Len(oneofs) + 1
  OBVIOUS
<1>2. /\ oneofs \in Seq([members : SUBSET Indices, rep : Reps]) /\ Pending = item.members
      /\ item \in [members : SUBSET Indices, rep : Reps] /\ Indices' = Indices
  BY DEF ParseInv, TypeOK, Pending, Indices
<1>3. /\ oneofs' \in Seq([members : SUBSET Indices, rep : Reps])
      /\ Len(oneofs') = n /\ oneofs'[n] = item /\ n \in 1 .. n /\ Len(oneofs) \in Nat
      /\ \A k \in 1 .. Len(oneofs) : oneofs'[k] = oneofs[k] /\ k \in 1 .. n
      /\ \A k \in 1 .. n : k = n \/ k \in 1 .. Len(oneofs)
  BY <1>1, <1>2
<1>4. Grouped'
  <2>1. ASSUME NEW k \in 1 .. n, NEW i \in oneofs'[k].members PROVE Fits(i, oneofs[k])'
    BY <1>2, <1>3, <2>1 DEF ParseInv, Grouped, Fits
  <2>2. ASSUME NEW k \in 1 .. n, NEW l \in 1 .. n, k # l
        PROVE  oneofs'[k].members \cap oneofs'[l].members = {}
    <3>1. CASE k = n
      BY <1>2, <1>3, <2>2, <3>1 DEF ParseInv, Grouped
    <3>2. CASE l = n
      BY <1>2, <1>3, <2>2, <3>2 DEF ParseInv, Grouped
    <3>3. CASE k # n /\ l # n
      BY <1>3, <2>2, <3>3 DEF ParseInv, Grouped
    <3> QED
      BY <3>1, <3>2, <3>3
  <2>3. ASSUME NEW i \in Indices, fields[i].class = "oneof"
        PROVE  \E k \in 1 .. n : k \in 1 .. Len(oneofs') /\ i \in oneofs'[k].members
    BY <1>2, <1>3, <2>3 DEF ParseInv, Grouped, InOneof
  <2> QED
    BY <1>2, <1>3, <2>1, <2>2, <2>3 DEF Grouped, InOneof
<1>5. SubsKnown'
  BY <1>2 DEF ParseInv, SubsKnown
<1> QED
  BY <1>3, <1>4, <1>5

LEMMA NumberedKept ==
  ASSUME ParseInv, UNCHANGED <<fields, number>>, pc' # "version",
         denseBelow' \in {denseBelow, DenseBelow}
  PROVE  /\ denseBelow' \in {Undecided} \cup 0 .. U8Size - 1 /\ Numbered'
<1>1. Indices' = Indices /\ Len(fields) \in Nat
  BY DEF Indices, ParseInv, TypeOK
<1>2. CASE denseBelow' = denseBelow
  BY <1>1, <1>2 DEF ParseInv, Numbered, TypeOK
<1>3. CASE denseBelow = Undecided /\ denseBelow' = DenseBelow
  <2>1. denseBelow' = Len(fields) % U8Size
    BY <1>3 DEF DenseBelow
  <2>2. Len(fields) % U8Size \in 0 .. U8Size - 1 /\ Len(fields) % U8Size <= Len(fields)
    BY <1>1, LimitsAssumption
  <2>3. \A i \in Indices : fields[i].number = i
    BY <1>3 DEF ParseInv, Numbered
  <2>4. \A i \in 1 .. denseBelow' : i <= Len(fields) /\ fields[i].number = i
    BY <1>1, <2>1, <2>2, <2>3 DEF Indices
  <2>5. denseBelow' # Undecided
    BY <2>1, <2>2, LimitsAssumption DEF Undecided
  <2> QED
    BY <1>1, <2>1, <2>2, <2>4, <2>5 DEF ParseInv, Numbered
<1> QED
  BY <1>2, <1>3 DEF DenseBelow

LEMMA NextOneofKeeps == ASSUME ParseInv, NextOneof PROVE TableInv'
<1>1. CASE item.members = {}
  BY <1>1, FailKeeps DEF NextOneof
<1>2. CASE item.members # {}
  <2>1. /\ pc = "oneofs" /\ oneofs' = Append(oneofs, item) /\ item' = [item EXCEPT !.members = {}]
        /\ UNCHANGED <<pc, version, token, mods, ext, number, denseBelow, required, repBase, size, fields>>
    BY <1>2 DEF NextOneof, layoutVars
  <2>2. Indices' = Indices /\ item' \in [members : SUBSET Indices, rep : Reps] /\ Pending' = {}
    BY <2>1 DEF ParseInv, TypeOK, Indices, Pending
  <2>3. /\ oneofs' \in Seq([members : SUBSET Indices, rep : Reps])
        /\ Grouped' /\ SubsKnown'
    BY <2>1, <2>2, PushKeeps
  <2>4. Numbered'
    BY <2>1, NumberedKept
  <2>5. TypeOK'
    BY <2>1, <2>2, <2>3 DEF ParseInv, TypeOK
  <2> QED
    BY <2>1, <2>3, <2>4, <2>5, NextParsing DEF ParseInv, Parsing
<1> QED
  BY <1>1, <1>2

LEMMA EndKeeps == ASSUME ParseInv, EndOfBody \/ EndOfOneofs PROVE TableInv'
<1>1. CASE Fail
  BY <1>1, FailKeeps
<1>2. CASE EndOfBody
  <2>1. /\ pc = "body" /\ pc' = "hasbits" /\ denseBelow' = DenseBelow
        /\ UNCHANGED <<version, token, mods, ext, number, item, oneofs, required, repBase, size, fields>>
    BY <1>2 DEF EndOfBody, layoutVars
  <2>2. Indices' = Indices /\ Pending' = {} /\ Pending = {}
    BY <2>1 DEF Indices, Pending
  <2>3. denseBelow' \in {Undecided} \cup 0 .. U8Size - 1 /\ Numbered'
    BY <2>1, NumberedKept
  <2>4. TypeOK'
    BY <2>1, <2>2, <2>3 DEF ParseInv, TypeOK
  <2>5. Grouped' /\ SubsKnown'
    BY <2>1, <2>2 DEF ParseInv, Grouped, SubsKnown, Fits, InOneof
  <2> QED
    BY <2>1, <2>3, <2>4, <2>5, NextParsing DEF ParseInv, Parsing
<1>3. CASE EndOfOneofs /\ ~Fail
  <2>1. /\ pc = "oneofs" /\ pc' = "hasbits" /\ oneofs' = Append(oneofs, item)
        /\ denseBelow' = DenseBelow
        /\ UNCHANGED <<version, token, mods, ext, number, item, required, repBase, size, fields>>
    BY <1>3 DEF EndOfOneofs, layoutVars
  <2>2. Indices' = Indices /\ Pending' = {}
    BY <2>1 DEF Indices, Pending
  <2>3. denseBelow' \in {Undecided} \cup 0 .. U8Size - 1 /\ Numbered'
    BY <2>1, NumberedKept
  <2>4. /\ oneofs' \in Seq([members : SUBSET Indices, rep : Reps])
        /\ Grouped' /\ SubsKnown'
    BY <2>1, <2>2, PushKeeps
  <2>5. TypeOK'
    BY <2>1, <2>2, <2>3, <2>4 DEF ParseInv, TypeOK
  <2> QED
    BY <2>1, <2>3, <2>4, <2>5, NextParsing DEF ParseInv, Parsing
<1> QED
  BY <1>1, <1>2, <1>3

-----------------------------------------------------------------------------
(* Hasbits                                                                  *)

LEMMA ClassTypes ==
  ASSUME TypeOK, NEW c
  PROVE  /\ Len(fields) \in Nat /\ OfClass(c) \in SUBSET (1 .. Len(fields))
         /\ Cardinality(OfClass(c)) \in Nat
<1>1. Len(fields) \in Nat /\ OfClass(c) \in SUBSET (1 .. Len(fields))
  BY DEF TypeOK, OfClass, Indices
<1>2. 0 \in Nat
  OBVIOUS
<1> QED
  BY <1>1, <1>2, UpToType

(* The hasbits are those of the required fields and then the others, each   *)
(* of one field.                                                            *)
LEMMA HasbitsApart ==
  ASSUME TypeOK
  PROVE  /\ LastHasbit \in Nat /\ LastHasbit >= 63
         /\ \A i \in Indices :
              /\ Hasbit(i) \in Nat /\ Hasbit(i) <= LastHasbit
              /\ Hasbit(i) > 0 => Hasbit(i) >= ReservedHasbits
              /\ fields[i].class = "oneof" => Hasbit(i) = 0
         /\ \A i, j \in Indices : i # j /\ Hasbit(i) > 0 => Hasbit(i) # Hasbit(j)
         /\ {Hasbit(i) : i \in OfClass("required")} =
              ReservedHasbits .. ReservedHasbits + Cardinality(OfClass("required")) - 1
<1>1. PICK R, H, n, a, b :
        /\ R = OfClass("required") /\ H = OfClass("hasbit") /\ n = Len(fields)
        /\ a = Cardinality(R) /\ b = Cardinality(H)
  OBVIOUS
<1>2. /\ n \in Nat /\ R \in SUBSET (1 .. n) /\ H \in SUBSET (1 .. n)
      /\ a \in Nat /\ b \in Nat /\ Indices = 1 .. n
  BY <1>1, ClassTypes DEF Indices
<1>3. LastHasbit = 63 + a + b /\ ReservedHasbits = 64
  BY <1>1, <1>2 DEF LastHasbit, ReservedHasbits, ReservedHasbytes
<1>4. \A i \in R : /\ Hasbit(i) = 63 + UpTo(R, i) /\ UpTo(R, i) \in 1 .. a
                   /\ \A j \in R : i # j => UpTo(R, i) # UpTo(R, j)
  <2> TAKE i \in R
  <2>1. fields[i].class = "required"
    BY <1>1 DEF OfClass
  <2>2. Hasbit(i) = 63 + UpTo(R, i)
    BY <1>1, <1>3, <2>1 DEF Hasbit
  <2> QED
    BY <1>1, <1>2, <2>2, Rank
<1>5. \A i \in H : /\ Hasbit(i) = 63 + a + UpTo(H, i) /\ UpTo(H, i) \in 1 .. b
                   /\ \A j \in H : i # j => UpTo(H, i) # UpTo(H, j)
  <2> TAKE i \in H
  <2>1. fields[i].class = "hasbit"
    BY <1>1 DEF OfClass
  <2>2. UpTo(H, i) \in 1 .. b /\ \A j \in H : i # j => UpTo(H, i) # UpTo(H, j)
    BY <1>1, <1>2, Rank
  <2>3. Hasbit(i) = (ReservedHasbits - 1 + a) + UpTo(H, i)
    BY <1>1, <2>1 DEF Hasbit
  <2> QED
    BY <1>2, <1>3, <2>2, <2>3
<1>6. \A i \in Indices : i \in R \/ i \in H \/ Hasbit(i) = 0
  BY <1>1 DEF OfClass, Hasbit
<1>7. \A i \in Indices : fields[i].class = "oneof" => Hasbit(i) = 0
  BY DEF Hasbit
<1>8. ASSUME NEW i \in Indices
      PROVE  /\ Hasbit(i) \in Nat /\ Hasbit(i) <= LastHasbit
             /\ Hasbit(i) > 0 => Hasbit(i) >= ReservedHasbits
  BY <1>2, <1>3, <1>4, <1>5, <1>6
<1>9. ASSUME NEW i \in Indices, NEW j \in Indices, i # j, Hasbit(i) > 0
      PROVE  Hasbit(i) # Hasbit(j)
  <2>1. i \in R \/ i \in H
    BY <1>6, <1>9
  <2>2. CASE i \in R /\ j \in R
    BY <1>2, <1>4, <1>9, <2>2
  <2>3. CASE i \in H /\ j \in H
    BY <1>2, <1>5, <1>9, <2>3
  <2>4. CASE i \in R /\ j \in H
    BY <1>2, <1>4, <1>5, <2>4
  <2>5. CASE i \in H /\ j \in R
    BY <1>2, <1>4, <1>5, <2>5
  <2>6. CASE Hasbit(j) = 0
    BY <1>8, <1>9, <2>6
  <2> QED
    BY <1>6, <2>1, <2>2, <2>3, <2>4, <2>5, <2>6
<1>10. {Hasbit(i) : i \in R} = 64 .. 63 + a
  <2>1. \A i \in R : Hasbit(i) \in 64 .. 63 + a
    BY <1>2, <1>4
  <2>2. ASSUME NEW h \in 64 .. 63 + a PROVE \E i \in R : Hasbit(i) = h
    <3>1. h - 63 \in 1 .. Cardinality(R) /\ h \in Nat
      BY <1>1, <1>2
    <3>2. PICK i \in R : UpTo(R, i) = h - 63
      BY <1>2, <3>1, RankTaken
    <3> QED
      BY <1>4, <3>1, <3>2
  <2> QED
    BY <2>1, <2>2
<1>11. ReservedHasbits + Cardinality(OfClass("required")) - 1 = 63 + a
  BY <1>1, <1>2, <1>3
<1>12. LastHasbit \in Nat /\ LastHasbit >= 63
  BY <1>2, <1>3
<1> QED
  BY <1>1, <1>3, <1>7, <1>8, <1>9, <1>10, <1>11, <1>12

(* The layout changes where the fields are, not what they are.              *)
SameFields ==
  /\ Len(fields') = Len(fields) /\ number' = number /\ denseBelow' = denseBelow
  /\ oneofs' = oneofs /\ item' = item
  /\ \A i \in Indices :
       /\ fields'[i].number = fields[i].number /\ fields'[i].class = fields[i].class
       /\ fields'[i].rep = fields[i].rep /\ fields'[i].type = fields[i].type

Laying == {"hasbits", "map", "align", "offsets", "subs", "done"}

LEMMA FieldsKept ==
  ASSUME ParseInv, SameFields, pc \in Laying, pc' \in Laying
  PROVE  /\ Indices' = Indices /\ Numbered' /\ Grouped'
         /\ \A c : OfClass(c)' = OfClass(c)
         /\ \A r : SlotCount(r)' = SlotCount(r) /\ Plain(r)' = Plain(r) /\ Holding(r)' = Holding(r)
         /\ LastHasbit' = LastHasbit
<1>1. Indices' = Indices /\ Pending = {} /\ Pending' = {}
  BY DEF SameFields, Indices, Laying, Pending
<1>2. \A i \in 1 .. denseBelow : i \in Indices
  BY DEF ParseInv, Numbered, Indices, TypeOK
<1>3. Numbered'
  BY <1>1, <1>2 DEF ParseInv, Numbered, SameFields, Laying
<1>4. Grouped'
  <2>1. \A k \in 1 .. Len(oneofs) : oneofs[k].members \subseteq Indices
    BY OneofTypes DEF ParseInv
  <2>2. \A k \in 1 .. Len(oneofs) : \A i \in oneofs[k].members : Fits(i, oneofs[k])'
    BY <2>1 DEF ParseInv, Grouped, Fits, SameFields
  <2> QED
    BY <1>1, <2>2 DEF ParseInv, Grouped, InOneof, SameFields, Laying
<1>5. \A c : OfClass(c)' = OfClass(c)
  BY <1>1 DEF OfClass, SameFields
<1>6. \A r : Plain(r)' = Plain(r)
  BY <1>1 DEF Plain, SameFields
<1>7. \A r : Holding(r)' = Holding(r)
  BY DEF Holding, SameFields
<1>8. \A r : SlotCount(r)' = SlotCount(r)
  BY <1>6, <1>7 DEF SlotCount, CasesUpTo, SameFields
<1>9. LastHasbit' = LastHasbit
  BY <1>5 DEF LastHasbit
<1> QED
  BY <1>1, <1>3, <1>4, <1>5, <1>6, <1>7, <1>8, <1>9

LEMMA AssignHasbitsKeeps == ASSUME ParseInv, AssignHasbits PROVE TableInv'
<1>0. TypeOK
  BY DEF ParseInv
<1>a. PICK a, L : a = Cardinality(OfClass("required")) /\ L = LastHasbit
  OBVIOUS
<1>b. a \in Nat /\ L \in Nat /\ L >= 63
  BY <1>0, <1>a, ClassTypes, HasbitsApart
<1>1. CASE Fail
  BY <1>1, FailKeeps
<1>2. CASE ~Fail
  <2>1. /\ pc = "hasbits" /\ pc' \in {"map", "align"}
        /\ fields' = [i \in Indices |-> [fields[i] EXCEPT !.presence = Hasbit(i)]]
        /\ required' = a /\ ~(a > MaxRequired)
        /\ OfClass("hasbit") # {} => ~(L > I16Max)
        /\ size' = (L + 8) \div 8
        /\ UNCHANGED <<version, token, mods, ext, number, denseBelow, item, oneofs, repBase>>
    BY <1>2, <1>a DEF AssignHasbits, parseVars
  <2>2. a <= MaxRequired /\ L <= I16Max
    <3>1. ~(a > MaxRequired) /\ (OfClass("hasbit") # {} => ~(L > I16Max))
      BY <2>1
    <3>2. a <= MaxRequired
      BY <1>b, <3>1, LimitsAssumption
    <3>3. CASE OfClass("hasbit") = {}
      <4>1. Cardinality(OfClass("hasbit")) = 0
        BY <3>3, FS_EmptySet
      <4>2. L = 63 + a
        BY <1>a, <1>b, <4>1 DEF LastHasbit, ReservedHasbits, ReservedHasbytes
      <4> QED
        BY <1>b, <3>2, <4>2, LimitsAssumption
    <3>4. CASE ~(L > I16Max)
      BY <1>b, <3>2, <3>4, LimitsAssumption
    <3> QED
      BY <3>1, <3>3, <3>4
  <2>3. \A i \in Indices :
          LET g == [fields[i] EXCEPT !.presence = Hasbit(i)] IN
          /\ g \in FieldRecord /\ g.presence = Hasbit(i) /\ g.number = fields[i].number
          /\ g.class = fields[i].class /\ g.rep = fields[i].rep /\ g.type = fields[i].type
          /\ g.sub = fields[i].sub
    <3> TAKE i \in Indices
    <3>1. fields[i] \in FieldRecord /\ Hasbit(i) \in Int
      BY <1>0, FieldsAreTyped, HasbitsApart
    <3> QED
      BY <3>1 DEF FieldRecord
  <2>4. /\ fields' \in Seq(FieldRecord) /\ Len(fields') = Len(fields)
        /\ \A i \in Indices : fields'[i].presence = Hasbit(i) /\ fields'[i].sub = fields[i].sub
        /\ SameFields
    <3>1. Len(fields) \in Nat /\ Indices = 1 .. Len(fields)
      BY <1>0 DEF TypeOK, Indices
    <3>2. fields' \in [1 .. Len(fields) -> FieldRecord]
      BY <2>1, <2>3, <3>1
    <3>3. fields' \in Seq(FieldRecord) /\ Len(fields') = Len(fields)
      BY <3>1, <3>2
    <3>4. \A i \in Indices : fields'[i] = [fields[i] EXCEPT !.presence = Hasbit(i)]
      BY <2>1
    <3> QED
      BY <2>1, <2>3, <3>3, <3>4 DEF SameFields
  <2>5. /\ Indices' = Indices /\ Numbered' /\ Grouped' /\ LastHasbit' = LastHasbit
        /\ \A c : OfClass(c)' = OfClass(c)
    BY <2>1, <2>4, FieldsKept DEF Laying
  <2>6. \A i \in Indices : Hasbit(i)' = Hasbit(i)
    BY <2>4, <2>5 DEF Hasbit, SameFields
  <2>7. HasbitsSet' /\ size' = HeaderBytes'
    <3>1. \A i \in Indices' : fields'[i].presence = Hasbit(i)'
      BY <2>4, <2>5, <2>6
    <3>2. required' = a /\ size' = (L + 8) \div 8
      BY <2>1
    <3>3. LastHasbit' = L /\ Cardinality(OfClass("required"))' = a
      BY <1>a, <2>5
    <3> QED
      BY <2>2, <3>1, <3>2, <3>3 DEF HasbitsSet, HeaderBytes
  <2>8. SubsKnown'
    <3>1. pc # "done" /\ SubsKnown
      BY <2>1 DEF ParseInv
    <3>2. \A i \in Indices : fields'[i].sub = fields[i].sub /\ fields'[i].type = fields[i].type
      BY <2>4 DEF SameFields
    <3> QED
      BY <2>5, <3>1, <3>2 DEF SubsKnown
  <2>9. size' \in 0 .. U16Max /\ required' \in 0 .. MaxRequired
    <3>1. required' = a /\ size' = (L + 8) \div 8
      BY <2>1
    <3> QED
      BY <1>b, <2>2, <3>1, LimitsAssumption
  <2>10. TypeOK'
    BY <1>0, <2>1, <2>4, <2>5, <2>9 DEF TypeOK
  <2>11. LayoutInv'
    BY <2>1, <2>7, <2>10 DEF LayoutInv, SlotsApart, SlotsInside, HasbitsOwned, LaidOut
  <2> QED
    BY <2>5, <2>8, <2>10, <2>11 DEF TableInv, ParseInv
<1> QED
  BY <1>1, <1>2

(* Who has a hasbit, and who a case.                                        *)
PresencesSet ==
  /\ \A i \in Indices : IF fields[i].class = "oneof" THEN fields[i].presence < 0
                        ELSE fields[i].presence = Hasbit(i)
  /\ required = Cardinality(OfClass("required")) /\ LastHasbit <= I16Max

LEMMA PresencesOwned == ParseInv /\ pc \in Laying /\ PresencesSet => HasbitsOwned
<1> SUFFICES ASSUME ParseInv, pc \in Laying, PresencesSet PROVE HasbitsOwned
  OBVIOUS
<1>0. TypeOK
  BY DEF ParseInv
<1>1. PICK last : last = LastHasbit
  OBVIOUS
<1>2. last \in Nat /\ last <= I16Max /\ I16Max \in Nat
  BY <1>0, <1>1, HasbitsApart, LimitsAssumption DEF PresencesSet
<1>3. \A i \in Indices : /\ Hasbit(i) \in Nat /\ Hasbit(i) <= last
                         /\ fields[i].presence \in Int
  BY <1>0, <1>1, HasbitsApart, FieldsAreTyped
<1>4. ASSUME NEW i \in Indices
      PROVE  /\ fields[i].presence <= I16Max
             /\ fields[i].presence < 0 <=> fields[i].class = "oneof"
             /\ fields[i].presence > 0 => fields[i].presence = Hasbit(i)
  <2>1. CASE fields[i].class = "oneof"
    <3>1. fields[i].presence < 0
      BY <2>1 DEF PresencesSet
    <3> QED
      BY <1>2, <1>3, <2>1, <3>1
  <2>2. CASE fields[i].class # "oneof"
    <3>1. fields[i].presence = Hasbit(i)
      BY <2>2 DEF PresencesSet
    <3> QED
      BY <1>2, <1>3, <2>2, <3>1
  <2> QED
    BY <2>1, <2>2
<1>5. ASSUME NEW i \in Indices, NEW j \in Indices, i # j, fields[i].presence > 0
      PROVE  fields[i].presence # fields[j].presence
  <2>1. fields[i].presence = Hasbit(i) /\ Hasbit(i) # Hasbit(j) /\ Hasbit(i) > 0
    BY <1>0, <1>4, <1>5, HasbitsApart
  <2>2. fields[j].presence > 0 => fields[j].presence = Hasbit(j)
    BY <1>4
  <2> QED
    BY <1>3, <1>5, <2>1, <2>2
<1>6. {fields[i].presence : i \in OfClass("required")} = {Hasbit(i) : i \in OfClass("required")}
  BY DEF PresencesSet, OfClass
<1>7. {fields[i].presence : i \in OfClass("required")} =
        ReservedHasbits .. ReservedHasbits + required - 1
  BY <1>0, <1>6, HasbitsApart DEF PresencesSet
<1>8. ASSUME NEW i \in Indices, fields[i].class = "oneof"
      PROVE  \E k \in 1 .. Len(oneofs) :
               /\ InOneof(i, k) /\ SizeOf(fields[i].rep) <= SizeOf(oneofs[k].rep)
               /\ \A l \in 1 .. Len(oneofs) : InOneof(i, l) => l = k
  BY <1>8 DEF ParseInv, Grouped, Fits, InOneof, Pending, Laying
<1> QED
  BY <1>4, <1>5, <1>7, <1>8 DEF HasbitsOwned

LEMMA NextOwned ==
  ASSUME ParseInv', pc' \in Laying, PresencesSet'
  PROVE  HasbitsOwned'
<1>1. (ParseInv /\ pc \in Laying /\ PresencesSet)' => HasbitsOwned'
  BY PresencesOwned, PTL
<1> QED
  BY <1>1

LEMMA TwoElements == IsFiniteSet(1 .. 2) /\ Cardinality(1 .. 2) = 2
<1>1. 1 .. 2 = {1} \cup {2}
  OBVIOUS
<1>2. IsFiniteSet({1}) /\ Cardinality({1}) = 1 /\ 2 \notin {1}
  BY FS_Singleton
<1> QED
  BY <1>1, <1>2, FS_AddElement

LEMMA ParseMapKeeps == ASSUME TableInv, ParseMap PROVE TableInv'
<1>0. ParseInv /\ TypeOK
  BY DEF TableInv, ParseInv
<1>1. CASE Fail
  BY <1>1, FailKeeps
<1>2. CASE ~Fail
  <2>1. /\ pc = "map" /\ pc' = "subs" /\ Len(fields) = 2 /\ oneofs = <<>>
        /\ fields' = [i \in Indices |-> [fields[i] EXCEPT !.offset = 16 * i]]
        /\ size' = 48 /\ ext' = ext \cup {"map_entry"}
        /\ UNCHANGED <<version, token, mods, number, denseBelow, item, oneofs, required, repBase>>
    BY <1>2 DEF ParseMap
  <2>2. Indices = 1 .. 2 /\ Pending = {} /\ 1 .. Len(oneofs) = {}
    BY <2>1 DEF Indices, Pending
  <2>3. \A i \in Indices :
          LET g == [fields[i] EXCEPT !.offset = 16 * i] IN
          /\ g \in FieldRecord /\ g.offset = 16 * i /\ g.number = fields[i].number
          /\ g.class = fields[i].class /\ g.rep = fields[i].rep /\ g.type = fields[i].type
          /\ g.sub = fields[i].sub /\ g.presence = fields[i].presence
    <3> TAKE i \in Indices
    <3>1. fields[i] \in FieldRecord /\ 16 * i \in Nat
      BY <1>0, <2>2, FieldsAreTyped
    <3> QED
      BY <3>1 DEF FieldRecord
  <2>4. /\ fields' \in Seq(FieldRecord) /\ Len(fields') = Len(fields) /\ SameFields
        /\ \A i \in Indices : /\ fields'[i].presence = fields[i].presence
                              /\ fields'[i].sub = fields[i].sub /\ fields'[i].offset = 16 * i
    <3>1. fields' \in [1 .. 2 -> FieldRecord]
      BY <2>1, <2>2, <2>3
    <3>2. fields' \in Seq(FieldRecord) /\ Len(fields') = 2
      BY <3>1
    <3>3. \A i \in Indices : fields'[i] = [fields[i] EXCEPT !.offset = 16 * i]
      BY <2>1
    <3> QED
      BY <2>1, <2>3, <3>2, <3>3 DEF SameFields
  <2>5. /\ Indices' = Indices /\ Numbered' /\ Grouped' /\ LastHasbit' = LastHasbit
        /\ \A c : OfClass(c)' = OfClass(c)
    BY <1>0, <2>1, <2>4, FieldsKept DEF Laying
  <2>6. SubsKnown'
    BY <1>0, <2>1, <2>4, <2>5 DEF ParseInv, SubsKnown, SameFields
  <2>7. TypeOK'
    <3>1. size' \in 0 .. U16Max
      BY <2>1, LimitsAssumption
    <3>2. pc' \in {"subs"} /\ ext' \subseteq {"extendable", "message_set", "map_entry"}
      BY <1>0, <2>1 DEF TypeOK
    <3> QED
      BY <1>0, <2>1, <2>4, <2>5, <3>1, <3>2 DEF TypeOK
  <2>8. \A i \in Indices : fields[i].class # "oneof"
    BY <1>0, <2>2 DEF ParseInv, Grouped
  <2>9. HasbitsSet
    BY <2>1 DEF TableInv, LayoutInv
  <2>10. \A i \in Indices : Hasbit(i)' = Hasbit(i)
    BY <2>4, <2>5 DEF Hasbit, SameFields
  <2>11. PresencesSet'
    <3>1. \A i \in Indices' : fields'[i].class # "oneof" /\ fields'[i].presence = Hasbit(i)'
      BY <2>4, <2>5, <2>8, <2>9, <2>10 DEF HasbitsSet, SameFields
    <3>2. (required = Cardinality(OfClass("required")) /\ LastHasbit <= I16Max)'
      BY <2>1, <2>5, <2>9 DEF HasbitsSet
    <3> QED
      BY <3>1, <3>2 DEF PresencesSet
  <2>12. ParseInv' /\ HasbitsOwned'
    BY <2>1, <2>5, <2>6, <2>7, <2>11, NextOwned DEF ParseInv, Laying
  <2>13. LastHasbit <= 65
    <3>1. PICK R, H : R = OfClass("required") /\ H = OfClass("hasbit")
      OBVIOUS
    <3>2. R \in SUBSET (1 .. 2) /\ H \in SUBSET (1 .. 2) /\ R \cap H = {} /\ R \cup H \in SUBSET (1 .. 2)
      BY <2>2, <3>1 DEF OfClass
    <3>3. IsFiniteSet(R) /\ IsFiniteSet(H) /\ Cardinality(R) \in Nat /\ Cardinality(H) \in Nat
      BY <3>2, UpToType
    <3>4. Cardinality(R \cup H) = Cardinality(R) + Cardinality(H) - Cardinality(R \cap H)
      BY <3>3, FS_Union
    <3>5. Cardinality(R \cap H) = 0
      BY <3>2, FS_EmptySet
    <3>6. IsFiniteSet(1 .. 2) /\ Cardinality(1 .. 2) = 2
      BY TwoElements
    <3>7. Cardinality(R \cup H) <= 2
      BY <3>2, <3>6, FS_Subset
    <3> QED
      BY <3>1, <3>3, <3>4, <3>5, <3>7 DEF LastHasbit, ReservedHasbits, ReservedHasbytes
  <2>14. ASSUME NEW i \in Indices
         PROVE  /\ fields'[i].offset = 16 * i /\ fields'[i].presence \in Nat
                /\ fields'[i].presence > 0 => fields'[i].presence \div 8 = 8
                /\ SizeOf(fields'[i].rep) \in 1 .. 16 /\ AlignOf(fields'[i].rep) \in {1, 4, 8}
    <3>1. fields'[i].offset = 16 * i /\ fields'[i].presence = Hasbit(i)
          /\ fields'[i].rep = fields[i].rep
      BY <2>4, <2>9 DEF HasbitsSet, SameFields
    <3>2. Hasbit(i) \in Nat /\ Hasbit(i) <= LastHasbit /\ LastHasbit \in Nat
          /\ (Hasbit(i) > 0 => Hasbit(i) >= 64)
      BY <1>0, HasbitsApart DEF ReservedHasbits, ReservedHasbytes
    <3>3. Hasbit(i) > 0 => Hasbit(i) \div 8 = 8
      BY <2>13, <3>2
    <3>4. fields[i].rep \in Reps
      BY <1>0, FieldsAreTyped
    <3>5. SizeOf(fields[i].rep) \in 1 .. 16 /\ AlignOf(fields[i].rep) \in {1, 4, 8}
      BY <3>4, RepSizes
    <3> QED
      BY <3>1, <3>2, <3>3, <3>5
  <2>15. SlotsApart'
    <3>1. ASSUME NEW i \in 1 .. 2
          PROVE  fields'[i].offset >= ReservedHasbytes /\ ~(fields'[i].presence < 0)
      BY <2>2, <2>14 DEF ReservedHasbytes
    <3>2. ASSUME NEW i \in 1 .. 2, NEW j \in 1 .. 2
          PROVE  /\ i # j => Apart(fields'[i].offset, SizeOf(fields'[i].rep),
                                   fields'[j].offset, SizeOf(fields'[j].rep))
                 /\ fields'[i].presence > 0 =>
                      Apart(fields'[i].presence \div 8, 1, fields'[j].offset, SizeOf(fields'[j].rep))
      <4>1. PICK x, y, s, t, p : /\ x = fields'[i].offset /\ s = SizeOf(fields'[i].rep)
                                 /\ y = fields'[j].offset /\ t = SizeOf(fields'[j].rep)
                                 /\ p = fields'[i].presence
        OBVIOUS
      <4>2. /\ x = 16 * i /\ y = 16 * j /\ s \in 1 .. 16 /\ t \in 1 .. 16
            /\ p > 0 => p \div 8 = 8
        BY <2>2, <2>14, <4>1
      <4>3. x \in {16, 32} /\ y \in {16, 32} /\ (i # j => x # y)
        BY <4>2
      <4>4. (i # j => Apart(x, s, y, t)) /\ (p > 0 => Apart(p \div 8, 1, y, t))
        BY <4>2, <4>3 DEF Apart
      <4> QED
        BY <4>1, <4>4
    <3> QED
      BY <2>2, <2>5, <3>1, <3>2 DEF SlotsApart, SharesOneof
  <2>16. SlotsInside'
    <3>1. ASSUME NEW i \in 1 .. 2
          PROVE  /\ fields'[i].offset % AlignOf(fields'[i].rep) = 0
                 /\ fields'[i].offset + SizeOf(fields'[i].rep) <= 48
                 /\ ~(fields'[i].presence < 0)
      <4>1. PICK x, s, a : /\ x = fields'[i].offset /\ s = SizeOf(fields'[i].rep)
                           /\ a = AlignOf(fields'[i].rep)
        OBVIOUS
      <4>0. i \in Indices
        BY <2>2
      <4>a. ~(fields'[i].presence < 0)
        BY <2>14, <4>0
      <4>2. x = 16 * i /\ s \in 1 .. 16 /\ a \in {1, 4, 8} /\ ~(fields'[i].presence < 0)
        BY <2>14, <4>0, <4>a, <4>1, Zenon
      <4>3. x \in {16, 32}
        BY <4>2
      <4>4. x % a = 0 /\ x + s <= 48
        BY <4>2, <4>3
      <4> QED
        BY <4>1, <4>2, <4>4
    <3> QED
      BY <2>1, <2>2, <2>5, <2>7, <3>1 DEF SlotsInside
  <2> QED
    BY <2>1, <2>12, <2>15, <2>16 DEF TableInv, LayoutInv
<1> QED
  BY <1>1, <1>2

-----------------------------------------------------------------------------
(* Regions                                                                  *)

LEMMA AlignedUp ==
  ASSUME NEW v \in Nat, NEW a \in {1, 4, 8}
  PROVE  /\ AlignUp(v, a) \in Nat /\ v <= AlignUp(v, a) /\ AlignUp(v, a) < v + a
         /\ AlignUp(v, a) % a = 0
<1>1. CASE a = 1
  BY <1>1 DEF AlignUp
<1>2. CASE a = 4
  BY <1>2 DEF AlignUp
<1>3. CASE a = 8
  BY <1>3 DEF AlignUp
<1> QED
  BY <1>1, <1>2, <1>3

LEMMA CountTypes ==
  ASSUME TypeOK, NEW r \in Reps
  PROVE  /\ Len(fields) \in Nat /\ Plain(r) \in SUBSET (1 .. Len(fields))
         /\ Len(oneofs) \in Nat /\ Holding(r) \in SUBSET (1 .. Len(oneofs))
         /\ Cardinality(Plain(r)) \in Nat /\ Cardinality(Holding(r)) \in Nat
         /\ SlotCount(r) \in Nat
<1>1. /\ Len(fields) \in Nat /\ Plain(r) \in SUBSET (1 .. Len(fields))
      /\ Len(oneofs) \in Nat /\ Holding(r) \in SUBSET (1 .. Len(oneofs)) /\ 0 \in Nat
  BY DEF TypeOK, Plain, Holding, Indices
<1>2. Cardinality(Plain(r)) \in Nat /\ Cardinality(Holding(r)) \in Nat
  BY <1>1, UpToType
<1>3. CasesUpTo(r, Len(oneofs)) \in Nat
  BY <1>1 DEF CasesUpTo
<1> QED
  BY <1>1, <1>2, <1>3 DEF SlotCount

LEMMA RegionEnds ==
  ASSUME TypeOK, NEW r \in Reps, NEW base \in Nat
  PROVE  /\ RegionEnd(base, r) \in Nat /\ base <= RegionEnd(base, r)
         /\ SlotCount(r) # 0 =>
              /\ RegionStart(base, r) \in Nat /\ base <= RegionStart(base, r)
              /\ RegionStart(base, r) % AlignOf(r) = 0
              /\ RegionEnd(base, r) = RegionStart(base, r) + SizeOf(r) * SlotCount(r)
<1>1. PICK start, count, s : /\ start = RegionStart(base, r) /\ count = SlotCount(r)
                             /\ s = SizeOf(r)
  OBVIOUS
<1>2. start \in Nat /\ base <= start /\ start % AlignOf(r) = 0
  BY <1>1, AlignedUp, RepSizes DEF RegionStart
<1>3. s \in {1, 4, 8, 16} /\ count \in Nat
  BY <1>1, CountTypes, RepSizes
<1>4. s * count \in Nat
  BY <1>3
<1>5. RegionEnd(base, r) = IF count = 0 THEN base ELSE start + s * count
  BY <1>1 DEF RegionEnd
<1> QED
  BY <1>1, <1>2, <1>4, <1>5

LEMMA CalculateAlignmentsKeeps == ASSUME TableInv, CalculateAlignments PROVE TableInv'
<1>0. ParseInv /\ TypeOK /\ size \in Nat
  BY DEF TableInv, ParseInv, TypeOK
<1>1. PICK e0, e1, e2, e3 :
        /\ e0 = RegionEnd(size, OneByte) /\ e1 = RegionEnd(e0, FourByte)
        /\ e2 = RegionEnd(e1, StringView) /\ e3 = RegionEnd(e2, EightByte)
  OBVIOUS
<1>2. CASE e3 > U16Max
  BY <1>1, <1>2, FailKeeps DEF CalculateAlignments
<1>3. CASE ~(e3 > U16Max)
  <2>1. /\ pc = "align" /\ pc' = "offsets" /\ size' = e3
        /\ repBase' = [r \in Reps |->
                         IF SlotCount(r) = 0 THEN 0
                         ELSE RegionStart(CASE r = OneByte -> size
                                            [] r = FourByte -> e0
                                            [] r = StringView -> e1
                                            [] OTHER -> e2, r)]
        /\ UNCHANGED <<version, token, mods, ext, number, denseBelow, item, oneofs, required, fields>>
    BY <1>1, <1>3 DEF CalculateAlignments, parseVars
  <2> DEFINE b == [r \in 0 .. 4 |-> CASE r = 0 -> size [] r = 1 -> e0 [] r = 2 -> e1
                                      [] r = 3 -> e2 [] OTHER -> e3]
  <2>2. e0 \in Nat /\ e1 \in Nat /\ e2 \in Nat /\ e3 \in Nat
    BY <1>0, <1>1, RegionEnds DEF OneByte, FourByte, StringView, EightByte, Reps
  <2>3. /\ b[0] = size /\ b[1] = e0 /\ b[2] = e1 /\ b[3] = e2 /\ b[4] = e3
        /\ \A r \in 0 .. 4 : b[r] \in Nat
    BY <1>0, <2>2
  <2> HIDE DEF b
  <2>4. ASSUME NEW r \in Reps
        PROVE  /\ b[r + 1] = RegionEnd(b[r], r)
               /\ repBase'[r] = IF SlotCount(r) = 0 THEN 0 ELSE RegionStart(b[r], r)
    <3>1. CASE r = 0
      BY <1>1, <2>1, <2>3, <3>1 DEF OneByte, FourByte, StringView, EightByte
    <3>2. CASE r = 1
      BY <1>1, <2>1, <2>3, <3>2 DEF OneByte, FourByte, StringView, EightByte
    <3>3. CASE r = 2
      BY <1>1, <2>1, <2>3, <3>3 DEF OneByte, FourByte, StringView, EightByte
    <3>4. CASE r = 3
      BY <1>1, <2>1, <2>3, <3>4 DEF OneByte, FourByte, StringView, EightByte
    <3> QED
      BY <3>1, <3>2, <3>3, <3>4 DEF Reps
  <2>5. ASSUME NEW r \in Reps
        PROVE  /\ b[r] \in Nat /\ b[r + 1] \in Nat /\ b[r] <= b[r + 1] /\ repBase'[r] \in Nat
               /\ SlotCount(r) # 0 =>
                    /\ b[r] <= repBase'[r] /\ repBase'[r] % AlignOf(r) = 0
                    /\ b[r + 1] = repBase'[r] + SizeOf(r) * SlotCount(r)
    <3>1. b[r] \in Nat /\ b[r + 1] \in Nat
      BY <2>3 DEF Reps
    <3> QED
      BY <1>0, <2>4, <3>1, RegionEnds
  <2>6. /\ b[0] <= b[1] /\ b[1] <= b[2] /\ b[2] <= b[3] /\ b[3] <= b[4]
        /\ \A r \in 0 .. 4 : b[r] \in Nat
    <3>1. b[0] <= b[0 + 1] /\ b[1] <= b[1 + 1] /\ b[2] <= b[2 + 1] /\ b[3] <= b[3 + 1]
      BY <2>5 DEF Reps
    <3> QED
      BY <2>3, <3>1
  <2>7. \A q, r \in 0 .. 4 : q <= r => b[q] <= b[r]
    BY <2>6
  <2>8. /\ Indices' = Indices /\ Numbered' /\ Grouped' /\ LastHasbit' = LastHasbit
        /\ (\A c : OfClass(c)' = OfClass(c)) /\ \A r : SlotCount(r)' = SlotCount(r)
    <3>1. SameFields
      BY <2>1 DEF SameFields
    <3> QED
      BY <1>0, <2>1, <3>1, FieldsKept DEF Laying
  <2>9. SubsKnown'
    BY <1>0, <2>1, <2>8 DEF ParseInv, SubsKnown
  <2>10. TypeOK'
    <3>1. repBase' \in [Reps -> Nat]
      BY <2>1, <2>5
    <3>2. size' \in 0 .. U16Max
      BY <1>3, <2>1, <2>2, LimitsAssumption
    <3> QED
      BY <1>0, <2>1, <2>8, <3>1, <3>2 DEF TypeOK
  <2>11. HasbitsSet /\ size = HeaderBytes
    BY <2>1 DEF TableInv, LayoutInv
  <2>12. HasbitsSet'
    <3>1. \A i \in Indices : Hasbit(i)' = Hasbit(i)
      BY <2>1, <2>8 DEF Hasbit
    <3> QED
      BY <2>1, <2>8, <2>11, <3>1 DEF HasbitsSet
  <2>13. HeaderBytes' = b[0]
    BY <2>3, <2>8, <2>11 DEF HeaderBytes
  <2>14. ASSUME NEW r \in Reps, SlotCount(r) # 0
         PROVE  /\ b[0] <= repBase'[r] /\ repBase'[r] % AlignOf(r) = 0
                /\ repBase'[r] + SizeOf(r) * SlotCount(r) = b[r + 1] /\ b[r + 1] <= size'
    <3>1. r \in 0 .. 4 /\ r + 1 \in 0 .. 4 /\ 0 <= r /\ r + 1 <= 4
      BY DEF Reps
    <3>2. b[0] <= b[r] /\ b[r + 1] <= b[4] /\ b[0] \in Nat /\ b[4] = size'
      BY <2>1, <2>3, <2>7, <3>1
    <3>3. /\ b[r] \in Nat /\ repBase'[r] \in Nat /\ b[r] <= repBase'[r]
          /\ repBase'[r] % AlignOf(r) = 0
          /\ b[r + 1] = repBase'[r] + SizeOf(r) * SlotCount(r)
      BY <2>5, <2>14
    <3>4. b[0] <= repBase'[r]
      BY <3>2, <3>3
    <3> QED
      BY <3>2, <3>3, <3>4
  <2>15. ASSUME NEW q \in Reps, NEW r \in Reps, q < r, SlotCount(q) # 0, SlotCount(r) # 0
         PROVE  repBase'[q] + SizeOf(q) * SlotCount(q) <= repBase'[r]
    <3>1. q + 1 \in 0 .. 4 /\ r \in 0 .. 4 /\ q + 1 <= r
      BY <2>15 DEF Reps
    <3>2. b[q + 1] <= b[r] /\ b[q + 1] \in Nat
      BY <2>3, <2>7, <3>1
    <3>3. b[r] \in Nat /\ repBase'[r] \in Nat /\ b[r] <= repBase'[r]
      BY <2>5, <2>15
    <3>4. b[q + 1] = repBase'[q] + SizeOf(q) * SlotCount(q)
      BY <2>5, <2>15
    <3>5. b[q + 1] <= repBase'[r]
      BY <3>2, <3>3
    <3> QED
      BY <3>4, <3>5
  <2>16. RegionsSet'
    <3>1. \A r : RegionTop(r)' = repBase'[r] + SizeOf(r) * SlotCount(r)
      BY <2>8 DEF RegionTop
    <3> QED
      BY <2>8, <2>13, <2>14, <2>15, <3>1 DEF RegionsSet
  <2>17. LayoutInv'
    BY <2>1, <2>10, <2>12, <2>16 DEF LayoutInv, SlotsApart, SlotsInside, HasbitsOwned, LaidOut
  <2> QED
    BY <2>8, <2>9, <2>10, <2>17 DEF TableInv, ParseInv
<1> QED
  BY <1>2, <1>3

-----------------------------------------------------------------------------
(* Slots                                                                    *)

LEMMA SlotBounds ==
  ASSUME TypeOK, RegionsSet, NEW r \in Reps, NEW m \in Nat, m < SlotCount(r)
  PROVE  /\ SlotOffset(r, m) \in Nat /\ HeaderBytes <= SlotOffset(r, m)
         /\ repBase[r] \in Nat /\ repBase[r] <= SlotOffset(r, m)
         /\ SlotOffset(r, m) + SizeOf(r) <= RegionTop(r)
         /\ RegionTop(r) \in Nat /\ RegionTop(r) <= size
         /\ SlotOffset(r, m) % AlignOf(r) = 0
<1>1. PICK base, count, s, a : /\ base = repBase[r] /\ count = SlotCount(r)
                               /\ s = SizeOf(r) /\ a = AlignOf(r)
  OBVIOUS
<1>2. count \in Nat /\ count # 0 /\ m < count
  <2>1. count \in Nat
    BY <1>1, CountTypes
  <2> QED
    BY <1>1, <2>1
<1>3. base \in Nat /\ HeaderBytes <= base /\ base % a = 0 /\ RegionTop(r) <= size
  BY <1>1, <1>2 DEF RegionsSet, TypeOK
<1>4. RegionTop(r) = base + s * count /\ SlotOffset(r, m) = base + s * m
  BY <1>1 DEF RegionTop, SlotOffset
<1>5. \/ s = 1 /\ a = 1
      \/ s = 4 /\ a = 4
      \/ s = 16 /\ a = 8
      \/ s = 8 /\ a = 8
  BY <1>1 DEF Reps, SizeOf, AlignOf, OneByte, FourByte, StringView
<1>6. /\ base + s * m \in Nat /\ base <= base + s * m /\ base + s * count \in Nat
      /\ (base + s * m) + s <= base + s * count /\ (base + s * m) % a = 0
  <2>1. CASE s = 1 /\ a = 1
    BY <1>2, <1>3, <2>1
  <2>2. CASE s = 4 /\ a = 4
    BY <1>2, <1>3, <2>2
  <2>3. CASE s = 16 /\ a = 8
    BY <1>2, <1>3, <2>3
  <2>4. CASE s = 8 /\ a = 8
    BY <1>2, <1>3, <2>4
  <2> QED
    BY <1>5, <2>1, <2>2, <2>3, <2>4
<1>7. HeaderBytes \in Int
  <2>1. LastHasbit \in Nat
    BY HasbitsApart
  <2> QED
    BY <2>1 DEF HeaderBytes
<1>8. HeaderBytes <= base + s * m
  BY <1>3, <1>6, <1>7
<1> QED
  BY <1>1, <1>3, <1>4, <1>6, <1>8

LEMMA SlotsDiffer ==
  ASSUME TypeOK, RegionsSet, NEW q \in Reps, NEW m \in Nat, m < SlotCount(q),
         NEW r \in Reps, NEW n \in Nat, n < SlotCount(r), q # r \/ m # n
  PROVE  Apart(SlotOffset(q, m), SizeOf(q), SlotOffset(r, n), SizeOf(r))
<1>1. PICK x, y, s, t : /\ x = SlotOffset(q, m) /\ y = SlotOffset(r, n)
                        /\ s = SizeOf(q) /\ t = SizeOf(r)
  OBVIOUS
<1>2. /\ x \in Nat /\ y \in Nat /\ s \in {1, 4, 8, 16} /\ t \in {1, 4, 8, 16}
      /\ repBase[q] \in Nat /\ repBase[r] \in Nat /\ RegionTop(q) \in Nat /\ RegionTop(r) \in Nat
      /\ repBase[q] <= x /\ x + s <= RegionTop(q) /\ repBase[r] <= y /\ y + t <= RegionTop(r)
  BY <1>1, SlotBounds, RepSizes
<1>3. SlotCount(q) # 0 /\ SlotCount(r) # 0 /\ q \in Int /\ r \in Int
  <2>1. SlotCount(q) \in Nat /\ SlotCount(r) \in Nat
    BY CountTypes
  <2> QED
    BY <2>1 DEF Reps
<1>4. CASE q < r
  <2>1. RegionTop(q) <= repBase[r]
    BY <1>3, <1>4 DEF RegionsSet
  <2> QED
    BY <1>1, <1>2, <2>1 DEF Apart
<1>5. CASE r < q
  <2>1. RegionTop(r) <= repBase[q]
    BY <1>3, <1>5 DEF RegionsSet
  <2> QED
    BY <1>1, <1>2, <2>1 DEF Apart
<1>6. CASE q = r /\ m # n
  <2>1. PICK base : base = repBase[q] /\ base \in Nat
    BY <1>2
  <2>2. x = base + s * m /\ y = base + s * n /\ s = t
    BY <1>1, <1>6, <2>1 DEF SlotOffset
  <2>3. x + s <= y \/ y + s <= x
    <3>1. CASE s = 1
      BY <1>6, <2>1, <2>2, <3>1
    <3>2. CASE s = 4
      BY <1>6, <2>1, <2>2, <3>2
    <3>3. CASE s = 8
      BY <1>6, <2>1, <2>2, <3>3
    <3>4. CASE s = 16
      BY <1>6, <2>1, <2>2, <3>4
    <3> QED
      BY <1>2, <3>1, <3>2, <3>3, <3>4
  <2> QED
    BY <1>1, <2>2, <2>3 DEF Apart
<1> QED
  BY <1>3, <1>4, <1>5, <1>6

(* The slot of each field, and of each oneof's case, among those of its rep. *)
PlainIndex(i) == UpTo(Plain(fields[i].rep), i) - 1
CaseIndex(k) == Cardinality(Plain(FourByte)) + UpTo(Holding(FourByte), k - 1) + k - 1
DataIndex(k) ==
  Cardinality(Plain(oneofs[k].rep)) + UpTo(Holding(oneofs[k].rep), k - 1)
    + CasesUpTo(oneofs[k].rep, k)

OneofOf(i) == CHOOSE k \in 1 .. Len(oneofs) : InOneof(i, k)
Sharing(i) == fields[i].class = "oneof"
StoreRep(i) == IF Sharing(i) THEN oneofs[OneofOf(i)].rep ELSE fields[i].rep
StoreIndex(i) == IF Sharing(i) THEN DataIndex(OneofOf(i)) ELSE PlainIndex(i)

(* An oneof's slots come after the plain fields' and in the order of the    *)
(* oneofs; its case's comes first where both are of the same size.          *)
LEMMA OneofSlots ==
  ASSUME TypeOK, NEW k \in 1 .. Len(oneofs)
  PROVE  /\ oneofs[k].rep \in Reps
         /\ CaseIndex(k) \in Nat /\ CaseIndex(k) < SlotCount(FourByte)
         /\ Cardinality(Plain(FourByte)) <= CaseIndex(k)
         /\ DataIndex(k) \in Nat /\ DataIndex(k) < SlotCount(oneofs[k].rep)
         /\ Cardinality(Plain(oneofs[k].rep)) <= DataIndex(k)
         /\ oneofs[k].rep = FourByte => DataIndex(k) = CaseIndex(k) + 1
<1>1. PICK K : K = Len(oneofs)
  OBVIOUS
<1>2. K \in Nat /\ k \in Nat /\ 1 <= k /\ k <= K /\ k - 1 \in Nat /\ FourByte \in Reps
  BY <1>1 DEF TypeOK, Reps, FourByte
<1>3. oneofs[k].rep \in Reps
  BY OneofTypes
<1>4. PICK p, h, u : /\ p = Cardinality(Plain(FourByte)) /\ h = Cardinality(Holding(FourByte))
                     /\ u = UpTo(Holding(FourByte), k - 1)
  OBVIOUS
<1>5. Holding(FourByte) \in SUBSET (1 .. K) /\ p \in Nat /\ h \in Nat
  BY <1>1, <1>2, <1>4, CountTypes
<1>6. u \in Nat /\ u <= h
  BY <1>2, <1>4, <1>5, UpToType
<1>7. CaseIndex(k) = p + u + k - 1 /\ SlotCount(FourByte) = p + h + K
  BY <1>1, <1>4 DEF CaseIndex, SlotCount, CasesUpTo
<1>8. CaseIndex(k) \in Nat /\ CaseIndex(k) < SlotCount(FourByte) /\ p <= CaseIndex(k)
  BY <1>2, <1>5, <1>6, <1>7
<1>9. PICK r, pr, hr, ur : /\ r = oneofs[k].rep /\ pr = Cardinality(Plain(r))
                           /\ hr = Cardinality(Holding(r)) /\ ur = UpTo(Holding(r), k - 1)
  OBVIOUS
<1>10. Holding(r) \in SUBSET (1 .. K) /\ pr \in Nat /\ hr \in Nat /\ k \in Holding(r)
  BY <1>1, <1>3, <1>9, CountTypes DEF Holding
<1>11. ur \in Nat /\ ur + 1 <= hr
  <2>1. k > 0
    BY <1>2
  <2>2. ur \in Nat
    BY <1>2, <1>9, <1>10, UpToType
  <2>3. UpTo(Holding(r), k) = ur + 1
    BY <1>2, <1>9, <1>10, <2>1, UpToStep
  <2>4. UpTo(Holding(r), k) <= hr
    BY <1>2, <1>9, <1>10, UpToType
  <2> QED
    BY <2>2, <2>3, <2>4
<1>12. CASE r = FourByte
  <2>1. PICK c, d, m : c = CaseIndex(k) /\ d = DataIndex(k) /\ m = SlotCount(FourByte)
    OBVIOUS
  <2>2. d = p + u + k /\ c = p + u + k - 1 /\ m = p + h + K /\ u = ur /\ h = hr /\ p = pr
    BY <1>4, <1>7, <1>9, <1>12, <2>1 DEF DataIndex, CasesUpTo
  <2>3. d \in Nat /\ d < m /\ p <= d /\ d = c + 1
    BY <1>2, <1>5, <1>6, <1>11, <2>2
  <2> QED
    BY <1>3, <1>4, <1>8, <1>9, <1>12, <2>1, <2>2, <2>3
<1>13. CASE r # FourByte
  <2>1. DataIndex(k) = pr + ur + 0 /\ SlotCount(r) = pr + hr + 0
    BY <1>9, <1>13 DEF DataIndex, SlotCount, CasesUpTo
  <2>2. DataIndex(k) = pr + ur /\ SlotCount(r) = pr + hr
    BY <1>10, <1>11, <2>1
  <2>3. PICK d, m : d = DataIndex(k) /\ m = SlotCount(r)
    OBVIOUS
  <2>4. d \in Nat /\ d < m /\ pr <= d
    BY <1>10, <1>11, <2>2, <2>3
  <2> QED
    BY <1>3, <1>4, <1>8, <1>9, <1>13, <2>3, <2>4
<1> QED
  BY <1>12, <1>13

LEMMA OneofsInOrder ==
  ASSUME TypeOK, NEW k \in 1 .. Len(oneofs), NEW l \in 1 .. Len(oneofs), k < l
  PROVE  /\ CaseIndex(k) < CaseIndex(l)
         /\ oneofs[k].rep = FourByte => DataIndex(k) < CaseIndex(l)
         /\ oneofs[k].rep = oneofs[l].rep => DataIndex(k) < DataIndex(l)
<1>1. PICK K, r : K = Len(oneofs) /\ r = oneofs[k].rep
  OBVIOUS
<1>2. /\ K \in Nat /\ k \in Nat /\ l \in Nat /\ k - 1 \in Nat /\ l - 1 \in Nat /\ k <= l - 1
      /\ FourByte \in Reps
  BY <1>1 DEF TypeOK, Reps, FourByte
<1>3. r \in Reps
  BY <1>1, OneofTypes
<1>4. PICK p, u, v : /\ p = Cardinality(Plain(FourByte))
                     /\ u = UpTo(Holding(FourByte), k - 1) /\ v = UpTo(Holding(FourByte), l - 1)
  OBVIOUS
<1>5. Holding(FourByte) \in SUBSET (1 .. K) /\ p \in Nat
  BY <1>1, <1>2, <1>4, CountTypes
<1>6. k - 1 <= l - 1
  BY <1>2
<1>7. u \in Nat /\ v \in Nat /\ u <= v
  BY <1>2, <1>4, <1>5, <1>6, UpToType, UpToGrows
<1>8. CaseIndex(k) = p + u + k - 1 /\ CaseIndex(l) = p + v + l - 1
  BY <1>4 DEF CaseIndex
<1>9. CaseIndex(k) < CaseIndex(l)
  BY <1>2, <1>5, <1>7, <1>8
<1>10. ASSUME r = FourByte PROVE DataIndex(k) < CaseIndex(l)
  <2>1. k \in Holding(FourByte)
    BY <1>1, <1>10 DEF Holding
  <2>2. UpTo(Holding(FourByte), k) = u + 1
    <3>1. k > 0
      BY <1>2
    <3> QED
      BY <1>2, <1>4, <1>5, <2>1, <3>1, UpToStep
  <2>3. UpTo(Holding(FourByte), k) <= v
    BY <1>2, <1>4, <1>5, UpToGrows
  <2>4. DataIndex(k) = p + u + k
    BY <1>1, <1>4, <1>10 DEF DataIndex, CasesUpTo
  <2> QED
    BY <1>2, <1>5, <1>7, <1>8, <2>2, <2>3, <2>4
<1>11. ASSUME oneofs[l].rep = r PROVE DataIndex(k) < DataIndex(l)
  <2>1. PICK pr, ur, vr : /\ pr = Cardinality(Plain(r)) /\ ur = UpTo(Holding(r), k - 1)
                          /\ vr = UpTo(Holding(r), l - 1)
    OBVIOUS
  <2>2. Holding(r) \in SUBSET (1 .. K) /\ pr \in Nat /\ k \in Holding(r)
    BY <1>1, <1>3, <2>1, CountTypes DEF Holding
  <2>3. ur \in Nat /\ vr \in Nat /\ UpTo(Holding(r), k) = ur + 1
    <3>1. k > 0
      BY <1>2
    <3>2. UpTo(Holding(r), k) = UpTo(Holding(r), k - 1) + 1
      BY <1>2, <2>2, <3>1, UpToStep
    <3>3. ur \in Nat /\ vr \in Nat
      BY <1>2, <2>1, <2>2, UpToType
    <3> QED
      BY <2>1, <3>2, <3>3
  <2>4. UpTo(Holding(r), k) <= vr
    BY <1>2, <2>1, <2>2, UpToGrows
  <2>5. PICK ck, cl : ck = CasesUpTo(r, k) /\ cl = CasesUpTo(r, l)
    OBVIOUS
  <2>6. ck \in Nat /\ cl \in Nat /\ ck <= cl
    BY <1>2, <2>5 DEF CasesUpTo
  <2>7. DataIndex(k) = pr + ur + ck /\ DataIndex(l) = pr + vr + cl
    BY <1>1, <1>11, <2>1, <2>5 DEF DataIndex
  <2> QED
    BY <2>2, <2>3, <2>4, <2>6, <2>7
<1> QED
  BY <1>1, <1>9, <1>10, <1>11

LEMMA CasesDiffer ==
  ASSUME TypeOK, NEW k \in 1 .. Len(oneofs), NEW l \in 1 .. Len(oneofs), k # l
  PROVE  /\ CaseIndex(k) # CaseIndex(l)
         /\ oneofs[k].rep = oneofs[l].rep => DataIndex(k) # DataIndex(l)
<1>1. k \in Nat /\ l \in Nat /\ (k < l \/ l < k)
  BY DEF TypeOK
<1>2. /\ CaseIndex(k) \in Nat /\ CaseIndex(l) \in Nat
      /\ DataIndex(k) \in Nat /\ DataIndex(l) \in Nat
  BY OneofSlots
<1>3. CASE k < l
  <2>1. CaseIndex(k) < CaseIndex(l)
        /\ (oneofs[k].rep = oneofs[l].rep => DataIndex(k) < DataIndex(l))
    BY <1>3, OneofsInOrder
  <2> QED
    BY <1>2, <2>1
<1>4. CASE l < k
  <2>1. CaseIndex(l) < CaseIndex(k)
        /\ (oneofs[k].rep = oneofs[l].rep => DataIndex(l) < DataIndex(k))
    BY <1>4, OneofsInOrder
  <2> QED
    BY <1>2, <2>1
<1> QED
  BY <1>1, <1>3, <1>4

LEMMA CaseAndData ==
  ASSUME TypeOK, NEW k \in 1 .. Len(oneofs), NEW l \in 1 .. Len(oneofs),
         oneofs[k].rep = FourByte
  PROVE  DataIndex(k) # CaseIndex(l)
<1>1. k \in Nat /\ l \in Nat
  BY DEF TypeOK
<1>2. /\ CaseIndex(k) \in Nat /\ CaseIndex(l) \in Nat /\ DataIndex(k) = CaseIndex(k) + 1
  BY OneofSlots
<1>3. CASE k < l
  <2>1. DataIndex(k) < CaseIndex(l)
    BY <1>3, OneofsInOrder
  <2> QED
    BY <1>2, <2>1
<1>4. CASE l < k
  <2>1. CaseIndex(l) < CaseIndex(k)
    BY <1>4, OneofsInOrder
  <2> QED
    BY <1>2, <2>1
<1>5. CASE k = l
  BY <1>2, <1>5
<1> QED
  BY <1>1, <1>3, <1>4, <1>5

(* Each field is stored in one of the slots of its rep, or its oneof's rep. *)
LEMMA Stored ==
  ASSUME ParseInv, pc = "offsets", NEW i \in Indices
  PROVE  /\ StoreRep(i) \in Reps /\ StoreIndex(i) \in Nat
         /\ StoreIndex(i) < SlotCount(StoreRep(i))
         /\ SizeOf(fields[i].rep) <= SizeOf(StoreRep(i))
         /\ fields[i].rep \in Reps
         /\ Sharing(i) => OneofOf(i) \in 1 .. Len(oneofs) /\ InOneof(i, OneofOf(i))
         /\ ~Sharing(i) => StoreIndex(i) < Cardinality(Plain(fields[i].rep))
<1>0. TypeOK /\ Pending = {}
  BY DEF ParseInv, Pending
<1>1. fields[i].rep \in Reps
  BY <1>0, FieldsAreTyped
<1>2. CASE Sharing(i)
  <2>1. \E k \in 1 .. Len(oneofs) : InOneof(i, k)
    BY <1>0, <1>2 DEF ParseInv, Grouped, Sharing
  <2>2. PICK k : k = OneofOf(i)
    OBVIOUS
  <2>3. k \in 1 .. Len(oneofs) /\ InOneof(i, k)
    BY <2>1, <2>2 DEF OneofOf
  <2>4. SizeOf(fields[i].rep) <= SizeOf(oneofs[k].rep)
    BY <2>3 DEF ParseInv, Grouped, InOneof, Fits
  <2>5. StoreRep(i) = oneofs[k].rep /\ StoreIndex(i) = DataIndex(k)
    BY <1>2, <2>2 DEF StoreRep, StoreIndex
  <2>6. /\ oneofs[k].rep \in Reps /\ DataIndex(k) \in Nat
        /\ DataIndex(k) < SlotCount(oneofs[k].rep)
    BY <1>0, <2>3, OneofSlots
  <2> QED
    BY <1>1, <1>2, <2>2, <2>3, <2>4, <2>5, <2>6
<1>3. CASE ~Sharing(i)
  <2>1. PICK r, p, h, c : /\ r = fields[i].rep /\ p = Cardinality(Plain(r))
                          /\ h = Cardinality(Holding(r)) /\ c = CasesUpTo(r, Len(oneofs))
    OBVIOUS
  <2>2. /\ Plain(r) \in SUBSET (1 .. Len(fields)) /\ Len(fields) \in Nat /\ i \in Plain(r)
        /\ p \in Nat /\ h \in Nat /\ Len(oneofs) \in Nat
    BY <1>0, <1>1, <1>3, <2>1, CountTypes DEF Plain, Sharing
  <2>3. UpTo(Plain(r), i) \in 1 .. p
    BY <2>1, <2>2, Rank
  <2>4. c \in Nat /\ SlotCount(r) = p + h + c
    BY <2>1, <2>2 DEF CasesUpTo, SlotCount
  <2>5. StoreRep(i) = r /\ StoreIndex(i) = UpTo(Plain(r), i) - 1
    BY <1>3, <2>1 DEF StoreRep, StoreIndex, PlainIndex
  <2>6. StoreIndex(i) \in Nat /\ StoreIndex(i) < p /\ p <= SlotCount(r) /\ SlotCount(r) \in Nat
    BY <2>2, <2>3, <2>4, <2>5
  <2>7. SizeOf(r) \in Nat /\ StoreIndex(i) < SlotCount(r)
    BY <1>1, <2>1, <2>2, <2>6, RepSizes
  <2> QED
    BY <1>1, <1>3, <2>1, <2>5, <2>6, <2>7
<1> QED
  BY <1>2, <1>3

(* Two fields have different slots unless they are of one oneof, and no     *)
(* field has a case's.                                                      *)
LEMMA StoresDiffer ==
  ASSUME ParseInv, pc = "offsets", NEW i \in Indices, NEW j \in Indices, i # j,
         StoreRep(i) = StoreRep(j), StoreIndex(i) = StoreIndex(j)
  PROVE  Sharing(i) /\ Sharing(j) /\ OneofOf(i) = OneofOf(j)
<1>0. TypeOK
  BY DEF ParseInv
<1>1. CASE Sharing(i) /\ Sharing(j)
  <2>1. OneofOf(i) \in 1 .. Len(oneofs) /\ OneofOf(j) \in 1 .. Len(oneofs)
    BY <1>1, Stored
  <2>2. PICK k, l : k = OneofOf(i) /\ l = OneofOf(j)
    OBVIOUS
  <2>3. oneofs[k].rep = oneofs[l].rep /\ DataIndex(k) = DataIndex(l)
    BY <1>1, <2>2 DEF StoreRep, StoreIndex
  <2> QED
    BY <1>0, <1>1, <2>1, <2>2, <2>3, CasesDiffer
<1>2. ASSUME NEW x \in Indices, NEW y \in Indices, Sharing(x), ~Sharing(y),
             StoreRep(x) = StoreRep(y), StoreIndex(x) = StoreIndex(y)
      PROVE  FALSE
  <2>1. PICK k : k = OneofOf(x)
    OBVIOUS
  <2>2. k \in 1 .. Len(oneofs) /\ StoreRep(x) = oneofs[k].rep /\ StoreIndex(x) = DataIndex(k)
    BY <1>2, <2>1, Stored DEF StoreRep, StoreIndex
  <2>3. Cardinality(Plain(oneofs[k].rep)) <= DataIndex(k) /\ DataIndex(k) \in Nat
        /\ oneofs[k].rep \in Reps
    BY <1>0, <2>2, OneofSlots
  <2>4. StoreIndex(y) < Cardinality(Plain(fields[y].rep)) /\ fields[y].rep = StoreRep(y)
    BY <1>2, Stored DEF StoreRep
  <2>5. PICK p, d, e : /\ p = Cardinality(Plain(oneofs[k].rep)) /\ d = DataIndex(k)
                       /\ e = StoreIndex(y)
    OBVIOUS
  <2>6. p \in Nat /\ p <= d /\ d \in Nat
    BY <1>0, <2>3, <2>5, CountTypes
  <2>7. e = d /\ e < p
    BY <1>2, <2>2, <2>4, <2>5
  <2> QED
    BY <2>6, <2>7
<1>3. CASE ~Sharing(i) /\ ~Sharing(j)
  <2>1. PICK r : r = fields[i].rep
    OBVIOUS
  <2>2. /\ r = fields[j].rep /\ r \in Reps
        /\ UpTo(Plain(r), i) - 1 = UpTo(Plain(r), j) - 1
    BY <1>0, <1>3, <2>1, FieldsAreTyped DEF StoreRep, StoreIndex, PlainIndex
  <2>3. /\ Plain(r) \in SUBSET (1 .. Len(fields)) /\ Len(fields) \in Nat
        /\ i \in Plain(r) /\ j \in Plain(r)
    BY <1>0, <1>3, <2>1, <2>2, CountTypes DEF Plain, Sharing
  <2>4. UpTo(Plain(r), i) # UpTo(Plain(r), j)
    BY <2>3, Rank
  <2>5. i \in Nat /\ j \in Nat
    BY <2>3
  <2>6. UpTo(Plain(r), i) \in Nat /\ UpTo(Plain(r), j) \in Nat
    BY <2>3, <2>5, UpToType
  <2> QED
    BY <2>2, <2>4, <2>6
<1> QED
  BY <1>1, <1>2, <1>3

LEMMA StoresAndCases ==
  ASSUME ParseInv, pc = "offsets", NEW i \in Indices, NEW k \in 1 .. Len(oneofs),
         StoreRep(i) = FourByte
  PROVE  StoreIndex(i) # CaseIndex(k)
<1>0. TypeOK
  BY DEF ParseInv
<1>1. CASE Sharing(i)
  <2>1. PICK l : l = OneofOf(i)
    OBVIOUS
  <2>2. l \in 1 .. Len(oneofs) /\ oneofs[l].rep = FourByte /\ StoreIndex(i) = DataIndex(l)
    BY <1>1, <2>1, Stored DEF StoreRep, StoreIndex
  <2> QED
    BY <1>0, <2>2, CaseAndData
<1>2. CASE ~Sharing(i)
  <2>1. StoreIndex(i) < Cardinality(Plain(FourByte)) /\ StoreIndex(i) \in Nat
    BY <1>2, Stored DEF StoreRep
  <2>2. Cardinality(Plain(FourByte)) <= CaseIndex(k) /\ CaseIndex(k) \in Nat
    BY <1>0, OneofSlots
  <2>3. Cardinality(Plain(FourByte)) \in Nat
    BY <1>0, CountTypes DEF Reps, FourByte
  <2> QED
    BY <2>1, <2>2, <2>3
<1> QED
  BY <1>1, <1>2

(* Where AssignOffsets puts the fields and the cases.                       *)
Place(i) == SlotOffset(StoreRep(i), StoreIndex(i))
CasePlace(k) == SlotOffset(FourByte, CaseIndex(k))
SameOneof(i, j) == Sharing(i) /\ Sharing(j) /\ OneofOf(i) = OneofOf(j)

LEMMA FourBytes == FourByte \in Reps /\ SizeOf(FourByte) = 4 /\ AlignOf(FourByte) = 4
BY DEF Reps, SizeOf, AlignOf, OneByte, FourByte, StringView

LEMMA RepsNest ==
  ASSUME NEW r \in Reps, NEW q \in Reps, SizeOf(r) <= SizeOf(q),
         NEW v \in Nat, v % AlignOf(q) = 0
  PROVE  v % AlignOf(r) = 0
<1>1. CASE AlignOf(r) = AlignOf(q)
  BY <1>1
<1>2. CASE AlignOf(r) = 1
  BY <1>2
<1>3. CASE AlignOf(r) = 4 /\ AlignOf(q) = 8
  BY <1>3
<1>4. \/ AlignOf(r) = AlignOf(q)
      \/ AlignOf(r) = 1
      \/ AlignOf(r) = 4 /\ AlignOf(q) = 8
  BY DEF Reps, SizeOf, AlignOf, OneByte, FourByte, StringView, EightByte
<1> QED
  BY <1>1, <1>2, <1>3, <1>4

LEMMA PlaceBounds ==
  ASSUME ParseInv, RegionsSet, pc = "offsets", NEW i \in Indices
  PROVE  /\ Place(i) \in Nat /\ HeaderBytes <= Place(i)
         /\ Place(i) % AlignOf(fields[i].rep) = 0
         /\ Place(i) + SizeOf(fields[i].rep) <= size
<1>0. TypeOK /\ size \in Nat
  BY DEF ParseInv, TypeOK
<1>1. PICK q, r, m, s, t : /\ q = StoreRep(i) /\ r = fields[i].rep /\ m = StoreIndex(i)
                           /\ s = SizeOf(r) /\ t = SizeOf(q)
  OBVIOUS
<1>2. /\ q \in Reps /\ r \in Reps /\ m \in Nat /\ m < SlotCount(q) /\ s <= t
  BY <1>1, Stored
<1>3. PICK p, top : p = SlotOffset(q, m) /\ top = RegionTop(q)
  OBVIOUS
<1>4. /\ p \in Nat /\ HeaderBytes <= p /\ p + t <= top /\ top \in Nat /\ top <= size
      /\ p % AlignOf(q) = 0
  BY <1>0, <1>1, <1>2, <1>3, SlotBounds
<1>5. s \in Nat /\ t \in Nat
  BY <1>1, <1>2, RepSizes
<1>6. p + s <= size
  BY <1>0, <1>2, <1>4, <1>5
<1>7. p % AlignOf(r) = 0
  BY <1>1, <1>2, <1>4, RepsNest
<1>8. Place(i) = p
  BY <1>1, <1>3 DEF Place
<1> QED
  BY <1>1, <1>4, <1>6, <1>7, <1>8

LEMMA CasePlaceBounds ==
  ASSUME ParseInv, RegionsSet, NEW k \in 1 .. Len(oneofs)
  PROVE  /\ CasePlace(k) \in Nat /\ HeaderBytes <= CasePlace(k)
         /\ CasePlace(k) % 4 = 0 /\ CasePlace(k) + 4 <= size
<1>0. TypeOK /\ size \in Nat
  BY DEF ParseInv, TypeOK
<1>1. PICK m : m = CaseIndex(k)
  OBVIOUS
<1>2. m \in Nat /\ m < SlotCount(FourByte) /\ FourByte \in Reps
  BY <1>0, <1>1, OneofSlots DEF FourByte, Reps
<1>3. PICK p, top : p = SlotOffset(FourByte, m) /\ top = RegionTop(FourByte)
  OBVIOUS
<1>4. SizeOf(FourByte) = 4 /\ AlignOf(FourByte) = 4
  BY FourBytes
<1>5. /\ p \in Nat /\ HeaderBytes <= p /\ p + 4 <= top /\ top \in Nat /\ top <= size
      /\ p % 4 = 0
  BY <1>0, <1>2, <1>3, <1>4, SlotBounds
<1>6. p + 4 <= size
  BY <1>0, <1>5
<1> QED
  BY <1>1, <1>3, <1>5, <1>6 DEF CasePlace

LEMMA ApartWithin ==
  ASSUME NEW x \in Nat, NEW s \in Nat, NEW S \in Nat, s <= S,
         NEW y \in Nat, NEW t \in Nat, NEW T \in Nat, t <= T,
         Apart(x, S, y, T)
  PROVE  Apart(x, s, y, t)
BY DEF Apart

LEMMA PlacesApart ==
  ASSUME ParseInv, RegionsSet, pc = "offsets", NEW i \in Indices, NEW j \in Indices,
         i # j, ~SameOneof(i, j)
  PROVE  Apart(Place(i), SizeOf(fields[i].rep), Place(j), SizeOf(fields[j].rep))
<1>0. TypeOK
  BY DEF ParseInv
<1>1. PICK q, r, m, n : /\ q = StoreRep(i) /\ m = StoreIndex(i)
                        /\ r = StoreRep(j) /\ n = StoreIndex(j)
  OBVIOUS
<1>2. /\ q \in Reps /\ m \in Nat /\ m < SlotCount(q) /\ SizeOf(fields[i].rep) <= SizeOf(q)
      /\ r \in Reps /\ n \in Nat /\ n < SlotCount(r) /\ SizeOf(fields[j].rep) <= SizeOf(r)
      /\ fields[i].rep \in Reps /\ fields[j].rep \in Reps
  BY <1>1, Stored
<1>3. q # r \/ m # n
  BY <1>1, StoresDiffer DEF SameOneof
<1>4. Apart(SlotOffset(q, m), SizeOf(q), SlotOffset(r, n), SizeOf(r))
  BY <1>0, <1>2, <1>3, SlotsDiffer
<1>5. Apart(Place(i), SizeOf(q), Place(j), SizeOf(r))
  BY <1>1, <1>4 DEF Place
<1>6. /\ Place(i) \in Nat /\ Place(j) \in Nat
      /\ SizeOf(q) \in Nat /\ SizeOf(r) \in Nat
      /\ SizeOf(fields[i].rep) \in Nat /\ SizeOf(fields[j].rep) \in Nat
  BY <1>2, PlaceBounds, RepSizes
<1> QED
  BY <1>2, <1>5, <1>6, ApartWithin

LEMMA CasesApart ==
  ASSUME ParseInv, RegionsSet, NEW k \in 1 .. Len(oneofs)
  PROVE  /\ \A l \in 1 .. Len(oneofs) : k # l => Apart(CasePlace(k), 4, CasePlace(l), 4)
         /\ pc = "offsets" =>
              \A j \in Indices :
                Apart(CasePlace(k), 4, Place(j), SizeOf(fields[j].rep))
<1>0. TypeOK /\ FourByte \in Reps /\ SizeOf(FourByte) = 4
  BY FourBytes DEF ParseInv
<1>1. CaseIndex(k) \in Nat /\ CaseIndex(k) < SlotCount(FourByte)
  BY <1>0, OneofSlots
<1>2. ASSUME NEW l \in 1 .. Len(oneofs), k # l
      PROVE  Apart(CasePlace(k), 4, CasePlace(l), 4)
  <2>1. /\ CaseIndex(l) \in Nat /\ CaseIndex(l) < SlotCount(FourByte)
        /\ CaseIndex(k) # CaseIndex(l)
    BY <1>0, <1>2, OneofSlots, CasesDiffer
  <2>2. Apart(SlotOffset(FourByte, CaseIndex(k)), SizeOf(FourByte),
              SlotOffset(FourByte, CaseIndex(l)), SizeOf(FourByte))
    BY <1>0, <1>1, <2>1, SlotsDiffer
  <2> QED
    BY <1>0, <2>2 DEF CasePlace
<1>3. ASSUME NEW j \in Indices, pc = "offsets"
      PROVE  Apart(CasePlace(k), 4, Place(j), SizeOf(fields[j].rep))
  <2>1. PICK r, n : r = StoreRep(j) /\ n = StoreIndex(j)
    OBVIOUS
  <2>2. /\ r \in Reps /\ n \in Nat /\ n < SlotCount(r)
        /\ SizeOf(fields[j].rep) <= SizeOf(r) /\ fields[j].rep \in Reps
    BY <1>3, <2>1, Stored
  <2>3. r = FourByte => n # CaseIndex(k)
    BY <1>3, <2>1, StoresAndCases
  <2>4. Apart(SlotOffset(FourByte, CaseIndex(k)), SizeOf(FourByte),
              SlotOffset(r, n), SizeOf(r))
    BY <1>0, <1>1, <2>2, <2>3, SlotsDiffer
  <2>5. Apart(CasePlace(k), 4, Place(j), SizeOf(r))
    BY <1>0, <2>1, <2>4 DEF CasePlace, Place
  <2>6. CasePlace(k) \in Nat /\ Place(j) \in Nat
    BY <1>3, PlaceBounds, CasePlaceBounds
  <2>7. SizeOf(r) \in Nat /\ SizeOf(fields[j].rep) \in Nat /\ 4 \in Nat /\ 4 <= 4
    BY <2>2, RepSizes
  <2> QED
    BY <2>2, <2>5, <2>6, <2>7, ApartWithin
<1> QED
  BY <1>2, <1>3

(* The size is rounded up to a multiple of eight that fits, or wraps to 0.  *)
LEMMA RoundedSize ==
  ASSUME NEW s \in 0 .. U16Max
  PROVE  /\ AlignUp(s, 8) % (U16Max + 1) \in 0 .. U16Max
         /\ AlignUp(s, 8) % (U16Max + 1) # 0 => s <= AlignUp(s, 8) % (U16Max + 1)
<1>1. PICK z, M : z = AlignUp(s, 8) /\ M = U16Max + 1
  OBVIOUS
<1>2. M \in Nat /\ M > 0 /\ M % 8 = 0 /\ s \in Nat /\ s < M
  BY <1>1, LimitsAssumption
<1>3. z \in Nat /\ s <= z /\ z < s + 8 /\ z % 8 = 0
  BY <1>1, <1>2, AlignedUp
<1>4. z < M \/ z = M
  <2>1. PICK a, b : a = z \div 8 /\ b = M \div 8
    OBVIOUS
  <2>2. a \in Nat /\ b \in Nat /\ z = 8 * a /\ M = 8 * b
    BY <1>2, <1>3, <2>1
  <2> QED
    BY <1>2, <1>3, <2>2
<1>5. CASE z < M
  <2>1. z % M = z
    BY <1>2, <1>3, <1>5
  <2> QED
    BY <1>1, <1>2, <1>3, <1>5, <2>1, LimitsAssumption
<1>6. CASE z = M
  <2>1. z % M = 0
    BY <1>2, <1>6
  <2> QED
    BY <1>1, <2>1, LimitsAssumption
<1> QED
  BY <1>4, <1>5, <1>6

LEMMA PlacedFields ==
  ASSUME ParseInv, HasbitsSet, RegionsSet, pc = "offsets", NEW i \in Indices
  PROVE  LET g == Placed(i)
         IN /\ g \in FieldRecord /\ g.number = fields[i].number
            /\ g.class = fields[i].class /\ g.rep = fields[i].rep
            /\ g.type = fields[i].type /\ g.sub = fields[i].sub
            /\ g.offset = Place(i)
            /\ g.presence = IF Sharing(i) THEN -CasePlace(OneofOf(i)) - 1 ELSE Hasbit(i)
<1>0. TypeOK
  BY DEF ParseInv
<1>1. PICK h, p : h = fields[i] /\ p = Place(i)
  OBVIOUS
<1>2. h \in FieldRecord /\ p \in Nat /\ h.presence = Hasbit(i)
  BY <1>0, <1>1, FieldsAreTyped, PlaceBounds DEF HasbitsSet
<1>3. CASE Sharing(i)
  <2>1. PICK k, c : k = OneofOf(i) /\ c = CasePlace(k)
    OBVIOUS
  <2>2. k \in 1 .. Len(oneofs) /\ c \in Nat
    <3>1. k \in 1 .. Len(oneofs)
      BY <1>3, <2>1, Stored
    <3> QED
      BY <2>1, <3>1, CasePlaceBounds
  <2>3. c = CaseOffset(k) /\ p = DataOffset(k)
    BY <1>1, <1>3, <2>1 DEF CasePlace, CaseIndex, CaseOffset, Place, StoreRep, StoreIndex,
                            DataIndex, DataOffset
  <2>4. Placed(i) = [h EXCEPT !.offset = p, !.presence = -c - 1]
    BY <1>1, <1>3, <2>1, <2>3 DEF Placed, Sharing, OneofOf
  <2>5. PICK e : e = -c - 1
    OBVIOUS
  <2>6. e \in Int
    BY <2>2, <2>5
  <2>7. Placed(i) = [h EXCEPT !.offset = p, !.presence = e]
    BY <2>4, <2>5
  <2>8. LET g == [h EXCEPT !.offset = p, !.presence = e]
        IN /\ g \in FieldRecord /\ g.number = h.number /\ g.class = h.class /\ g.rep = h.rep
           /\ g.type = h.type /\ g.sub = h.sub /\ g.offset = p /\ g.presence = e
    BY <1>2, <2>6 DEF FieldRecord
  <2> QED
    BY <1>1, <1>3, <2>1, <2>5, <2>7, <2>8
<1>4. CASE ~Sharing(i)
  <2>1. p = PlainOffset(i)
    BY <1>1, <1>4 DEF Place, StoreRep, StoreIndex, PlainIndex, PlainOffset
  <2>2. Placed(i) = [h EXCEPT !.offset = p]
    BY <1>1, <1>4, <2>1 DEF Placed, Sharing
  <2>3. LET g == [h EXCEPT !.offset = p]
        IN /\ g \in FieldRecord /\ g.number = h.number /\ g.class = h.class /\ g.rep = h.rep
           /\ g.type = h.type /\ g.sub = h.sub /\ g.offset = p /\ g.presence = h.presence
    BY <1>2 DEF FieldRecord
  <2> QED
    BY <1>1, <1>2, <1>4, <2>2, <2>3
<1> QED
  BY <1>3, <1>4

LEMMA AssignOffsetsKeeps == ASSUME TableInv, AssignOffsets PROVE TableInv'
<1>0. ParseInv /\ TypeOK
  BY DEF TableInv, ParseInv
<1>1. CASE Fail
  BY <1>1, FailKeeps
<1>2. CASE ~Fail
  <2>1. /\ pc = "offsets" /\ pc' = "subs" /\ fields' = [i \in Indices |-> Placed(i)]
        /\ size' = AlignUp(size, 8) % (U16Max + 1)
        /\ \A k \in 1 .. Len(oneofs) : ~(CaseOffset(k) > I16Max)
        /\ UNCHANGED <<version, token, mods, ext, number, denseBelow, item, oneofs, required, repBase>>
    BY <1>2 DEF AssignOffsets, parseVars
  <2>2. HasbitsSet /\ RegionsSet
    BY <2>1 DEF TableInv, LayoutInv
  <2>3. /\ fields' \in Seq(FieldRecord) /\ Len(fields') = Len(fields) /\ SameFields
        /\ \A i \in Indices :
             /\ fields'[i].sub = fields[i].sub /\ fields'[i].offset = Place(i)
             /\ fields'[i].presence = IF Sharing(i) THEN -CasePlace(OneofOf(i)) - 1 ELSE Hasbit(i)
    <3>1. Len(fields) \in Nat /\ Indices = 1 .. Len(fields)
      BY <1>0 DEF TypeOK, Indices
    <3>2. \A i \in Indices :
            /\ Placed(i) \in FieldRecord /\ Placed(i).number = fields[i].number
            /\ Placed(i).class = fields[i].class /\ Placed(i).rep = fields[i].rep
            /\ Placed(i).type = fields[i].type /\ Placed(i).sub = fields[i].sub
            /\ Placed(i).offset = Place(i)
            /\ Placed(i).presence =
                 IF Sharing(i) THEN -CasePlace(OneofOf(i)) - 1 ELSE Hasbit(i)
      BY <1>0, <2>1, <2>2, PlacedFields
    <3>3. fields' \in [1 .. Len(fields) -> FieldRecord]
      BY <2>1, <3>1, <3>2
    <3>4. fields' \in Seq(FieldRecord) /\ Len(fields') = Len(fields)
      BY <3>1, <3>3
    <3>5. \A i \in Indices : fields'[i] = Placed(i)
      BY <2>1
    <3>6. SameFields
      BY <2>1, <3>2, <3>4, <3>5 DEF SameFields
    <3> QED
      BY <3>2, <3>4, <3>5, <3>6
  <2>4. /\ Indices' = Indices /\ Numbered' /\ Grouped' /\ LastHasbit' = LastHasbit
        /\ \A c : OfClass(c)' = OfClass(c)
    BY <1>0, <2>1, <2>3, FieldsKept DEF Laying
  <2>5. SubsKnown'
    BY <1>0, <2>1, <2>3, <2>4 DEF ParseInv, SubsKnown, SameFields
  <2>6. /\ size \in 0 .. U16Max /\ size' \in 0 .. U16Max /\ (size' # 0 => size <= size')
    <3>1. size \in 0 .. U16Max
      BY <1>0 DEF TypeOK
    <3> QED
      BY <2>1, <3>1, RoundedSize
  <2>7. TypeOK'
    BY <1>0, <2>1, <2>3, <2>4, <2>6 DEF TypeOK
  <2>8. ASSUME NEW i \in Indices
        PROVE  /\ fields'[i].offset = Place(i) /\ fields'[i].rep = fields[i].rep
               /\ Sharing(i) => /\ fields'[i].presence < 0
                                /\ -(fields'[i].presence) - 1 = CasePlace(OneofOf(i))
                                /\ OneofOf(i) \in 1 .. Len(oneofs)
                                /\ CasePlace(OneofOf(i)) <= I16Max
               /\ ~Sharing(i) => /\ fields'[i].presence = Hasbit(i)
                                 /\ ~(fields'[i].presence < 0)
               /\ fields'[i].presence > 0 =>
                    /\ fields'[i].presence \div 8 \in Nat
                    /\ fields'[i].presence \div 8 < HeaderBytes
    <3>1. fields'[i].offset = Place(i) /\ fields'[i].rep = fields[i].rep
      BY <2>3 DEF SameFields
    <3>2. CASE Sharing(i)
      <4>1. PICK k, c, e : /\ k = OneofOf(i) /\ c = CasePlace(k) /\ e = fields'[i].presence
        OBVIOUS
      <4>2. k \in 1 .. Len(oneofs)
        BY <1>0, <2>1, <3>2, <4>1, Stored
      <4>3. c \in Nat
        BY <1>0, <2>2, <4>1, <4>2, CasePlaceBounds
      <4>4. e = -c - 1
        BY <2>3, <3>2, <4>1
      <4>5. c <= I16Max
        <5>1. c = CaseOffset(k)
          BY <4>1 DEF CasePlace, CaseIndex, CaseOffset
        <5> QED
          BY <2>1, <4>2, <4>3, <5>1, LimitsAssumption
      <4>6. e < 0 /\ -e - 1 = c /\ ~(e > 0)
        BY <4>3, <4>4
      <4> QED
        BY <3>1, <3>2, <4>1, <4>2, <4>5, <4>6
    <3>3. CASE ~Sharing(i)
      <4>1. PICK h, L : h = Hasbit(i) /\ L = LastHasbit
        OBVIOUS
      <4>2. h \in Nat /\ h <= L /\ L \in Nat /\ (h > 0 => h >= 64)
        BY <1>0, <4>1, HasbitsApart DEF ReservedHasbits, ReservedHasbytes
      <4>3. fields'[i].presence = h
        BY <2>3, <3>3, <4>1
      <4>4. h \div 8 \in Nat /\ h \div 8 < (L + 8) \div 8 /\ ~(h < 0)
        BY <4>2
      <4> QED
        BY <3>1, <3>3, <4>1, <4>3, <4>4 DEF HeaderBytes
    <3> QED
      BY <3>2, <3>3
  <2>9. PresencesSet'
    <3>1. \A i \in Indices : Hasbit(i)' = Hasbit(i)
      BY <2>3, <2>4 DEF Hasbit, SameFields
    <3>2. \A i \in Indices : IF fields'[i].class = "oneof" THEN fields'[i].presence < 0
                             ELSE fields'[i].presence = Hasbit(i)'
      BY <2>3, <2>8, <3>1 DEF SameFields, Sharing
    <3>3. (required = Cardinality(OfClass("required")) /\ LastHasbit <= I16Max)'
      BY <2>1, <2>2, <2>4 DEF HasbitsSet
    <3> QED
      BY <2>4, <3>2, <3>3 DEF PresencesSet
  <2>10. ParseInv' /\ HasbitsOwned'
    BY <2>1, <2>4, <2>5, <2>7, <2>9, NextOwned DEF ParseInv, Laying
  <2>11. HeaderBytes \in Nat /\ HeaderBytes >= 8
    <3>1. PICK L : L = LastHasbit
      OBVIOUS
    <3>2. L \in Nat /\ L >= 63
      BY <1>0, <3>1, HasbitsApart
    <3>3. (L + 8) \div 8 \in Nat /\ (L + 8) \div 8 >= 8
      BY <3>2
    <3> QED
      BY <3>1, <3>3 DEF HeaderBytes
  <2>12. SlotsApart'
    <3>1. ASSUME NEW i \in Indices, fields'[i].presence < 0
          PROVE  /\ Sharing(i) /\ OneofOf(i) \in 1 .. Len(oneofs)
                 /\ Case(i)' = CasePlace(OneofOf(i)) /\ CasePlace(OneofOf(i)) \in Nat
                 /\ HeaderBytes <= CasePlace(OneofOf(i))
      <4>1. Sharing(i)
        BY <2>8, <3>1
      <4>2. OneofOf(i) \in 1 .. Len(oneofs) /\ -(fields'[i].presence) - 1 = CasePlace(OneofOf(i))
        BY <2>8, <4>1
      <4>3. CasePlace(OneofOf(i)) \in Nat /\ HeaderBytes <= CasePlace(OneofOf(i))
        BY <1>0, <2>2, <4>2, CasePlaceBounds
      <4> QED
        BY <4>1, <4>2, <4>3 DEF Case
    <3>2. ASSUME NEW i \in Indices
          PROVE  /\ fields'[i].offset >= ReservedHasbytes
                 /\ fields'[i].presence < 0 => Case(i)' >= ReservedHasbytes
      <4>1. Place(i) \in Nat /\ HeaderBytes <= Place(i)
        BY <1>0, <2>1, <2>2, PlaceBounds
      <4>2. Place(i) >= 8
        BY <2>11, <4>1
      <4>3. fields'[i].presence < 0 => Case(i)' >= 8
        BY <2>11, <3>1
      <4> QED
        BY <2>8, <4>2, <4>3 DEF ReservedHasbytes
    <3>3. ASSUME NEW i \in Indices, NEW j \in Indices, i # j
          PROVE  IF SharesOneof(i, j)'
                 THEN fields'[i].offset = fields'[j].offset
                 ELSE Apart(fields'[i].offset, SizeOf(fields'[i].rep),
                            fields'[j].offset, SizeOf(fields'[j].rep))
      <4>1. CASE SameOneof(i, j)
        <5>1. Place(i) = Place(j)
          BY <4>1 DEF SameOneof, Place, StoreRep, StoreIndex
        <5>2. fields'[i].presence = fields'[j].presence /\ fields'[i].presence < 0
          <6>1. fields'[i].presence < 0
            BY <2>8, <4>1 DEF SameOneof
          <6>2. /\ fields'[i].presence = -CasePlace(OneofOf(i)) - 1
                /\ fields'[j].presence = -CasePlace(OneofOf(j)) - 1
            BY <2>3, <4>1 DEF SameOneof
          <6>3. OneofOf(i) = OneofOf(j)
            BY <4>1 DEF SameOneof
          <6> QED
            BY <6>1, <6>2, <6>3
        <5> QED
          BY <2>8, <5>1, <5>2 DEF SharesOneof
      <4>2. CASE ~SameOneof(i, j)
        <5>1. ASSUME fields'[i].presence < 0, fields'[i].presence = fields'[j].presence
              PROVE  FALSE
          <6>1. fields'[j].presence < 0
            BY <5>1
          <6>2. PICK k, l : k = OneofOf(i) /\ l = OneofOf(j)
            OBVIOUS
          <6>3. /\ k \in 1 .. Len(oneofs) /\ l \in 1 .. Len(oneofs)
                /\ CasePlace(k) \in Nat /\ k # l
            BY <3>1, <4>2, <5>1, <6>1, <6>2 DEF SameOneof
          <6>4. CasePlace(k) = CasePlace(l)
            BY <3>1, <5>1, <6>1, <6>2 DEF Case
          <6>5. Apart(CasePlace(k), 4, CasePlace(l), 4)
            BY <1>0, <2>2, <6>3, CasesApart
          <6> QED
            BY <6>3, <6>4, <6>5 DEF Apart
        <5>2. Apart(Place(i), SizeOf(fields[i].rep), Place(j), SizeOf(fields[j].rep))
          BY <1>0, <2>1, <2>2, <3>3, <4>2, PlacesApart
        <5> QED
          BY <2>8, <5>1, <5>2 DEF SharesOneof
      <4> QED
        BY <4>1, <4>2
    <3>4. ASSUME NEW i \in Indices, NEW j \in Indices, fields'[i].presence < 0
          PROVE  /\ Apart(Case(i)', 4, fields'[j].offset, SizeOf(fields'[j].rep))
                 /\ fields'[j].presence < 0 =>
                      Case(i)' = Case(j)' \/ Apart(Case(i)', 4, Case(j)', 4)
      <4>1. PICK k : k = OneofOf(i) /\ k \in 1 .. Len(oneofs) /\ Case(i)' = CasePlace(k)
        BY <3>1, <3>4
      <4>2. Apart(CasePlace(k), 4, Place(j), SizeOf(fields[j].rep))
        BY <1>0, <2>1, <2>2, <4>1, CasesApart
      <4>3. ASSUME fields'[j].presence < 0
            PROVE  Case(i)' = Case(j)' \/ Apart(Case(i)', 4, Case(j)', 4)
        <5>1. PICK l : l = OneofOf(j) /\ l \in 1 .. Len(oneofs) /\ Case(j)' = CasePlace(l)
          BY <3>1, <4>3
        <5>2. k # l => Apart(CasePlace(k), 4, CasePlace(l), 4)
          BY <1>0, <2>2, <4>1, <5>1, CasesApart
        <5> QED
          BY <4>1, <5>1, <5>2
      <4> QED
        BY <2>8, <4>1, <4>2, <4>3
    <3>5. ASSUME NEW i \in Indices, NEW j \in Indices, fields'[i].presence > 0
          PROVE  /\ Apart(fields'[i].presence \div 8, 1,
                          fields'[j].offset, SizeOf(fields'[j].rep))
                 /\ fields'[j].presence < 0 =>
                      Apart(fields'[i].presence \div 8, 1, Case(j)', 4)
      <4>1. PICK b : b = fields'[i].presence \div 8 /\ b \in Nat /\ b < HeaderBytes
        BY <2>8, <3>5
      <4>2. Place(j) \in Nat /\ HeaderBytes <= Place(j)
        BY <1>0, <2>1, <2>2, PlaceBounds
      <4>3. Apart(b, 1, Place(j), SizeOf(fields[j].rep))
        BY <2>11, <4>1, <4>2 DEF Apart
      <4>4. fields'[j].presence < 0 => Apart(b, 1, Case(j)', 4)
        BY <2>11, <3>1, <4>1 DEF Apart
      <4> QED
        BY <2>8, <4>1, <4>3, <4>4
    <3> QED
      BY <2>4, <3>2, <3>3, <3>4, <3>5 DEF SlotsApart
  <2>13. SlotsInside'
    <3>1. ASSUME NEW i \in Indices
          PROVE  /\ fields'[i].offset % AlignOf(fields'[i].rep) = 0
                 /\ size' # 0 => fields'[i].offset + SizeOf(fields'[i].rep) <= size'
                 /\ fields'[i].presence < 0 =>
                      /\ Case(i)' % 4 = 0 /\ Case(i)' <= I16Max
                      /\ size' # 0 => Case(i)' + 4 <= size'
      <4>1. PICK x, s : x = Place(i) /\ s = SizeOf(fields[i].rep)
        OBVIOUS
      <4>2. x \in Nat /\ x % AlignOf(fields[i].rep) = 0 /\ x + s <= size /\ s \in Nat
        <5>1. fields[i].rep \in Reps
          BY <1>0, FieldsAreTyped
        <5>2. s \in Nat
          BY <4>1, <5>1, RepSizes
        <5> QED
          BY <1>0, <2>1, <2>2, <4>1, <5>2, PlaceBounds
      <4>3. size' # 0 => x + s <= size'
        BY <2>6, <4>2
      <4>4. ASSUME fields'[i].presence < 0
            PROVE  /\ Case(i)' % 4 = 0 /\ Case(i)' <= I16Max
                   /\ size' # 0 => Case(i)' + 4 <= size'
        <5>1. PICK k, c : k = OneofOf(i) /\ c = CasePlace(k)
          OBVIOUS
        <5>2. Sharing(i)
          BY <2>8, <4>4
        <5>3. k \in 1 .. Len(oneofs) /\ Case(i)' = c /\ c <= I16Max
          BY <2>8, <5>1, <5>2 DEF Case
        <5>4. c \in Nat /\ c % 4 = 0 /\ c + 4 <= size
          BY <1>0, <2>2, <5>1, <5>3, CasePlaceBounds
        <5>5. size' # 0 => c + 4 <= size'
          BY <2>6, <5>4
        <5> QED
          BY <5>3, <5>4, <5>5
      <4> QED
        BY <2>8, <4>1, <4>2, <4>3, <4>4
    <3> QED
      BY <2>4, <2>7, <3>1 DEF SlotsInside
  <2> QED
    BY <2>1, <2>10, <2>12, <2>13 DEF TableInv, LayoutInv
<1> QED
  BY <1>1, <1>2

-----------------------------------------------------------------------------
(* Sub slots                                                                *)

LEMMA StepTypes ==
  ASSUME TypeOK, NEW i \in Indices, NEW v \in Int
  PROVE  StepOver(fields[i], v) \in Int /\ StepOver(fields[i], v) >= v - 12
<1>1. CASE Kept(fields[i], v)
  <2>1. StepOver(fields[i], v) = v + (8 - 12)
    BY <1>1 DEF StepOver, Kept
  <2> QED
    BY <2>1
<1>2. CASE ~Kept(fields[i], v) /\ ~(fields[i].sub = NoSub)
  <2>1. StepOver(fields[i], v) = v
    BY <1>2 DEF StepOver
  <2> QED
    BY <2>1
<1>3. CASE ~Kept(fields[i], v) /\ fields[i].sub = NoSub
  <2>1. StepOver(fields[i], v) = v - 12
    BY <1>3 DEF StepOver
  <2> QED
    BY <2>1
<1> QED
  BY <1>1, <1>2, <1>3

(* The distances up to the n-th field's end.                                *)
Steps(F, n) ==
  F = [k \in 0 .. n |-> IF k = 0 THEN FieldBytes ELSE StepOver(fields[k], F[k - 1])]

LEMMA StepsExist ==
  ASSUME NEW n \in Nat
  PROVE  \E F : Steps(F, n)
<1> DEFINE T == {k \in Nat : k <= n /\ ~ \E F : Steps(F, k)}
<1>1. SUFFICES ASSUME T # {} PROVE FALSE
  <2>1. n \notin T
    BY <1>1
  <2> QED
    BY <2>1
<1>2. T \in SUBSET Nat
  OBVIOUS
<1>3. PICK k \in T : \A y \in T : k <= y
  BY <1>1, <1>2, LeastNat
<1>4. k \in Nat /\ k <= n /\ ~ \E F : Steps(F, k)
  BY <1>3
<1>5. CASE k = 0
  <2> DEFINE F == [i \in 0 .. 0 |-> FieldBytes]
  <2>1. F = [i \in 0 .. 0 |-> IF i = 0 THEN FieldBytes ELSE StepOver(fields[i], F[i - 1])]
    OBVIOUS
  <2> HIDE DEF F
  <2>2. Steps(F, 0)
    BY <2>1 DEF Steps
  <2> QED
    BY <1>4, <1>5, <2>2
<1>6. CASE k # 0
  <2>1. PICK j : j = k - 1
    OBVIOUS
  <2>2. j \in Nat /\ k = j + 1 /\ j <= n /\ j \notin T
    BY <1>3, <1>4, <1>6, <2>1
  <2>3. PICK F : Steps(F, j)
    BY <2>2
  <2> DEFINE G == [i \in 0 .. k |-> IF i = k THEN StepOver(fields[k], F[j]) ELSE F[i]]
             e(i) == IF i = 0 THEN FieldBytes ELSE StepOver(fields[i], G[i - 1])
  <2>4. \A i \in 0 .. j : /\ i \in 0 .. k /\ i # k /\ G[i] = F[i]
                          /\ F[i] = IF i = 0 THEN FieldBytes ELSE StepOver(fields[i], F[i - 1])
    <3>1. \A i \in 0 .. j : i \in 0 .. k /\ i # k
      BY <2>2
    <3>2. \A i \in 0 .. j :
            F[i] = IF i = 0 THEN FieldBytes ELSE StepOver(fields[i], F[i - 1])
      BY <2>3 DEF Steps
    <3> QED
      BY <3>1, <3>2
  <2>5. G[k] = StepOver(fields[k], F[j]) /\ j \in 0 .. j
    BY <1>4, <2>2
  <2>6. ASSUME NEW i \in 0 .. k PROVE G[i] = e(i)
    <3>1. CASE i = k
      BY <1>6, <2>1, <2>4, <2>5, <3>1
    <3>2. CASE i # k /\ i = 0
      <4>1. i \in 0 .. j
        BY <2>2, <3>2
      <4>2. G[i] = F[i] /\ F[i] = FieldBytes
        BY <2>4, <3>2, <4>1
      <4>3. e(i) = FieldBytes
        BY <3>2
      <4> QED
        BY <4>2, <4>3
    <3>3. CASE i # k /\ i # 0
      <4>1. i \in 0 .. j /\ i - 1 \in 0 .. j
        BY <2>2, <3>3
      <4>2. G[i] = F[i] /\ G[i - 1] = F[i - 1] /\ F[i] = StepOver(fields[i], F[i - 1])
        BY <2>4, <3>3, <4>1
      <4> QED
        BY <3>3, <4>2
    <3> QED
      BY <3>1, <3>2, <3>3
  <2>7. G = [i \in 0 .. k |-> G[i]]
    OBVIOUS
  <2>8. Steps(G, k)
    <3> HIDE DEF G
    <3> QED
      BY <2>6, <2>7 DEF Steps
  <2> QED
    BY <1>4, <2>8
<1> QED
  BY <1>5, <1>6

(* From each field there are at least the fields behind it to step over.    *)
LEMMA DistanceSteps ==
  ASSUME TypeOK
  PROVE  \E F : /\ F[0] = FieldBytes /\ FieldBytes \in Nat
                /\ FieldBytes >= 12 * Len(fields) /\ FieldBytes <= 12 * Len(fields) + 7
                /\ FieldBytes % 8 = 0
                /\ \A i \in Indices : /\ Distances[i] = F[i - 1] /\ F[i - 1] \in Nat
                                      /\ F[i] = StepOver(fields[i], F[i - 1])
<1>1. PICK n, b : n = Len(fields) /\ b = FieldBytes
  OBVIOUS
<1>2. n \in Nat /\ Indices = 1 .. n
  BY <1>1 DEF TypeOK, Indices
<1>3. b \in Nat /\ b >= 12 * n /\ b <= 12 * n + 7 /\ b % 8 = 0
  <2>1. 12 * n \in Nat
    BY <1>2
  <2>2. b = AlignUp(12 * n, 8)
    BY <1>1 DEF FieldBytes
  <2> QED
    BY <2>1, <2>2, AlignedUp
<1> DEFINE R(f) == f = [k \in 0 .. n |-> IF k = 0 THEN FieldBytes ELSE StepOver(fields[k], f[k - 1])]
           c == CHOOSE f : R(f)
<1>4. R(c)
  <2>1. \E f : R(f)
    <3>1. PICK F : Steps(F, n)
      BY <1>2, StepsExist
    <3>2. R(F)
      BY <3>1 DEF Steps
    <3> QED
      BY <3>2
  <2> QED
    BY <2>1
<1>5. Distances = [i \in Indices |-> c[i - 1]]
  BY <1>1 DEF Distances
<1> HIDE DEF c
<1>6. c[0] = b /\ \A i \in 1 .. n : c[i] = StepOver(fields[i], c[i - 1])
  <2>1. \A k \in 0 .. n : c[k] = IF k = 0 THEN FieldBytes ELSE StepOver(fields[k], c[k - 1])
    BY <1>4
  <2>2. \A i \in 1 .. n : i \in 0 .. n /\ i # 0
    BY <1>2
  <2>3. 0 \in 0 .. n
    BY <1>2
  <2> QED
    BY <1>1, <2>1, <2>2, <2>3
<1>7. \A k \in 0 .. n : c[k] \in Int /\ c[k] >= b - 12 * k
  <2> DEFINE T == {k \in Nat : k <= n /\ ~(c[k] \in Int /\ c[k] >= b - 12 * k)}
  <2>1. SUFFICES ASSUME T # {} PROVE FALSE
    BY <1>2
  <2>2. T \in SUBSET Nat
    OBVIOUS
  <2>3. PICK k \in T : \A y \in T : k <= y
    BY <2>1, <2>2, LeastNat
  <2>4. k \in Nat /\ k <= n /\ ~(c[k] \in Int /\ c[k] >= b - 12 * k)
    BY <2>3
  <2>5. k # 0
    BY <1>3, <1>6, <2>4
  <2>6. PICK j : j = k - 1
    OBVIOUS
  <2>7. j \in Nat /\ j <= n /\ j \notin T /\ k \in Indices
    BY <1>2, <2>3, <2>4, <2>5, <2>6
  <2>8. c[j] \in Int /\ c[j] >= b - 12 * j
    BY <2>7
  <2>9. c[k] = StepOver(fields[k], c[j])
    BY <1>2, <1>6, <2>6, <2>7
  <2>10. c[k] \in Int /\ c[k] >= c[j] - 12
    BY <2>7, <2>8, <2>9, StepTypes
  <2> QED
    BY <1>3, <2>4, <2>6, <2>7, <2>8, <2>10
<1>8. ASSUME NEW i \in Indices
      PROVE  /\ Distances[i] = c[i - 1] /\ c[i - 1] \in Nat
             /\ c[i] = StepOver(fields[i], c[i - 1])
  <2>1. PICK j : j = i - 1
    OBVIOUS
  <2>2. j \in Nat /\ j \in 0 .. n /\ j + 1 <= n
    BY <1>2, <2>1
  <2>3. c[j] \in Int /\ c[j] >= b - 12 * j
    BY <1>7, <2>2
  <2>4. c[j] \in Nat
    BY <1>2, <1>3, <2>2, <2>3
  <2> QED
    BY <1>2, <1>5, <1>6, <2>1, <2>4
<1> QED
  BY <1>1, <1>3, <1>6, <1>8

LEMMA AllocatedFields ==
  ASSUME TypeOK, AllocateSubs
  PROVE  /\ pc = "subs" /\ pc' = "done"
         /\ UNCHANGED <<version, token, mods, ext, number, denseBelow, item, oneofs, required,
                        repBase, size>>
         /\ fields' \in Seq(FieldRecord) /\ Len(fields') = Len(fields) /\ SameFields
         /\ \A i \in Indices : /\ fields'[i].offset = fields[i].offset
                               /\ fields'[i].presence = fields[i].presence
                               /\ fields'[i].sub = AllocateSub(fields[i], Distances[i])
<1>1. /\ pc = "subs" /\ pc' = "done"
      /\ fields' = [i \in Indices |->
                      [fields[i] EXCEPT !.sub = AllocateSub(fields[i], Distances[i])]]
      /\ UNCHANGED <<version, token, mods, ext, number, denseBelow, item, oneofs, required,
                     repBase, size>>
  BY DEF AllocateSubs, parseVars, layoutVars
<1>2. Len(fields) \in Nat /\ Indices = 1 .. Len(fields)
  BY DEF TypeOK, Indices
<1>3. ASSUME NEW i \in Indices
      PROVE  /\ fields'[i] \in FieldRecord /\ fields'[i].number = fields[i].number
             /\ fields'[i].class = fields[i].class /\ fields'[i].rep = fields[i].rep
             /\ fields'[i].type = fields[i].type
             /\ fields'[i].offset = fields[i].offset
             /\ fields'[i].presence = fields[i].presence
             /\ fields'[i].sub = AllocateSub(fields[i], Distances[i])
  <2>1. PICK h, d, s : /\ h = fields[i] /\ d = Distances[i] /\ s = AllocateSub(h, d)
    OBVIOUS
  <2>2. h \in FieldRecord /\ d \in Nat
    BY <2>1, FieldsAreTyped, DistanceSteps
  <2>3. s \in Nat \cup {NoSub}
    <3>1. d \div 4 \in Nat
      BY <2>2
    <3> QED
      BY <2>1, <3>1 DEF AllocateSub
  <2>4. LET g == [h EXCEPT !.sub = s]
        IN /\ g \in FieldRecord /\ g.number = h.number /\ g.class = h.class /\ g.rep = h.rep
           /\ g.type = h.type /\ g.offset = h.offset /\ g.presence = h.presence /\ g.sub = s
    BY <2>2, <2>3 DEF FieldRecord
  <2>5. fields'[i] = [h EXCEPT !.sub = s]
    BY <1>1, <2>1
  <2> QED
    BY <2>1, <2>4, <2>5
<1>4. DOMAIN fields' = 1 .. Len(fields) /\ fields' = [i \in 1 .. Len(fields) |-> fields'[i]]
  BY <1>1, <1>2
<1>5. fields' \in [1 .. Len(fields) -> FieldRecord]
  BY <1>2, <1>3, <1>4
<1>6. fields' \in Seq(FieldRecord) /\ Len(fields') = Len(fields)
  BY <1>2, <1>5
<1>7. SameFields
  BY <1>1, <1>3, <1>6 DEF SameFields
<1> QED
  BY <1>1, <1>3, <1>6, <1>7

LEMMA AllocateSubsKeeps == ASSUME TableInv, AllocateSubs PROVE TableInv'
<1>0. ParseInv /\ TypeOK /\ LayoutInv
  BY DEF TableInv, ParseInv
<1>1. /\ pc = "subs" /\ pc' = "done"
      /\ UNCHANGED <<version, token, mods, ext, number, denseBelow, item, oneofs, required,
                     repBase, size>>
      /\ fields' \in Seq(FieldRecord) /\ Len(fields') = Len(fields) /\ SameFields
  BY <1>0, AllocatedFields
<1>2. \A i \in Indices : /\ fields'[i].offset = fields[i].offset
                         /\ fields'[i].presence = fields[i].presence
                         /\ fields'[i].rep = fields[i].rep /\ fields'[i].class = fields[i].class
  BY <1>0, AllocatedFields DEF SameFields
<1>3. /\ Indices' = Indices /\ Numbered' /\ Grouped'
      /\ \A c : OfClass(c)' = OfClass(c)
  BY <1>0, <1>1, FieldsKept DEF Laying
<1>4. TypeOK' /\ SubsKnown'
  BY <1>0, <1>1, <1>3 DEF TypeOK, SubsKnown
<1>5. LaidOut /\ LaidOut'
  BY <1>1 DEF LaidOut
<1>6. \A i, j \in Indices : /\ Case(i)' = Case(i)
                            /\ SharesOneof(i, j)' <=> SharesOneof(i, j)
  BY <1>2 DEF Case, SharesOneof
<1>7. SlotsApart'
  <2>1. SlotsApart
    BY <1>0 DEF LayoutInv
  <2> QED
    BY <1>2, <1>3, <1>5, <1>6, <2>1 DEF SlotsApart
<1>8. SlotsInside'
  <2>1. SlotsInside
    BY <1>0 DEF LayoutInv
  <2> QED
    BY <1>1, <1>2, <1>3, <1>4, <1>5, <1>6, <2>1 DEF SlotsInside
<1>9. HasbitsOwned'
  <2>1. HasbitsOwned
    BY <1>0 DEF LayoutInv
  <2>2. {fields'[i].presence : i \in OfClass("required")} =
          {fields[i].presence : i \in OfClass("required")}
    BY <1>2 DEF OfClass
  <2>3. {fields'[i].presence : i \in OfClass("required")} =
          ReservedHasbits .. ReservedHasbits + required - 1
    BY <1>5, <2>1, <2>2 DEF HasbitsOwned
  <2>4. OfClass("required")' = OfClass("required")
    BY <1>3
  <2>5. ({fields[i].presence : i \in OfClass("required")} =
           ReservedHasbits .. ReservedHasbits + required - 1)'
    BY <1>1, <2>3, <2>4
  <2>6. ASSUME NEW i \in Indices
        PROVE  /\ fields'[i].presence <= I16Max
               /\ fields'[i].presence < 0 <=> fields'[i].class = "oneof"
               /\ fields'[i].class = "oneof" =>
                    \E k \in 1 .. Len(oneofs) :
                      /\ InOneof(i, k) /\ SizeOf(fields'[i].rep) <= SizeOf(oneofs[k].rep)
                      /\ \A l \in 1 .. Len(oneofs) : InOneof(i, l) => l = k
    BY <1>2, <1>5, <2>1 DEF HasbitsOwned
  <2>7. \A i, j \in Indices :
          i # j /\ fields'[i].presence > 0 => fields'[i].presence # fields'[j].presence
    BY <1>2, <1>5, <2>1 DEF HasbitsOwned
  <2>8. \A i, k : InOneof(i, k)' <=> InOneof(i, k)
    BY <1>1 DEF InOneof
  <2> QED
    BY <1>1, <1>3, <2>5, <2>6, <2>7, <2>8 DEF HasbitsOwned
<1> QED
  BY <1>0, <1>1, <1>3, <1>4, <1>7, <1>8, <1>9 DEF TableInv, ParseInv, LayoutInv

-----------------------------------------------------------------------------
(* Theorems                                                                 *)

LEMMA TableNext == TableInv /\ [Next]_vars => TableInv'
<1> SUFFICES ASSUME TableInv, [Next]_vars PROVE TableInv'
  OBVIOUS
<1>0. ParseInv
  BY DEF TableInv
<1>1. CASE Empty \/ Version \/ MessageSet \/ StartOneofs
  BY <1>0, <1>1, StartKeeps
<1>2. CASE Malformed
  BY <1>2, FailKeeps DEF Malformed
<1>3. ASSUME NEW t \in Types, NEW repeated \in BOOLEAN, Field(t, repeated) PROVE TableInv'
  <2>1. t \in EncodedTypes
    BY DescriptorsAssumption
  <2> QED
    BY <1>0, <1>3, <2>1, FieldKeeps
<1>4. ASSUME NEW m \in MessageModifiers, MessageModifier(m) PROVE TableInv'
  BY <1>0, <1>4, ModifierKeeps
<1>5. ASSUME NEW m \in FieldModifiers, FieldModifier(m) PROVE TableInv'
  BY <1>0, <1>5, FieldModifierKeeps
<1>6. ASSUME NEW n \in Skips, Skip(n) PROVE TableInv'
  BY <1>0, <1>6, SkipKeeps
<1>7. ASSUME NEW n \in 1 .. MaxFieldNumber, OneofMember(n) PROVE TableInv'
  BY <1>0, <1>7, OneofMemberKeeps
<1>8. CASE NextOneof
  BY <1>0, <1>8, NextOneofKeeps
<1>9. CASE EndOfBody \/ EndOfOneofs
  BY <1>0, <1>9, EndKeeps
<1>10. CASE AssignHasbits
  BY <1>0, <1>10, AssignHasbitsKeeps
<1>11. CASE ParseMap
  BY <1>11, ParseMapKeeps
<1>12. CASE CalculateAlignments
  BY <1>12, CalculateAlignmentsKeeps
<1>13. CASE AssignOffsets
  BY <1>13, AssignOffsetsKeeps
<1>14. CASE AllocateSubs
  BY <1>14, AllocateSubsKeeps
<1>15. CASE UNCHANGED vars
  <2>1. UNCHANGED <<pc, version, token, mods, ext, fields, number, denseBelow, item, oneofs,
                    required, repBase, size>>
    BY <1>15 DEF vars, parseVars, layoutVars
  <2>2. Indices' = Indices /\ Pending' = Pending /\ (LaidOut' <=> LaidOut)
    BY <2>1 DEF Indices, Pending, LaidOut
  <2>3. \A i, j : /\ InOneof(i, j)' <=> InOneof(i, j)
                  /\ Case(i)' = Case(i) /\ (SharesOneof(i, j)' <=> SharesOneof(i, j))
    BY <2>1 DEF InOneof, Case, SharesOneof
  <2>4. \A c : /\ OfClass(c)' = OfClass(c) /\ Plain(c)' = Plain(c) /\ Holding(c)' = Holding(c)
    BY <2>1, <2>2 DEF OfClass, Plain, Holding
  <2>5. LastHasbit' = LastHasbit /\ HeaderBytes' = HeaderBytes
    BY <2>4 DEF LastHasbit, HeaderBytes
  <2>6. \A r : SlotCount(r)' = SlotCount(r) /\ RegionTop(r)' = RegionTop(r)
    BY <2>1, <2>4 DEF SlotCount, RegionTop, CasesUpTo
  <2>7. \A i : Hasbit(i)' = Hasbit(i)
    BY <2>1, <2>4 DEF Hasbit
  <2>8. TypeOK'
    BY <1>0, <2>1, <2>2 DEF ParseInv, TypeOK
  <2>9. Numbered' /\ SubsKnown'
    BY <1>0, <2>1, <2>2 DEF ParseInv, Numbered, SubsKnown
  <2>10. Grouped'
    BY <1>0, <2>1, <2>2, <2>3 DEF ParseInv, Grouped, Fits
  <2>11. (HasbitsSet' <=> HasbitsSet) /\ (RegionsSet' <=> RegionsSet)
    <3>1. HasbitsSet' <=> HasbitsSet
      BY <2>1, <2>2, <2>4, <2>5, <2>7 DEF HasbitsSet
    <3>2. RegionsSet' <=> RegionsSet
      BY <2>1, <2>5, <2>6 DEF RegionsSet
    <3> QED
      BY <3>1, <3>2
  <2>12. SlotsApart'
    BY <2>1, <2>2, <2>3 DEF TableInv, LayoutInv, SlotsApart
  <2>13. SlotsInside'
    BY <2>1, <2>2, <2>3, <2>8 DEF TableInv, LayoutInv, SlotsInside
  <2>14. HasbitsOwned'
    BY <2>1, <2>2, <2>3, <2>4 DEF TableInv, LayoutInv, HasbitsOwned
  <2> QED
    BY <1>0, <2>1, <2>5, <2>8, <2>9, <2>10, <2>11, <2>12, <2>13, <2>14
       DEF TableInv, ParseInv, LayoutInv
<1>16. CASE Next
  <2>1. ASSUME NEW t \in Types, Field(t, FALSE) PROVE TableInv'
    BY <1>3, <2>1
  <2>2. ASSUME NEW t \in RepeatedTypes, Field(t, TRUE) PROVE TableInv'
    BY <1>3, <2>2, DescriptorsAssumption
  <2>3. CASE Stop
    BY <1>15, <2>3 DEF Stop
  <2> QED
    BY <1>1, <1>2, <1>4, <1>5, <1>6, <1>7, <1>8, <1>9, <1>10, <1>11, <1>12, <1>13, <1>14,
       <1>16, <2>1, <2>2, <2>3, Zenon DEF Next
<1> QED
  BY <1>15, <1>16

LEMMA TableAlways == Spec => []TableInv
<1>1. Init => TableInv
  BY BlankInv DEF Init, Blank
<1> QED
  BY <1>1, TableNext, PTL DEF Spec

(* No byte of a laid out message serves two purposes, whatever the          *)
(* descriptor: parse, assign_hasbits, calculate_alignments and              *)
(* assign_offsets give every field, case and hasbit storage of its own.     *)
THEOREM SlotsAlwaysApart == Spec => []SlotsApart
<1>1. TableInv => SlotsApart
  BY DEF TableInv, LayoutInv
<1> QED
  BY <1>1, TableAlways, PTL

(* A table's size covers its fields and cases, each aligned for what it     *)
(* holds, unless rounding it up to eight wrapped it to zero.                *)
THEOREM SlotsAlwaysInside == Spec => []SlotsInside
<1>1. TableInv => SlotsInside
  BY DEF TableInv, LayoutInv
<1> QED
  BY <1>1, TableAlways, PTL

(* What a decode takes from a table unchecked is right: the required_count, *)
(* the sign and the range of a presence, dense_below.                       *)
THEOREM LookupsAlwaysAgree == Spec => []LookupsAgree
<1>1. TableInv => LookupsAgree
  BY DEF TableInv, LayoutInv, LookupsAgree, ParseInv, Numbered, DensePrefix
<1> QED
  BY <1>1, TableAlways, PTL

-----------------------------------------------------------------------------
(* A message short enough for every distance to its sub slots to fit a u16. *)
SubsFit == 12 * MaxFields + 4 <= 4 * U16Max

SubFields == {i \in Indices : fields[i].type \in SubTypes}

(* Each sub field before the n-th took a slot of 8 bytes, and every field   *)
(* its 12 from the distance.                                                *)
LEMMA DistanceOf ==
  ASSUME SubsFit, ParseInv, pc # "done", Len(fields) <= MaxFields,
         NEW F, F[0] = FieldBytes, FieldBytes \in Nat,
         FieldBytes <= 12 * Len(fields) + 7,
         \A i \in Indices : F[i] = StepOver(fields[i], F[i - 1])
  PROVE  /\ \A k \in 0 .. Len(fields) : F[k] = (FieldBytes + 8 * UpTo(SubFields, k)) - 12 * k
         /\ \A k \in 1 .. Len(fields) : F[k - 1] \in Int => F[k - 1] \div 4 <= U16Max
<1>0. PICK n, b, S : n = Len(fields) /\ b = FieldBytes /\ S = SubFields
  OBVIOUS
<1>1. /\ n \in Nat /\ Indices = 1 .. n /\ S \in SUBSET (1 .. n) /\ b \in Nat /\ b <= 12 * n + 7
      /\ n <= MaxFields /\ F[0] = b
  BY <1>0 DEF ParseInv, TypeOK, Indices, SubFields
<1>2. ASSUME NEW j \in Nat, j < n
      PROVE  /\ UpTo(S, j) \in Nat /\ UpTo(S, j) <= j
             /\ (b + 8 * UpTo(S, j)) - 12 * j <= 4 * U16Max + 3
  <2>1. PICK u : u = UpTo(S, j)
    OBVIOUS
  <2>2. u \in Nat
    BY <1>1, <2>1, UpToType
  <2>3. u <= j
    BY <1>1, <2>1, UpToBound
  <2>4. 12 * MaxFields + 4 <= 4 * U16Max /\ MaxFields \in Nat /\ U16Max \in Nat
    BY LimitsAssumption DEF SubsFit
  <2>5. (b + 8 * u) - 12 * j <= 4 * U16Max + 3
    BY <1>1, <1>2, <2>2, <2>3, <2>4
  <2> QED
    BY <2>1, <2>2, <2>3, <2>5
<1>3. ASSUME NEW j \in Nat, j < n, F[j] = (b + 8 * UpTo(S, j)) - 12 * j
      PROVE  /\ F[j] \in Int /\ F[j] \div 4 <= U16Max
             /\ F[j + 1] = (b + 8 * UpTo(S, j + 1)) - 12 * (j + 1)
  <2>1. PICK k, u, v : k = j + 1 /\ u = UpTo(S, j) /\ v = F[j]
    OBVIOUS
  <2>2. k \in Indices /\ k \in Nat /\ k > 0 /\ k - 1 = j /\ u \in Nat
    BY <1>1, <1>2, <1>3, <2>1
  <2>3. v = (b + 8 * u) - 12 * j /\ v \in Int /\ v <= 4 * U16Max + 3
    BY <1>1, <1>2, <1>3, <2>1, <2>2
  <2>4. v \div 4 <= U16Max
    BY <2>3, LimitsAssumption
  <2>5. F[k] = StepOver(fields[k], v)
    BY <2>1, <2>2
  <2>6. fields[k].sub = IF k \in S THEN 0 ELSE NoSub
    BY <1>0, <2>2 DEF ParseInv, SubsKnown, SubFields
  <2>7. j \in Nat /\ b \in Nat /\ u \in Nat /\ k = j + 1 /\ v = (b + 8 * u) - 12 * j
    BY <1>1, <1>3, <2>1, <2>2, <2>3
  <2>8. CASE k \in S
    <3>1. fields[k].sub # NoSub
      BY <2>6, <2>8 DEF NoSub
    <3>2. Kept(fields[k], v)
      BY <2>4, <3>1 DEF Kept
    <3>3. F[k] = v + (8 - 12)
      BY <2>5, <3>1, <3>2 DEF StepOver
    <3>4. UpTo(S, k) = u + 1
      <4>1. UpTo(S, k) = UpTo(S, k - 1) + 1
        BY <1>1, <2>2, <2>8, UpToStep
      <4> QED
        BY <2>1, <2>2, <4>1
    <3>5. v + (8 - 12) = (b + 8 * (u + 1)) - 12 * k
      BY <2>7
    <3> QED
      BY <2>1, <2>3, <2>4, <3>3, <3>4, <3>5
  <2>9. CASE k \notin S
    <3>1. fields[k].sub = NoSub
      BY <2>6, <2>9
    <3>2. F[k] = v - 12
      BY <2>5, <3>1 DEF StepOver, Kept
    <3>3. UpTo(S, k) = u
      <4>1. UpTo(S, k) = UpTo(S, k - 1)
        BY <1>1, <2>2, <2>9, UpToStep
      <4> QED
        BY <2>1, <2>2, <4>1
    <3>4. v - 12 = (b + 8 * u) - 12 * k
      BY <2>7
    <3> QED
      BY <2>1, <2>3, <2>4, <3>2, <3>3, <3>4
  <2> QED
    BY <2>8, <2>9
<1>4. \A k \in 0 .. n : F[k] = (b + 8 * UpTo(S, k)) - 12 * k
  <2> DEFINE T == {k \in Nat : k <= n /\ F[k] # (b + 8 * UpTo(S, k)) - 12 * k}
  <2>1. SUFFICES ASSUME T # {} PROVE FALSE
    <3>1. ASSUME NEW k \in 0 .. n PROVE k \in Nat /\ k <= n
      BY <1>1
    <3>2. ASSUME T = {}, NEW k \in 0 .. n PROVE F[k] = (b + 8 * UpTo(S, k)) - 12 * k
      BY <3>1, <3>2, Zenon
    <3> QED
      BY <3>2
  <2>2. T \in SUBSET Nat
    OBVIOUS
  <2>3. PICK k \in T : \A y \in T : k <= y
    BY <2>1, <2>2, LeastNat
  <2>4. k \in Nat /\ k <= n /\ F[k] # (b + 8 * UpTo(S, k)) - 12 * k
    BY <2>3
  <2>5. k # 0
    <3>1. UpTo(S, 0) = 0
      BY <1>1, UpToType
    <3> QED
      BY <1>1, <2>4, <3>1
  <2>6. PICK j : j = k - 1
    OBVIOUS
  <2>7. j \in Nat /\ j < n /\ j \notin T /\ k = j + 1
    BY <1>1, <2>3, <2>4, <2>5, <2>6
  <2>8. F[j] = (b + 8 * UpTo(S, j)) - 12 * j
    BY <1>1, <2>7
  <2> QED
    BY <1>3, <2>4, <2>7, <2>8
<1>5. ASSUME NEW k \in 1 .. n PROVE F[k - 1] \div 4 <= U16Max
  <2>1. PICK j : j = k - 1
    OBVIOUS
  <2>2. j \in Nat /\ j < n /\ j \in 0 .. n
    BY <1>1, <2>1
  <2> QED
    BY <1>3, <1>4, <2>1, <2>2
<1> QED
  BY <1>0, <1>4, <1>5

LEMMA SubsAllocated ==
  ASSUME SubsFit, TableInv, Len(fields) <= MaxFields, AllocateSubs
  PROVE  SubsFollowFields'
<1>0. ParseInv /\ TypeOK
  BY DEF TableInv, ParseInv
<1>1. /\ pc = "subs" /\ Len(fields') = Len(fields)
      /\ \A i \in Indices : /\ fields'[i].type = fields[i].type
                            /\ fields'[i].sub = AllocateSub(fields[i], Distances[i])
  BY <1>0, AllocatedFields DEF SameFields
<1>2. PICK n, b, S : n = Len(fields) /\ b = FieldBytes /\ S = SubFields
  OBVIOUS
<1>3. n \in Nat /\ Indices = 1 .. n /\ S \in SUBSET (1 .. n)
  BY <1>0, <1>2 DEF TypeOK, Indices, SubFields
<1>4. PICK F : /\ F[0] = FieldBytes /\ FieldBytes \in Nat
               /\ FieldBytes <= 12 * Len(fields) + 7 /\ FieldBytes % 8 = 0
               /\ \A i \in Indices : /\ Distances[i] = F[i - 1] /\ F[i - 1] \in Nat
                                     /\ F[i] = StepOver(fields[i], F[i - 1])
  BY <1>0, DistanceSteps
<1>5. /\ \A k \in 0 .. n : F[k] = (b + 8 * UpTo(S, k)) - 12 * k
      /\ \A k \in 1 .. n : F[k - 1] \in Int => F[k - 1] \div 4 <= U16Max
  <2>1. \A i \in Indices : F[i] = StepOver(fields[i], F[i - 1])
    BY <1>4
  <2>2. pc # "done"
    BY <1>1
  <2> QED
    BY <1>0, <1>2, <1>4, <2>1, <2>2, DistanceOf
<1>6. ASSUME NEW i \in 1 .. n
      PROVE  IF i \in S
             THEN fields'[i].sub # NoSub
                  /\ 12 * (i - 1) + 4 * fields'[i].sub = b + 8 * (UpTo(S, i) - 1)
             ELSE fields'[i].sub = NoSub
  <2>1. PICK j, v, u, s : j = i - 1 /\ v = F[j] /\ u = UpTo(S, j) /\ s = fields'[i].sub
    OBVIOUS
  <2>2. j \in Nat /\ j \in 0 .. n /\ i \in Indices /\ i \in Nat /\ i > 0
    BY <1>3, <2>1
  <2>3. v \in Nat /\ v \div 4 <= U16Max /\ s = AllocateSub(fields[i], v)
    BY <1>1, <1>4, <1>5, <2>1, <2>2
  <2>4. v = (b + 8 * u) - 12 * j /\ u \in Nat /\ b \in Nat /\ b % 8 = 0
    BY <1>2, <1>3, <1>4, <1>5, <2>1, <2>2, UpToType
  <2>5. fields[i].sub = IF i \in S THEN 0 ELSE NoSub
    BY <1>0, <1>1, <1>2, <2>2 DEF ParseInv, SubsKnown, SubFields
  <2>6. CASE i \in S
    <3>1. Kept(fields[i], v)
      BY <2>3, <2>5, <2>6 DEF Kept, NoSub
    <3>2. s = v \div 4
      BY <2>3, <3>1 DEF AllocateSub
    <3>3. UpTo(S, i) = u + 1
      BY <1>3, <2>1, <2>2, <2>6, UpToStep
    <3>4. 4 * s = v /\ s \in Nat
      BY <2>2, <2>3, <2>4, <3>2
    <3>5. 12 * j + 4 * s = b + 8 * ((u + 1) - 1)
      <4>1. j \in Nat /\ u \in Nat /\ b \in Nat /\ 4 * s = (b + 8 * u) - 12 * j
        BY <2>2, <2>4, <3>4
      <4> QED
        BY <3>4, <4>1
    <3> QED
      BY <2>1, <2>6, <3>3, <3>4, <3>5 DEF NoSub
  <2>7. CASE i \notin S
    <3>1. ~Kept(fields[i], v)
      BY <2>5, <2>7 DEF Kept
    <3> QED
      BY <2>1, <2>3, <2>7, <3>1 DEF AllocateSub
  <2> QED
    BY <2>6, <2>7
<1>7. Indices' = Indices /\ FieldBytes' = b
  BY <1>1, <1>2 DEF Indices, FieldBytes
<1>8. {i \in Indices : fields[i].type \in {"group", "message", "enum"}}' = S
  BY <1>1, <1>2, <1>7 DEF SubFields, SubTypes
<1> QED
  BY <1>3, <1>6, <1>7, <1>8 DEF SubsFollowFields

LEMMA LengthKept ==
  ASSUME TypeOK, Len(fields) <= MaxFields, [Next]_vars
  PROVE  Len(fields') <= MaxFields
<1>1. CASE Fail
  <2>1. Len(fields') = 0
    BY <1>1 DEF Fail
  <2> QED
    BY <2>1, LimitsAssumption
<1>2. CASE fields' = fields
  BY <1>2
<1>3. ASSUME NEW f, fields' = Append(fields, f), Len(fields) < MaxFields
      PROVE  Len(fields') <= MaxFields
  <2>1. Len(fields) \in Nat /\ Len(fields') = Len(fields) + 1
    BY <1>3 DEF TypeOK
  <2> QED
    BY <1>3, <2>1, LimitsAssumption
<1>4. ASSUME NEW i, NEW g, fields' = [fields EXCEPT ![i] = g]
      PROVE  Len(fields') <= MaxFields
  <2>1. Len(fields') = Len(fields)
    BY <1>4 DEF TypeOK
  <2> QED
    BY <2>1
<1>5. ASSUME NEW G, fields' = [i \in Indices |-> G[i]] PROVE Len(fields') <= MaxFields
  <2>1. Len(fields) \in Nat /\ Indices = 1 .. Len(fields)
    BY DEF TypeOK, Indices
  <2>2. Len(fields') = Len(fields)
    BY <1>5, <2>1
  <2> QED
    BY <2>2
<1>6. CASE UNCHANGED vars
  BY <1>2, <1>6 DEF vars
<1>7. CASE Next /\ ~Fail
  <2>1. CASE Empty \/ Version \/ MessageSet \/ StartOneofs \/ NextOneof \/ EndOfBody
             \/ EndOfOneofs \/ CalculateAlignments \/ Stop
    BY <1>2, <1>7, <2>1 DEF Empty, Version, MessageSet, StartOneofs, NextOneof, EndOfBody,
         EndOfOneofs, CalculateAlignments, Stop, vars
  <2>2. ASSUME NEW t, NEW repeated, Field(t, repeated) PROVE Len(fields') <= MaxFields
    BY <1>3, <1>7, <2>2 DEF Field
  <2>3. ASSUME NEW m, MessageModifier(m) PROVE Len(fields') <= MaxFields
    BY <1>2, <2>3 DEF MessageModifier
  <2>4. ASSUME NEW m, FieldModifier(m) PROVE Len(fields') <= MaxFields
    BY <1>4, <1>7, <2>4 DEF FieldModifier
  <2>5. ASSUME NEW n, Skip(n) PROVE Len(fields') <= MaxFields
    BY <1>2, <1>7, <2>5 DEF Skip
  <2>6. ASSUME NEW n, OneofMember(n) PROVE Len(fields') <= MaxFields
    <3>1. PICK i : fields' = [fields EXCEPT ![i].class = "oneof"]
      BY <1>7, <2>6 DEF OneofMember
    <3>2. PICK g : fields' = [fields EXCEPT ![i] = g]
      BY <3>1
    <3> QED
      BY <1>4, <3>2
  <2>7. CASE AssignHasbits
    <3>1. fields' = [i \in Indices |-> [fields[i] EXCEPT !.presence = Hasbit(i)]]
      BY <1>7, <2>7 DEF AssignHasbits
    <3>2. fields' = [i \in Indices |-> fields'[i]]
      BY <3>1
    <3> QED
      BY <1>5, <3>2
  <2>8. CASE ParseMap
    <3>1. fields' = [i \in Indices |-> [fields[i] EXCEPT !.offset = 16 * i]]
      BY <1>7, <2>8 DEF ParseMap
    <3>2. fields' = [i \in Indices |-> fields'[i]]
      BY <3>1
    <3> QED
      BY <1>5, <3>2
  <2>9. CASE AssignOffsets
    <3>1. fields' = [i \in Indices |-> Placed(i)]
      BY <1>7, <2>9 DEF AssignOffsets
    <3>2. fields' = [i \in Indices |-> fields'[i]]
      BY <3>1
    <3> QED
      BY <1>5, <3>2
  <2>10. CASE AllocateSubs
    BY <2>10, AllocatedFields
  <2>11. CASE Malformed
    BY <1>1, <2>11 DEF Malformed
  <2> QED
    BY <1>7, <2>1, <2>2, <2>3, <2>4, <2>5, <2>6, <2>7, <2>8, <2>9, <2>10, <2>11, Zenon DEF Next
<1> QED
  BY <1>1, <1>6, <1>7

(* The k-th submessage, group or closed enum field points at the k-th slot  *)
(* after the fields, in a message of so few fields that no distance is      *)
(* beyond a u16: allocate_subs drops the slots of a longer one.             *)
THEOREM SubsAlwaysFollow == SubsFit => (Spec => []SubsFollowFields)
<1> DEFINE I == TableInv /\ Len(fields) <= MaxFields /\ SubsFollowFields
<1> SUFFICES ASSUME SubsFit PROVE Spec => []SubsFollowFields
  OBVIOUS
<1>1. Init => I
  <2> SUFFICES ASSUME Init PROVE I
    OBVIOUS
  <2>1. Len(fields) = 0 /\ pc = "version"
    BY DEF Init
  <2> QED
    BY <2>1, BlankInv, LimitsAssumption DEF Init, Blank, SubsFollowFields
<1>2. I /\ [Next]_vars => I'
  <2> SUFFICES ASSUME I, [Next]_vars PROVE I'
    OBVIOUS
  <2>1. TableInv'
    BY TableNext
  <2>2. Len(fields') <= MaxFields
    BY LengthKept DEF TableInv, ParseInv
  <2>3. SubsFollowFields'
    <3>1. CASE AllocateSubs
      BY <3>1, SubsAllocated
    <3>2. CASE UNCHANGED vars
      BY <3>2 DEF vars, SubsFollowFields, Indices, FieldBytes
    <3>3. CASE pc' # "done"
      BY <3>3 DEF SubsFollowFields
    <3>4. AllocateSubs \/ UNCHANGED vars \/ pc' # "done"
      BY DEF Next, Empty, Version, MessageSet, Malformed, Field, MessageModifier, FieldModifier,
         Skip, StartOneofs, OneofMember, NextOneof, EndOfBody, EndOfOneofs, AssignHasbits,
         ParseMap, CalculateAlignments, AssignOffsets, Stop, Fail
    <3> QED
      BY <3>1, <3>2, <3>3, <3>4
  <2> QED
    BY <2>1, <2>2, <2>3
<1>3. I => SubsFollowFields
  OBVIOUS
<1> HIDE DEF I
<1> QED
  BY <1>1, <1>2, <1>3, PTL DEF Spec

-----------------------------------------------------------------------------
(***************************************************************************)
(* The varints of descriptors                                              *)
(***************************************************************************)

LEMMA SmallPowers ==
  /\ PowerOf2(0) = 1 /\ PowerOf2(1) = 2 /\ PowerOf2(2) = 4 /\ PowerOf2(3) = 8
  /\ PowerOf2(4) = 16 /\ PowerOf2(5) = 32 /\ PowerOf2(6) = 64
<1>1. PowerOf2(0) = 1 /\ PowerOf2(0 + 1) = 2 * PowerOf2(0)
  BY Powers
<1>2. PowerOf2(1 + 1) = 2 * PowerOf2(1) /\ PowerOf2(2 + 1) = 2 * PowerOf2(2)
  BY Powers
<1>3. PowerOf2(3 + 1) = 2 * PowerOf2(3) /\ PowerOf2(4 + 1) = 2 * PowerOf2(4)
  BY Powers
<1>4. PowerOf2(5 + 1) = 2 * PowerOf2(5)
  BY Powers
<1>5. 0 + 1 = 1 /\ 1 + 1 = 2 /\ 2 + 1 = 3 /\ 3 + 1 = 4 /\ 4 + 1 = 5 /\ 5 + 1 = 6
  OBVIOUS
<1> QED
  BY <1>1, <1>2, <1>3, <1>4, <1>5

(* The smallest power that covers x is the only one log2_ceiling gives.     *)
LEMMA CeilingIs ==
  ASSUME NEW k \in 1 .. 6, NEW x \in Nat, x <= PowerOf2(k), PowerOf2(k - 1) < x
  PROVE  Log2Ceiling(x) = k
<1> DEFINE P(j) == x <= PowerOf2(j) /\ (j = 0 \/ PowerOf2(j - 1) < x)
<1>1. WordBits \in Nat /\ k \in 0 .. WordBits /\ P(k)
  BY WordBitsAssumption
<1>2. ASSUME NEW j \in 0 .. WordBits, P(j) PROVE j = k
  <2>1. j \in Nat /\ k \in Nat /\ PowerOf2(j) \in Nat /\ PowerOf2(k) \in Nat
    BY <1>1, Powers
  <2>2. CASE j < k
    <3>1. k - 1 \in Nat /\ j \in 0 .. k - 1
      BY <2>1, <2>2
    <3>2. PowerOf2(j) <= PowerOf2(k - 1) /\ PowerOf2(k - 1) \in Nat
      BY <3>1, PowersGrow, Powers
    <3> QED
      BY <1>2, <2>1, <3>2
  <2>3. CASE k < j
    <3>1. j - 1 \in Nat /\ k \in 0 .. j - 1 /\ j # 0
      BY <2>1, <2>3
    <3>2. PowerOf2(k) <= PowerOf2(j - 1) /\ PowerOf2(j - 1) \in Nat
      BY <3>1, PowersGrow, Powers
    <3>3. PowerOf2(j - 1) < x
      BY <1>2, <3>1
    <3> QED
      BY <2>1, <3>2, <3>3
  <2> QED
    BY <2>1, <2>2, <2>3
<1>3. Log2Ceiling(x) = CHOOSE j \in 0 .. WordBits : P(j)
  BY DEF Log2Ceiling
<1> HIDE DEF P
<1> QED
  BY <1>1, <1>2, <1>3

Ranges == {ModifierRange, SkipRange, OneofRange}
RangeBits(range) ==
  IF range = ModifierRange THEN 4 ELSE IF range = SkipRange THEN 5 ELSE 6

(* Either side's formula gives the digits of a range their width.           *)
LEMMA DigitBits ==
  ASSUME NEW range \in Ranges
  PROVE  /\ RangeBits(range) \in {4, 5, 6} /\ range.min \in Nat /\ range.max \in Nat
         /\ BitsPerChar(range) = RangeBits(range)
         /\ BitsPerCharEnc(range) = RangeBits(range)
         /\ PowerOf2(RangeBits(range)) = range.max - range.min + 1
<1>1. CASE range = ModifierRange
  <2>1. range.min = 42 /\ range.max = 57 /\ RangeBits(range) = 4
    BY <1>1 DEF ModifierRange, RangeBits
  <2>2. Log2Ceiling(15) = 4 /\ Log2Ceiling(16) = 4
    <3>1. 4 - 1 = 3
      OBVIOUS
    <3> QED
      BY <3>1, SmallPowers, CeilingIs
  <2> QED
    BY <2>1, <2>2, SmallPowers DEF BitsPerChar, BitsPerCharEnc
<1>2. CASE range = SkipRange
  <2>1. range.min = 60 /\ range.max = 91 /\ RangeBits(range) = 5
    BY <1>2 DEF ModifierRange, SkipRange, RangeBits
  <2>2. Log2Ceiling(31) = 5 /\ Log2Ceiling(32) = 5
    <3>1. 5 - 1 = 4
      OBVIOUS
    <3> QED
      BY <3>1, SmallPowers, CeilingIs
  <2> QED
    BY <2>1, <2>2, SmallPowers DEF BitsPerChar, BitsPerCharEnc
<1>3. CASE range = OneofRange
  <2>1. range.min = 0 /\ range.max = 63 /\ RangeBits(range) = 6
    BY <1>3 DEF ModifierRange, SkipRange, OneofRange, RangeBits
  <2>2. Log2Ceiling(63) = 6 /\ Log2Ceiling(64) = 6
    <3>1. 6 - 1 = 5
      OBVIOUS
    <3> QED
      BY <3>1, SmallPowers, CeilingIs
  <2> QED
    BY <2>1, <2>2, SmallPowers DEF BitsPerChar, BitsPerCharEnc
<1> QED
  BY <1>1, <1>2, <1>3 DEF Ranges

LEMMA RemainderBelow ==
  ASSUME NEW v \in Nat, NEW m \in Nat \ {0}
  PROVE  v % m \in Nat /\ v % m <= v
<1>1. PICK x, r : x = v \div m /\ r = v % m
  OBVIOUS
<1>2. x \in Nat /\ r \in 0 .. m - 1 /\ v = x * m + r
  BY <1>1
<1>3. x * m \in Nat
  BY <1>2
<1> QED
  BY <1>1, <1>2, <1>3

(* What a division leaves of a division, put together again.                *)
LEMMA RemainderSplit ==
  ASSUME NEW v \in Nat, NEW p \in Nat \ {0}, NEW q \in Nat \ {0}
  PROVE  v % (q * p) = (v % p) + ((v \div p) % q) * p
<1>1. PICK x, r : x = v \div p /\ r = v % p
  OBVIOUS
<1>2. x \in Nat /\ r \in 0 .. p - 1 /\ v = x * p + r
  BY <1>1
<1>3. PICK y, d : y = x \div q /\ d = x % q
  OBVIOUS
<1>4. y \in Nat /\ d \in 0 .. q - 1 /\ x = y * q + d
  BY <1>2, <1>3
<1>5. PICK m : m = q * p
  OBVIOUS
<1>6. m \in Nat \ {0}
  BY <1>5
<1>7. d * p + r \in 0 .. m - 1
  <2>1. d <= q - 1
    BY <1>4
  <2>2. d * p <= (q - 1) * p
    BY <1>4, <2>1
  <2>3. (q - 1) * p = m - p
    BY <1>5
  <2>4. d * p \in Nat
    BY <1>4
  <2> QED
    BY <1>2, <1>6, <2>2, <2>3, <2>4
<1>8. v = y * m + (d * p + r)
  <2>1. v = (y * q + d) * p + r
    BY <1>2, <1>4
  <2>2. (y * q + d) * p = (y * q) * p + d * p
    BY <1>4
  <2>3. (y * q) * p = y * m
    BY <1>4, <1>5
  <2>4. d * p \in Nat /\ y * m \in Nat
    BY <1>4, <1>6
  <2> QED
    BY <1>2, <2>1, <2>2, <2>3, <2>4
<1>a. v % m \in 0 .. m - 1 /\ \E z \in Int : v = z * m + (v % m)
  <2>1. v \in Int
    OBVIOUS
  <2> QED
    BY <1>6, <2>1, Remainder
<1>9. PICK z \in Int : v = z * m + (v % m) /\ v % m \in 0 .. m - 1
  BY <1>a
<1>10. v % m = d * p + r
  <2>1. PICK s, t : s = v % m /\ t = d * p + r
    OBVIOUS
  <2>2. s \in 0 .. m - 1 /\ t \in 0 .. m - 1 /\ y * m + t = z * m + s /\ y \in Int
    BY <1>4, <1>7, <1>8, <1>9, <2>1
  <2>3. t = s
    BY <1>6, <2>2, OneRemainder
  <2> QED
    BY <2>1, <2>3
<1> QED
  BY <1>1, <1>2, <1>3, <1>4, <1>5, <1>10

(* The digits D of a value, as many as it needs.                            *)
DigitsOf(D, val, n, b) ==
  /\ D = [k \in 1 .. n |-> (val \div PowerOf2(b * (k - 1))) % PowerOf2(b)]
  /\ val < PowerOf2(b * n) /\ (n = 1 \/ val >= PowerOf2(b * (n - 1)))

LEMMA VarintDigits ==
  ASSUME NEW range \in Ranges, NEW val \in 0 .. Word - 1
  PROVE  \E n \in Nat \ {0} : DigitsOf(EncodeVarint(val, range), val, n, RangeBits(range))
<1>1. PICK b : b = RangeBits(range)
  OBVIOUS
<1>2. b \in {4, 5, 6} /\ BitsPerCharEnc(range) = b
  BY <1>1, DigitBits
<1>3. WordBits \in Nat /\ WordBits >= 6 /\ Word = PowerOf2(WordBits) /\ Word \in Nat
  BY WordBitsAssumption, Powers DEF Word
<1> DEFINE P(n) == val < PowerOf2(b * n) /\ (n = 1 \/ val >= PowerOf2(b * (n - 1)))
           T == {n \in 1 .. WordBits : val < PowerOf2(b * n)}
<1>4. WordBits \in T
  <2>1. b * WordBits \in Nat /\ WordBits \in 0 .. b * WordBits
    BY <1>2, <1>3
  <2>2. PowerOf2(WordBits) <= PowerOf2(b * WordBits) /\ PowerOf2(b * WordBits) \in Nat
    BY <2>1, PowersGrow, Powers
  <2> QED
    BY <1>3, <2>2
<1>a. T \in SUBSET Nat /\ T # {}
  BY <1>3, <1>4
<1>5. PICK n \in T : \A m \in T : n <= m
  <2> HIDE DEF T
  <2> QED
    BY <1>a, LeastNat
<1>6. n \in 1 .. WordBits /\ P(n)
  <2>1. n \in 1 .. WordBits /\ val < PowerOf2(b * n)
    BY <1>5
  <2>2. ASSUME n # 1 PROVE val >= PowerOf2(b * (n - 1))
    <3>1. PICK m : m = n - 1
      OBVIOUS
    <3>2. m \in 1 .. WordBits /\ ~ (n <= m) /\ m \in Nat
      BY <2>1, <2>2, <3>1, <1>3
    <3>3. m \notin T
      BY <1>5, <3>2
    <3>4. ~ (val < PowerOf2(b * m))
      BY <3>2, <3>3
    <3>5. b * m \in Nat
      BY <1>2, <3>2
    <3>6. PowerOf2(b * m) \in Nat
      BY <3>5, Powers
    <3> QED
      BY <1>3, <3>1, <3>4, <3>6
  <2> QED
    BY <2>1, <2>2
<1> HIDE DEF T
<1> DEFINE c == CHOOSE k \in 1 .. WordBits : P(k)
<1>7. c \in 1 .. WordBits /\ P(c)
  <2> HIDE DEF P
  <2> QED
    BY <1>6
<1>8. EncodeVarint(val, range) = [k \in 1 .. c |-> (val \div PowerOf2(b * (k - 1))) % PowerOf2(b)]
  BY <1>2 DEF EncodeVarint
<1> HIDE DEF c
<1>9. c \in Nat \ {0}
  BY <1>3, <1>7
<1>10. DigitsOf(EncodeVarint(val, range), val, c, b)
  BY <1>7, <1>8 DEF DigitsOf
<1> QED
  BY <1>1, <1>9, <1>10

(* A varint that was encoded decodes to what it was.                        *)
LEMMA VarintRead ==
  ASSUME NEW range \in Ranges, NEW val \in 0 .. Word - 1,
         NEW D, D = EncodeVarint(val, range)
  PROVE  /\ D \in Seq(0 .. range.max - range.min) /\ Len(D) # 0
         /\ DecodeVarint(D, range) = val
<1>1. PICK b : b = RangeBits(range)
  OBVIOUS
<1>2. /\ b \in Nat /\ b >= 4 /\ BitsPerChar(range) = b /\ PowerOf2(b) = range.max - range.min + 1
      /\ range.max \in Nat /\ range.min \in Nat
  BY <1>1, DigitBits
<1>3. WordBits \in Nat /\ Word = PowerOf2(WordBits) /\ Word \in Nat
  BY WordBitsAssumption, Powers DEF Word
<1>4. PICK n \in Nat \ {0} : DigitsOf(D, val, n, b)
  BY <1>1, VarintDigits
<1>5. val \in Nat /\ n \in Nat /\ n >= 1 /\ val < Word
  BY <1>3
<1> DEFINE pow(k) == PowerOf2(b * k)
<1>6. ASSUME NEW k \in Nat PROVE pow(k) \in Nat /\ pow(k) >= 1 /\ pow(k + 1) = PowerOf2(b) * pow(k)
  <2>1. b * k \in Nat
    BY <1>2
  <2>2. b * (k + 1) = b + b * k
    BY <1>2
  <2>3. PowerOf2(b + b * k) = PowerOf2(b) * PowerOf2(b * k)
    BY <1>2, <2>1, PowersMultiply
  <2>4. PowerOf2(b * k) \in Nat /\ PowerOf2(b * k) >= 1
    BY <2>1, Powers
  <2> QED
    BY <2>2, <2>3, <2>4
<1>7. D = [k \in 1 .. n |-> (val \div pow(k - 1)) % PowerOf2(b)]
  BY <1>4 DEF DigitsOf
<1>8. val < pow(n) /\ (n = 1 \/ val >= pow(n - 1))
  BY <1>4 DEF DigitsOf
<1>9. pow(0) = 1
  <2>1. b * 0 = 0
    BY <1>2
  <2> QED
    BY <2>1, Powers
<1>10. PowerOf2(b) \in Nat /\ PowerOf2(b) >= 1
  BY <1>2, Powers
<1>x. ASSUME NEW k \in 1 .. n
      PROVE  /\ D[k] \in 0 .. PowerOf2(b) - 1 /\ D[k] * pow(k - 1) \in Nat
             /\ val % pow(k) = (val % pow(k - 1)) + D[k] * pow(k - 1)
             /\ pow(k) \in Nat /\ val % pow(k) \in Nat /\ val % pow(k) <= val
             /\ val % pow(k - 1) \in Nat
  <2>1. PICK j : j = k - 1
    OBVIOUS
  <2>2. j \in Nat /\ k = j + 1 /\ k \in Nat
    BY <2>1
  <2>3. PICK p, q, m : p = pow(j) /\ q = PowerOf2(b) /\ m = pow(k)
    OBVIOUS
  <2>4. p \in Nat \ {0} /\ q \in Nat \ {0} /\ m = q * p /\ m \in Nat \ {0}
    <3>1. pow(j) \in Nat /\ pow(j) >= 1 /\ pow(j + 1) = PowerOf2(b) * pow(j)
      BY <1>6, <2>2
    <3>2. pow(k) \in Nat /\ pow(k) >= 1
      BY <1>6, <2>2
    <3> HIDE DEF pow
    <3> QED
      BY <1>10, <2>2, <2>3, <3>1, <3>2
  <2>5. D[k] = (val \div p) % q
    BY <1>7, <2>1, <2>3
  <2>6. val \div p \in Nat
    BY <1>5, <2>4
  <2>7. D[k] \in 0 .. q - 1
    BY <2>4, <2>5, <2>6
  <2>8. val % m = (val % p) + D[k] * p
    <3>1. val % (q * p) = (val % p) + ((val \div p) % q) * p
      BY <1>5, <2>4, RemainderSplit
    <3> QED
      BY <2>4, <2>5, <3>1, Zenon
  <2>9. val % p \in Nat /\ val % m \in Nat /\ val % m <= val /\ D[k] * p \in Nat
    <3>1. val % p \in Nat /\ val % m \in Nat /\ val % m <= val
      BY <1>5, <2>4, RemainderBelow
    <3>6. D[k] * p \in Nat
      BY <2>4, <2>7
    <3> QED
      BY <3>1, <3>6
  <2> HIDE DEF pow
  <2> QED
    BY <2>1, <2>3, <2>4, <2>7, <2>8, <2>9
<1>12. D \in [1 .. n -> 0 .. range.max - range.min]
  <2>1. \A k \in 1 .. n : D[k] \in 0 .. PowerOf2(b) - 1
    BY <1>x
  <2>2. PowerOf2(b) - 1 = range.max - range.min
    BY <1>2
  <2> QED
    BY <1>7, <2>1, <2>2
<1>13. D \in Seq(0 .. range.max - range.min) /\ Len(D) = n /\ DOMAIN D = 1 .. n
  <2>1. PICK S : S = 0 .. range.max - range.min
    OBVIOUS
  <2>2. D \in [1 .. n -> S]
    BY <1>12, <2>1
  <2>3. D \in Seq(S) /\ Len(D) = n /\ DOMAIN D = 1 .. n
    BY <1>5, <2>2
  <2> QED
    BY <2>1, <2>3
<1>14. ~ ((Len(D) - 1) * b >= WordBits)
  <2>1. CASE n = 1
    BY <1>13, <2>1, <1>2, <1>3, WordBitsAssumption
  <2>2. CASE n # 1
    <3>1. val >= pow(n - 1)
      BY <1>8, <2>2
    <3>2. PICK e : e = b * (n - 1)
      OBVIOUS
    <3>3. e \in Nat /\ (Len(D) - 1) * b = e
      BY <1>2, <1>5, <1>13, <3>2
    <3>4. ASSUME e >= WordBits PROVE FALSE
      <4>1. WordBits \in 0 .. e
        BY <1>3, <3>3, <3>4
      <4>2. PowerOf2(WordBits) <= PowerOf2(e) /\ PowerOf2(e) \in Nat
        BY <3>3, <4>1, PowersGrow, Powers
      <4> QED
        BY <1>3, <1>5, <3>1, <3>2, <4>2
    <3> QED
      BY <3>3, <3>4
  <2> QED
    BY <2>1, <2>2
<1> DEFINE s == [k \in DOMAIN D |-> (D[k] * PowerOf2(b * (k - 1))) % Word]
           t == [k \in 1 .. n |-> D[k] * pow(k - 1)]
           F == [k \in 0 .. n |-> val % pow(k)]
<1>15. DecodeVarint(D, range) = SumOf(s)
  BY <1>2, <1>14 DEF DecodeVarint
<1>16. s = t
  <2>1. ASSUME NEW k \in 1 .. n PROVE (D[k] * pow(k - 1)) % Word = D[k] * pow(k - 1)
    <3>1. PICK x, y, z : x = D[k] * pow(k - 1) /\ y = val % pow(k) /\ z = val % pow(k - 1)
      OBVIOUS
    <3>2. x \in Nat /\ y = z + x /\ y <= val /\ y \in Nat /\ z \in Nat
      BY <1>x, <3>1
    <3>3. x % Word = x
      BY <1>3, <1>5, <3>2
    <3> QED
      BY <3>1, <3>3
  <2> QED
    BY <1>13, <2>1
<1>17. t \in [1 .. n -> Nat] /\ \A k \in 1 .. n : t[k] = D[k] * pow(k - 1)
  BY <1>x
<1>18. F[0] = 0 /\ F[n] = val /\ \A k \in 0 .. n : F[k] = val % pow(k)
  <2>1. 0 \in 0 .. n /\ n \in 0 .. n
    BY <1>5
  <2>2. val % 1 = 0
    BY <1>5
  <2>3. pow(n) \in Nat
    BY <1>5, <1>6
  <2>4. val % pow(n) = val
    <3> HIDE DEF pow
    <3> QED
      BY <1>5, <1>8, <2>3
  <2> QED
    BY <1>9, <2>1, <2>2, <2>4
<1>19. SumsOf(F, t, n)
  <2>1. ASSUME NEW k \in 0 .. n PROVE F[k] \in Nat
    <3>1. CASE k = 0
      BY <1>18, <3>1
    <3>2. CASE k # 0
      <4>1. k \in 1 .. n
        BY <3>2
      <4> QED
        BY <1>x, <1>18, <4>1
    <3> QED
      BY <3>1, <3>2
  <2>2. ASSUME NEW k \in 1 .. n PROVE F[k] = F[k - 1] + t[k]
    <3>1. k \in 0 .. n /\ k - 1 \in 0 .. n
      BY <1>5
    <3>2. F[k] = val % pow(k) /\ F[k - 1] = val % pow(k - 1)
      BY <1>18, <3>1
    <3>3. val % pow(k) = (val % pow(k - 1)) + t[k]
      BY <1>x, <1>17
    <3> QED
      BY <3>2, <3>3
  <2>3. F \in [0 .. n -> Nat]
    BY <2>1
  <2> HIDE DEF F, t
  <2> QED
    BY <1>18, <2>2, <2>3 DEF SumsOf
<1>20. SumOf(t) = F[n]
  <2> HIDE DEF F, t
  <2> QED
    BY <1>5, <1>17, <1>19, SumIs
<1> QED
  BY <1>5, <1>13, <1>15, <1>16, <1>18, <1>20

LEMMA WordIsNat == Word \in Nat \ {0}
<1>1. WordBits \in Nat
  BY WordBitsAssumption
<1>2. PowerOf2(WordBits) \in Nat /\ PowerOf2(WordBits) >= 1
  BY <1>1, Powers
<1> QED
  BY <1>2 DEF Word

LEMMA VarintType ==
  ASSUME NEW range \in Ranges, NEW D \in Seq(Int)
  PROVE  DecodeVarint(D, range) = Overlong \/ DecodeVarint(D, range) \in Nat
<1>1. PICK b : b = RangeBits(range)
  OBVIOUS
<1>2. b \in Nat /\ BitsPerChar(range) = b
  BY <1>1, DigitBits
<1>3. Word \in Nat \ {0}
  BY WordIsNat
<1> DEFINE s == [k \in DOMAIN D |-> (D[k] * PowerOf2(b * (k - 1))) % Word]
<1>4. ASSUME NEW k \in 1 .. Len(D) PROVE (D[k] * PowerOf2(b * (k - 1))) % Word \in Nat
  <2>1. k - 1 \in Nat /\ D[k] \in Int
    OBVIOUS
  <2>2. b * (k - 1) \in Nat
    BY <1>2, <2>1
  <2>3. PowerOf2(b * (k - 1)) \in Nat
    BY <2>2, Powers
  <2>4. PICK x : x = D[k] * PowerOf2(b * (k - 1))
    OBVIOUS
  <2>5. x \in Int
    BY <2>1, <2>3, <2>4
  <2>6. x % Word \in Nat
    BY <1>3, <2>5, Remainder
  <2> QED
    BY <2>4, <2>6
<1>5. s \in [1 .. Len(D) -> Nat] /\ Len(D) \in Nat
  BY <1>4
<1>6. SumOf(s) \in Nat
  <2> HIDE DEF s
  <2> QED
    BY <1>5, SumIsNat
<1> QED
  BY <1>2, <1>6 DEF DecodeVarint

-----------------------------------------------------------------------------
(***************************************************************************)
(* The tables of closed enums                                              *)
(***************************************************************************)

(* The mask holds values below its limit only.                              *)
EnumTables ==
  {e \in [maskLimit : Nat, mask : SUBSET Nat, tail : Seq(Nat), total : Nat,
          base : 0 .. Word - 1, asserted : BOOLEAN] :
     \A v \in e.mask : v < e.maskLimit}

(* What a table accepts, but for the values its mask hides.                 *)
ValuesOf(e) == e.mask \cup ToSet(e.tail)

LEMMA NewEnumIs == NewEnum \in EnumTables /\ ValuesOf(NewEnum) = {} /\ NewEnum.base = 0
<1>1. 0 \in 0 .. Word - 1
  BY WordIsNat
<1>2. <<>> \in Seq(Nat) /\ ToSet(<<>>) = {}
  BY DEF ToSet
<1> QED
  BY <1>1, <1>2 DEF NewEnum, EnumTables, ValuesOf

LEMMA ToSetAppend ==
  ASSUME NEW S, NEW s \in Seq(S), NEW v \in S
  PROVE  ToSet(Append(s, v)) = ToSet(s) \cup {v}
<1>1. /\ DOMAIN Append(s, v) = 1 .. Len(s) + 1 /\ DOMAIN s = 1 .. Len(s)
      /\ \A i \in 1 .. Len(s) : Append(s, v)[i] = s[i]
      /\ Append(s, v)[Len(s) + 1] = v /\ Len(s) \in Nat
  OBVIOUS
<1>2. ASSUME NEW x \in ToSet(Append(s, v)) PROVE x \in ToSet(s) \cup {v}
  <2>1. PICK i \in 1 .. Len(s) + 1 : x = Append(s, v)[i]
    BY <1>1 DEF ToSet
  <2>2. i = Len(s) + 1 \/ i \in 1 .. Len(s)
    BY <1>1
  <2> QED
    BY <1>1, <2>1, <2>2 DEF ToSet
<1>3. ASSUME NEW x \in ToSet(s) \cup {v} PROVE x \in ToSet(Append(s, v))
  <2>1. Len(s) + 1 \in 1 .. Len(s) + 1 /\ \A i \in 1 .. Len(s) : i \in 1 .. Len(s) + 1
    BY <1>1
  <2>2. x = v \/ \E i \in 1 .. Len(s) : x = s[i]
    BY <1>1 DEF ToSet
  <2> QED
    BY <1>1, <2>1, <2>2 DEF ToSet
<1> QED
  BY <1>2, <1>3

LEMMA ValueBuilt ==
  ASSUME NEW e \in EnumTables
  PROVE  /\ BuildValue(e) \in EnumTables /\ BuildValue(e).base = e.base
         /\ ValuesOf(BuildValue(e)) = ValuesOf(e) \cup {e.base}
<1>1. /\ e \in [maskLimit : Nat, mask : SUBSET Nat, tail : Seq(Nat), total : Nat,
                base : 0 .. Word - 1, asserted : BOOLEAN]
      /\ \A v \in e.mask : v < e.maskLimit
  BY DEF EnumTables
<1>2. e.base \in Nat /\ e.total + 1 \in Nat
  BY <1>1, WordIsNat
<1>3. CASE e.tail # <<>> \/ (e.base > MaskOnly /\ e.total + 1 < e.base \div 32)
  <2>1. BuildValue(e) = [e EXCEPT !.tail = Append(@, e.base), !.total = e.total + 1,
                                  !.asserted = @ /\ e.tail = <<>>]
    BY <1>3 DEF BuildValue
  <2>2. Append(e.tail, e.base) \in Seq(Nat)
    BY <1>1, <1>2
  <2>3. ToSet(Append(e.tail, e.base)) = ToSet(e.tail) \cup {e.base}
    BY <1>1, <1>2, ToSetAppend
  <2>4. /\ BuildValue(e).mask = e.mask /\ BuildValue(e).tail = Append(e.tail, e.base)
        /\ BuildValue(e).base = e.base
    BY <1>1, <2>1
  <2>5. BuildValue(e) \in EnumTables
    BY <1>1, <1>2, <2>1, <2>2 DEF EnumTables
  <2> QED
    BY <2>3, <2>4, <2>5 DEF ValuesOf
<1>4. CASE ~ (e.tail # <<>> \/ (e.base > MaskOnly /\ e.total + 1 < e.base \div 32))
  <2> DEFINE limit == (e.base \div 32 + 1) * 32
             top == IF e.maskLimit < limit THEN limit ELSE e.maskLimit
  <2>1. limit \in Nat /\ e.base < limit
    BY <1>2
  <2>2. top \in Nat /\ e.base < top /\ \A v \in e.mask : v < top
    BY <1>1, <1>2, <2>1
  <2>3. BuildValue(e) = [e EXCEPT !.mask = @ \cup {e.base}, !.total = e.total + 1,
                                  !.maskLimit = top]
    BY <1>4 DEF BuildValue
  <2> HIDE DEF top, limit
  <2>4. e.mask \cup {e.base} \in SUBSET Nat
    BY <1>1, <1>2
  <2>5. BuildValue(e) \in EnumTables
    BY <1>1, <1>2, <2>2, <2>3, <2>4 DEF EnumTables
  <2>6. /\ BuildValue(e).mask = e.mask \cup {e.base} /\ BuildValue(e).tail = e.tail
        /\ BuildValue(e).base = e.base
    BY <1>1, <2>3
  <2> QED
    BY <2>5, <2>6 DEF ValuesOf
<1> QED
  BY <1>3, <1>4

LEMMA Advanced ==
  ASSUME NEW e \in EnumTables, NEW n \in Int
  PROVE  /\ Advance(e, n) \in EnumTables /\ ValuesOf(Advance(e, n)) = ValuesOf(e)
         /\ Advance(e, n).base = (e.base + n) % Word
<1>1. /\ e \in [maskLimit : Nat, mask : SUBSET Nat, tail : Seq(Nat), total : Nat,
                base : 0 .. Word - 1, asserted : BOOLEAN]
      /\ \A v \in e.mask : v < e.maskLimit
  BY DEF EnumTables
<1>2. e.base + n \in Int
  BY <1>1, WordIsNat
<1>3. (e.base + n) % Word \in 0 .. Word - 1
  BY <1>2, WordIsNat, Remainder
<1>4. Advance(e, n) = [e EXCEPT !.base = (e.base + n) % Word]
  BY <1>1 DEF Advance
<1> QED
  BY <1>1, <1>3, <1>4 DEF EnumTables, ValuesOf

LEMMA BitBuilt ==
  ASSUME NEW e \in EnumTables, NEW set
  PROVE  /\ BuildBit(e, set) \in EnumTables
         /\ BuildBit(e, set).base = (e.base + 1) % Word
         /\ set => ValuesOf(BuildBit(e, set)) = ValuesOf(e) \cup {e.base}
         /\ ~set => ValuesOf(BuildBit(e, set)) = ValuesOf(e)
<1>1. CASE set
  <2>1. BuildBit(e, set) = Advance(BuildValue(e), 1)
    BY <1>1 DEF BuildBit
  <2>2. PICK t \in EnumTables : /\ t = BuildValue(e) /\ t.base = e.base
                               /\ ValuesOf(t) = ValuesOf(e) \cup {e.base}
    BY ValueBuilt
  <2>3. /\ Advance(t, 1) \in EnumTables /\ ValuesOf(Advance(t, 1)) = ValuesOf(t)
        /\ Advance(t, 1).base = (t.base + 1) % Word
    BY Advanced
  <2> QED
    BY <1>1, <2>1, <2>2, <2>3
<1>2. CASE ~set
  <2>1. BuildBit(e, set) = Advance(e, 1)
    BY <1>2 DEF BuildBit
  <2> QED
    BY <1>2, <2>1, Advanced
<1> QED
  BY <1>1, <1>2

(* Steps over a range, as a function for each step.                         *)
LEMMA MaskTabled ==
  ASSUME NEW e \in EnumTables, NEW bits
  PROVE  \E F : /\ F \in [0 .. 5 -> EnumTables] /\ F[0] = e /\ F[5] = BuildMask(e, bits)
                /\ \A i \in 1 .. 5 : F[i] = BuildBit(F[i - 1], i - 1 \in bits)
<1> DEFINE g == [i \in 1 .. 5 |-> [x \in EnumTables |-> BuildBit(x, i - 1 \in bits)]]
           R(f) == f = [i \in 0 .. 5 |-> IF i = 0 THEN e ELSE BuildBit(f[i - 1], i - 1 \in bits)]
           c == CHOOSE f : R(f)
<1>1. g \in [1 .. 5 -> [EnumTables -> EnumTables]]
  BY BitBuilt
<1>2. \A i \in 1 .. 5 : \A x \in EnumTables : g[i][x] = BuildBit(x, i - 1 \in bits)
  OBVIOUS
<1> HIDE DEF g
<1>3. PICK F : Tabled(F, g, e, 5, EnumTables)
  BY <1>1, TableExists
<1>4. F \in [0 .. 5 -> EnumTables] /\ F[0] = e /\ \A i \in 1 .. 5 : F[i] = g[i][F[i - 1]]
  BY <1>3 DEF Tabled
<1>5. \A i \in 1 .. 5 : F[i] = BuildBit(F[i - 1], i - 1 \in bits)
  <2>1. \A i \in 1 .. 5 : F[i - 1] \in EnumTables
    <3>1. \A i \in 1 .. 5 : i - 1 \in 0 .. 5
      OBVIOUS
    <3> QED
      BY <1>4, <3>1
  <2> QED
    BY <1>2, <1>4, <2>1
<1>6. F = [i \in 0 .. 5 |-> IF i = 0 THEN e ELSE BuildBit(F[i - 1], i - 1 \in bits)]
  <2>1. \A i \in 0 .. 5 : i = 0 \/ i \in 1 .. 5
    OBVIOUS
  <2>2. \A i \in 0 .. 5 : F[i] = IF i = 0 THEN e ELSE BuildBit(F[i - 1], i - 1 \in bits)
    BY <1>4, <1>5, <2>1, Zenon
  <2>3. F = [i \in 0 .. 5 |-> F[i]]
    BY <1>4
  <2> QED
    BY <2>2, <2>3
<1>7. R(c)
  BY <1>6
<1>8. BuildMask(e, bits) = c[5]
  BY DEF BuildMask
<1> HIDE DEF c
<1>9. IsTable(c, 5) /\ c[0] = e /\ \A i \in 1 .. 5 : c[i] = BuildBit(c[i - 1], i - 1 \in bits)
  BY <1>7 DEF IsTable
<1> HIDE DEF R
<1>10. IsTable(F, 5) /\ F[0] = c[0]
  BY <1>4, <1>9 DEF IsTable
<1>11. \A i \in 1 .. 5 : c[i - 1] = F[i - 1] => c[i] = F[i]
  BY <1>5, <1>9, Zenon
<1>12. c = F
  BY <1>9, <1>10, <1>11, TablesAgree
<1> QED
  BY <1>4, <1>5, <1>8, <1>12

(* The values a mask stands for, from base on.                              *)
MaskValues(base, bits) == {(base + bit) % Word : bit \in bits}

BitsBelow(bits, i) == {bit \in bits : bit < i}

LEMMA BelowStep ==
  ASSUME NEW bits \in SUBSET (0 .. 4)
  PROVE  /\ BitsBelow(bits, 0) = {} /\ BitsBelow(bits, 5) = bits
         /\ \A j \in 0 .. 4 :
              /\ j \in bits => BitsBelow(bits, j + 1) = BitsBelow(bits, j) \cup {j}
              /\ j \notin bits => BitsBelow(bits, j + 1) = BitsBelow(bits, j)
<1>1. \A bit \in bits : bit \in Int /\ 0 <= bit /\ bit <= 4
  OBVIOUS
<1>2. ASSUME NEW j \in 0 .. 4, j \in bits
      PROVE  BitsBelow(bits, j + 1) = BitsBelow(bits, j) \cup {j}
  <2>1. \A x \in bits : x < j + 1 <=> x < j \/ x = j
    BY <1>1
  <2>2. j < j + 1
    OBVIOUS
  <2> QED
    BY <1>2, <2>1, <2>2 DEF BitsBelow
<1>3. ASSUME NEW j \in 0 .. 4, j \notin bits
      PROVE  BitsBelow(bits, j + 1) = BitsBelow(bits, j)
  <2>1. \A x \in bits : x < j + 1 <=> x < j \/ x = j
    BY <1>1
  <2> QED
    BY <1>3, <2>1 DEF BitsBelow
<1>4. \A x \in bits : ~ (x < 0) /\ x < 5
  BY <1>1
<1>5. BitsBelow(bits, 0) = {} /\ BitsBelow(bits, 5) = bits
  BY <1>4 DEF BitsBelow
<1> QED
  BY <1>2, <1>3, <1>5

LEMMA MaskBuilt ==
  ASSUME NEW e \in EnumTables, NEW bits \in SUBSET (0 .. 4)
  PROVE  /\ BuildMask(e, bits) \in EnumTables
         /\ BuildMask(e, bits).base = (e.base + 5) % Word
         /\ ValuesOf(BuildMask(e, bits)) = ValuesOf(e) \cup MaskValues(e.base, bits)
<1>1. PICK F : /\ F \in [0 .. 5 -> EnumTables] /\ F[0] = e /\ F[5] = BuildMask(e, bits)
               /\ \A i \in 1 .. 5 : F[i] = BuildBit(F[i - 1], i - 1 \in bits)
  BY MaskTabled
<1>2. e.base \in 0 .. Word - 1 /\ e.base \in Nat /\ e.base < Word
  BY WordIsNat DEF EnumTables
<1> DEFINE Below(i) == BitsBelow(bits, i)
           Good(i) == /\ F[i].base = (e.base + i) % Word
                      /\ ValuesOf(F[i]) = ValuesOf(e) \cup MaskValues(e.base, Below(i))
           T == {i \in 0 .. 5 : Good(i)}
<1>3. 0 \in T
  <2>1. Below(0) = {}
    BY BelowStep
  <2>2. (e.base + 0) % Word = e.base
    BY <1>2, WordIsNat
  <2>3. MaskValues(e.base, {}) = {}
    BY DEF MaskValues
  <2>4. ValuesOf(F[0]) = ValuesOf(e) \cup MaskValues(e.base, Below(0))
    BY <1>1, <2>1, <2>3
  <2>5. Good(0)
    BY <1>1, <2>2, <2>4
  <2> QED
    BY <2>5
<1>4. ASSUME NEW i \in 1 .. 5, i - 1 \in T PROVE i \in T
  <2>1. PICK j : j = i - 1
    OBVIOUS
  <2>2. j \in 0 .. 4 /\ j \in 0 .. 5 /\ i = j + 1 /\ i \in 0 .. 5 /\ j \in Int
    BY <2>1
  <2>3. Good(j) /\ F[j] \in EnumTables
    BY <1>1, <1>4, <2>1, <2>2
  <2>4. F[i] = BuildBit(F[j], j \in bits)
    BY <1>1, <2>1
  <2>5. F[i].base = (e.base + i) % Word
    <3>1. F[i].base = (((e.base + j) % Word) + 1) % Word
      BY <2>3, <2>4, BitBuilt
    <3>2. e.base + j \in Int
      BY <1>2, <2>2
    <3>3. (((e.base + j) % Word) + 1) % Word = ((e.base + j) + 1) % Word
      BY <3>2, WordIsNat, RemainderOfSum
    <3>4. (e.base + j) + 1 = e.base + i
      BY <1>2, <2>2
    <3> QED
      BY <3>1, <3>3, <3>4
  <2>6. ValuesOf(F[i]) = ValuesOf(e) \cup MaskValues(e.base, Below(i))
    <3>1. CASE j \in bits
      <4>1. Below(i) = Below(j) \cup {j}
        BY <2>2, <3>1, BelowStep
      <4>2. MaskValues(e.base, Below(i)) = MaskValues(e.base, Below(j)) \cup {(e.base + j) % Word}
        BY <4>1 DEF MaskValues
      <4>3. ValuesOf(F[i]) = ValuesOf(F[j]) \cup {F[j].base}
        BY <2>3, <2>4, <3>1, BitBuilt
      <4> QED
        BY <2>3, <4>2, <4>3
    <3>2. CASE j \notin bits
      <4>1. Below(i) = Below(j)
        BY <2>2, <3>2, BelowStep
      <4>2. ValuesOf(BuildBit(F[j], FALSE)) = ValuesOf(F[j])
        BY <2>3, BitBuilt
      <4>3. (j \in bits) = FALSE
        BY <3>2
      <4> QED
        BY <2>3, <2>4, <4>1, <4>2, <4>3
    <3> QED
      BY <3>1, <3>2
  <2> QED
    BY <2>2, <2>5, <2>6
<1> HIDE DEF T
<1>5. \A i \in 1 .. 5 : i - 1 \in T => i \in T
  BY <1>4
<1>6. \A i \in 0 .. 5 : i \in T
  BY <1>3, <1>5, CountUp
<1>7. 5 \in T /\ 5 \in 0 .. 5
  BY <1>6
<1>8. Good(5)
  BY <1>7 DEF T
<1>9. Below(5) = bits
  BY BelowStep
<1> QED
  BY <1>1, <1>7, <1>8, <1>9

LEMMA SeqWithin ==
  ASSUME NEW S, NEW T, S \subseteq T, NEW s \in Seq(S)
  PROVE  s \in Seq(T)
<1>1. \A i \in 1 .. Len(s) : s[i] \in T
  OBVIOUS
<1> QED
  BY <1>1

LEMMA TokenTypes ==
  ASSUME NEW tok \in EnumTokens
  PROVE  \/ tok.kind = "mask" /\ tok.bits \in SUBSET (0 .. 4)
         \/ /\ tok.kind = "skip" /\ tok.kind # "mask" /\ tok.digits \in Seq(Int)
            /\ DecodeVarint(tok.digits, SkipRange) \in Int
<1>1. CASE tok \in [kind : {"mask"}, bits : SUBSET (0 .. 4)]
  BY <1>1
<1>2. CASE tok \in [kind : {"skip"}, digits : Seq(0 .. 31)]
  <2>1. tok.kind = "skip" /\ tok.kind # "mask" /\ tok.digits \in Seq(0 .. 31)
    BY <1>2
  <2>2. PICK d : d = tok.digits
    OBVIOUS
  <2>3. d \in Seq(Int)
    <3>1. 0 .. 31 \subseteq Int
      OBVIOUS
    <3> QED
      BY <2>1, <2>2, <3>1, SeqWithin, Zenon
  <2>4. SkipRange \in Ranges
    BY DEF Ranges
  <2>5. DecodeVarint(d, SkipRange) = -1 \/ DecodeVarint(d, SkipRange) \in Nat
    BY <2>3, <2>4, VarintType DEF Overlong
  <2> QED
    BY <2>1, <2>2, <2>3, <2>5
<1> QED
  BY <1>1, <1>2 DEF EnumTokens

(* What a token adds.                                                       *)
TokenValues(base, tok) ==
  IF tok.kind = "mask" THEN MaskValues(base, tok.bits) ELSE {}
TokenStep(tok) ==
  IF tok.kind = "mask" THEN 5 ELSE DecodeVarint(tok.digits, SkipRange)

LEMMA TokenBuilt ==
  ASSUME NEW e \in EnumTables, NEW tok \in EnumTokens
  PROVE  /\ BuildToken(e, tok) \in EnumTables
         /\ BuildToken(e, tok).base = (e.base + TokenStep(tok)) % Word
         /\ ValuesOf(BuildToken(e, tok)) = ValuesOf(e) \cup TokenValues(e.base, tok)
<1>1. CASE tok.kind = "mask" /\ tok.bits \in SUBSET (0 .. 4)
  <2>1. PICK b : b = tok.bits
    OBVIOUS
  <2>2. BuildToken(e, tok) = BuildMask(e, b)
    BY <1>1, <2>1 DEF BuildToken
  <2>3. TokenStep(tok) = 5 /\ TokenValues(e.base, tok) = MaskValues(e.base, b)
    BY <1>1, <2>1 DEF TokenStep, TokenValues
  <2>4. b \in SUBSET (0 .. 4)
    BY <1>1, <2>1
  <2> QED
    BY <2>2, <2>3, <2>4, MaskBuilt
<1>2. CASE /\ tok.kind # "mask" /\ DecodeVarint(tok.digits, SkipRange) \in Int
  <2>1. PICK n : n = DecodeVarint(tok.digits, SkipRange)
    OBVIOUS
  <2>2. BuildToken(e, tok) = Advance(e, n)
    BY <1>2, <2>1 DEF BuildToken
  <2>3. TokenStep(tok) = n /\ TokenValues(e.base, tok) = {} /\ n \in Int
    BY <1>2, <2>1 DEF TokenStep, TokenValues
  <2> QED
    BY <2>2, <2>3, Advanced
<1> QED
  BY <1>1, <1>2, TokenTypes

EnumSteps(tokens) ==
  [i \in 1 .. Len(tokens) |-> [x \in EnumTables |-> BuildToken(x, tokens[i])]]

LEMMA EnumTabled ==
  ASSUME NEW tokens \in Seq(EnumTokens)
  PROVE  /\ EnumSteps(tokens) \in [1 .. Len(tokens) -> [EnumTables -> EnumTables]]
         /\ \E F : /\ Tabled(F, EnumSteps(tokens), NewEnum, Len(tokens), EnumTables)
                   /\ BuildEnum(tokens) = F[Len(tokens)]
<1> DEFINE R(f) == f = [i \in 0 .. Len(tokens) |->
                          IF i = 0 THEN NewEnum ELSE BuildToken(f[i - 1], tokens[i])]
           c == CHOOSE f : R(f)
<1>1. PICK n : n = Len(tokens)
  OBVIOUS
<1>2. n \in Nat /\ \A i \in 1 .. n : tokens[i] \in EnumTokens
  BY <1>1
<1>3. PICK g : g = EnumSteps(tokens)
  OBVIOUS
<1>4. \A i \in 1 .. n : \A x \in EnumTables : BuildToken(x, tokens[i]) \in EnumTables
  BY <1>2, TokenBuilt
<1>5. g \in [1 .. n -> [EnumTables -> EnumTables]]
  BY <1>1, <1>3, <1>4 DEF EnumSteps
<1>6. \A i \in 1 .. n : \A x \in EnumTables : g[i][x] = BuildToken(x, tokens[i])
  BY <1>1, <1>3 DEF EnumSteps
<1>7. PICK F : Tabled(F, g, NewEnum, n, EnumTables)
  BY <1>2, <1>5, TableExists, NewEnumIs
<1>8. F \in [0 .. n -> EnumTables] /\ F[0] = NewEnum /\ \A i \in 1 .. n : F[i] = g[i][F[i - 1]]
  BY <1>7 DEF Tabled
<1>9. \A i \in 1 .. n : F[i] = BuildToken(F[i - 1], tokens[i])
  <2>1. \A i \in 1 .. n : F[i - 1] \in EnumTables
    <3>1. \A i \in 1 .. n : i - 1 \in 0 .. n
      BY <1>2
    <3> QED
      BY <1>8, <3>1
  <2> QED
    BY <1>6, <1>8, <2>1
<1>10. F = [i \in 0 .. n |-> IF i = 0 THEN NewEnum ELSE BuildToken(F[i - 1], tokens[i])]
  <2>1. \A i \in 0 .. n : i = 0 \/ i \in 1 .. n
    BY <1>2
  <2>2. \A i \in 0 .. n : F[i] = IF i = 0 THEN NewEnum ELSE BuildToken(F[i - 1], tokens[i])
    BY <1>8, <1>9, <2>1, Zenon
  <2>3. F = [i \in 0 .. n |-> F[i]]
    BY <1>8
  <2> QED
    BY <2>2, <2>3
<1>11. R(c)
  BY <1>1, <1>10
<1>12. BuildEnum(tokens) = c[n]
  BY <1>1 DEF BuildEnum
<1> HIDE DEF c
<1>13. IsTable(c, n) /\ c[0] = NewEnum /\ \A i \in 1 .. n : c[i] = BuildToken(c[i - 1], tokens[i])
  BY <1>1, <1>2, <1>11 DEF IsTable
<1> HIDE DEF R
<1>14. \A i \in 1 .. n : c[i - 1] \in EnumTables => c[i] = g[i][c[i - 1]]
  BY <1>6, <1>13
<1>15. Tabled(c, g, NewEnum, n, EnumTables)
  BY <1>2, <1>5, <1>13, <1>14, TableIs, NewEnumIs
<1> QED
  BY <1>1, <1>3, <1>5, <1>12, <1>15

LEMMA EnumGrown ==
  ASSUME NEW tokens \in Seq(EnumTokens)
  PROVE  /\ BuildEnum(tokens) \in EnumTables
         /\ \A tok \in EnumTokens :
              BuildEnum(Append(tokens, tok)) = BuildToken(BuildEnum(tokens), tok)
<1>1. PICK n, g : n = Len(tokens) /\ g = EnumSteps(tokens)
  OBVIOUS
<1>2. n \in Nat
  BY <1>1
<1>3. g \in [1 .. n -> [EnumTables -> EnumTables]]
  BY <1>1, EnumTabled
<1>4. PICK F : Tabled(F, g, NewEnum, n, EnumTables) /\ BuildEnum(tokens) = F[n]
  BY <1>1, EnumTabled
<1>5. F[n] \in EnumTables
  BY <1>2, <1>4 DEF Tabled
<1>6. ASSUME NEW tok \in EnumTokens
      PROVE  BuildEnum(Append(tokens, tok)) = BuildToken(BuildEnum(tokens), tok)
  <2>1. PICK more, h : more = Append(tokens, tok) /\ h = EnumSteps(more)
    OBVIOUS
  <2>2. /\ more \in Seq(EnumTokens) /\ Len(more) = n + 1 /\ more[n + 1] = tok
        /\ \A i \in 1 .. n : more[i] = tokens[i]
    BY <1>1, <1>2, <2>1
  <2>3. h \in [1 .. n + 1 -> [EnumTables -> EnumTables]]
    BY <2>1, <2>2, EnumTabled
  <2>4. PICK G : Tabled(G, h, NewEnum, n + 1, EnumTables) /\ BuildEnum(more) = G[n + 1]
    BY <2>1, <2>2, EnumTabled
  <2>5. \A i \in 1 .. n : h[i] = g[i]
    <3>1. \A i \in 1 .. n : i \in 1 .. n + 1
      BY <1>2
    <3> QED
      BY <1>1, <2>1, <2>2, <3>1 DEF EnumSteps
  <2>a. NewEnum \in EnumTables
    BY NewEnumIs
  <2>b. GoesOn(g, h, n, EnumTables)
    BY <1>3, <2>3, <2>5 DEF GoesOn
  <2>6. G[n + 1] = h[n + 1][F[n]]
    BY <1>2, <1>4, <2>4, <2>a, <2>b, TableGrown
  <2>7. h[n + 1][F[n]] = BuildToken(F[n], tok)
    <3>1. n + 1 \in 1 .. n + 1
      BY <1>2
    <3> QED
      BY <1>5, <2>1, <2>2, <3>1 DEF EnumSteps
  <2> QED
    BY <1>4, <2>1, <2>4, <2>6, <2>7
<1> QED
  BY <1>4, <1>5, <1>6

DescribeStates == [base : Int, values : SUBSET Nat]
Undescribed == [base |-> 0, values |-> {}]

LEMMA DescribeStep ==
  ASSUME NEW acc \in DescribeStates, NEW tok \in EnumTokens
  PROVE  /\ Describe(acc, tok) \in DescribeStates
         /\ Describe(acc, tok).base = acc.base + TokenStep(tok)
         /\ Describe(acc, tok).values = acc.values \cup TokenValues(acc.base, tok)
<1>1. acc = [base |-> acc.base, values |-> acc.values] /\ acc.base \in Int /\ acc.values \in SUBSET Nat
  BY DEF DescribeStates
<1>2. CASE tok.kind = "mask" /\ tok.bits \in SUBSET (0 .. 4)
  <2>1. Describe(acc, tok) = [base |-> acc.base + 5,
                                values |-> acc.values \cup MaskValues(acc.base, tok.bits)]
    BY <1>2 DEF Describe, MaskValues
  <2>2. MaskValues(acc.base, tok.bits) \in SUBSET Nat
    <3>1. ASSUME NEW bit \in tok.bits PROVE (acc.base + bit) % Word \in Nat
      <4>1. bit \in Int
        BY <1>2
      <4>2. acc.base + bit \in Int
        BY <1>1, <4>1
      <4>3. (acc.base + bit) % Word \in 0 .. Word - 1
        BY <4>2, WordIsNat, Remainder
      <4> QED
        BY <4>3, WordIsNat
    <3> QED
      BY <3>1 DEF MaskValues
  <2>3. TokenStep(tok) = 5 /\ TokenValues(acc.base, tok) = MaskValues(acc.base, tok.bits)
    BY <1>2 DEF TokenStep, TokenValues
  <2> QED
    BY <1>1, <2>1, <2>2, <2>3 DEF DescribeStates
<1>3. CASE tok.kind # "mask" /\ DecodeVarint(tok.digits, SkipRange) \in Int
  <2>1. PICK n : n = DecodeVarint(tok.digits, SkipRange)
    OBVIOUS
  <2>2. Describe(acc, tok) = [acc EXCEPT !.base = acc.base + n]
    BY <1>1, <1>3, <2>1 DEF Describe
  <2>3. TokenStep(tok) = n /\ TokenValues(acc.base, tok) = {} /\ n \in Int
    BY <1>3, <2>1 DEF TokenStep, TokenValues
  <2> QED
    BY <1>1, <2>2, <2>3 DEF DescribeStates
<1> QED
  BY <1>2, <1>3, TokenTypes

LEMMA DescribeTabled ==
  ASSUME NEW tokens \in Seq(EnumTokens)
  PROVE  \E F : /\ F \in [0 .. Len(tokens) -> DescribeStates] /\ F[0] = Undescribed
                /\ \A i \in 1 .. Len(tokens) : F[i] = Describe(F[i - 1], tokens[i])
                /\ Described(tokens) = F[Len(tokens)].values
<1> DEFINE g == [i \in 1 .. Len(tokens) |-> [x \in DescribeStates |-> Describe(x, tokens[i])]]
           R(f) == f = [i \in 0 .. Len(tokens) |->
                          IF i = 0 THEN Undescribed ELSE Describe(f[i - 1], tokens[i])]
           c == CHOOSE f : R(f)
<1>1. PICK n : n = Len(tokens)
  OBVIOUS
<1>2. n \in Nat /\ \A i \in 1 .. n : tokens[i] \in EnumTokens
  BY <1>1
<1>3. Undescribed \in DescribeStates
  BY DEF Undescribed, DescribeStates
<1>4. \A i \in 1 .. n : \A x \in DescribeStates : Describe(x, tokens[i]) \in DescribeStates
  BY <1>2, DescribeStep
<1>5. g \in [1 .. n -> [DescribeStates -> DescribeStates]]
  BY <1>1, <1>4
<1>6. \A i \in 1 .. n : \A x \in DescribeStates : g[i][x] = Describe(x, tokens[i])
  BY <1>1
<1>12. Described(tokens) = c[n].values
  BY <1>1 DEF Described, Undescribed
<1> HIDE DEF g
<1>7. PICK F : Tabled(F, g, Undescribed, n, DescribeStates)
  BY <1>2, <1>3, <1>5, TableExists
<1>8. /\ F \in [0 .. n -> DescribeStates] /\ F[0] = Undescribed
      /\ \A i \in 1 .. n : F[i] = g[i][F[i - 1]]
  BY <1>7 DEF Tabled
<1>9. \A i \in 1 .. n : F[i] = Describe(F[i - 1], tokens[i])
  <2>1. \A i \in 1 .. n : F[i - 1] \in DescribeStates
    <3>1. \A i \in 1 .. n : i - 1 \in 0 .. n
      BY <1>2
    <3> QED
      BY <1>8, <3>1
  <2> QED
    BY <1>6, <1>8, <2>1
<1>10. F = [i \in 0 .. n |-> IF i = 0 THEN Undescribed ELSE Describe(F[i - 1], tokens[i])]
  <2>1. \A i \in 0 .. n : i = 0 \/ i \in 1 .. n
    BY <1>2
  <2>2. \A i \in 0 .. n : F[i] = IF i = 0 THEN Undescribed ELSE Describe(F[i - 1], tokens[i])
    BY <1>8, <1>9, <2>1, Zenon
  <2>3. F = [i \in 0 .. n |-> F[i]]
    BY <1>8
  <2> QED
    BY <2>2, <2>3
<1>11. R(c)
  BY <1>1, <1>10
<1> HIDE DEF c
<1>13. IsTable(c, n) /\ c[0] = Undescribed /\ \A i \in 1 .. n : c[i] = Describe(c[i - 1], tokens[i])
  BY <1>1, <1>2, <1>11 DEF IsTable
<1> HIDE DEF R
<1>14. \A i \in 1 .. n : c[i - 1] \in DescribeStates => c[i] = g[i][c[i - 1]]
  BY <1>6, <1>13
<1>15. Tabled(c, g, Undescribed, n, DescribeStates)
  BY <1>2, <1>3, <1>5, <1>13, <1>14, TableIs
<1> QED
  BY <1>1, <1>12, <1>13, <1>15 DEF Tabled

LEMMA MaskValuesMod ==
  ASSUME NEW base \in Int, NEW bits \in SUBSET (0 .. 4)
  PROVE  MaskValues(base % Word, bits) = MaskValues(base, bits)
<1>1. ASSUME NEW bit \in bits PROVE ((base % Word) + bit) % Word = (base + bit) % Word
  <2>1. bit \in Int
    OBVIOUS
  <2> QED
    BY <2>1, WordIsNat, RemainderOfSum
<1> QED
  BY <1>1 DEF MaskValues

(* A descriptor of any origin makes the table of what it describes.         *)
LEMMA DescribedBuilt ==
  ASSUME NEW tokens \in Seq(EnumTokens)
  PROVE  BuildEnum(tokens) \in EnumTables /\ ValuesOf(BuildEnum(tokens)) = Described(tokens)
<1>1. PICK n : n = Len(tokens)
  OBVIOUS
<1>2. n \in Nat /\ \A i \in 1 .. n : tokens[i] \in EnumTokens
  BY <1>1
<1>3. PICK D : /\ D \in [0 .. n -> DescribeStates] /\ D[0] = Undescribed
               /\ \A i \in 1 .. n : D[i] = Describe(D[i - 1], tokens[i])
               /\ Described(tokens) = D[n].values
  BY <1>1, DescribeTabled
<1>4. PICK F : Tabled(F, EnumSteps(tokens), NewEnum, n, EnumTables) /\ BuildEnum(tokens) = F[n]
  BY <1>1, EnumTabled
<1>5. /\ F \in [0 .. n -> EnumTables] /\ F[0] = NewEnum
      /\ \A i \in 1 .. n : F[i] = EnumSteps(tokens)[i][F[i - 1]]
  BY <1>4 DEF Tabled
<1> DEFINE Good(i) == F[i].base = D[i].base % Word /\ ValuesOf(F[i]) = D[i].values
           T == {i \in 0 .. n : Good(i)}
<1>6. 0 \in T
  <2>1. 0 % Word = 0
    BY WordIsNat
  <2>2. D[0].base = 0 /\ D[0].values = {}
    BY <1>3 DEF Undescribed
  <2>3. Good(0)
    BY <1>5, <2>1, <2>2, NewEnumIs
  <2> QED
    BY <1>2, <2>3
<1>7. ASSUME NEW i \in 1 .. n, i - 1 \in T PROVE i \in T
  <2>1. PICK j : j = i - 1
    OBVIOUS
  <2>2. j \in 0 .. n /\ i \in 0 .. n /\ Good(j)
    BY <1>7, <2>1
  <2>3. PICK tok \in EnumTokens : tok = tokens[i]
    BY <1>2
  <2>4. F[j] \in EnumTables /\ D[j] \in DescribeStates
    BY <1>3, <1>5, <2>2
  <2>5. F[i] = BuildToken(F[j], tok) /\ D[i] = Describe(D[j], tok)
    <3>1. EnumSteps(tokens)[i][F[j]] = BuildToken(F[j], tokens[i])
      BY <1>1, <2>4 DEF EnumSteps
    <3> QED
      BY <1>3, <1>5, <2>1, <2>3, <3>1
  <2>6. PICK b, s : b = D[j].base /\ s = TokenStep(tok)
    OBVIOUS
  <2>7. b \in Int /\ s \in Int /\ F[j].base = b % Word
    BY <2>2, <2>4, <2>6, TokenTypes DEF DescribeStates, TokenStep
  <2>8. F[i].base = ((b % Word) + s) % Word /\ D[i].base = b + s
    BY <2>4, <2>5, <2>6, <2>7, TokenBuilt, DescribeStep
  <2>9. F[i].base = D[i].base % Word
    BY <2>7, <2>8, WordIsNat, RemainderOfSum
  <2>10. TokenValues(b % Word, tok) = TokenValues(b, tok)
    <3>1. CASE tok.kind = "mask"
      <4>1. tok.bits \in SUBSET (0 .. 4)
        BY <3>1, TokenTypes
      <4> QED
        BY <2>7, <3>1, <4>1, MaskValuesMod DEF TokenValues
    <3>2. CASE tok.kind # "mask"
      BY <3>2 DEF TokenValues
    <3> QED
      BY <3>1, <3>2
  <2>11. /\ ValuesOf(F[i]) = ValuesOf(F[j]) \cup TokenValues(b % Word, tok)
         /\ D[i].values = D[j].values \cup TokenValues(b, tok)
    BY <2>4, <2>5, <2>6, <2>7, TokenBuilt, DescribeStep
  <2> QED
    BY <2>2, <2>9, <2>10, <2>11
<1> HIDE DEF T
<1>8. \A i \in 1 .. n : i - 1 \in T => i \in T
  BY <1>7
<1>9. \A i \in 0 .. n : i \in T
  BY <1>2, <1>6, <1>8, CountUp
<1>10. Good(n)
  BY <1>2, <1>9 DEF T
<1>11. F[n] \in EnumTables
  BY <1>2, <1>5
<1> QED
  BY <1>3, <1>4, <1>10, <1>11

-----------------------------------------------------------------------------
(***************************************************************************)
(* What EnumEncoder writes                                                 *)
(***************************************************************************)

(* The encoder e has taken the values in S, none of them above top: they    *)
(* are what its tokens stand for and what it still holds for the next mask. *)
EncoderStates == [out : Seq(EnumTokens), present : SUBSET (0 .. 4), last : 0 .. Word - 1]
Encodes(e, S, top) ==
  /\ e \in EncoderStates /\ e.last <= top
  /\ \A d \in e.present : e.last + d <= top
  /\ BuildEnum(e.out).base = e.last
  /\ ValuesOf(BuildEnum(e.out)) \cup {e.last + d : d \in e.present} = S

LEMMA NothingBuilt == BuildEnum(<<>>) = NewEnum
<1>1. PICK t : t = <<>>
  OBVIOUS
<1>2. t \in Seq(EnumTokens) /\ Len(t) = 0
  BY <1>1
<1>3. PICK F : Tabled(F, EnumSteps(t), NewEnum, Len(t), EnumTables) /\ BuildEnum(t) = F[Len(t)]
  BY <1>2, EnumTabled
<1> QED
  BY <1>1, <1>2, <1>3 DEF Tabled

LEMMA NothingEncoded == Encodes(NewEncoder, {}, 0)
<1>1. NewEncoder \in EncoderStates
  <2>1. <<>> \in Seq(EnumTokens) /\ {} \in SUBSET (0 .. 4) /\ 0 \in 0 .. Word - 1
    BY WordIsNat
  <2> QED
    BY <2>1 DEF NewEncoder, EncoderStates
<1>2. NewEncoder.out = <<>> /\ NewEncoder.present = {} /\ NewEncoder.last = 0
  BY DEF NewEncoder
<1>3. {0 + d : d \in {}} = {}
  OBVIOUS
<1> QED
  BY <1>1, <1>2, <1>3, NothingBuilt, NewEnumIs DEF Encodes

LEMMA SkipEncoded ==
  ASSUME NEW delta \in 0 .. Word - 1
  PROVE  /\ SkipBy(delta) \in EnumTokens /\ SkipBy(delta).kind # "mask"
         /\ TokenStep(SkipBy(delta)) = delta /\ TokenValues(0, SkipBy(delta)) = {}
<1>1. PICK D : D = EncodeVarint(delta, SkipRange)
  OBVIOUS
<1>2. SkipRange \in Ranges /\ SkipRange.max - SkipRange.min = 31
  BY DEF Ranges, SkipRange
<1>3. D \in Seq(0 .. 31) /\ DecodeVarint(D, SkipRange) = delta
  BY <1>1, <1>2, VarintRead
<1>4. SkipBy(delta) = [kind |-> "skip", digits |-> D]
  BY <1>1 DEF SkipBy
<1>5. SkipBy(delta).kind = "skip" /\ SkipBy(delta).digits = D
  BY <1>4
<1> QED
  BY <1>3, <1>4, <1>5 DEF EnumTokens, TokenStep, TokenValues

LEMMA SmallWord == Word >= 64
<1>1. PowerOf2(6) <= PowerOf2(WordBits)
  BY WordBitsAssumption, PowersGrow
<1> QED
  BY <1>1, SmallPowers DEF Word

(* The mask the encoder holds is written.                                   *)
LEMMA FlushEncodes ==
  ASSUME NEW e, NEW S, NEW top \in 0 .. Word - 1, Encodes(e, S, top)
  PROVE  /\ FlushMask(e).out \in Seq(EnumTokens)
         /\ BuildEnum(FlushMask(e).out) \in EnumTables
         /\ BuildEnum(FlushMask(e).out).base = (e.last + 5) % Word
         /\ ValuesOf(BuildEnum(FlushMask(e).out)) = S
<1>1. PICK out, bits, last : out = e.out /\ bits = e.present /\ last = e.last
  OBVIOUS
<1>2. /\ out \in Seq(EnumTokens) /\ bits \in SUBSET (0 .. 4) /\ last \in 0 .. Word - 1
      /\ last <= top /\ \A d \in bits : last + d <= top
      /\ BuildEnum(out).base = last
      /\ ValuesOf(BuildEnum(out)) \cup {last + d : d \in bits} = S
  BY <1>1 DEF Encodes, EncoderStates
<1>3. PICK tok : tok = Mask(bits)
  OBVIOUS
<1>4. tok \in EnumTokens /\ tok.kind = "mask" /\ tok.bits = bits
  BY <1>2, <1>3 DEF Mask, EnumTokens
<1>5. FlushMask(e).out = Append(out, tok)
  BY <1>1, <1>3 DEF FlushMask
<1>6. BuildEnum(Append(out, tok)) = BuildToken(BuildEnum(out), tok) /\ BuildEnum(out) \in EnumTables
  BY <1>2, <1>4, EnumGrown
<1>7. TokenStep(tok) = 5 /\ TokenValues(last, tok) = MaskValues(last, bits)
  BY <1>4 DEF TokenStep, TokenValues
<1>8. MaskValues(last, bits) = {last + d : d \in bits}
  <2>1. \A d \in bits : (last + d) % Word = last + d
    BY <1>2, WordIsNat
  <2> QED
    BY <2>1 DEF MaskValues
<1>9. PICK b : b = BuildToken(BuildEnum(out), tok)
  OBVIOUS
<1>10. b \in EnumTables /\ b.base = (last + 5) % Word
       /\ ValuesOf(b) = ValuesOf(BuildEnum(out)) \cup MaskValues(last, bits)
  BY <1>2, <1>4, <1>6, <1>7, <1>9, TokenBuilt
<1>11. Append(out, tok) \in Seq(EnumTokens)
  BY <1>2, <1>4
<1> QED
  BY <1>1, <1>2, <1>5, <1>6, <1>8, <1>9, <1>10, <1>11

(* The three ways a value is taken: into the mask, behind a skip, or after  *)
(* a flush.                                                                 *)
LEMMA PlacedEncodes ==
  ASSUME NEW e, NEW S, NEW val \in 0 .. Word - 1, Encodes(e, S, val),
         val - e.last >= 5 => e.present = {}
  PROVE  Encodes(IF val - e.last >= 5
                 THEN [out |-> Append(e.out, SkipBy(val - e.last)),
                       present |-> e.present \cup {0}, last |-> val]
                 ELSE [e EXCEPT !.present = @ \cup {val - e.last}],
                 S \cup {val}, val)
<1>1. PICK out, bits, last, delta :
        out = e.out /\ bits = e.present /\ last = e.last /\ delta = val - e.last
  OBVIOUS
<1>2. /\ out \in Seq(EnumTokens) /\ bits \in SUBSET (0 .. 4) /\ last \in 0 .. Word - 1
      /\ last <= val /\ \A d \in bits : last + d <= val
      /\ BuildEnum(out).base = last
      /\ ValuesOf(BuildEnum(out)) \cup {last + d : d \in bits} = S
  BY <1>1 DEF Encodes, EncoderStates
<1>3. delta \in 0 .. Word - 1 /\ last + delta = val /\ val = val + 0
  BY <1>1, <1>2, WordIsNat
<1>4. CASE delta >= 5
  <2>1. bits = {}
    BY <1>1, <1>4
  <2>2. PICK tok : tok = SkipBy(delta)
    OBVIOUS
  <2>3. tok \in EnumTokens /\ tok.kind # "mask" /\ TokenStep(tok) = delta
    BY <1>3, <2>2, SkipEncoded
  <2>4. BuildEnum(Append(out, tok)) = BuildToken(BuildEnum(out), tok) /\ BuildEnum(out) \in EnumTables
    BY <1>2, <2>3, EnumGrown
  <2>5. TokenValues(last, tok) = {}
    BY <2>3 DEF TokenValues
  <2>6. val % Word = val
    BY WordIsNat
  <2>7. BuildEnum(Append(out, tok)).base = val
        /\ ValuesOf(BuildEnum(Append(out, tok))) = ValuesOf(BuildEnum(out))
    BY <1>2, <1>3, <2>3, <2>4, <2>5, <2>6, TokenBuilt
  <2>8. ValuesOf(BuildEnum(out)) = S
    <3>1. {last + d : d \in bits} = {}
      BY <2>1
    <3> QED
      BY <1>2, <3>1
  <2>9. PICK r : r = [out |-> Append(out, tok), present |-> {0}, last |-> val]
    OBVIOUS
  <2>10. r.out = Append(out, tok) /\ r.present = {0} /\ r.last = val /\ r \in EncoderStates
    <3>1. Append(out, tok) \in Seq(EnumTokens) /\ {0} \in SUBSET (0 .. 4)
      BY <1>2, <2>3
    <3> QED
      BY <2>9, <3>1 DEF EncoderStates
  <2>11. {val + d : d \in {0}} = {val}
    BY <1>3
  <2>12. Encodes(r, S \cup {val}, val)
    BY <2>7, <2>8, <2>10, <2>11 DEF Encodes
  <2>13. bits \cup {0} = {0}
    BY <2>1
  <2> QED
    BY <1>1, <1>4, <2>2, <2>9, <2>12, <2>13
<1>5. CASE ~(delta >= 5)
  <2>1. delta \in 0 .. 4
    BY <1>3, <1>5
  <2>2. PICK r : r = [out |-> out, present |-> bits \cup {delta}, last |-> last]
    OBVIOUS
  <2>3. r.out = out /\ r.present = bits \cup {delta} /\ r.last = last /\ r \in EncoderStates
    BY <1>2, <2>1, <2>2 DEF EncoderStates
  <2>4. ASSUME NEW d \in r.present PROVE last + d <= val
    <3>1. d \in bits \/ d = delta
      BY <2>3
    <3>2. last + delta <= val
      BY <1>3
    <3> QED
      BY <1>2, <3>1, <3>2
  <2>5. {last + d : d \in r.present} = {last + d : d \in bits} \cup {val}
    BY <1>3, <2>3
  <2>a. PICK A, B : A = ValuesOf(BuildEnum(out)) /\ B = {last + d : d \in bits}
    OBVIOUS
  <2>b. A \cup (B \cup {val}) = S \cup {val}
    BY <1>2, <2>a
  <2>6. Encodes(r, S \cup {val}, val)
    <3>1. \A d \in r.present : r.last + d <= val
      BY <2>3, <2>4
    <3>2. ValuesOf(BuildEnum(r.out)) \cup {r.last + d : d \in r.present} = S \cup {val}
      BY <2>3, <2>5, <2>a, <2>b
    <3>3. r.last <= val /\ BuildEnum(r.out).base = r.last
      BY <1>2, <2>3
    <3> QED
      BY <2>3, <3>1, <3>2, <3>3 DEF Encodes
  <2>7. e = [out |-> out, present |-> bits, last |-> last]
    BY <1>1 DEF Encodes, EncoderStates
  <2>8. [e EXCEPT !.present = @ \cup {delta}] = r
    BY <2>2, <2>7
  <2> QED
    BY <1>1, <1>5, <2>6, <2>8
<1> QED
  BY <1>4, <1>5

LEMMA ValueEncodes ==
  ASSUME NEW e, NEW S, NEW top \in 0 .. Word - 1, Encodes(e, S, top),
         NEW val \in 0 .. Word - 1, top <= val
  PROVE  Encodes(EncodeValue(e, val), S \cup {val}, val)
<1> DEFINE flushes == val - e.last >= 5 /\ e.present # {}
           f == IF flushes THEN FlushMask(e) ELSE e
<1>1. e.last \in 0 .. Word - 1 /\ e.last <= top /\ \A d \in e.present : d \in 0 .. 4 /\ e.last + d <= top
  BY DEF Encodes, EncoderStates
<1>2. Encodes(f, S, val)
  <2>1. CASE flushes
    <3>1. /\ FlushMask(e).out \in Seq(EnumTokens)
          /\ BuildEnum(FlushMask(e).out).base = (e.last + 5) % Word
          /\ ValuesOf(BuildEnum(FlushMask(e).out)) = S
      BY FlushEncodes
    <3>2. (e.last + 5) % Word = e.last + 5 /\ e.last + 5 \in 0 .. val
      BY <1>1, <2>1, WordIsNat
    <3>3. FlushMask(e).present = {} /\ FlushMask(e).last = (e.last + 5) % Word
      BY DEF FlushMask
    <3>4. FlushMask(e) = [out |-> FlushMask(e).out, present |-> {}, last |-> e.last + 5]
      BY <3>2 DEF FlushMask
    <3>5. e.last + 5 \in 0 .. Word - 1 /\ e.last + 5 <= val
      BY <3>2, WordIsNat
    <3>6. FlushMask(e) \in EncoderStates
      BY <3>1, <3>4, <3>5 DEF EncoderStates
    <3>7. {(e.last + 5) + d : d \in {}} = {}
      OBVIOUS
    <3>8. Encodes(FlushMask(e), S, val)
      BY <3>1, <3>2, <3>3, <3>5, <3>6, <3>7 DEF Encodes
    <3> QED
      BY <2>1, <3>8
  <2>2. CASE ~flushes
    <3>1. \A d \in e.present : e.last + d <= val
      BY <1>1
    <3>2. e.last <= val
      BY <1>1
    <3>3. Encodes(e, S, val)
      BY <3>1, <3>2 DEF Encodes
    <3> QED
      BY <2>2, <3>3
  <2> QED
    BY <2>1, <2>2
<1>3. val - f.last >= 5 => f.present = {}
  <2>1. FlushMask(e).present = {}
    BY DEF FlushMask
  <2> QED
    BY <2>1
<1>4. EncodeValue(e, val) =
        IF val - f.last >= 5
        THEN [out |-> Append(f.out, SkipBy(val - f.last)),
              present |-> f.present \cup {0}, last |-> val]
        ELSE [f EXCEPT !.present = @ \cup {val - f.last}]
  BY DEF EncodeValue
<1>5. PICK h : h = f
  OBVIOUS
<1> HIDE DEF f
<1>6. Encodes(h, S, val) /\ (val - h.last >= 5 => h.present = {})
  BY <1>2, <1>3, <1>5
<1>7. Encodes(IF val - h.last >= 5
              THEN [out |-> Append(h.out, SkipBy(val - h.last)),
                    present |-> h.present \cup {0}, last |-> val]
              ELSE [h EXCEPT !.present = @ \cup {val - h.last}],
              S \cup {val}, val)
  BY <1>6, PlacedEncodes
<1> QED
  BY <1>4, <1>5, <1>7

FirstOf(s, n) == {s[i] : i \in 1 .. n}
TopOf(s, n) == IF n = 0 THEN 0 ELSE s[n]

LEMMA ValuesEncode ==
  ASSUME NEW vals \in Seq(0 .. Word - 1), Ascending(vals)
  PROVE  \E top \in 0 .. Word - 1 : Encodes(EncodeValues(vals), ToSet(vals), top)
<1> DEFINE n == Len(vals)
           I == [i \in 0 .. n |-> {e \in EncoderStates : Encodes(e, FirstOf(vals, i), TopOf(vals, i))}]
           g == [i \in 1 .. n |-> [e \in EncoderStates |-> EncodeValue(e, vals[i])]]
           R(f) == f = [i \in 0 .. Len(vals) |->
                          IF i = 0 THEN NewEncoder ELSE EncodeValue(f[i - 1], vals[i])]
           c == CHOOSE f : R(f)
<1>a. PICK W : W = 0 .. Word - 1
  OBVIOUS
<1>b. vals \in Seq(W)
  BY <1>a
<1>c. n \in Nat /\ \A i \in 1 .. n : vals[i] \in W
  BY <1>b
<1>1. n \in Nat /\ \A i \in 1 .. n : vals[i] \in 0 .. Word - 1
  BY <1>a, <1>c
<1>2. \A i \in 0 .. n : TopOf(vals, i) \in 0 .. Word - 1
  BY <1>1, WordIsNat DEF TopOf
<1>3. \A i \in 1 .. n : /\ TopOf(vals, i - 1) <= vals[i] /\ TopOf(vals, i) = vals[i]
                        /\ FirstOf(vals, i) = FirstOf(vals, i - 1) \cup {vals[i]}
  <2>1. TAKE i \in 1 .. n
  <2>2. i = 1 \/ (i - 1 \in 1 .. n /\ i - 1 < i)
    OBVIOUS
  <2>3. TopOf(vals, i - 1) <= vals[i]
    BY <1>1, <2>2 DEF TopOf, Ascending
  <2>4. TopOf(vals, i) = vals[i]
    BY DEF TopOf
  <2>5. 1 .. i = 1 .. (i - 1) \cup {i}
    OBVIOUS
  <2> QED
    BY <2>3, <2>4, <2>5 DEF FirstOf
<1>4. FirstOf(vals, 0) = {} /\ TopOf(vals, 0) = 0
  BY DEF FirstOf, TopOf
<1>5. ToSet(vals) = FirstOf(vals, n)
  BY DEF ToSet, FirstOf
<1>6. \A i \in 0 .. n : \A e : e \in I[i] <=> Encodes(e, FirstOf(vals, i), TopOf(vals, i))
  BY DEF Encodes
<1>7. \A i \in 1 .. n : \A e \in EncoderStates : g[i][e] = EncodeValue(e, vals[i])
  OBVIOUS
<1>8. EncodeValues(vals) = c[n]
  BY DEF EncodeValues
<1> HIDE DEF I, g, n
<1>9. NewEncoder \in I[0]
  <2>1. 0 \in 0 .. n
    BY <1>1
  <2>2. Encodes(NewEncoder, FirstOf(vals, 0), TopOf(vals, 0))
    BY <1>4, NothingEncoded
  <2> QED
    BY <1>6, <2>1, <2>2
<1>10. \A i \in 1 .. n : \A e \in I[i - 1] : EncodeValue(e, vals[i]) \in I[i] /\ e \in EncoderStates
  <2>1. ASSUME NEW i \in 1 .. n, NEW e \in I[i - 1]
        PROVE  EncodeValue(e, vals[i]) \in I[i] /\ e \in EncoderStates
    <3>1. PICK j, S, T, top, val : /\ j = i - 1 /\ val = vals[i] /\ top = TopOf(vals, j)
                                   /\ S = FirstOf(vals, j) /\ T = FirstOf(vals, i)
      OBVIOUS
    <3>2. j \in 0 .. n /\ i \in 0 .. n
      BY <1>1, <3>1
    <3>3. Encodes(e, S, top) /\ top \in 0 .. Word - 1 /\ val \in 0 .. Word - 1 /\ top <= val
      BY <1>1, <1>2, <1>3, <1>6, <3>1, <3>2
    <3>4. Encodes(EncodeValue(e, val), S \cup {val}, val)
      BY <3>3, ValueEncodes
    <3>5. T = S \cup {val} /\ TopOf(vals, i) = val
      BY <1>3, <3>1
    <3>6. Encodes(EncodeValue(e, vals[i]), FirstOf(vals, i), TopOf(vals, i))
      BY <3>1, <3>4, <3>5
    <3>7. EncodeValue(e, vals[i]) \in I[i]
      BY <1>6, <3>2, <3>6
    <3>8. e \in EncoderStates
      BY <3>3 DEF Encodes
    <3> QED
      BY <3>7, <3>8
  <2> QED
    BY <2>1
<1>11. KeepsWithin(I, g, n)
  BY <1>7, <1>10 DEF KeepsWithin
<1>12. PICK F : /\ IsTable(F, n) /\ F[0] = NewEncoder
                /\ \A i \in 1 .. n : F[i] = g[i][F[i - 1]]
                /\ \A i \in 0 .. n : F[i] \in I[i]
  BY <1>1, <1>9, <1>11, TableWithin
<1>13. \A i \in 1 .. n : i - 1 \in 0 .. n
  BY <1>1
<1>14. R(c)
  <2>1. \A i \in 1 .. n : F[i] = EncodeValue(F[i - 1], vals[i])
    BY <1>7, <1>10, <1>12, <1>13
  <2>2. \A i \in 0 .. n : i = 0 \/ i \in 1 .. n
    BY <1>1
  <2>3. \A i \in 0 .. n : F[i] = IF i = 0 THEN NewEncoder ELSE EncodeValue(F[i - 1], vals[i])
    BY <1>12, <2>1, <2>2, Zenon
  <2>4. F = [i \in 0 .. n |-> IF i = 0 THEN NewEncoder ELSE EncodeValue(F[i - 1], vals[i])]
    BY <1>12, <2>3 DEF IsTable
  <2>5. R(F)
    BY <2>4 DEF n
  <2> QED
    BY <2>5
<1> HIDE DEF c
<1>15. c[0] = NewEncoder /\ \A i \in 1 .. n : c[i] = EncodeValue(c[i - 1], vals[i])
  BY <1>1, <1>14 DEF n
<1> HIDE DEF R
<1>16. \A i \in 1 .. n : c[i - 1] \in I[i - 1] => c[i] = g[i][c[i - 1]]
  BY <1>7, <1>10, <1>15
<1>17. \A i \in 0 .. n : c[i] \in I[i]
  <2>1. RunsWithin(c, I, g, NewEncoder, n)
    BY <1>9, <1>11, <1>15, <1>16 DEF RunsWithin
  <2> QED
    BY <1>1, <2>1, EndsWithin
<1>18. n \in 0 .. n
  BY <1>1
<1> QED
  BY <1>2, <1>5, <1>6, <1>8, <1>17, <1>18

(* EnumEncoder writes a descriptor that makes a table of the very values.   *)
LEMMA EnumEncoded ==
  ASSUME NEW vals \in Seq(0 .. Word - 1), Ascending(vals)
  PROVE  /\ EncodeEnum(vals) \in Seq(EnumTokens)
         /\ BuildEnum(EncodeEnum(vals)) \in EnumTables
         /\ ValuesOf(BuildEnum(EncodeEnum(vals))) = ToSet(vals)
<1>1. PICK e, S, top : /\ e = EncodeValues(vals) /\ S = ToSet(vals)
                       /\ top \in 0 .. Word - 1 /\ Encodes(e, S, top)
  BY ValuesEncode
<1>2. EncodeEnum(vals) = IF e.present = {} THEN e.out ELSE FlushMask(e).out
  BY <1>1 DEF EncodeEnum
<1>3. CASE e.present = {}
  <2>1. {e.last + d : d \in e.present} = {}
    BY <1>3
  <2>2. e.out \in Seq(EnumTokens) /\ ValuesOf(BuildEnum(e.out)) = S
    BY <1>1, <2>1 DEF Encodes, EncoderStates
  <2> QED
    BY <1>1, <1>2, <1>3, <2>2, EnumGrown
<1>4. CASE e.present # {}
  BY <1>1, <1>2, <1>4, FlushEncodes
<1> QED
  BY <1>3, <1>4

(* check_value finds what the table keeps, unless the mask hides it.        *)
LEMMA Checked ==
  ASSUME NEW e \in EnumTables, NEW v \in Nat
  PROVE  CheckValue(e, v) <=> v \in ValuesOf(e) \ Shadowed(e)
<1>1. e.maskLimit \in Nat /\ \A x \in e.mask : x < e.maskLimit
  BY DEF EnumTables
<1> QED
  BY <1>1 DEF CheckValue, ValuesOf, Shadowed

-----------------------------------------------------------------------------
(***************************************************************************)
(* The text of a message descriptor                                        *)
(***************************************************************************)

DigitKinds == {"modifier", "skip", "member"}
TokenKinds == DigitKinds \cup {"field", "end", "bad", "separator", "next"}
TextTokens == [kind : TokenKinds, text : Seq(Nat) \ {<<>>}]
SplitStates == [ended : BOOLEAN, tokens : Seq(TextTokens)]

LEMMA KindTyped ==
  ASSUME NEW ended, NEW ch
  PROVE  Kind(ended, ch) \in TokenKinds
BY DEF Kind, TokenKinds, DigitKinds

LEMMA OneTyped ==
  ASSUME NEW kind \in TokenKinds, NEW ch \in Nat
  PROVE  [kind |-> kind, text |-> <<ch>>] \in TextTokens
<1>1. <<ch>> \in Seq(Nat) \ {<<>>}
  OBVIOUS
<1> QED
  BY <1>1 DEF TextTokens

LEMMA FrontAndLast ==
  ASSUME NEW S, NEW s \in Seq(S), NEW x \in S
  PROVE  /\ Append(s, x) # <<>> /\ Append(s, x) \in Seq(S)
         /\ Last(Append(s, x)) = x /\ Front(Append(s, x)) = s
<1>1. PICK n, t : n = Len(s) /\ t = Append(s, x)
  OBVIOUS
<1>2. n \in Nat /\ t \in Seq(S) /\ Len(t) = n + 1 /\ t[n + 1] = x /\ \A i \in 1 .. n : t[i] = s[i]
  BY <1>1
<1>3. Last(t) = x
  BY <1>2 DEF Last
<1>4. Front(t) = SubSeq(t, 1, n)
  BY <1>2 DEF Front
<1>5. SubSeq(t, 1, n) \in Seq(S) /\ Len(SubSeq(t, 1, n)) = n /\ \A i \in 1 .. n : SubSeq(t, 1, n)[i] = t[i]
  BY <1>2
<1>6. SubSeq(t, 1, n) = s
  BY <1>1, <1>2, <1>5
<1>7. t # <<>>
  BY <1>2
<1> QED
  BY <1>1, <1>2, <1>3, <1>4, <1>6, <1>7

LEMMA LastOfSeq ==
  ASSUME NEW S, NEW s \in Seq(S), s # <<>>
  PROVE  /\ Last(s) \in S /\ Front(s) \in Seq(S) /\ s = Append(Front(s), Last(s))
<1>1. PICK n : n = Len(s)
  OBVIOUS
<1>2. n \in Nat /\ n # 0 /\ n \in 1 .. n
  BY <1>1
<1>3. Last(s) = s[n] /\ s[n] \in S
  BY <1>1, <1>2 DEF Last
<1>4. Front(s) = SubSeq(s, 1, n - 1)
  BY <1>1 DEF Front
<1>5. Front(s) \in Seq(S) /\ Len(Front(s)) = n - 1 /\ \A i \in 1 .. n - 1 : Front(s)[i] = s[i]
  BY <1>1, <1>2, <1>4
<1>6. s = Append(Front(s), s[n])
  BY <1>1, <1>2, <1>3, <1>5
<1> QED
  BY <1>3, <1>5, <1>6

(* A character that starts a token, and one that goes on with it.           *)
LEMMA SplitNew ==
  ASSUME NEW acc \in SplitStates, NEW ch \in Nat, NEW kind, kind = Kind(acc.ended, ch),
         kind \in DigitKinds /\ acc.tokens # <<>> => Last(acc.tokens).kind # kind
  PROVE  /\ SplitAt(acc, ch) = [ended |-> acc.ended \/ kind = "end",
                                tokens |-> Append(acc.tokens, [kind |-> kind, text |-> <<ch>>])]
         /\ SplitAt(acc, ch) \in SplitStates
<1>1. SplitAt(acc, ch) = [ended |-> acc.ended \/ kind = "end",
                          tokens |-> Append(acc.tokens, [kind |-> kind, text |-> <<ch>>])]
  BY DEF SplitAt, DigitKinds
<1>2. kind \in TokenKinds
  BY KindTyped
<1>3. [kind |-> kind, text |-> <<ch>>] \in TextTokens
  BY <1>2, OneTyped
<1>4. acc.tokens \in Seq(TextTokens) /\ acc.ended \in BOOLEAN
  BY DEF SplitStates
<1>5. Append(acc.tokens, [kind |-> kind, text |-> <<ch>>]) \in Seq(TextTokens)
  BY <1>3, <1>4
<1> QED
  BY <1>1, <1>4, <1>5 DEF SplitStates

Continues(acc, ch, kind, ts, text) ==
  /\ kind \in DigitKinds /\ kind = Kind(acc.ended, ch)
  /\ ts \in Seq(TextTokens) /\ text \in Seq(Nat) \ {<<>>}
  /\ acc.tokens = Append(ts, [kind |-> kind, text |-> text])

LEMMA SplitMore ==
  ASSUME NEW acc \in SplitStates, NEW ch \in Nat, NEW kind, NEW ts, NEW text,
         Continues(acc, ch, kind, ts, text)
  PROVE  /\ SplitAt(acc, ch) =
              [ended |-> acc.ended,
               tokens |-> Append(ts, [kind |-> kind, text |-> Append(text, ch)])]
         /\ SplitAt(acc, ch) \in SplitStates
<1>0. /\ kind \in DigitKinds /\ kind = Kind(acc.ended, ch)
      /\ ts \in Seq(TextTokens) /\ text \in Seq(Nat) \ {<<>>}
      /\ acc.tokens = Append(ts, [kind |-> kind, text |-> text])
  BY DEF Continues
<1>1. PICK last : last = [kind |-> kind, text |-> text]
  OBVIOUS
<1>2. last \in TextTokens /\ last.kind = kind /\ last.text = text
  BY <1>0, <1>1 DEF TextTokens, TokenKinds
<1>3. acc.tokens # <<>> /\ Last(acc.tokens) = last /\ Front(acc.tokens) = ts
  BY <1>0, <1>1, <1>2, FrontAndLast
<1>4. kind # "end" /\ kind \in {"modifier", "skip", "member"}
  BY <1>0 DEF DigitKinds
<1>5. acc.ended \in BOOLEAN
  BY DEF SplitStates
<1>6. SplitAt(acc, ch) = [ended |-> acc.ended,
                          tokens |-> Append(ts, [kind |-> kind, text |-> Append(text, ch)])]
  BY <1>0, <1>2, <1>3, <1>4, <1>5 DEF SplitAt
<1>7. Append(text, ch) \in Seq(Nat) \ {<<>>}
  BY <1>0
<1>8. [kind |-> kind, text |-> Append(text, ch)] \in TextTokens
  BY <1>0, <1>7 DEF TextTokens, TokenKinds
<1>9. Append(ts, [kind |-> kind, text |-> Append(text, ch)]) \in Seq(TextTokens)
  BY <1>0, <1>8
<1> QED
  BY <1>5, <1>6, <1>9 DEF SplitStates

LEMMA SplitTyped ==
  ASSUME NEW acc \in SplitStates, NEW ch \in Nat
  PROVE  SplitAt(acc, ch) \in SplitStates
<1>1. PICK kind : kind = Kind(acc.ended, ch)
  OBVIOUS
<1>2. CASE kind \in DigitKinds /\ acc.tokens # <<>> /\ Last(acc.tokens).kind = kind
  <2>1. acc.tokens \in Seq(TextTokens)
    BY DEF SplitStates
  <2>2. PICK ts, last : ts = Front(acc.tokens) /\ last = Last(acc.tokens)
    OBVIOUS
  <2>3. ts \in Seq(TextTokens) /\ last \in TextTokens /\ acc.tokens = Append(ts, last)
    BY <1>2, <2>1, <2>2, LastOfSeq
  <2>4. last = [kind |-> kind, text |-> last.text] /\ last.text \in Seq(Nat) \ {<<>>}
    BY <1>2, <2>2, <2>3 DEF TextTokens
  <2>5. PICK text : text = last.text
    OBVIOUS
  <2>6. text \in Seq(Nat) \ {<<>>} /\ acc.tokens = Append(ts, [kind |-> kind, text |-> text])
    BY <2>3, <2>4, <2>5
  <2>7. kind \in DigitKinds
    BY <1>2
  <2>8. Continues(acc, ch, kind, ts, text)
    BY <1>1, <2>3, <2>6, <2>7 DEF Continues
  <2> QED
    BY <2>8, SplitMore
<1>3. CASE ~(kind \in DigitKinds /\ acc.tokens # <<>> /\ Last(acc.tokens).kind = kind)
  BY <1>1, <1>3, SplitNew
<1> QED
  BY <1>2, <1>3

SplitStep == [ch \in Nat |-> [acc \in SplitStates |-> SplitAt(acc, ch)]]

LEMMA SplitSteps == /\ SplitStep \in [Nat -> [SplitStates -> SplitStates]]
                    /\ Unsplit \in SplitStates /\ Nat # {}
<1>1. Unsplit \in SplitStates
  BY DEF Unsplit, SplitStates
<1>2. 0 \in Nat
  OBVIOUS
<1> QED
  BY <1>1, <1>2, SplitTyped DEF SplitStep

LEMMA SplittingFolds ==
  ASSUME NEW s \in Seq(Nat)
  PROVE  FoldsTo(Splitting(s), SplitStep, Unsplit, s, SplitStates)
<1> DEFINE R(f) == f = [i \in 0 .. Len(s) |-> IF i = 0 THEN Unsplit ELSE SplitAt(f[i - 1], s[i])]
           c == CHOOSE f : R(f)
<1>1. SplitStep \in [Nat -> [SplitStates -> SplitStates]] /\ Unsplit \in SplitStates
  BY SplitSteps
<1>2. \A i \in 1 .. Len(s) : \A x \in SplitStates : SplitStep[s[i]][x] = SplitAt(x, s[i])
  BY DEF SplitStep
<1>3. PICK F : /\ IsTable(F, Len(s)) /\ F[0] = Unsplit
               /\ \A i \in 1 .. Len(s) : F[i - 1] \in SplitStates /\ F[i] = SplitStep[s[i]][F[i - 1]]
  <2>1. PICK X, Y : X = Nat /\ Y = SplitStates
    OBVIOUS
  <2>2. s \in Seq(X) /\ SplitStep \in [X -> [Y -> Y]] /\ Unsplit \in Y
    BY <1>1, <2>1
  <2>3. \E F : /\ IsTable(F, Len(s)) /\ F[0] = Unsplit
               /\ \A i \in 1 .. Len(s) : F[i - 1] \in Y /\ F[i] = SplitStep[s[i]][F[i - 1]]
    BY <2>2, FoldExists
  <2> QED
    BY <2>1, <2>3
<1>4. \A i \in 0 .. Len(s) : F[i] = IF i = 0 THEN Unsplit ELSE SplitAt(F[i - 1], s[i])
  <2>1. \A i \in 0 .. Len(s) : i = 0 \/ i \in 1 .. Len(s)
    OBVIOUS
  <2>2. \A i \in 1 .. Len(s) : F[i] = SplitAt(F[i - 1], s[i])
    BY <1>2, <1>3
  <2> QED
    BY <1>3, <2>1, <2>2, Zenon
<1>5. R(F)
  BY <1>3, <1>4 DEF IsTable
<1>6. R(c)
  BY <1>5
<1>7. Splitting(s) = c[Len(s)]
  BY DEF Splitting
<1> HIDE DEF c
<1>8. /\ IsTable(c, Len(s)) /\ c[0] = Unsplit
      /\ \A i \in 1 .. Len(s) : c[i] = SplitAt(c[i - 1], s[i])
  BY <1>6 DEF IsTable
<1> HIDE DEF R
<1>9. \A i \in 1 .. Len(s) : c[i - 1] \in SplitStates => c[i] = SplitStep[s[i]][c[i - 1]]
  BY <1>2, <1>8
<1>10. FoldsTo(c[Len(s)], SplitStep, Unsplit, s, SplitStates)
  BY <1>1, <1>8, <1>9, FoldIs
<1> QED
  BY <1>7, <1>10

LEMMA SplittingGrown ==
  ASSUME NEW s \in Seq(Nat)
  PROVE  /\ Splitting(s) \in SplitStates
         /\ \A x \in Nat : Splitting(Append(s, x)) = SplitAt(Splitting(s), x)
<1>1. SplitStep \in [Nat -> [SplitStates -> SplitStates]] /\ Unsplit \in SplitStates
  BY SplitSteps
<1>2. ASSUME NEW x \in Nat
      PROVE  Splitting(s) \in SplitStates /\ Splitting(Append(s, x)) = SplitAt(Splitting(s), x)
  <2>1. PICK r, q, t : r = Splitting(s) /\ q = Splitting(t) /\ t = Append(s, x)
    OBVIOUS
  <2>2. t \in Seq(Nat)
    BY <2>1
  <2>3. FoldsTo(r, SplitStep, Unsplit, s, SplitStates)
    BY <2>1, SplittingFolds
  <2>4. FoldsTo(q, SplitStep, Unsplit, Append(s, x), SplitStates)
    BY <2>1, <2>2, SplittingFolds
  <2>5. PICK X, Y, z : X = Nat /\ Y = SplitStates /\ z = x
    OBVIOUS
  <2>6. s \in Seq(X) /\ z \in X /\ SplitStep \in [X -> [Y -> Y]] /\ Unsplit \in Y
    BY <1>1, <2>5
  <2>7. FoldsTo(r, SplitStep, Unsplit, s, Y) /\ FoldsTo(q, SplitStep, Unsplit, Append(s, z), Y)
    BY <2>3, <2>4, <2>5
  <2>8. r \in Y /\ q = SplitStep[z][r]
    BY <2>6, <2>7, FoldGrown
  <2>9. r \in SplitStates /\ q = SplitStep[x][r]
    BY <2>5, <2>8
  <2> QED
    BY <2>1, <2>9 DEF SplitStep
<1>3. Nat # {}
  BY SplitSteps
<1> QED
  BY <1>2, <1>3

-----------------------------------------------------------------------------
(* What is read of the tokens of a message                                  *)

ReadFields == [number : Int, type : Int, mods : Int]
ReadStates == [mods : Int, fields : Seq(ReadFields), oneofs : Seq(Seq(Int)), last : Int]

(* What is read: the modifiers, fields and oneofs, and the last number.     *)
ReadOf(msgMods, declared, groups, last) ==
  [mods |-> msgMods, fields |-> declared, oneofs |-> groups, last |-> last]

LEMMA ReadOfIn ==
  ASSUME NEW msgMods \in Int, NEW declared \in Seq(ReadFields), NEW groups \in Seq(Seq(Int)),
         NEW last \in Int
  PROVE  ReadOf(msgMods, declared, groups, last) \in ReadStates
<1>1. PICK F, O : F = Seq(ReadFields) /\ O = Seq(Seq(Int))
  OBVIOUS
<1>2. ReadStates = [mods : Int, fields : F, oneofs : O, last : Int]
  BY <1>1 DEF ReadStates
<1> QED
  BY <1>1, <1>2 DEF ReadOf

LEMMA ReadOfStates ==
  ASSUME NEW m \in ReadStates
  PROVE  /\ m = ReadOf(m.mods, m.fields, m.oneofs, m.last)
         /\ m.mods \in Int /\ m.last \in Int
         /\ m.fields \in Seq(ReadFields) /\ m.oneofs \in Seq(Seq(Int))
<1>1. PICK F, O : F = Seq(ReadFields) /\ O = Seq(Seq(Int))
  OBVIOUS
<1>2. ReadStates = [mods : Int, fields : F, oneofs : O, last : Int]
  BY <1>1 DEF ReadStates
<1>3. /\ m = ReadOf(m.mods, m.fields, m.oneofs, m.last)
      /\ m.mods \in Int /\ m.last \in Int /\ m.fields \in F /\ m.oneofs \in O
  BY <1>2 DEF ReadOf
<1> QED
  BY <1>1, <1>3

LEMMA NumberTyped ==
  ASSUME NEW tok \in TextTokens, NEW range \in Ranges
  PROVE  Number(tok, range) \in Int
<1>1. PICK text : text = tok.text
  OBVIOUS
<1>2. text \in Seq(Nat) /\ range.min \in Nat
  BY <1>1, DigitBits DEF TextTokens
<1>3. PICK D : D = [k \in 1 .. Len(text) |-> text[k] - range.min]
  OBVIOUS
<1>4. D \in Seq(Int)
  BY <1>2, <1>3
<1>5. DecodeVarint(D, range) = -1 \/ DecodeVarint(D, range) \in Nat
  BY <1>4, VarintType DEF Overlong
<1> QED
  BY <1>1, <1>3, <1>5 DEF Number

LEMMA LastReplaced ==
  ASSUME NEW S, NEW s \in Seq(S), NEW y \in S
  PROVE  /\ [s EXCEPT ![Len(s)] = y] \in Seq(S)
         /\ \A t \in Seq(S) : \A x \in S : s = Append(t, x) => [s EXCEPT ![Len(s)] = y] = Append(t, y)
<1>1. PICK n, r : n = Len(s) /\ r = [s EXCEPT ![Len(s)] = y]
  OBVIOUS
<1>2. n \in Nat /\ s \in [1 .. n -> S]
  BY <1>1
<1>3. r \in [1 .. n -> S] /\ \A i \in 1 .. n : r[i] = IF i = n THEN y ELSE s[i]
  BY <1>1, <1>2
<1>4. r \in Seq(S) /\ Len(r) = n
  BY <1>2, <1>3
<1>5. ASSUME NEW t \in Seq(S), NEW x \in S, s = Append(t, x) PROVE r = Append(t, y)
  <2>1. Len(t) = n - 1 /\ \A i \in 1 .. n - 1 : s[i] = t[i]
    BY <1>1, <1>5
  <2>2. PICK u : u = Append(t, y)
    OBVIOUS
  <2>3. u \in Seq(S) /\ Len(u) = n /\ \A i \in 1 .. n : u[i] = IF i = n THEN y ELSE t[i]
    BY <1>2, <2>1, <2>2
  <2>4. \A i \in 1 .. n : r[i] = u[i]
    BY <1>2, <1>3, <2>1, <2>3
  <2> QED
    BY <1>4, <2>2, <2>3, <2>4
<1> QED
  BY <1>1, <1>4, <1>5

LEMMA LastSwapped ==
  ASSUME NEW S, NEW t \in Seq(S), NEW x \in S, NEW y \in S, NEW s, s = Append(t, x)
  PROVE  [s EXCEPT ![Len(s)] = y] = Append(t, y)
<1>1. s \in Seq(S)
  OBVIOUS
<1> QED
  BY <1>1, LastReplaced

(* What a token does, kind by kind.                                         *)
LEMMA FieldRead ==
  ASSUME NEW m \in ReadStates, NEW tok \in TextTokens, tok.kind = "field"
  PROVE  ReadToken(m, tok) =
           ReadOf(m.mods, Append(m.fields, [number |-> m.last + 1,
                                            type |-> tok.text[1], mods |-> 0]),
                  m.oneofs, m.last + 1)
<1>1. PICK a, fs, os, l : m = ReadOf(a, fs, os, l)
  BY ReadOfStates
<1>2. ReadToken(m, tok) = [m EXCEPT !.last = @ + 1,
                                      !.fields = Append(@, [number |-> m.last + 1,
                                                            type |-> tok.text[1], mods |-> 0])]
  BY DEF ReadToken
<1> QED
  BY <1>1, <1>2 DEF ReadOf

LEMMA ModifierRead ==
  ASSUME NEW m \in ReadStates, NEW tok \in TextTokens, tok.kind = "modifier",
         NEW n, n = Number(tok, ModifierRange)
  PROVE  /\ m.fields = <<>> =>
              ReadToken(m, tok) = ReadOf(n, m.fields, m.oneofs, m.last)
         /\ m.fields # <<>> =>
              ReadToken(m, tok) =
                ReadOf(m.mods, [m.fields EXCEPT ![Len(m.fields)] =
                                  [m.fields[Len(m.fields)] EXCEPT !.mods = n]],
                       m.oneofs, m.last)
<1>1. PICK a, fs, os, l : m = ReadOf(a, fs, os, l)
  BY ReadOfStates
<1>2. RangeOf(tok.kind) = ModifierRange
  BY DEF RangeOf
<1>4. m.fields = <<>> => ReadToken(m, tok) = [m EXCEPT !.mods = n]
  BY <1>2 DEF ReadToken
<1>5. m.fields # <<>> => ReadToken(m, tok) = [m EXCEPT !.fields[Len(m.fields)].mods = n]
  BY <1>2 DEF ReadToken
<1> QED
  BY <1>1, <1>4, <1>5 DEF ReadOf

LEMMA SkipRead ==
  ASSUME NEW m \in ReadStates, NEW tok \in TextTokens, tok.kind = "skip"
  PROVE  ReadToken(m, tok) =
           ReadOf(m.mods, m.fields, m.oneofs, m.last + Number(tok, SkipRange) - 1)
<1>1. PICK a, fs, os, l : m = ReadOf(a, fs, os, l)
  BY ReadOfStates
<1>2. RangeOf(tok.kind) = SkipRange
  BY DEF RangeOf
<1>3. ReadToken(m, tok) = [m EXCEPT !.last = @ + Number(tok, SkipRange) - 1]
  BY <1>2 DEF ReadToken
<1> QED
  BY <1>1, <1>3 DEF ReadOf

LEMMA OneofRead ==
  ASSUME NEW m \in ReadStates, NEW tok \in TextTokens, tok.kind \in {"end", "next"}
  PROVE  ReadToken(m, tok) = ReadOf(m.mods, m.fields, Append(m.oneofs, <<>>), m.last)
<1>1. PICK a, fs, os, l : m = ReadOf(a, fs, os, l)
  BY ReadOfStates
<1>2. ReadToken(m, tok) = [m EXCEPT !.oneofs = Append(@, <<>>)]
  BY DEF ReadToken
<1> QED
  BY <1>1, <1>2 DEF ReadOf

LEMMA MemberRead ==
  ASSUME NEW m \in ReadStates, NEW tok \in TextTokens, tok.kind = "member",
         NEW n, n = Number(tok, OneofRange)
  PROVE  ReadToken(m, tok) =
           ReadOf(m.mods, m.fields,
                  [m.oneofs EXCEPT ![Len(m.oneofs)] = Append(m.oneofs[Len(m.oneofs)], n)],
                  m.last)
<1>1. PICK a, fs, os, l : m = ReadOf(a, fs, os, l)
  BY ReadOfStates
<1>2. RangeOf(tok.kind) = OneofRange
  BY DEF RangeOf
<1>3. ReadToken(m, tok) = [m EXCEPT !.oneofs[Len(m.oneofs)] = Append(@, n)]
  BY <1>2 DEF ReadToken
<1> QED
  BY <1>1, <1>3 DEF ReadOf

LEMMA NothingRead ==
  ASSUME NEW m \in ReadStates, NEW tok \in TextTokens, tok.kind \in {"separator", "bad"}
  PROVE  ReadToken(m, tok) = m
BY DEF ReadToken

LEMMA ReadTyped ==
  ASSUME NEW m \in ReadStates, NEW tok \in TextTokens
  PROVE  ReadToken(m, tok) \in ReadStates
<1>1. PICK fs, os, a, l : fs = m.fields /\ os = m.oneofs /\ a = m.mods /\ l = m.last
  OBVIOUS
<1>2. fs \in Seq(ReadFields) /\ os \in Seq(Seq(Int)) /\ a \in Int /\ l \in Int
  BY <1>1, ReadOfStates
<1>3. CASE tok.kind = "field"
  <2>1. tok.text[1] \in Int
    BY DEF TextTokens
  <2>2. PICK f : f = [number |-> l + 1, type |-> tok.text[1], mods |-> 0]
    OBVIOUS
  <2>3. f \in ReadFields /\ l + 1 \in Int
    BY <1>2, <2>1, <2>2 DEF ReadFields
  <2>4. PICK gs, k : gs = Append(fs, f) /\ k = l + 1
    OBVIOUS
  <2>5. gs \in Seq(ReadFields) /\ k \in Int
    BY <1>2, <2>3, <2>4
  <2>6. ReadToken(m, tok) = ReadOf(a, gs, os, k)
    BY <1>1, <1>3, <2>2, <2>4, FieldRead
  <2> QED
    BY <1>2, <2>5, <2>6, ReadOfIn
<1>4. CASE tok.kind = "modifier"
  <2>1. PICK n : n = Number(tok, ModifierRange)
    OBVIOUS
  <2>2. n \in Int
    BY <2>1, NumberTyped DEF Ranges
  <2>3. CASE fs = <<>>
    <3>1. ReadToken(m, tok) = ReadOf(n, fs, os, l)
      BY <1>1, <1>4, <2>1, <2>3, ModifierRead
    <3> QED
      BY <1>2, <2>2, <3>1, ReadOfIn
  <2>4. CASE fs # <<>>
    <3>1. fs[Len(fs)] \in ReadFields
      BY <1>2, <2>4
    <3>2. PICK y : y = [fs[Len(fs)] EXCEPT !.mods = n]
      OBVIOUS
    <3>3. y \in ReadFields
      BY <2>2, <3>1, <3>2 DEF ReadFields
    <3>4. PICK gs : gs = [fs EXCEPT ![Len(fs)] = y]
      OBVIOUS
    <3>5. gs \in Seq(ReadFields)
      BY <1>2, <3>3, <3>4, LastReplaced
    <3>6. ReadToken(m, tok) = ReadOf(a, gs, os, l)
      BY <1>1, <1>4, <2>1, <2>4, <3>2, <3>4, ModifierRead
    <3> QED
      BY <1>2, <3>5, <3>6, ReadOfIn
  <2> QED
    BY <2>3, <2>4
<1>5. CASE tok.kind = "skip"
  <2>1. Number(tok, SkipRange) \in Int
    BY NumberTyped DEF Ranges
  <2>2. PICK k : k = l + Number(tok, SkipRange) - 1
    OBVIOUS
  <2>3. k \in Int
    BY <1>2, <2>1, <2>2
  <2>4. ReadToken(m, tok) = ReadOf(a, fs, os, k)
    BY <1>1, <1>5, <2>2, SkipRead
  <2> QED
    BY <1>2, <2>3, <2>4, ReadOfIn
<1>6. CASE tok.kind \in {"end", "next"}
  <2>1. PICK S : S = Seq(Int)
    OBVIOUS
  <2>2. <<>> \in S /\ os \in Seq(S)
    BY <1>2, <2>1
  <2>3. PICK r : r = Append(os, <<>>)
    OBVIOUS
  <2>4. r \in Seq(S)
    BY <2>2, <2>3
  <2>5. ReadToken(m, tok) = ReadOf(a, fs, r, l)
    BY <1>1, <1>6, <2>3, OneofRead
  <2> QED
    BY <1>2, <2>1, <2>4, <2>5, ReadOfIn
<1>7. CASE tok.kind = "member"
  <2>1. PICK n : n = Number(tok, OneofRange)
    OBVIOUS
  <2>2. n \in Int
    BY <2>1, NumberTyped DEF Ranges
  <2>3. PICK S, y, r : /\ S = Seq(Int) /\ y = Append(os[Len(os)], n)
                       /\ r = [os EXCEPT ![Len(os)] = y]
    OBVIOUS
  <2>4. os \in Seq(S)
    BY <1>2, <2>3
  <2>5. r \in Seq(S)
    <3>1. CASE os = <<>>
      <4>1. DOMAIN os = {}
        BY <3>1
      <4>2. r = os
        BY <2>3, <2>4, <4>1
      <4> QED
        BY <2>4, <4>2
    <3>2. CASE os # <<>>
      <4>1. os[Len(os)] \in S
        BY <2>4, <3>2
      <4>2. y \in S
        BY <2>2, <2>3, <4>1
      <4> QED
        BY <2>3, <2>4, <4>2, LastReplaced
    <3> QED
      BY <3>1, <3>2
  <2>6. ReadToken(m, tok) = ReadOf(a, fs, r, l)
    BY <1>1, <1>7, <2>1, <2>3, MemberRead
  <2> QED
    BY <1>2, <2>3, <2>5, <2>6, ReadOfIn
<1>8. CASE tok.kind \in {"separator", "bad"}
  BY <1>8, NothingRead
<1> QED
  BY <1>3, <1>4, <1>5, <1>6, <1>7, <1>8 DEF TextTokens, TokenKinds, DigitKinds

ReadStep == [tok \in TextTokens |-> [m \in ReadStates |-> ReadToken(m, tok)]]

LEMMA ReadSteps == /\ ReadStep \in [TextTokens -> [ReadStates -> ReadStates]]
                   /\ Unread \in ReadStates /\ TextTokens # {}
<1>1. Unread \in ReadStates
  BY DEF Unread, ReadStates
<1>2. [kind |-> "end", text |-> <<0>>] \in TextTokens
  BY OneTyped DEF TokenKinds
<1> QED
  BY <1>1, <1>2, ReadTyped DEF ReadStep

LEMMA ReadTokensFolds ==
  ASSUME NEW s \in Seq(TextTokens)
  PROVE  FoldsTo(ReadTokens(s), ReadStep, Unread, s, ReadStates)
<1> DEFINE R(f) == f = [i \in 0 .. Len(s) |-> IF i = 0 THEN Unread ELSE ReadToken(f[i - 1], s[i])]
           c == CHOOSE f : R(f)
<1>1. ReadStep \in [TextTokens -> [ReadStates -> ReadStates]] /\ Unread \in ReadStates
  BY ReadSteps
<1>2. \A i \in 1 .. Len(s) : \A x \in ReadStates : ReadStep[s[i]][x] = ReadToken(x, s[i])
  BY DEF ReadStep
<1>3. PICK F : /\ IsTable(F, Len(s)) /\ F[0] = Unread
               /\ \A i \in 1 .. Len(s) : F[i - 1] \in ReadStates /\ F[i] = ReadStep[s[i]][F[i - 1]]
  <2>1. PICK X, Y : X = TextTokens /\ Y = ReadStates
    OBVIOUS
  <2>2. s \in Seq(X) /\ ReadStep \in [X -> [Y -> Y]] /\ Unread \in Y
    BY <1>1, <2>1
  <2>3. \E F : /\ IsTable(F, Len(s)) /\ F[0] = Unread
               /\ \A i \in 1 .. Len(s) : F[i - 1] \in Y /\ F[i] = ReadStep[s[i]][F[i - 1]]
    BY <2>2, FoldExists
  <2> QED
    BY <2>1, <2>3
<1>4. \A i \in 0 .. Len(s) : F[i] = IF i = 0 THEN Unread ELSE ReadToken(F[i - 1], s[i])
  <2>1. \A i \in 0 .. Len(s) : i = 0 \/ i \in 1 .. Len(s)
    OBVIOUS
  <2>2. \A i \in 1 .. Len(s) : F[i] = ReadToken(F[i - 1], s[i])
    BY <1>2, <1>3
  <2> QED
    BY <1>3, <2>1, <2>2, Zenon
<1>5. R(F)
  BY <1>3, <1>4 DEF IsTable
<1>6. R(c)
  BY <1>5
<1>7. ReadTokens(s) = c[Len(s)]
  BY DEF ReadTokens
<1> HIDE DEF c
<1>8. /\ IsTable(c, Len(s)) /\ c[0] = Unread
      /\ \A i \in 1 .. Len(s) : c[i] = ReadToken(c[i - 1], s[i])
  BY <1>6 DEF IsTable
<1> HIDE DEF R
<1>9. \A i \in 1 .. Len(s) : c[i - 1] \in ReadStates => c[i] = ReadStep[s[i]][c[i - 1]]
  BY <1>2, <1>8
<1>10. FoldsTo(c[Len(s)], ReadStep, Unread, s, ReadStates)
  BY <1>1, <1>8, <1>9, FoldIs
<1> QED
  BY <1>7, <1>10

LEMMA ReadTokensGrown ==
  ASSUME NEW s \in Seq(TextTokens)
  PROVE  /\ ReadTokens(s) \in ReadStates
         /\ \A x \in TextTokens : ReadTokens(Append(s, x)) = ReadToken(ReadTokens(s), x)
<1>1. ReadStep \in [TextTokens -> [ReadStates -> ReadStates]] /\ Unread \in ReadStates
  BY ReadSteps
<1>2. ASSUME NEW x \in TextTokens
      PROVE  ReadTokens(s) \in ReadStates /\ ReadTokens(Append(s, x)) = ReadToken(ReadTokens(s), x)
  <2>1. PICK r, q, t : r = ReadTokens(s) /\ q = ReadTokens(t) /\ t = Append(s, x)
    OBVIOUS
  <2>2. t \in Seq(TextTokens)
    BY <2>1
  <2>3. FoldsTo(r, ReadStep, Unread, s, ReadStates)
    BY <2>1, ReadTokensFolds
  <2>4. FoldsTo(q, ReadStep, Unread, Append(s, x), ReadStates)
    BY <2>1, <2>2, ReadTokensFolds
  <2>5. PICK X, Y : X = TextTokens /\ Y = ReadStates
    OBVIOUS
  <2>6. s \in Seq(X) /\ x \in X /\ ReadStep \in [X -> [Y -> Y]] /\ Unread \in Y
    BY <1>1, <2>5
  <2>7. FoldsTo(r, ReadStep, Unread, s, Y) /\ FoldsTo(q, ReadStep, Unread, Append(s, x), Y)
    BY <2>3, <2>4, <2>5
  <2>8. r \in Y /\ q = ReadStep[x][r]
    BY <2>6, <2>7, FoldGrown
  <2>9. r \in ReadStates /\ q = ReadStep[x][r]
    BY <2>5, <2>8
  <2> QED
    BY <2>1, <2>9 DEF ReadStep
<1>3. TextTokens # {}
  BY ReadSteps
<1> QED
  BY <1>2, <1>3

-----------------------------------------------------------------------------
(* A text that is written is read                                           *)

GoodToken(tok) ==
  /\ tok.kind # "bad"
  /\ tok.kind \in DigitKinds => Number(tok, RangeOf(tok.kind)) # Overlong
  /\ tok.kind = "skip" => Number(tok, SkipRange) # 0

(* The text out is split into good tokens that read as m; k is the kind of  *)
(* the last.                                                                *)
LastKind(tokens) == IF tokens = <<>> THEN "none" ELSE Last(tokens).kind
Reads(out, ended, k, m) ==
  /\ out \in Seq(Nat) /\ Splitting(out).ended = ended /\ LastKind(Split(out)) = k
  /\ \A i \in 1 .. Len(Split(out)) : GoodToken(Split(out)[i])
  /\ ReadTokens(Split(out)) = m

LEMMA ReadsReadable ==
  ASSUME NEW out, NEW ended, NEW k, NEW m, Reads(out, ended, k, m)
  PROVE  Readable(out) /\ ReadMessage(out) = m
<1>1. \A tok \in ToSet(Split(out)) : GoodToken(tok)
  BY DEF Reads, ToSet
<1> QED
  BY <1>1 DEF Reads, Readable, GoodToken, ReadMessage, DigitKinds

LEMMA ReadsNothing == Reads(<<>>, FALSE, "none", Unread)
<1>1. PICK t : t = <<>>
  OBVIOUS
<1>2. t \in Seq(Nat)
  BY <1>1
<1>3. Splitting(t) = Unsplit
  BY <1>1, <1>2, SplittingFolds, FoldEmpty, SplitSteps
<1>4. Split(t) = <<>> /\ Splitting(t).ended = FALSE
  BY <1>3 DEF Split, Unsplit
<1>5. PICK u : u = <<>>
  OBVIOUS
<1>6. u \in Seq(TextTokens)
  BY <1>5
<1>7. ReadTokens(u) = Unread
  BY <1>5, <1>6, ReadTokensFolds, FoldEmpty, ReadSteps
<1>8. \A i \in 1 .. Len(u) : GoodToken(u[i])
  BY <1>5
<1>9. LastKind(u) = "none"
  BY <1>5 DEF LastKind
<1> QED
  BY <1>1, <1>2, <1>4, <1>5, <1>7, <1>8, <1>9 DEF Reads

(* One more token at the end of what a text is split into.                  *)
LEMMA ReadsToken ==
  ASSUME NEW out, NEW ended, NEW k, NEW m, Reads(out, ended, k, m),
         NEW tok \in TextTokens, GoodToken(tok), NEW more \in Seq(Nat), NEW over,
         Splitting(more) = [ended |-> over, tokens |-> Append(Split(out), tok)]
  PROVE  Reads(more, over, tok.kind, ReadToken(m, tok))
<1>1. PICK ts : ts = Split(out)
  OBVIOUS
<1>2. ts \in Seq(TextTokens)
  BY <1>1, SplittingGrown DEF Reads, Split, SplitStates
<1>3. Split(more) = Append(ts, tok) /\ Splitting(more).ended = over
  BY <1>1 DEF Split
<1>4. ReadTokens(Append(ts, tok)) = ReadToken(m, tok)
  BY <1>1, <1>2, ReadTokensGrown DEF Reads
<1>5. LastKind(Append(ts, tok)) = tok.kind
  BY <1>2, FrontAndLast DEF LastKind
<1>6. \A i \in 1 .. Len(Append(ts, tok)) : GoodToken(Append(ts, tok)[i])
  <2>1. \A i \in 1 .. Len(ts) : GoodToken(ts[i])
    BY <1>1 DEF Reads
  <2>2. PICK u : u = Append(ts, tok)
    OBVIOUS
  <2>3. \A i \in 1 .. Len(u) : (i \in 1 .. Len(ts) /\ u[i] = ts[i]) \/ u[i] = tok
    BY <1>2, <2>2
  <2> QED
    BY <2>1, <2>2, <2>3
<1> QED
  BY <1>3, <1>4, <1>5, <1>6 DEF Reads

LEMMA CharReads ==
  ASSUME NEW out, NEW ended \in BOOLEAN, NEW k, NEW m, Reads(out, ended, k, m),
         NEW ch \in Nat, NEW kind \in {"field", "end", "separator"}, kind = Kind(ended, ch)
  PROVE  /\ [kind |-> kind, text |-> <<ch>>] \in TextTokens
         /\ Reads(Append(out, ch), ended \/ kind = "end", kind,
                  ReadToken(m, [kind |-> kind, text |-> <<ch>>]))
<1>1. PICK acc, tok, more : /\ acc = Splitting(out) /\ more = Append(out, ch)
                              /\ tok = [kind |-> kind, text |-> <<ch>>]
  OBVIOUS
<1>2. out \in Seq(Nat) /\ acc \in SplitStates /\ acc.ended = ended /\ acc.tokens = Split(out)
  BY <1>1, SplittingGrown DEF Reads, Split
<1>3. tok \in TextTokens /\ tok.kind = kind
  BY <1>1, OneTyped DEF TokenKinds, DigitKinds
<1>4. GoodToken(tok)
  BY <1>3 DEF GoodToken, DigitKinds
<1>5. Splitting(more) = SplitAt(acc, ch) /\ more \in Seq(Nat)
  BY <1>1, <1>2, SplittingGrown
<1>6. kind \notin DigitKinds
  BY DEF DigitKinds
<1>7. SplitAt(acc, ch) = [ended |-> ended \/ kind = "end", tokens |-> Append(Split(out), tok)]
  BY <1>1, <1>2, <1>6, SplitNew
<1> QED
  BY <1>1, <1>3, <1>4, <1>5, <1>7, ReadsToken

LEMMA ConcatGrown ==
  ASSUME NEW S, NEW s \in Seq(S), NEW t \in Seq(S), NEW x \in S
  PROVE  s \o Append(t, x) = Append(s \o t, x) /\ s \o t \in Seq(S)
<1>1. PICK n, m, u, w : /\ n = Len(s) /\ m = Len(t)
                        /\ u = s \o Append(t, x) /\ w = Append(s \o t, x)
  OBVIOUS
<1>2. n \in Nat /\ m \in Nat
  BY <1>1
<1>3. Append(t, x) \in Seq(S) /\ Len(Append(t, x)) = m + 1 /\ s \o t \in Seq(S) /\ Len(s \o t) = n + m
  BY <1>1
<1>4. u \in Seq(S) /\ w \in Seq(S) /\ Len(u) = n + m + 1 /\ Len(w) = n + m + 1
  BY <1>1, <1>2, <1>3
<1>5. ASSUME NEW i \in 1 .. n + m + 1 PROVE u[i] = w[i]
  <2>1. CASE i <= n
    <3>1. u[i] = s[i]
      BY <1>1, <1>2, <1>3, <2>1
    <3>2. (s \o t)[i] = s[i]
      BY <1>1, <1>2, <2>1
    <3> QED
      BY <1>1, <1>2, <1>3, <2>1, <3>1, <3>2
  <2>2. CASE i > n /\ i <= n + m
    <3>1. u[i] = Append(t, x)[i - n]
      BY <1>1, <1>2, <1>3, <2>2
    <3>2. Append(t, x)[i - n] = t[i - n]
      BY <1>1, <1>2, <2>2
    <3>3. (s \o t)[i] = t[i - n]
      BY <1>1, <1>2, <2>2
    <3> QED
      BY <1>1, <1>2, <1>3, <2>2, <3>1, <3>2, <3>3
  <2>3. CASE i = n + m + 1
    <3>1. u[i] = Append(t, x)[m + 1]
      BY <1>1, <1>2, <1>3, <2>3
    <3> QED
      BY <1>1, <1>2, <1>3, <2>3, <3>1
  <2> QED
    BY <1>2, <2>1, <2>2, <2>3
<1> QED
  BY <1>1, <1>2, <1>3, <1>4, <1>5

(* The beginning of a text.                                                 *)
PartOf(text, j) == [i \in 1 .. j |-> text[i]]

HasParts(text, n, S) ==
  /\ \A j \in 0 .. n : PartOf(text, j) \in Seq(S) /\ Len(PartOf(text, j)) = j
  /\ PartOf(text, 0) = <<>> /\ PartOf(text, n) = text
  /\ \A j \in 1 .. n : PartOf(text, j) = Append(PartOf(text, j - 1), text[j])

LEMMA PartsOf ==
  ASSUME NEW S, NEW n \in Nat, NEW text \in [1 .. n -> S]
  PROVE  HasParts(text, n, S)
<1>1. ASSUME NEW j \in 0 .. n PROVE PartOf(text, j) \in Seq(S) /\ Len(PartOf(text, j)) = j
  <2>1. PartOf(text, j) \in [1 .. j -> S]
    BY DEF PartOf
  <2> QED
    BY <2>1
<1>2. PartOf(text, 0) = <<>> /\ PartOf(text, n) = text
  BY DEF PartOf
<1>3. ASSUME NEW j \in 1 .. n PROVE PartOf(text, j) = Append(PartOf(text, j - 1), text[j])
  <2>1. PICK h, p, q, c : h = j - 1 /\ p = PartOf(text, h) /\ q = PartOf(text, j) /\ c = text[j]
    OBVIOUS
  <2>2. h \in 0 .. n /\ j \in 0 .. n /\ h + 1 = j
    BY <2>1
  <2>3. p \in Seq(S) /\ Len(p) = h /\ q \in Seq(S) /\ Len(q) = j /\ c \in S
    BY <1>1, <2>1, <2>2
  <2>4. q[j] = c /\ \A i \in 1 .. h : p[i] = q[i]
    BY <2>1, <2>2 DEF PartOf
  <2>5. q = Append(p, c)
    BY <2>2, <2>3, <2>4
  <2> QED
    BY <2>1, <2>5
<1> QED
  BY <1>1, <1>2, <1>3 DEF HasParts

(* The characters of a varint, one after another, are one token.            *)
LEMMA RunSplits ==
  ASSUME NEW out \in Seq(Nat), NEW kind \in DigitKinds, NEW n \in Nat \ {0},
         NEW text \in [1 .. n -> Nat], LastKind(Split(out)) # kind,
         \A i \in 1 .. n : Kind(Splitting(out).ended, text[i]) = kind
  PROVE  /\ out \o text \in Seq(Nat) /\ [kind |-> kind, text |-> text] \in TextTokens
         /\ Splitting(out \o text) =
              [ended |-> Splitting(out).ended,
               tokens |-> Append(Split(out), [kind |-> kind, text |-> text])]
<1>1. PICK ended, ts : ended = Splitting(out).ended /\ ts = Split(out)
  OBVIOUS
<1>2. Splitting(out) \in SplitStates /\ Splitting(out).tokens = ts /\ ts \in Seq(TextTokens)
      /\ ended \in BOOLEAN
  BY <1>1, SplittingGrown DEF Split, SplitStates
<1>3. PICK N : N = Nat
  OBVIOUS
<1>4. n \in Nat /\ text \in [1 .. n -> N] /\ out \in Seq(N)
  BY <1>3
<1>5. /\ \A j \in 0 .. n : PartOf(text, j) \in Seq(N) /\ Len(PartOf(text, j)) = j
      /\ PartOf(text, 0) = <<>> /\ PartOf(text, n) = text
      /\ \A j \in 1 .. n : PartOf(text, j) = Append(PartOf(text, j - 1), text[j])
  <2>1. HasParts(text, n, N)
    BY <1>4, PartsOf
  <2> QED
    BY <2>1 DEF HasParts
<1> DEFINE Good(j) == Splitting(out \o PartOf(text, j)) =
                        [ended |-> ended,
                         tokens |-> Append(ts, [kind |-> kind, text |-> PartOf(text, j)])]
           T == {j \in 0 .. n : j = 0 \/ Good(j)}
<1>6. 0 \in T
  OBVIOUS
<1>7. ASSUME NEW j \in 1 .. n, j - 1 \in T PROVE j \in T
  <2>1. PICK h, p, c, before : h = j - 1 /\ p = PartOf(text, h) /\ c = text[j] /\ before = out \o p
    OBVIOUS
  <2>2. h \in 0 .. n /\ j \in 0 .. n /\ c \in N
    BY <1>4, <2>1
  <2>3. p \in Seq(N) /\ Len(p) = h /\ PartOf(text, j) = Append(p, c)
    BY <1>5, <2>1, <2>2
  <2>a. out \o Append(p, c) = Append(out \o p, c) /\ out \o p \in Seq(N)
    BY <1>4, <2>2, <2>3, ConcatGrown, Zenon
  <2>4. out \o PartOf(text, j) = Append(before, c) /\ before \in Seq(N)
    BY <2>1, <2>3, <2>a
  <2>5. PICK acc : acc = Splitting(before)
    OBVIOUS
  <2>6. acc \in SplitStates /\ Splitting(out \o PartOf(text, j)) = SplitAt(acc, c) /\ c \in Nat
    BY <1>3, <2>2, <2>4, <2>5, SplittingGrown
  <2>7. Kind(ended, c) = kind
    BY <1>1, <2>1
  <2>8. CASE h = 0
    <3>1. p = <<>>
      BY <1>5, <2>1, <2>8
    <3>2. before = out
      BY <1>4, <2>1, <3>1
    <3>3. acc.tokens = ts /\ acc.ended = ended
      BY <1>1, <1>2, <2>5, <3>2
    <3>4. LastKind(acc.tokens) # kind
      BY <1>1, <3>3
    <3>5. acc.tokens # <<>> => Last(acc.tokens).kind # kind
      BY <3>4 DEF LastKind
    <3>6. kind # "end" /\ kind = Kind(acc.ended, c)
      BY <2>7, <3>3 DEF DigitKinds
    <3>7. SplitAt(acc, c) = [ended |-> acc.ended \/ kind = "end",
                             tokens |-> Append(acc.tokens, [kind |-> kind, text |-> <<c>>])]
      BY <2>6, <3>5, <3>6, SplitNew
    <3>8. Append(p, c) = <<c>>
      BY <3>1
    <3>9. (acc.ended \/ kind = "end") = ended
      BY <1>2, <3>3, <3>6
    <3>10. SplitAt(acc, c) = [ended |-> ended,
                              tokens |-> Append(ts, [kind |-> kind, text |-> Append(p, c)])]
      BY <3>3, <3>7, <3>8, <3>9
    <3> QED
      BY <2>2, <2>3, <2>6, <3>10
  <2>9. CASE h # 0
    <3>1. Good(h)
      BY <1>7, <2>1, <2>9
    <3>2. acc = [ended |-> ended, tokens |-> Append(ts, [kind |-> kind, text |-> p])]
      BY <2>1, <2>5, <3>1
    <3>3. acc.ended = ended /\ acc.tokens = Append(ts, [kind |-> kind, text |-> p])
      BY <3>2
    <3>4. p \in Seq(Nat) \ {<<>>}
      BY <1>3, <2>3, <2>9
    <3>5. kind = Kind(acc.ended, c)
      BY <2>7, <3>3
    <3>6. SplitAt(acc, c) = [ended |-> acc.ended,
                             tokens |-> Append(ts, [kind |-> kind, text |-> Append(p, c)])]
      <4>1. Continues(acc, c, kind, ts, p)
        BY <1>2, <3>3, <3>4, <3>5 DEF Continues
      <4> QED
        BY <2>6, <4>1, SplitMore
    <3> QED
      BY <2>2, <2>3, <2>6, <3>3, <3>6
  <2> QED
    BY <2>8, <2>9
<1> HIDE DEF T
<1>8. \A j \in 0 .. n : j \in T
  BY <1>6, <1>7, CountUp
<1>9. n \in T /\ n # 0
  BY <1>8
<1>10. Good(n)
  BY <1>9 DEF T
<1>11. text \in Seq(Nat) \ {<<>>} /\ out \o text \in Seq(Nat)
  OBVIOUS
<1>12. [kind |-> kind, text |-> text] \in TextTokens
  BY <1>11 DEF TextTokens, TokenKinds
<1>13. Splitting(out \o text) = [ended |-> ended, tokens |-> Append(ts, [kind |-> kind, text |-> text])]
  <2>1. PartOf(text, n) = text
    BY <1>5
  <2> QED
    BY <1>10, <2>1
<1> QED
  BY <1>1, <1>11, <1>12, <1>13

KindsIn(range, ended, kind) ==
  /\ kind \in DigitKinds /\ RangeOf(kind) = range
  /\ \A ch \in range.min .. range.max : Kind(ended, ch) = kind

LEMMA RangeKinds ==
  /\ KindsIn(ModifierRange, FALSE, "modifier") /\ KindsIn(SkipRange, FALSE, "skip")
  /\ KindsIn(OneofRange, TRUE, "member")
<1>1. /\ "modifier" \in DigitKinds /\ RangeOf("modifier") = ModifierRange
      /\ "skip" \in DigitKinds /\ RangeOf("skip") = SkipRange
      /\ "member" \in DigitKinds /\ RangeOf("member") = OneofRange
  BY DEF DigitKinds, RangeOf
<1>2. /\ ModifierRange.min = 42 /\ ModifierRange.max = 57 /\ SkipRange.min = 60
      /\ SkipRange.max = 91 /\ OneofRange.min = 0 /\ OneofRange.max = 63
  BY DEF ModifierRange, SkipRange, OneofRange
<1>3. ASSUME NEW ch \in 42 .. 57 PROVE Kind(FALSE, ch) = "modifier"
  <2>1. /\ ~(ch <= MaxField) /\ InRange(ch, ModifierRange) /\ ch # End
        /\ ~InRange(ch, SkipRange)
    BY <1>2 DEF InRange, MaxField, End
  <2> QED
    BY <2>1 DEF Kind
<1>4. ASSUME NEW ch \in 60 .. 91 PROVE Kind(FALSE, ch) = "skip"
  <2>1. /\ ~(ch <= MaxField) /\ ~InRange(ch, ModifierRange) /\ ch # End
        /\ InRange(ch, SkipRange)
    BY <1>2 DEF InRange, MaxField, End
  <2> QED
    BY <2>1 DEF Kind
<1>5. ASSUME NEW ch \in 0 .. 63 PROVE Kind(TRUE, ch) = "member"
  <2>1. ch # FieldSeparator /\ ch # OneofSeparator /\ InRange(ch, OneofRange)
    BY <1>2 DEF InRange, FieldSeparator, OneofSeparator
  <2> QED
    BY <2>1 DEF Kind
<1> QED
  BY <1>1, <1>2, <1>3, <1>4, <1>5 DEF KindsIn

CanPut(out, ended, k, m, range, kind, val) ==
  /\ Reads(out, ended, k, m) /\ KindsIn(range, ended, kind) /\ k # kind
  /\ range \in Ranges /\ val \in 0 .. Word - 1 /\ (kind = "skip" => val # 0)

LEMMA PutReads ==
  ASSUME NEW out, NEW ended, NEW k, NEW m, NEW range, NEW kind, NEW val,
         CanPut(out, ended, k, m, range, kind, val)
  PROVE  \E tok \in TextTokens :
           /\ tok.kind = kind /\ Number(tok, range) = val
           /\ Reads(Put(out, val, range), ended, kind, ReadToken(m, tok))
<1>0. /\ Reads(out, ended, k, m) /\ KindsIn(range, ended, kind) /\ k # kind
      /\ range \in Ranges /\ val \in 0 .. Word - 1 /\ (kind = "skip" => val # 0)
  BY DEF CanPut
<1>1. PICK D, n, low, high : /\ D = EncodeVarint(val, range) /\ n = Len(D)
                             /\ low = range.min /\ high = range.max
  OBVIOUS
<1>2. low \in Nat /\ high \in Nat
  BY <1>0, <1>1, DigitBits
<1>3. D \in Seq(0 .. high - low) /\ n \in Nat \ {0} /\ DecodeVarint(D, range) = val
  BY <1>0, <1>1, VarintRead
<1>4. PICK S : S = 0 .. high - low
  OBVIOUS
<1>5. \A i \in 1 .. n : D[i] \in 0 .. high - low
  <2>1. D \in Seq(S)
    BY <1>3, <1>4
  <2>2. \A i \in 1 .. n : D[i] \in S
    BY <1>1, <2>1
  <2> QED
    BY <1>4, <2>2
<1>6. PICK text : text = [i \in 1 .. n |-> low + D[i]]
  OBVIOUS
<1>7. \A i \in 1 .. n : text[i] = low + D[i] /\ text[i] \in low .. high /\ text[i] \in Nat
  BY <1>2, <1>5, <1>6
<1>8. text \in [1 .. n -> Nat]
  BY <1>6, <1>7
<1>9. Put(out, val, range) = out \o text
  BY <1>1, <1>6 DEF Put
<1>10. PICK tok : tok = [kind |-> kind, text |-> text]
  OBVIOUS
<1>11. \A i \in 1 .. n : Kind(ended, text[i]) = kind
  BY <1>0, <1>1, <1>7 DEF KindsIn
<1>12. out \in Seq(Nat) /\ Splitting(out).ended = ended /\ LastKind(Split(out)) # kind /\ kind \in DigitKinds
  BY <1>0 DEF Reads, KindsIn
<1>13. /\ out \o text \in Seq(Nat) /\ tok \in TextTokens
       /\ Splitting(out \o text) = [ended |-> ended, tokens |-> Append(Split(out), tok)]
  BY <1>3, <1>8, <1>10, <1>11, <1>12, RunSplits
<1>14. Number(tok, range) = val
  <2>1. [i \in 1 .. Len(text) |-> text[i] - range.min] = D
    <3>1. \A i \in 1 .. n : text[i] - low = D[i]
      <4>1. \A i \in 1 .. n : D[i] \in Int
        BY <1>5
      <4> QED
        BY <1>2, <1>7, <4>1
    <3>2. Len(text) = n
      BY <1>3, <1>8
    <3>3. D = [i \in 1 .. n |-> D[i]]
      <4>1. D \in Seq(S)
        BY <1>3, <1>4
      <4> QED
        BY <1>1, <4>1
    <3> QED
      BY <1>1, <3>1, <3>2, <3>3
  <2> QED
    BY <1>3, <1>10, <2>1 DEF Number
<1>15. tok.kind = kind /\ RangeOf(kind) = range
  BY <1>0, <1>10 DEF KindsIn
<1>16. GoodToken(tok)
  <2>1. val # Overlong
    BY <1>0, WordIsNat DEF Overlong
  <2>2. kind = "skip" => range = SkipRange
    BY <1>15 DEF RangeOf
  <2>3. kind # "bad"
    BY <1>12 DEF DigitKinds
  <2> QED
    BY <1>0, <1>14, <1>15, <2>1, <2>2, <2>3 DEF GoodToken
<1> QED
  BY <1>0, <1>9, <1>13, <1>14, <1>15, <1>16, ReadsToken

-----------------------------------------------------------------------------
(* MessageEncoder                                                           *)

FieldKinds == {"none", "field", "modifier"}

LEMMA ReadOfTyped ==
  ASSUME NEW msgMods \in Int, NEW declared \in Seq(FieldTypes), NEW last \in Int,
         NEW groups \in Seq(Seq(1 .. Word - 1))
  PROVE  ReadOf(msgMods, declared, groups, last) \in ReadStates
<1>1. FieldTypes \subseteq ReadFields
  BY DEF FieldTypes, ReadFields
<1>2. declared \in Seq(ReadFields)
  BY <1>1, SeqWithin
<1>3. PICK S : S = 1 .. Word - 1
  OBVIOUS
<1>4. S \subseteq Int
  BY <1>3
<1>5. \A s \in Seq(S) : s \in Seq(Int)
  BY <1>4, SeqWithin
<1>6. Seq(S) \subseteq Seq(Int)
  BY <1>5
<1>7. groups \in Seq(Seq(Int))
  BY <1>3, <1>6, SeqWithin
<1> QED
  BY <1>2, <1>7 DEF ReadOf, ReadStates

LEMMA NoOneofs == <<>> \in Seq(Seq(1 .. Word - 1))
OBVIOUS

LEMMA NumbersAreInts == \A v \in 0 .. Word - 1 : v \in Int
BY WordIsNat

LEMMA FieldTypesAre ==
  ASSUME NEW n \in 1 .. Word - 1, NEW type \in 0 .. MaxField, NEW val \in 0 .. Word - 1
  PROVE  [number |-> n, type |-> type, mods |-> val] \in FieldTypes
BY DEF FieldTypes

(* The field's number is reached, then its type is written.                 *)
LEMMA TypePut ==
  ASSUME NEW out, NEW k, NEW msgMods \in Int, NEW declared \in Seq(FieldTypes),
         NEW last \in Int, Reads(out, FALSE, k, ReadOf(msgMods, declared, <<>>, last)),
         NEW type \in 0 .. MaxField
  PROVE  Reads(Append(out, type), FALSE, "field",
               ReadOf(msgMods, Append(declared, [number |-> last + 1, type |-> type, mods |-> 0]),
                      <<>>, last + 1))
<1>1. PICK m, tok : /\ m = ReadOf(msgMods, declared, <<>>, last)
                      /\ tok = [kind |-> "field", text |-> <<type>>]
  OBVIOUS
<1>2. m \in ReadStates
  BY <1>1, NoOneofs, ReadOfTyped
<1>3. Kind(FALSE, type) = "field" /\ type \in Nat
  <2>1. /\ type <= MaxField /\ type \in Nat /\ type # End
        /\ ~InRange(type, ModifierRange) /\ ~InRange(type, SkipRange)
    BY DEF MaxField, End, InRange, ModifierRange, SkipRange
  <2> QED
    BY <2>1 DEF Kind
<1>4. tok \in TextTokens /\ Reads(Append(out, type), FALSE, "field", ReadToken(m, tok))
  BY <1>1, <1>3, CharReads
<1>5. tok.kind = "field" /\ tok.text[1] = type
  BY <1>1
<1>6. m.mods = msgMods /\ m.fields = declared /\ m.oneofs = <<>> /\ m.last = last
  BY <1>1 DEF ReadOf
<1>7. ReadToken(m, tok) =
        ReadOf(msgMods, Append(declared, [number |-> last + 1, type |-> type, mods |-> 0]),
               <<>>, last + 1)
  BY <1>2, <1>4, <1>5, <1>6, FieldRead
<1> QED
  BY <1>4, <1>7

LEMMA ModsPut ==
  ASSUME NEW out, NEW msgMods \in Int, NEW declared \in Seq(FieldTypes), NEW last \in Int,
         NEW f \in FieldTypes, f.mods = 0,
         Reads(out, FALSE, "field", ReadOf(msgMods, Append(declared, f), <<>>, last)),
         NEW val \in 0 .. Word - 1
  PROVE  \E k \in FieldKinds :
           Reads(PutUnlessZero(out, val, ModifierRange), FALSE, k,
                 ReadOf(msgMods, Append(declared, [f EXCEPT !.mods = val]), <<>>, last))
<1>1. CASE val = 0
  <2>1. [f EXCEPT !.mods = val] = f
    BY <1>1 DEF FieldTypes
  <2> QED
    BY <1>1, <2>1 DEF PutUnlessZero, FieldKinds
<1>2. CASE val # 0
  <2>1. PICK fs, m, g : /\ fs = Append(declared, f) /\ m = ReadOf(msgMods, fs, <<>>, last)
                        /\ g = [f EXCEPT !.mods = val]
    OBVIOUS
  <2>2. fs \in Seq(FieldTypes) /\ fs # <<>> /\ fs[Len(fs)] = f
    BY <2>1
  <2>3. m \in ReadStates
    BY <2>1, <2>2, NoOneofs, ReadOfTyped
  <2>4. PICK tok \in TextTokens :
          /\ tok.kind = "modifier" /\ Number(tok, ModifierRange) = val
          /\ Reads(Put(out, val, ModifierRange), FALSE, "modifier", ReadToken(m, tok))
    <3>1. CanPut(out, FALSE, "field", m, ModifierRange, "modifier", val)
      BY <2>1, RangeKinds DEF CanPut, Ranges
    <3> QED
      BY <3>1, PutReads
  <2>5. m.mods = msgMods /\ m.fields = fs /\ m.oneofs = <<>> /\ m.last = last
    BY <2>1 DEF ReadOf
  <2>6. ReadToken(m, tok) = ReadOf(msgMods, [fs EXCEPT ![Len(fs)] = g], <<>>, last)
    <3>1. ReadToken(m, tok) =
            ReadOf(m.mods, [m.fields EXCEPT ![Len(m.fields)] =
                              [m.fields[Len(m.fields)] EXCEPT !.mods = val]],
                   m.oneofs, m.last)
      BY <2>2, <2>3, <2>4, <2>5, ModifierRead
    <3> QED
      BY <2>1, <2>2, <2>5, <3>1
  <2>7. g \in FieldTypes
    <3>1. g = [number |-> f.number, type |-> f.type, mods |-> val]
      BY <2>1 DEF FieldTypes
    <3>2. f.number \in 1 .. Word - 1 /\ f.type \in 0 .. MaxField
      BY DEF FieldTypes
    <3> QED
      BY <3>1, <3>2, FieldTypesAre
  <2>8. [fs EXCEPT ![Len(fs)] = g] = Append(declared, g)
    BY <2>1, <2>7, LastSwapped
  <2>9. ReadToken(m, tok) = ReadOf(msgMods, Append(declared, g), <<>>, last)
    BY <2>6, <2>8
  <2> QED
    BY <1>2, <2>1, <2>4, <2>9 DEF PutUnlessZero, FieldKinds
<1> QED
  BY <1>1, <1>2

LEMMA SkipPut ==
  ASSUME NEW out, NEW k \in FieldKinds, NEW msgMods \in Int, NEW declared \in Seq(FieldTypes),
         NEW last \in 0 .. Word - 1, Reads(out, FALSE, k, ReadOf(msgMods, declared, <<>>, last)),
         NEW n \in 1 .. Word - 1, last < n, n # last + 1
  PROVE  Reads(Put(out, n - last, SkipRange), FALSE, "skip", ReadOf(msgMods, declared, <<>>, n - 1))
<1>1. PICK m, val : m = ReadOf(msgMods, declared, <<>>, last) /\ val = n - last
  OBVIOUS
<1>2. last \in Int /\ n \in Int /\ val \in Int /\ val \in 0 .. Word - 1 /\ val # 0
      /\ last + val - 1 = n - 1
  BY <1>1, WordIsNat
<1>3. m \in ReadStates
  BY <1>1, <1>2, NoOneofs, ReadOfTyped
<1>4. CanPut(out, FALSE, k, m, SkipRange, "skip", val)
  BY <1>1, <1>2, RangeKinds DEF CanPut, Ranges, FieldKinds
<1>5. PICK tok \in TextTokens :
        /\ tok.kind = "skip" /\ Number(tok, SkipRange) = val
        /\ Reads(Put(out, val, SkipRange), FALSE, "skip", ReadToken(m, tok))
  BY <1>4, PutReads
<1>6. m.mods = msgMods /\ m.fields = declared /\ m.oneofs = <<>> /\ m.last = last
  BY <1>1 DEF ReadOf
<1>7. ReadToken(m, tok) = ReadOf(msgMods, declared, <<>>, n - 1)
  BY <1>2, <1>3, <1>5, <1>6, SkipRead
<1> QED
  BY <1>1, <1>5, <1>7

LEMMA FieldPut ==
  ASSUME NEW out, NEW k \in FieldKinds, NEW msgMods \in Int, NEW declared \in Seq(FieldTypes),
         NEW last \in 0 .. Word - 1, Reads(out, FALSE, k, ReadOf(msgMods, declared, <<>>, last)),
         NEW f \in FieldTypes, last < f.number
  PROVE  \E l \in FieldKinds :
           Reads(PutField(out, last, f), FALSE, l,
                 ReadOf(msgMods, Append(declared, f), <<>>, f.number))
<1>1. PICK n, type, val : n = f.number /\ type = f.type /\ val = f.mods
  OBVIOUS
<1>2. /\ n \in 1 .. Word - 1 /\ type \in 0 .. MaxField /\ val \in 0 .. Word - 1
      /\ f = [number |-> n, type |-> type, mods |-> val]
  BY <1>1 DEF FieldTypes
<1>3. PICK skipped : skipped = IF n = last + 1 THEN out ELSE Put(out, n - last, SkipRange)
  OBVIOUS
<1>a. n \in Int /\ last \in Int /\ n - 1 \in Int /\ (n - 1) + 1 = n /\ (n = last + 1 => last = n - 1)
  BY <1>2, WordIsNat
<1>4. PICK l : Reads(skipped, FALSE, l, ReadOf(msgMods, declared, <<>>, n - 1))
  <2>1. CASE n = last + 1
    <3>1. Reads(skipped, FALSE, k, ReadOf(msgMods, declared, <<>>, n - 1))
      BY <1>3, <1>a, <2>1
    <3> QED
      BY <3>1
  <2>2. CASE n # last + 1
    <3>1. last < n
      BY <1>1
    <3>2. Reads(Put(out, n - last, SkipRange), FALSE, "skip", ReadOf(msgMods, declared, <<>>, n - 1))
      BY <1>2, <2>2, <3>1, SkipPut
    <3> QED
      BY <1>3, <2>2, <3>2
  <2> QED
    BY <2>1, <2>2
<1>5. PICK typed, g, before : /\ typed = Append(skipped, type) /\ before = n - 1
                              /\ g = [number |-> n, type |-> type, mods |-> 0]
  OBVIOUS
<1>6. Reads(skipped, FALSE, l, ReadOf(msgMods, declared, <<>>, before)) /\ before \in Int /\ before + 1 = n
  BY <1>4, <1>5, <1>a
<1>7. Reads(Append(skipped, type), FALSE, "field",
            ReadOf(msgMods, Append(declared, [number |-> before + 1, type |-> type, mods |-> 0]),
                   <<>>, before + 1))
  BY <1>2, <1>6, TypePut
<1>8. Reads(typed, FALSE, "field", ReadOf(msgMods, Append(declared, g), <<>>, n))
  BY <1>5, <1>6, <1>7
<1>9. g \in FieldTypes /\ g.mods = 0 /\ [g EXCEPT !.mods = val] = f
  <2>1. 0 \in 0 .. Word - 1
    BY WordIsNat
  <2>2. g \in FieldTypes
    BY <1>2, <1>5, <2>1, FieldTypesAre
  <2> QED
    BY <1>2, <1>5, <2>2
<1>10. PutField(out, last, f) = PutUnlessZero(typed, val, ModifierRange)
  BY <1>1, <1>3, <1>5 DEF PutField
<1>11. \E j \in FieldKinds :
         Reads(PutUnlessZero(typed, val, ModifierRange), FALSE, j,
               ReadOf(msgMods, Append(declared, [g EXCEPT !.mods = val]), <<>>, n))
  BY <1>2, <1>8, <1>9, <1>a, ModsPut
<1> QED
  BY <1>1, <1>9, <1>10, <1>11

NumberAt(declared, i) == IF i = 0 THEN 0 ELSE declared[i].number
NumberBefore(declared, i) == IF i = 1 THEN 0 ELSE declared[i - 1].number

LEMMA NumbersAscend ==
  ASSUME NEW declared \in Seq(FieldTypes),
         Ascending([i \in 1 .. Len(declared) |-> declared[i].number])
  PROVE  /\ \A i \in 0 .. Len(declared) : NumberAt(declared, i) \in 0 .. Word - 1
         /\ \A i \in 1 .. Len(declared) :
              /\ declared[i] \in FieldTypes /\ NumberBefore(declared, i) = NumberAt(declared, i - 1)
              /\ NumberAt(declared, i) = declared[i].number
              /\ NumberAt(declared, i - 1) < declared[i].number
<1>1. PICK n, s : n = Len(declared) /\ s = [i \in 1 .. n |-> declared[i].number]
  OBVIOUS
<1>2. n \in Nat /\ \A i \in 1 .. n : declared[i] \in FieldTypes
  BY <1>1
<1>3. \A i \in 1 .. n : declared[i].number \in 1 .. Word - 1
  BY <1>2 DEF FieldTypes
<1>4. Len(s) = n /\ \A i, j \in 1 .. n : i < j => s[i] < s[j]
  <2>1. Len(s) = n
    BY <1>1, <1>2
  <2> QED
    BY <1>1, <2>1 DEF Ascending
<1>5. \A i \in 0 .. n : NumberAt(declared, i) \in 0 .. Word - 1
  <2>1. TAKE i \in 0 .. n
  <2>2. CASE i = 0
    BY <2>2, WordIsNat DEF NumberAt
  <2>3. CASE i # 0
    <3>1. i \in 1 .. n
      BY <1>2, <2>3
    <3> QED
      BY <1>3, <2>3, <3>1, WordIsNat DEF NumberAt
  <2> QED
    BY <2>2, <2>3
<1>6. ASSUME NEW i \in 1 .. n
      PROVE  /\ NumberBefore(declared, i) = NumberAt(declared, i - 1)
             /\ NumberAt(declared, i) = declared[i].number
             /\ NumberAt(declared, i - 1) < declared[i].number
  <2>1. i # 0 /\ (i - 1 = 0 <=> i = 1)
    OBVIOUS
  <2>2. NumberBefore(declared, i) = NumberAt(declared, i - 1) /\ NumberAt(declared, i) = declared[i].number
    BY <2>1 DEF NumberBefore, NumberAt
  <2>3. CASE i = 1
    <3>1. NumberAt(declared, i - 1) = 0
      BY <2>1, <2>3 DEF NumberAt
    <3>2. declared[i].number \in 1 .. Word - 1
      BY <1>3
    <3>3. 0 < declared[i].number
      BY <3>2, WordIsNat
    <3> QED
      BY <2>2, <3>1, <3>3
  <2>4. CASE i # 1
    <3>1. i - 1 \in 1 .. n /\ i - 1 < i /\ i - 1 # 0
      BY <1>2, <2>4
    <3>2. s[i - 1] < s[i] /\ s[i] = declared[i].number /\ s[i - 1] = declared[i - 1].number
      BY <1>1, <1>4, <3>1
    <3> QED
      BY <2>2, <3>1, <3>2 DEF NumberAt
  <2> QED
    BY <2>2, <2>3, <2>4
<1> QED
  BY <1>1, <1>2, <1>5, <1>6

LEMMA FieldsPut ==
  ASSUME NEW out, NEW k \in FieldKinds, NEW msgMods \in Int,
         Reads(out, FALSE, k, ReadOf(msgMods, <<>>, <<>>, 0)), NEW declared \in Seq(FieldTypes),
         Ascending([i \in 1 .. Len(declared) |-> declared[i].number])
  PROVE  \E l \in FieldKinds, last \in 0 .. Word - 1 :
           Reads(PutFields(out, declared), FALSE, l, ReadOf(msgMods, declared, <<>>, last))
<1> DEFINE n == Len(declared)
           Written(x, i) == \E l \in FieldKinds :
                              Reads(x, FALSE, l, ReadOf(msgMods, PartOf(declared, i), <<>>,
                                                        NumberAt(declared, i)))
           I == [i \in 0 .. n |-> {x \in Seq(Nat) : Written(x, i)}]
           g == [i \in 1 .. n |-> [x \in Seq(Nat) |->
                                     PutField(x, NumberBefore(declared, i), declared[i])]]
           R(f) == f = [i \in 0 .. Len(declared) |->
                          IF i = 0 THEN out
                          ELSE PutField(f[i - 1], NumberBefore(declared, i), declared[i])]
           c == CHOOSE f : R(f)
<1>1. n \in Nat /\ declared \in [1 .. n -> FieldTypes]
  OBVIOUS
<1>2. HasParts(declared, n, FieldTypes)
  BY <1>1, PartsOf
<1>3. /\ \A i \in 0 .. n : NumberAt(declared, i) \in 0 .. Word - 1
      /\ \A i \in 1 .. n :
           /\ declared[i] \in FieldTypes /\ NumberBefore(declared, i) = NumberAt(declared, i - 1)
           /\ NumberAt(declared, i) = declared[i].number
           /\ NumberAt(declared, i - 1) < declared[i].number
  BY NumbersAscend
<1>4. \A i \in 0 .. n : \A x : x \in I[i] <=> Written(x, i)
  BY DEF Reads
<1>5. \A i \in 1 .. n : \A x \in Seq(Nat) :
        g[i][x] = PutField(x, NumberBefore(declared, i), declared[i])
  OBVIOUS
<1>6. PutFields(out, declared) = c[n]
  BY DEF PutFields, NumberBefore
<1> HIDE DEF I, g, n
<1>7. out \in I[0]
  <2>1. PartOf(declared, 0) = <<>> /\ NumberAt(declared, 0) = 0
    BY <1>2 DEF HasParts, NumberAt
  <2>2. Written(out, 0)
    BY <2>1
  <2>3. 0 \in 0 .. n
    BY <1>1
  <2> QED
    BY <1>4, <2>2, <2>3
<1>8. ASSUME NEW i \in 1 .. n, NEW x \in I[i - 1]
      PROVE  x \in Seq(Nat) /\ PutField(x, NumberBefore(declared, i), declared[i]) \in I[i]
  <2>1. PICK j, before, p, f : /\ j = i - 1 /\ before = NumberAt(declared, j)
                               /\ p = PartOf(declared, j) /\ f = declared[i]
    OBVIOUS
  <2>2. j \in 0 .. n /\ i \in 0 .. n
    BY <1>1, <2>1
  <2>3. PICK l \in FieldKinds : Reads(x, FALSE, l, ReadOf(msgMods, p, <<>>, before))
    BY <1>4, <2>1, <2>2
  <2>4. p \in Seq(FieldTypes) /\ PartOf(declared, i) = Append(p, f)
    BY <1>2, <2>1, <2>2 DEF HasParts
  <2>5. before \in 0 .. Word - 1 /\ before < f.number /\ f \in FieldTypes
    BY <1>3, <2>1, <2>2
  <2>6. \E h \in FieldKinds : Reads(PutField(x, before, f), FALSE, h,
                                    ReadOf(msgMods, Append(p, f), <<>>, f.number))
    BY <2>3, <2>4, <2>5, FieldPut
  <2>7. NumberBefore(declared, i) = before /\ NumberAt(declared, i) = f.number
    BY <1>3, <2>1
  <2>8. Written(PutField(x, before, f), i)
    BY <2>4, <2>6, <2>7
  <2>9. x \in Seq(Nat)
    BY <2>3 DEF Reads
  <2> QED
    BY <1>4, <2>1, <2>2, <2>7, <2>8, <2>9
<1> HIDE DEF Written
<1>9. KeepsWithin(I, g, n)
  BY <1>5, <1>8 DEF KeepsWithin
<1>10. PICK F : /\ IsTable(F, n) /\ F[0] = out
                /\ \A i \in 1 .. n : F[i] = g[i][F[i - 1]]
                /\ \A i \in 0 .. n : F[i] \in I[i]
  BY <1>1, <1>7, <1>9, TableWithin
<1>11. \A i \in 1 .. n : i - 1 \in 0 .. n
  BY <1>1
<1>12. R(c)
  <2>1. \A i \in 1 .. n : F[i] = PutField(F[i - 1], NumberBefore(declared, i), declared[i])
    BY <1>5, <1>8, <1>10, <1>11
  <2>2. \A i \in 0 .. n : i = 0 \/ i \in 1 .. n
    BY <1>1
  <2>3. \A i \in 0 .. n : F[i] = IF i = 0 THEN out
                                 ELSE PutField(F[i - 1], NumberBefore(declared, i), declared[i])
    BY <1>10, <2>1, <2>2, Zenon
  <2>4. F = [i \in 0 .. n |-> IF i = 0 THEN out
                              ELSE PutField(F[i - 1], NumberBefore(declared, i), declared[i])]
    BY <1>10, <2>3 DEF IsTable
  <2>5. R(F)
    BY <2>4 DEF n
  <2> QED
    BY <2>5
<1> HIDE DEF c
<1>13. /\ c[0] = out
       /\ \A i \in 1 .. n : c[i] = PutField(c[i - 1], NumberBefore(declared, i), declared[i])
  <2>1. c = [i \in 0 .. n |-> IF i = 0 THEN out
                              ELSE PutField(c[i - 1], NumberBefore(declared, i), declared[i])]
    BY <1>12 DEF n
  <2> HIDE DEF R
  <2>2. 0 \in 0 .. n /\ \A i \in 1 .. n : i \in 0 .. n /\ i # 0
    BY <1>1
  <2>3. c[0] = out
    BY <2>1, <2>2
  <2>4. ASSUME NEW i \in 1 .. n
        PROVE  c[i] = PutField(c[i - 1], NumberBefore(declared, i), declared[i])
    BY <2>1, <2>2
  <2> QED
    BY <2>3, <2>4
<1> HIDE DEF R
<1>14. \A i \in 1 .. n : c[i - 1] \in I[i - 1] => c[i] = g[i][c[i - 1]]
  BY <1>5, <1>8, <1>13
<1>15. \A i \in 0 .. n : c[i] \in I[i]
  <2>1. RunsWithin(c, I, g, out, n)
    BY <1>7, <1>9, <1>13, <1>14 DEF RunsWithin
  <2> QED
    BY <1>1, <2>1, EndsWithin
<1>16. n \in 0 .. n /\ PartOf(declared, n) = declared
  BY <1>1, <1>2 DEF HasParts
<1>17. Written(c[n], n)
  BY <1>4, <1>15, <1>16
<1> QED
  BY <1>3, <1>6, <1>16, <1>17 DEF Written

(* The members of an oneof, and separators between them.                    *)
LEMMA MemberPut ==
  ASSUME NEW out, NEW first \in BOOLEAN, NEW msgMods \in Int, NEW declared \in Seq(FieldTypes),
         NEW last \in Int, NEW members \in Seq(1 .. Word - 1),
         Reads(out, TRUE, IF first THEN "end" ELSE "member",
               ReadOf(msgMods, declared, <<members>>, last)),
         NEW n \in 1 .. Word - 1
  PROVE  Reads(PutMember(out, n, first), TRUE, "member",
               ReadOf(msgMods, declared, <<Append(members, n)>>, last))
<1>1. PICK m, more : m = ReadOf(msgMods, declared, <<members>>, last) /\ more = Append(members, n)
  OBVIOUS
<1>2. PICK W : W = 1 .. Word - 1
  OBVIOUS
<1>3. members \in Seq(W) /\ n \in W /\ more \in Seq(W)
  BY <1>1, <1>2
<1>4. <<members>> \in Seq(Seq(1 .. Word - 1))
  <2>1. PICK V : V = Seq(W)
    OBVIOUS
  <2>2. <<members>> \in Seq(V)
    BY <1>3, <2>1
  <2> QED
    BY <1>2, <2>1, <2>2
<1>5. m \in ReadStates
  BY <1>1, <1>4, ReadOfTyped
<1>6. m.mods = msgMods /\ m.fields = declared /\ m.oneofs = <<members>> /\ m.last = last
  BY <1>1 DEF ReadOf
<1>7. PICK begun : begun = IF first THEN out ELSE Append(out, FieldSeparator)
  OBVIOUS
<1>8. PICK k : k # "member" /\ Reads(begun, TRUE, k, m)
  <2>1. CASE first
    <3>1. "end" # "member"
      OBVIOUS
    <3> QED
      BY <1>1, <1>7, <2>1, <3>1
  <2>2. CASE ~first
    <3>1. Kind(TRUE, FieldSeparator) = "separator" /\ FieldSeparator \in Nat
      <4>1. /\ FieldSeparator # OneofSeparator /\ ~InRange(FieldSeparator, OneofRange)
            /\ FieldSeparator \in Nat
        BY DEF FieldSeparator, OneofSeparator, InRange, OneofRange
      <4> QED
        BY <4>1 DEF Kind
    <3>2. PICK tok : tok = [kind |-> "separator", text |-> <<FieldSeparator>>]
      OBVIOUS
    <3>3. Reads(out, TRUE, "member", m)
      BY <1>1, <2>2
    <3>4. PICK kind \in {"field", "end", "separator"} : kind = "separator"
      OBVIOUS
    <3>5. /\ [kind |-> kind, text |-> <<FieldSeparator>>] \in TextTokens
          /\ Reads(Append(out, FieldSeparator), TRUE \/ kind = "end", kind,
                   ReadToken(m, [kind |-> kind, text |-> <<FieldSeparator>>]))
      BY <3>1, <3>3, <3>4, CharReads
    <3>6. tok \in TextTokens /\ tok.kind = "separator"
      BY <3>2, <3>4, <3>5
    <3>7. ReadToken(m, tok) = m
      BY <1>5, <3>6, NothingRead
    <3>8. Reads(Append(out, FieldSeparator), TRUE, "separator", m)
      BY <3>2, <3>4, <3>5, <3>7
    <3>9. "separator" # "member"
      OBVIOUS
    <3> QED
      BY <1>7, <2>2, <3>8, <3>9
  <2> QED
    BY <2>1, <2>2
<1>9. n \in 0 .. Word - 1
  BY WordIsNat
<1>10. CanPut(begun, TRUE, k, m, OneofRange, "member", n)
  BY <1>8, <1>9, RangeKinds DEF CanPut, Ranges
<1>11. PICK tok \in TextTokens :
         /\ tok.kind = "member" /\ Number(tok, OneofRange) = n
         /\ Reads(Put(begun, n, OneofRange), TRUE, "member", ReadToken(m, tok))
  BY <1>10, PutReads
<1>12. ReadToken(m, tok) =
         ReadOf(m.mods, m.fields,
                [m.oneofs EXCEPT ![Len(m.oneofs)] = Append(m.oneofs[Len(m.oneofs)], n)], m.last)
  BY <1>5, <1>11, MemberRead
<1>13. [<<members>> EXCEPT ![Len(<<members>>)] = Append(<<members>>[Len(<<members>>)], n)]
         = <<more>>
  <2>1. Len(<<members>>) = 1 /\ <<members>>[1] = members
    OBVIOUS
  <2>2. [<<members>> EXCEPT ![1] = more] = <<more>>
    OBVIOUS
  <2> QED
    BY <1>1, <2>1, <2>2
<1>14. ReadToken(m, tok) = ReadOf(msgMods, declared, <<more>>, last)
  BY <1>6, <1>12, <1>13
<1> QED
  BY <1>1, <1>7, <1>11, <1>14 DEF PutMember

LEMMA OneElement ==
  ASSUME NEW S, NEW s \in Seq(S), Len(s) = 1
  PROVE  s[1] \in S /\ s = <<s[1]>>
<1>1. s[1] \in S
  OBVIOUS
<1>2. PICK a, t : a = s[1] /\ t = <<a>>
  OBVIOUS
<1>3. t \in Seq(S) /\ Len(t) = 1 /\ t[1] = a
  BY <1>1, <1>2
<1>4. s = t
  BY <1>2, <1>3
<1> QED
  BY <1>1, <1>2, <1>4

LEMMA PairIs ==
  ASSUME NEW S, NEW a \in S, NEW b \in S
  PROVE  Append(<<a>>, b) = <<a, b>> /\ Append(<<>>, a) = <<a>>
<1>1. PICK s, t : s = Append(<<a>>, b) /\ t = <<a, b>>
  OBVIOUS
<1>2. <<a>> \in Seq(S) /\ Len(<<a>>) = 1 /\ <<a>>[1] = a
  OBVIOUS
<1>3. s \in Seq(S) /\ Len(s) = 2 /\ s[1] = a /\ s[2] = b
  BY <1>1, <1>2
<1>4. t \in Seq(S) /\ Len(t) = 2 /\ t[1] = a /\ t[2] = b
  BY <1>1
<1>5. s = t
  BY <1>3, <1>4
<1>6. PICK u : u = <<a>>
  OBVIOUS
<1>7. PICK w : w = Append(<<>>, a)
  OBVIOUS
<1>8. u \in Seq(S) /\ Len(u) = 1 /\ u[1] = a
  BY <1>6
<1>9. w \in Seq(S) /\ Len(w) = 1 /\ w[1] = a
  BY <1>7
<1>10. u = w
  BY <1>8, <1>9
<1> QED
  BY <1>1, <1>5, <1>6, <1>7, <1>10

LEMMA OneofPut ==
  ASSUME NEW out, NEW msgMods \in Int, NEW declared \in Seq(FieldTypes), NEW last \in Int,
         Reads(out, TRUE, "end", ReadOf(msgMods, declared, << <<>> >>, last)),
         NEW members \in Seq(1 .. Word - 1)
  PROVE  \E k : Reads(PutOneof(out, members), TRUE, k, ReadOf(msgMods, declared, <<members>>, last))
<1> DEFINE n == Len(members)
           EndOf(i) == IF i = 0 THEN "end" ELSE "member"
           Written(x, i) == Reads(x, TRUE, EndOf(i),
                                  ReadOf(msgMods, declared, <<PartOf(members, i)>>, last))
           I == [i \in 0 .. n |-> {x \in Seq(Nat) : Written(x, i)}]
           g == [i \in 1 .. n |-> [x \in Seq(Nat) |-> PutMember(x, members[i], i = 1)]]
           R(f) == f = [i \in 0 .. Len(members) |->
                          IF i = 0 THEN out ELSE PutMember(f[i - 1], members[i], i = 1)]
           c == CHOOSE f : R(f)
<1>a. PICK W : W = 1 .. Word - 1
  OBVIOUS
<1>b. members \in Seq(W)
  BY <1>a
<1>1. n \in Nat /\ members \in [1 .. n -> W]
  BY <1>b
<1>2. HasParts(members, n, W)
  BY <1>1, PartsOf
<1>4. \A i \in 0 .. n : \A x : x \in I[i] <=> Written(x, i)
  BY DEF Reads
<1>5. \A i \in 1 .. n : \A x \in Seq(Nat) : g[i][x] = PutMember(x, members[i], i = 1)
  OBVIOUS
<1>6. PutOneof(out, members) = c[n]
  BY DEF PutOneof
<1> HIDE DEF I, g, n
<1>7. out \in I[0]
  <2>1. PartOf(members, 0) = <<>> /\ EndOf(0) = "end"
    BY <1>2 DEF HasParts
  <2>2. Written(out, 0)
    BY <2>1
  <2>3. 0 \in 0 .. n
    BY <1>1
  <2> QED
    BY <1>4, <2>2, <2>3
<1>8. ASSUME NEW i \in 1 .. n, NEW x \in I[i - 1]
      PROVE  x \in Seq(Nat) /\ PutMember(x, members[i], i = 1) \in I[i]
  <2>1. PICK j, p, f, first : /\ j = i - 1 /\ p = PartOf(members, j)
                              /\ f = members[i] /\ first = (i = 1)
    OBVIOUS
  <2>a. j \in 0 .. n /\ i \in 0 .. n /\ i # 0 /\ (i = 1 <=> j = 0)
    BY <1>1, <2>1
  <2>b. first \in BOOLEAN /\ (first <=> i = 1)
    BY <2>1
  <2>2. j \in 0 .. n /\ i \in 0 .. n /\ first \in BOOLEAN /\ i # 0 /\ (first <=> j = 0)
    BY <2>a, <2>b
  <2>3. Reads(x, TRUE, EndOf(j), ReadOf(msgMods, declared, <<p>>, last))
    BY <1>4, <2>1, <2>2
  <2>4. p \in Seq(W) /\ f \in W /\ PartOf(members, i) = Append(p, f)
    BY <1>1, <1>2, <2>1, <2>2 DEF HasParts
  <2>5. EndOf(j) = IF first THEN "end" ELSE "member"
    BY <2>2
  <2>6. Reads(PutMember(x, f, first), TRUE, "member", ReadOf(msgMods, declared, <<Append(p, f)>>, last))
    BY <1>a, <2>2, <2>3, <2>4, <2>5, MemberPut
  <2>7. EndOf(i) = "member"
    BY <2>2
  <2>8. Written(PutMember(x, f, first), i)
    BY <2>4, <2>6, <2>7
  <2>9. x \in Seq(Nat)
    BY <2>3 DEF Reads
  <2> QED
    BY <1>4, <2>1, <2>2, <2>8, <2>9
<1> HIDE DEF Written
<1>9. KeepsWithin(I, g, n)
  BY <1>5, <1>8 DEF KeepsWithin
<1>10. PICK F : /\ IsTable(F, n) /\ F[0] = out
                /\ \A i \in 1 .. n : F[i] = g[i][F[i - 1]]
                /\ \A i \in 0 .. n : F[i] \in I[i]
  BY <1>1, <1>7, <1>9, TableWithin
<1>11. \A i \in 1 .. n : i - 1 \in 0 .. n
  BY <1>1
<1>12. R(c)
  <2>1. \A i \in 1 .. n : F[i] = PutMember(F[i - 1], members[i], i = 1)
    BY <1>5, <1>8, <1>10, <1>11
  <2>2. \A i \in 0 .. n : i = 0 \/ i \in 1 .. n
    BY <1>1
  <2>3. \A i \in 0 .. n : F[i] = IF i = 0 THEN out ELSE PutMember(F[i - 1], members[i], i = 1)
    BY <1>10, <2>1, <2>2, Zenon
  <2>4. F = [i \in 0 .. n |-> IF i = 0 THEN out ELSE PutMember(F[i - 1], members[i], i = 1)]
    BY <1>10, <2>3 DEF IsTable
  <2>5. R(F)
    BY <2>4 DEF n
  <2> QED
    BY <2>5
<1> HIDE DEF c
<1>13. /\ c[0] = out
       /\ \A i \in 1 .. n : c[i] = PutMember(c[i - 1], members[i], i = 1)
  <2>1. c = [i \in 0 .. n |-> IF i = 0 THEN out ELSE PutMember(c[i - 1], members[i], i = 1)]
    BY <1>12 DEF n
  <2> HIDE DEF R
  <2>2. 0 \in 0 .. n /\ \A i \in 1 .. n : i \in 0 .. n /\ i # 0
    BY <1>1
  <2>3. c[0] = out
    BY <2>1, <2>2
  <2>4. ASSUME NEW i \in 1 .. n
        PROVE  c[i] = PutMember(c[i - 1], members[i], i = 1)
    BY <2>1, <2>2
  <2> QED
    BY <2>3, <2>4
<1> HIDE DEF R
<1>14. \A i \in 1 .. n : c[i - 1] \in I[i - 1] => c[i] = g[i][c[i - 1]]
  BY <1>5, <1>8, <1>13
<1>15. \A i \in 0 .. n : c[i] \in I[i]
  <2>1. RunsWithin(c, I, g, out, n)
    BY <1>7, <1>9, <1>13, <1>14 DEF RunsWithin
  <2> QED
    BY <1>1, <2>1, EndsWithin
<1>16. n \in 0 .. n /\ PartOf(members, n) = members
  BY <1>1, <1>2 DEF HasParts
<1>17. Written(c[n], n)
  BY <1>4, <1>15, <1>16
<1> QED
  BY <1>6, <1>16, <1>17 DEF Written

LEMMA OneofsPut ==
  ASSUME NEW out, NEW k, NEW msgMods \in Int, NEW declared \in Seq(FieldTypes), NEW last \in Int,
         Reads(out, FALSE, k, ReadOf(msgMods, declared, <<>>, last)),
         NEW groups \in Seq(Seq(1 .. Word - 1)), Len(groups) <= 1
  PROVE  \E ended, l : Reads(PutOneofs(out, groups), ended, l, ReadOf(msgMods, declared, groups, last))
<1>1. PICK V : V = Seq(1 .. Word - 1)
  OBVIOUS
<1>2. groups \in Seq(V)
  BY <1>1
<1>3. CASE groups = <<>>
  <2>1. PutOneofs(out, groups) = out
    BY <1>3 DEF PutOneofs
  <2> QED
    BY <1>3, <2>1
<1>4. CASE groups # <<>>
  <2>1. PICK o : o = groups[1]
    OBVIOUS
  <2>2. Len(groups) = 1 /\ o \in V /\ groups = <<o>>
    <3>1. PICK n : n = Len(groups)
      OBVIOUS
    <3>2. n \in Nat /\ n # 0 /\ n <= 1
      BY <1>2, <1>4, <3>1
    <3>3. n = 1
      BY <3>2
    <3>4. o \in V /\ groups = <<o>>
      BY <1>2, <2>1, <3>1, <3>3, OneElement
    <3> QED
      BY <3>1, <3>3, <3>4
  <2>3. PICK begun : begun = Append(out, End)
    OBVIOUS
  <2> DEFINE R(f) == f = [i \in 0 .. Len(groups) |->
                            IF i = 0 THEN begun ELSE PutOneof(f[i - 1], groups[i])]
             c == CHOOSE f : R(f)
             F == [i \in 0 .. 1 |-> IF i = 0 THEN begun ELSE PutOneof(begun, o)]
  <2>4. PutOneofs(out, groups) = c[Len(groups)]
    BY <1>4, <2>3 DEF PutOneofs
  <2>5. R(F)
    <3>1. F[0] = begun /\ F[1] = PutOneof(begun, o)
      OBVIOUS
    <3>2. \A i \in 0 .. 1 : F[i] = IF i = 0 THEN begun ELSE PutOneof(F[i - 1], groups[i])
      <4>1. TAKE i \in 0 .. 1
      <4>2. CASE i = 0
        BY <3>1, <4>2
      <4>3. CASE i = 1
        BY <2>1, <3>1, <4>3
      <4> QED
        BY <4>2, <4>3
    <3>3. F = [i \in 0 .. 1 |-> F[i]]
      OBVIOUS
    <3> HIDE DEF F
    <3>4. F = [i \in 0 .. 1 |-> IF i = 0 THEN begun ELSE PutOneof(F[i - 1], groups[i])]
      BY <3>2, <3>3
    <3> QED
      BY <2>2, <3>4
  <2>6. R(c)
    BY <2>5
  <2> HIDE DEF c, F
  <2>7. c = [i \in 0 .. 1 |-> IF i = 0 THEN begun ELSE PutOneof(c[i - 1], groups[i])]
    BY <2>2, <2>6
  <2> HIDE DEF R
  <2>8. c[0] = begun /\ c[1] = PutOneof(c[0], groups[1])
    BY <2>7
  <2>9. PutOneofs(out, groups) = PutOneof(begun, o)
    BY <2>1, <2>2, <2>4, <2>8
  <2>10. PICK m, tok : /\ m = ReadOf(msgMods, declared, <<>>, last)
                         /\ tok = [kind |-> "end", text |-> <<End>>]
    OBVIOUS
  <2>11. m \in ReadStates
    BY <2>10, NoOneofs, ReadOfTyped
  <2>12. Kind(FALSE, End) = "end" /\ End \in Nat
    <3>1. /\ ~(End <= MaxField) /\ ~InRange(End, ModifierRange) /\ ~InRange(End, SkipRange)
          /\ End \in Nat
      BY DEF End, MaxField, InRange, ModifierRange, SkipRange
    <3> QED
      BY <3>1 DEF Kind
  <2>13. tok \in TextTokens /\ Reads(begun, TRUE, "end", ReadToken(m, tok))
    <3>1. PICK kind \in {"field", "end", "separator"} : kind = "end"
      OBVIOUS
    <3>2. /\ [kind |-> kind, text |-> <<End>>] \in TextTokens
          /\ Reads(Append(out, End), FALSE \/ kind = "end", kind,
                   ReadToken(m, [kind |-> kind, text |-> <<End>>]))
      BY <2>10, <2>12, <3>1, CharReads
    <3>3. (FALSE \/ kind = "end") = TRUE
      BY <3>1
    <3> QED
      BY <2>3, <2>10, <3>1, <3>2, <3>3
  <2>14. ReadToken(m, tok) = ReadOf(msgMods, declared, << <<>> >>, last)
    <3>1. tok.kind \in {"end", "next"}
      BY <2>10
    <3>2. ReadToken(m, tok) = ReadOf(m.mods, m.fields, Append(m.oneofs, <<>>), m.last)
      BY <2>11, <2>13, <3>1, OneofRead
    <3>3. m.mods = msgMods /\ m.fields = declared /\ m.oneofs = <<>> /\ m.last = last
      BY <2>10 DEF ReadOf
    <3>4. Append(<<>>, <<>>) = << <<>> >>
      OBVIOUS
    <3> QED
      BY <3>2, <3>3, <3>4
  <2>15. Reads(begun, TRUE, "end", ReadOf(msgMods, declared, << <<>> >>, last))
    BY <2>13, <2>14
  <2>16. o \in Seq(1 .. Word - 1)
    BY <1>1, <2>2
  <2>17. \E l : Reads(PutOneof(begun, o), TRUE, l, ReadOf(msgMods, declared, <<o>>, last))
    BY <2>15, <2>16, OneofPut
  <2> QED
    BY <2>2, <2>9, <2>17
<1> QED
  BY <1>3, <1>4

(* The messages a pool is built of: what MessagesAssumption says of each.   *)
MessageTypes ==
  {m \in [map : BOOLEAN, mods : 0 .. Word - 1, fields : Seq(FieldTypes),
          oneofs : Seq(Seq(1 .. Word - 1))] :
     /\ Ascending([i \in 1 .. Len(m.fields) |-> m.fields[i].number])
     /\ Len(m.oneofs) <= 1
     /\ m.map => /\ Len(m.fields) = 2 /\ KindOfType(m.fields[1].type) = "scalar"
                 /\ \A i \in {1, 2} : m.fields[i].number = i /\ m.fields[i].mods = 0
                 /\ m.mods = 0 /\ m.oneofs = <<>>}

LEMMA MessageEncoded ==
  ASSUME NEW msgMods \in 0 .. Word - 1, NEW declared \in Seq(FieldTypes),
         Ascending([i \in 1 .. Len(declared) |-> declared[i].number]),
         NEW groups \in Seq(Seq(1 .. Word - 1)), Len(groups) <= 1,
         NEW m, m.mods = msgMods, m.fields = declared, m.oneofs = groups
  PROVE  \E ended, l, last : /\ last \in Int
                            /\ Reads(EncodeMessage(m), ended, l, ReadOf(msgMods, declared, groups, last))
<1>1. PICK begun : begun = PutUnlessZero(<<>>, msgMods, ModifierRange)
  OBVIOUS
<1>2. msgMods \in Int /\ 0 \in Int
  BY WordIsNat
<1>3. PICK none : none = <<>>
  OBVIOUS
<1>4. none \in Seq(FieldTypes)
  BY <1>3
<1>5. Reads(<<>>, FALSE, "none", ReadOf(0, none, <<>>, 0))
  <2>1. Unread = ReadOf(0, <<>>, <<>>, 0)
    BY DEF Unread, ReadOf
  <2> QED
    BY <1>3, <2>1, ReadsNothing
<1>6. PICK k \in FieldKinds : Reads(begun, FALSE, k, ReadOf(msgMods, none, <<>>, 0))
  <2>1. CASE msgMods = 0
    BY <1>1, <1>5, <2>1 DEF PutUnlessZero, FieldKinds
  <2>2. CASE msgMods # 0
    <3>1. PICK r : r = ReadOf(0, none, <<>>, 0)
      OBVIOUS
    <3>2. r \in ReadStates
      BY <1>2, <1>4, <3>1, NoOneofs, ReadOfTyped
    <3>3. CanPut(<<>>, FALSE, "none", r, ModifierRange, "modifier", msgMods)
      BY <1>5, <3>1, RangeKinds DEF CanPut, Ranges
    <3>a. PICK e : e = <<>>
      OBVIOUS
    <3>b. CanPut(e, FALSE, "none", r, ModifierRange, "modifier", msgMods)
      BY <3>3, <3>a
    <3>c. \E tok \in TextTokens :
            /\ tok.kind = "modifier" /\ Number(tok, ModifierRange) = msgMods
            /\ Reads(Put(e, msgMods, ModifierRange), FALSE, "modifier", ReadToken(r, tok))
      <4>1. PICK v, K, ended, range, to : /\ v = msgMods /\ K = "none" /\ ended = FALSE
                                          /\ range = ModifierRange /\ to = "modifier"
        OBVIOUS
      <4>2. CanPut(e, ended, K, r, range, to, v)
        BY <3>b, <4>1
      <4>3. \E tok \in TextTokens :
              /\ tok.kind = to /\ Number(tok, range) = v
              /\ Reads(Put(e, v, range), ended, to, ReadToken(r, tok))
        BY <4>2, PutReads
      <4> QED
        BY <4>1, <4>3
    <3>4. PICK tok \in TextTokens :
            /\ tok.kind = "modifier" /\ Number(tok, ModifierRange) = msgMods
            /\ Reads(Put(<<>>, msgMods, ModifierRange), FALSE, "modifier", ReadToken(r, tok))
      BY <3>a, <3>c
    <3>5. r.fields = <<>> /\ r.oneofs = <<>> /\ r.last = 0
      BY <1>3, <3>1 DEF ReadOf
    <3>6. ReadToken(r, tok) = ReadOf(msgMods, r.fields, r.oneofs, r.last)
      BY <3>2, <3>4, <3>5, ModifierRead
    <3>7. ReadToken(r, tok) = ReadOf(msgMods, none, <<>>, 0)
      BY <1>3, <3>5, <3>6
    <3> QED
      BY <1>1, <2>2, <3>4, <3>7 DEF PutUnlessZero, FieldKinds
  <2> QED
    BY <2>1, <2>2
<1>7. PICK l \in FieldKinds, last \in 0 .. Word - 1 :
        Reads(PutFields(begun, declared), FALSE, l, ReadOf(msgMods, declared, <<>>, last))
  BY <1>2, <1>3, <1>6, FieldsPut
<1>8. EncodeMessage(m) = PutOneofs(PutFields(begun, declared), groups)
  BY <1>1 DEF EncodeMessage
<1>9. last \in Int
  BY WordIsNat
<1>10. \E ended, h : Reads(PutOneofs(PutFields(begun, declared), groups), ended, h,
                           ReadOf(msgMods, declared, groups, last))
  BY <1>2, <1>7, <1>9, OneofsPut
<1> QED
  BY <1>8, <1>9, <1>10

LEMMA MapEncoded ==
  ASSUME NEW key \in 0 .. MaxField, NEW value \in 0 .. MaxField
  PROVE  Reads(EncodeMap(key, value), FALSE, "field",
               ReadOf(0, <<[number |-> 1, type |-> key, mods |-> 0],
                           [number |-> 2, type |-> value, mods |-> 0]>>, <<>>, 2))
<1>1. PICK none, first, second, z, o : /\ none = <<>> /\ z = 0 /\ o = 1
                              /\ first = [number |-> 1, type |-> key, mods |-> 0]
                              /\ second = [number |-> 2, type |-> value, mods |-> 0]
  OBVIOUS
<1>2. none \in Seq(FieldTypes) /\ z \in Int /\ o \in Int
  BY <1>1
<1>3. Reads(<<>>, FALSE, "none", ReadOf(z, none, <<>>, z))
  <2>1. Unread = ReadOf(0, <<>>, <<>>, 0)
    BY DEF Unread, ReadOf
  <2> QED
    BY <1>1, <2>1, ReadsNothing
<1>4. Reads(Append(<<>>, key), FALSE, "field",
            ReadOf(z, Append(none, [number |-> z + 1, type |-> key, mods |-> 0]), <<>>, z + 1))
  BY <1>2, <1>3, TypePut
<1>5. PICK text, declared : text = Append(<<>>, key) /\ declared = <<first>>
  OBVIOUS
<1>6. Reads(text, FALSE, "field", ReadOf(z, declared, <<>>, o))
  <2>1. Append(none, first) = declared /\ z + 1 = o /\ z + 1 = 1
    BY <1>1, <1>5
  <2> QED
    BY <1>1, <1>4, <1>5, <2>1
<1>7. declared \in Seq(FieldTypes)
  <2>1. 1 \in 1 .. Word - 1 /\ 0 \in 0 .. Word - 1
    BY SmallWord, WordIsNat
  <2>2. first \in FieldTypes
    BY <1>1, <2>1, FieldTypesAre
  <2> QED
    BY <1>5, <2>2
<1>8. Reads(Append(text, value), FALSE, "field",
            ReadOf(z, Append(declared, [number |-> o + 1, type |-> value, mods |-> 0]), <<>>, o + 1))
  BY <1>2, <1>6, <1>7, TypePut
<1>9. Append(declared, second) = <<first, second>> /\ o + 1 = 2 /\ Append(text, value) = <<key, value>>
  <2>1. o + 1 = 2
    BY <1>1
  <2>a. \A a, b : Append(<<a>>, b) = <<a, b>> /\ Append(<<>>, a) = <<a>>
    <3>1. TAKE a, b
    <3>2. a \in {a, b} /\ b \in {a, b}
      OBVIOUS
    <3> QED
      BY <3>2, PairIs
  <2>2. Append(<<first>>, second) = <<first, second>>
    BY <2>a
  <2>3. Append(Append(<<>>, key), value) = <<key, value>>
    BY <2>a
  <2> QED
    BY <1>5, <2>1, <2>2, <2>3
<1> QED
  BY <1>1, <1>8, <1>9 DEF EncodeMap

(* What MessageEncoder writes for a message, or map_descriptor for a map    *)
(* entry, is read back as it was.                                           *)
LEMMA MessageRead ==
  ASSUME NEW m \in MessageTypes
  PROVE  /\ Readable(TextOf(m)) /\ ReadMessage(TextOf(m)) \in ReadStates
         /\ ReadMessage(TextOf(m)).fields = m.fields
         /\ ReadMessage(TextOf(m)).mods = m.mods
         /\ ReadMessage(TextOf(m)).oneofs = m.oneofs
<1>1. PICK W, F, M, O : /\ W = 1 .. Word - 1 /\ F = Seq(FieldTypes) /\ M = 0 .. Word - 1
                        /\ O = Seq(Seq(W))
  OBVIOUS
<1>2. /\ m.map \in BOOLEAN /\ m.mods \in M /\ m.fields \in F /\ m.oneofs \in O
      /\ Ascending([i \in 1 .. Len(m.fields) |-> m.fields[i].number])
      /\ Len(m.oneofs) <= 1
      /\ m.map => /\ Len(m.fields) = 2
                  /\ \A i \in {1, 2} : m.fields[i].number = i /\ m.fields[i].mods = 0
                  /\ m.mods = 0 /\ m.oneofs = <<>>
  BY <1>1 DEF MessageTypes
<1>3. \E ended, l, last : /\ last \in Int
                          /\ Reads(TextOf(m), ended, l, ReadOf(m.mods, m.fields, m.oneofs, last))
  <2>1. CASE m.map
    <3>1. PICK a, b, declared : a = m.fields[1] /\ b = m.fields[2] /\ declared = m.fields
      OBVIOUS
    <3>2. declared \in Seq(FieldTypes) /\ Len(declared) = 2 /\ a \in FieldTypes /\ b \in FieldTypes
      BY <1>1, <1>2, <2>1, <3>1
    <3>3. a.number = 1 /\ b.number = 2 /\ a.mods = 0 /\ b.mods = 0
      BY <1>2, <2>1, <3>1
    <3>4. a.type \in 0 .. MaxField /\ b.type \in 0 .. MaxField
      BY <3>2 DEF FieldTypes
    <3>5. a = [number |-> 1, type |-> a.type, mods |-> 0]
          /\ b = [number |-> 2, type |-> b.type, mods |-> 0]
      BY <3>2, <3>3 DEF FieldTypes
    <3>6. PICK both : both = <<a, b>>
      OBVIOUS
    <3>7. both \in Seq(FieldTypes) /\ Len(both) = 2 /\ both[1] = a /\ both[2] = b
      BY <3>2, <3>6
    <3>8. declared = both
      BY <3>1, <3>2, <3>7
    <3>9. PICK f, g : f = a.type /\ g = b.type
      OBVIOUS
    <3>10. Reads(EncodeMap(f, g), FALSE, "field",
                 ReadOf(0, <<[number |-> 1, type |-> f, mods |-> 0],
                             [number |-> 2, type |-> g, mods |-> 0]>>, <<>>, 2))
      BY <3>4, <3>9, MapEncoded
    <3>11. ReadOf(m.mods, m.fields, m.oneofs, 2) =
             ReadOf(0, <<[number |-> 1, type |-> f, mods |-> 0],
                         [number |-> 2, type |-> g, mods |-> 0]>>, <<>>, 2)
      BY <1>2, <2>1, <3>1, <3>5, <3>6, <3>8, <3>9
    <3>12. TextOf(m) = EncodeMap(f, g)
      BY <2>1, <3>1, <3>9 DEF TextOf
    <3>13. PICK text, r : text = TextOf(m) /\ r = ReadOf(m.mods, m.fields, m.oneofs, 2)
      OBVIOUS
    <3>14. Reads(text, FALSE, "field", r)
      BY <3>10, <3>11, <3>12, <3>13
    <3>15. PICK l, last : l = "field" /\ last = 2
      OBVIOUS
    <3>16. last \in Int /\ r = ReadOf(m.mods, m.fields, m.oneofs, last)
      BY <3>13, <3>15
    <3>17. Reads(TextOf(m), FALSE, l, ReadOf(m.mods, m.fields, m.oneofs, last))
      BY <3>13, <3>14, <3>15, <3>16
    <3> QED
      BY <3>16, <3>17
  <2>2. CASE ~m.map
    <3>1. TextOf(m) = EncodeMessage(m)
      BY <2>2 DEF TextOf
    <3>2. PICK msgMods, declared, groups : msgMods = m.mods /\ declared = m.fields /\ groups = m.oneofs
      OBVIOUS
    <3>3. /\ msgMods \in 0 .. Word - 1 /\ declared \in Seq(FieldTypes)
          /\ groups \in Seq(Seq(1 .. Word - 1)) /\ Len(groups) <= 1
          /\ Ascending([i \in 1 .. Len(declared) |-> declared[i].number])
      BY <1>1, <1>2, <3>2
    <3>4. \E ended, l, last : /\ last \in Int
                              /\ Reads(EncodeMessage(m), ended, l, ReadOf(msgMods, declared, groups, last))
      BY <3>2, <3>3, MessageEncoded
    <3> QED
      BY <3>1, <3>2, <3>4
  <2> QED
    BY <1>2, <2>1, <2>2
<1>4. PICK ended, l, last, text : /\ last \in Int /\ text = TextOf(m)
         /\ Reads(text, ended, l, ReadOf(m.mods, m.fields, m.oneofs, last))
  BY <1>3
<1>5. Readable(text) /\ ReadMessage(text) = ReadOf(m.mods, m.fields, m.oneofs, last)
  BY <1>4, ReadsReadable
<1>6. PICK msgMods, declared, groups : msgMods = m.mods /\ declared = m.fields /\ groups = m.oneofs
  OBVIOUS
<1>7. msgMods \in Int /\ declared \in Seq(FieldTypes) /\ groups \in Seq(Seq(1 .. Word - 1))
  BY <1>1, <1>2, <1>6, NumbersAreInts
<1>8. ReadOf(msgMods, declared, groups, last) \in ReadStates
  BY <1>4, <1>7, ReadOfTyped
<1> QED
  BY <1>4, <1>5, <1>6, <1>8 DEF ReadOf

-----------------------------------------------------------------------------
(***************************************************************************)
(* The pool                                                                *)
(***************************************************************************)
LinkFields == [type : {"group", "message", "enum", "scalar"}, map : BOOLEAN]
MessageTables ==
  {table \in [map : BOOLEAN, written : MessageTypes, read : ReadStates,
              fields : Seq(LinkFields)] :
     /\ table.map = table.written.map
     /\ table.read.fields = table.written.fields
     /\ table.read.mods = table.written.mods
     /\ table.read.oneofs = table.written.oneofs
     /\ Len(table.fields) = Len(table.written.fields)}
LinkLists == Seq(Seq(Nat))
Entries == [kind : {"message", "enum"}, at : Nat \ {0}]

(* The tables and the pool's entries, and what the entries stand for.  As   *)
(* long as no enum comes, an entry's place and its table's are the same.    *)
PoolStates ==
  /\ phase \in {"build", "given", "linked", "ready", "error", "panic"}
  /\ tables \in Seq(MessageTables) /\ enums \in Seq(EnumTables) /\ pool \in Seq(Entries)
  /\ Len(values) = Len(pool) /\ Len(tables) + Len(enums) = Len(pool)
  /\ values \in Seq(SUBSET Nat) /\ links \in LinkLists

EntriesBuilt ==
  /\ \A p \in 1 .. Len(pool) :
       IF pool[p].kind = "message"
       THEN /\ pool[p].at <= Len(tables)
            /\ (\A q \in 1 .. p : pool[q].kind = "message") => pool[p].at = p
       ELSE /\ pool[p].at <= Len(enums) /\ values[p] = ValuesOf(enums[pool[p].at])
  /\ pool # <<>> => pool[1].kind = "message"
  /\ (\A p \in 1 .. Len(pool) : pool[p].kind = "message") => Len(tables) = Len(pool)
  /\ phase \in {"given", "linked", "ready", "panic"} => pool # <<>>

(* Every link set_sub accepted fits its field, and the flag of a field says *)
(* whether it leads to a map entry.                                         *)
Linked(t, i) ==
  LET f == tables[t].fields[i]
  IN /\ HasSub(f) /\ LinkOf(t, i) # Unlinked => Linkable(tables[t], f.type, LinkOf(t, i))
     /\ f.map <=> f.type = "message" /\ LinksToMap(LinkOf(t, i))
TablesLinked ==
  phase \in {"linked", "ready", "panic"} =>
    \A t \in 1 .. Len(tables) : \A i \in 1 .. Len(tables[t].fields) : Linked(t, i)

DecodeStands ==
  /\ at \in 0 .. Len(pool)
  /\ phase = "ready" => at # 0 /\ pool[at].kind = "message"
  /\ phase = "panic" => ~EnumsLast

EnumChecked ==
  checked.enum # 0 =>
    /\ checked.enum \in 1 .. Len(pool) /\ pool[checked.enum].kind = "enum"
    /\ checked.probe \in Nat
    /\ checked.answer <=> CheckValue(enums[pool[checked.enum].at], checked.probe)

PoolInv == PoolStates /\ EntriesBuilt /\ TablesLinked /\ DecodeStands /\ EnumChecked

LEMMA Appended ==
  ASSUME NEW S, NEW s \in Seq(S), NEW e \in S, NEW t, t = Append(s, e)
  PROVE  /\ t \in Seq(S) /\ Len(s) \in Nat /\ Len(t) = Len(s) + 1 /\ t[Len(t)] = e
         /\ 1 .. Len(t) = 1 .. Len(s) \cup {Len(t)} /\ Len(t) \notin 1 .. Len(s)
         /\ \A p \in 1 .. Len(s) : s[p] \in S /\ t[p] = s[p]
OBVIOUS

(* Slots are counted by the kinds of the fields.                            *)
LEMMA SlotsSame ==
  ASSUME NEW f, NEW g, NEW i, \A j \in 1 .. i : f[j].type = g[j].type
  PROVE  SlotOf(f, i) = SlotOf(g, i)
<1>1. {j \in 1 .. i : HasSub(f[j])} = {j \in 1 .. i : HasSub(g[j])}
  BY DEF HasSub
<1> QED
  BY <1>1 DEF SlotOf

LEMMA PoolStarts == PoolInit => PoolInv
<1> SUFFICES ASSUME PoolInit PROVE PoolInv
  OBVIOUS
<1>1. /\ phase = "build" /\ values = <<>> /\ tables = <<>> /\ enums = <<>>
      /\ pool = <<>> /\ links = <<>> /\ at = 0 /\ checked = NoCheck
  BY DEF PoolInit
<1>2. PoolStates
  <2>1. links \in LinkLists
    BY <1>1 DEF LinkLists
  <2> QED
    BY <1>1, <2>1 DEF PoolStates
<1>3. EntriesBuilt
  BY <1>1 DEF EntriesBuilt
<1>4. TablesLinked /\ DecodeStands
  BY <1>1 DEF TablesLinked, DecodeStands
<1>5. EnumChecked
  BY <1>1 DEF EnumChecked, NoCheck
<1> QED
  BY <1>2, <1>3, <1>4, <1>5 DEF PoolInv

LEMMA TableBuilt ==
  ASSUME NEW m \in MessageTypes, NEW read, read = ReadMessage(TextOf(m))
  PROVE  [map |-> m.map, written |-> m, read |-> read,
          fields |-> [i \in 1 .. Len(read.fields) |->
                        [type |-> KindOfType(read.fields[i].type), map |-> FALSE]]]
           \in MessageTables
<1>1. PICK declared : declared = [i \in 1 .. Len(read.fields) |->
                                [type |-> KindOfType(read.fields[i].type), map |-> FALSE]]
  OBVIOUS
<1>2. /\ read \in ReadStates /\ read.fields = m.fields /\ read.mods = m.mods
      /\ read.oneofs = m.oneofs
  BY MessageRead
<1>3. PICK n, F : n = Len(m.fields) /\ F = Seq(FieldTypes)
  OBVIOUS
<1>4. m.fields \in F /\ m.map \in BOOLEAN
  BY <1>3 DEF MessageTypes
<1>5. n \in Nat
  BY <1>3, <1>4
<1>6. declared \in Seq(LinkFields) /\ Len(declared) = n
  <2>1. declared = [i \in 1 .. n |->
                    [type |-> KindOfType(read.fields[i].type), map |-> FALSE]]
    BY <1>1, <1>2, <1>3
  <2>2. ASSUME NEW i \in 1 .. n PROVE declared[i] \in LinkFields
    <3>1. PICK k : k = KindOfType(read.fields[i].type)
      OBVIOUS
    <3>2. k \in {"group", "message", "enum", "scalar"}
      BY <3>1 DEF KindOfType
    <3>3. declared[i] = [type |-> k, map |-> FALSE]
      BY <2>1, <3>1
    <3> QED
      BY <3>2, <3>3 DEF LinkFields
  <2>3. declared = [i \in 1 .. n |-> declared[i]]
    BY <2>1
  <2> QED
    BY <1>5, <2>2, <2>3
<1>7. PICK K : K = Seq(LinkFields)
  OBVIOUS
<1>8. PICK T : T = [map |-> m.map, written |-> m, read |-> read, fields |-> declared]
  OBVIOUS
<1>9. T \in [map : BOOLEAN, written : MessageTypes, read : ReadStates, fields : K]
  BY <1>2, <1>4, <1>6, <1>7, <1>8
<1>10. /\ T.map = T.written.map /\ T.read.fields = T.written.fields
       /\ T.read.mods = T.written.mods /\ T.read.oneofs = T.written.oneofs
       /\ Len(T.fields) = Len(T.written.fields)
  BY <1>2, <1>3, <1>6, <1>8
<1> QED
  BY <1>1, <1>7, <1>8, <1>9, <1>10 DEF MessageTables

LEMMA MessageBuilt ==
  ASSUME NEW m \in MessageTypes, NEW after \in {"build", "given"}, PoolInv,
         BuildMessage(m, after)
  PROVE  PoolInv'
<1>1. PICK T : /\ T \in MessageTables /\ tables' = Append(tables, T)
               /\ pool' = Append(pool, [kind |-> "message", at |-> Len(tables) + 1])
               /\ values' = Append(values, {}) /\ phase' = after
               /\ UNCHANGED <<enums, links, at, checked>> /\ phase = "build"
  <2>1. PICK read : read = ReadMessage(TextOf(m))
    OBVIOUS
  <2>2. Readable(TextOf(m))
    BY MessageRead
  <2> QED
    BY <2>1, <2>2, TableBuilt DEF BuildMessage
<1>2. PICK E, V, M : E = Entries /\ V = SUBSET Nat /\ M = MessageTables
  OBVIOUS
<1>3. /\ tables \in Seq(M) /\ pool \in Seq(E) /\ values \in Seq(V) /\ T \in M
      /\ enums \in Seq(EnumTables)
      /\ Len(values) = Len(pool) /\ Len(tables) + Len(enums) = Len(pool)
  BY <1>1, <1>2 DEF PoolInv, PoolStates
<1>4. PICK e, x, t, q, v : /\ e = [kind |-> "message", at |-> Len(tables) + 1] /\ x = {}
                           /\ t = tables' /\ q = pool' /\ v = values'
  OBVIOUS
<1>5. e \in E /\ x \in V
  <2>1. Len(tables) + 1 \in Nat \ {0}
    BY <1>3
  <2> QED
    BY <1>2, <1>4, <2>1 DEF Entries
<1>6. /\ t \in Seq(M) /\ Len(tables) \in Nat /\ Len(t) = Len(tables) + 1
      /\ \A p \in 1 .. Len(tables) : t[p] = tables[p]
  BY <1>1, <1>3, <1>4, Appended
<1>7. /\ q \in Seq(E) /\ Len(pool) \in Nat /\ Len(q) = Len(pool) + 1 /\ q[Len(q)] = e
      /\ 1 .. Len(q) = 1 .. Len(pool) \cup {Len(q)} /\ Len(q) \notin 1 .. Len(pool)
      /\ \A p \in 1 .. Len(pool) : pool[p] \in E /\ q[p] = pool[p]
  BY <1>1, <1>3, <1>4, <1>5, Appended
<1>8. /\ v \in Seq(V) /\ Len(v) = Len(values) + 1
      /\ \A p \in 1 .. Len(values) : v[p] = values[p]
  BY <1>1, <1>3, <1>4, <1>5, Appended
<1>9. Len(enums) \in Nat
  BY <1>3
<1>10. PoolStates'
  <2>1. /\ Len(v) = Len(q) /\ Len(t) + Len(enums) = Len(q)
    <3>1. PICK i, j, k : i = Len(tables) /\ j = Len(enums) /\ k = Len(pool)
      OBVIOUS
    <3>2. /\ i \in Nat /\ j \in Nat /\ k \in Nat /\ i + j = k
          /\ Len(t) = i + 1 /\ Len(q) = k + 1 /\ Len(v) = k + 1
      BY <1>3, <1>6, <1>7, <1>8, <1>9, <3>1
    <3>3. (i + 1) + j = k + 1
      BY <3>2
    <3>4. Len(t) + Len(enums) = (i + 1) + j /\ Len(v) = Len(q)
      BY <3>1, <3>2, Zenon
    <3> QED
      BY <3>2, <3>3, <3>4, Zenon
  <2>2. /\ t \in Seq(MessageTables) /\ q \in Seq(Entries) /\ v \in Seq(SUBSET Nat)
    BY <1>2, <1>6, <1>7, <1>8
  <2>3. enums' = enums /\ phase' \in {"build", "given"} /\ links' \in LinkLists
    BY <1>1 DEF PoolInv, PoolStates
  <2> QED
    BY <1>3, <1>4, <2>1, <2>2, <2>3 DEF PoolStates
<1>11. EntriesBuilt'
  <2>1. ASSUME NEW p \in 1 .. Len(q)
        PROVE  IF q[p].kind = "message"
               THEN /\ q[p].at <= Len(t)
                    /\ (\A r \in 1 .. p : q[r].kind = "message") => q[p].at = p
               ELSE /\ q[p].at <= Len(enums) /\ v[p] = ValuesOf(enums[q[p].at])
    <3>1. CASE p \in 1 .. Len(pool)
      <4>1. \A r \in 1 .. p : r \in 1 .. Len(pool) /\ q[r] = pool[r]
        BY <1>7, <3>1
      <4>2. q[p] = pool[p] /\ v[p] = values[p] /\ pool[p] \in E
        BY <1>3, <1>7, <1>8, <3>1
      <4>3. pool[p].at \in Nat
        BY <1>2, <4>2 DEF Entries
      <4>4. IF pool[p].kind = "message"
            THEN /\ pool[p].at <= Len(tables)
                 /\ (\A r \in 1 .. p : pool[r].kind = "message") => pool[p].at = p
            ELSE /\ pool[p].at <= Len(enums) /\ values[p] = ValuesOf(enums[pool[p].at])
        BY <3>1 DEF PoolInv, EntriesBuilt
      <4>5. CASE pool[p].kind = "message"
        <5>1. pool[p].at <= Len(t)
          BY <1>6, <4>3, <4>4, <4>5
        <5> QED
          BY <4>1, <4>2, <4>4, <4>5, <5>1
      <4>6. CASE pool[p].kind # "message"
        BY <4>2, <4>4, <4>6
      <4> QED
        BY <4>5, <4>6
    <3>2. CASE p = Len(q)
      <4>1. q[p].kind = "message" /\ q[p].at = Len(tables) + 1
        BY <1>4, <1>7, <3>2
      <4>2. ASSUME \A r \in 1 .. p : q[r].kind = "message"
            PROVE  q[p].at = p
        <5>1. \A r \in 1 .. Len(pool) : pool[r].kind = "message"
          BY <1>7, <3>2, <4>2
        <5>2. Len(tables) = Len(pool)
          BY <5>1 DEF PoolInv, EntriesBuilt
        <5> QED
          BY <1>7, <3>2, <4>1, <5>2
      <4> QED
        BY <1>6, <4>1, <4>2
    <3> QED
      BY <1>7, <3>1, <3>2
  <2>2. q[1].kind = "message"
    <3>1. CASE pool = <<>>
      BY <1>4, <1>7, <3>1
    <3>2. CASE pool # <<>>
      <4>1. 1 \in 1 .. Len(pool)
        BY <1>3, <3>2
      <4> QED
        BY <1>7, <3>2, <4>1 DEF PoolInv, EntriesBuilt
    <3> QED
      BY <3>1, <3>2
  <2>3. ASSUME \A p \in 1 .. Len(q) : q[p].kind = "message"
        PROVE  Len(t) = Len(q)
    <3>1. \A r \in 1 .. Len(pool) : pool[r].kind = "message"
      BY <1>7, <2>3
    <3> QED
      BY <1>6, <1>7, <3>1 DEF PoolInv, EntriesBuilt
  <2>4. q # <<>>
    BY <1>7
  <2> QED
    BY <1>1, <1>4, <2>1, <2>2, <2>3, <2>4 DEF EntriesBuilt
<1>12. TablesLinked'
  BY <1>1 DEF TablesLinked
<1>13. DecodeStands'
  <2>1. at \in 0 .. Len(q)
    <3>1. at \in 0 .. Len(pool)
      BY DEF PoolInv, DecodeStands
    <3> QED
      BY <1>7, <3>1
  <2> QED
    BY <1>1, <1>4, <2>1 DEF DecodeStands
<1>14. EnumChecked'
  <2>1. ASSUME checked.enum # 0
        PROVE  /\ checked.enum \in 1 .. Len(q) /\ q[checked.enum].kind = "enum"
               /\ checked.probe \in Nat
               /\ checked.answer <=> CheckValue(enums[q[checked.enum].at], checked.probe)
    BY <1>7, <2>1 DEF PoolInv, EnumChecked
  <2> QED
    BY <1>1, <1>4, <2>1 DEF EnumChecked
<1> QED
  BY <1>10, <1>11, <1>12, <1>13, <1>14 DEF PoolInv

LEMMA EnumAdded ==
  ASSUME NEW tokens \in Seq(EnumTokens), NEW described,
         described = ValuesOf(BuildEnum(tokens)), PoolInv, BuildEnumTable(tokens, described)
  PROVE  PoolInv'
<1>1. PICK T : T = BuildEnum(tokens)
  OBVIOUS
<1>2. T \in EnumTables /\ described = ValuesOf(T)
  BY <1>1, DescribedBuilt
<1>3. CASE ~Buildable(tokens)
  <2>1. phase' = "error" /\ UNCHANGED <<tables, enums, pool, values, links, at, checked>>
    BY <1>3 DEF BuildEnumTable
  <2>2. PoolStates' /\ EntriesBuilt'
    BY <2>1 DEF PoolInv, PoolStates, EntriesBuilt
  <2>3. TablesLinked' /\ DecodeStands'
    BY <2>1 DEF PoolInv, TablesLinked, DecodeStands
  <2>4. EnumChecked'
    BY <2>1 DEF PoolInv, EnumChecked
  <2> QED
    BY <2>2, <2>3, <2>4 DEF PoolInv
<1>4. CASE Buildable(tokens)
  <2>1. /\ pool' = Append(pool, [kind |-> "enum", at |-> Len(enums) + 1])
        /\ enums' = Append(enums, T) /\ values' = Append(values, described)
        /\ UNCHANGED <<phase, tables, links, at, checked>> /\ phase = "build" /\ pool # <<>>
    BY <1>1, <1>4 DEF BuildEnumTable
  <2>2. PICK E, V, M : E = Entries /\ V = SUBSET Nat /\ M = EnumTables
    OBVIOUS
  <2>3. /\ enums \in Seq(M) /\ pool \in Seq(E) /\ values \in Seq(V) /\ T \in M
        /\ tables \in Seq(MessageTables)
        /\ Len(values) = Len(pool) /\ Len(tables) + Len(enums) = Len(pool)
    BY <1>2, <2>2 DEF PoolInv, PoolStates
  <2>4. PICK e, x, t, q, v : /\ e = [kind |-> "enum", at |-> Len(enums) + 1] /\ x = described
                             /\ t = enums' /\ q = pool' /\ v = values'
    OBVIOUS
  <2>5. e \in E /\ x \in V
    <3>1. Len(enums) + 1 \in Nat \ {0}
      BY <2>3
    <3>2. T.mask \in SUBSET Nat /\ ToSet(T.tail) \in SUBSET Nat
      <4>1. PICK S : S = Seq(Nat)
        OBVIOUS
      <4>2. T.mask \in SUBSET Nat /\ T.tail \in S
        BY <1>2, <4>1 DEF EnumTables
      <4>3. T.tail \in Seq(Nat)
        BY <4>1, <4>2
      <4> QED
        BY <4>2, <4>3 DEF ToSet
    <3> QED
      BY <1>2, <2>2, <2>4, <3>1, <3>2 DEF Entries, ValuesOf
  <2>6. /\ t \in Seq(M) /\ Len(enums) \in Nat /\ Len(t) = Len(enums) + 1 /\ t[Len(t)] = T
        /\ \A p \in 1 .. Len(enums) : t[p] = enums[p]
    BY <2>1, <2>3, <2>4, Appended
  <2>7. /\ q \in Seq(E) /\ Len(pool) \in Nat /\ Len(q) = Len(pool) + 1 /\ q[Len(q)] = e
        /\ 1 .. Len(q) = 1 .. Len(pool) \cup {Len(q)} /\ Len(q) \notin 1 .. Len(pool)
        /\ \A p \in 1 .. Len(pool) : pool[p] \in E /\ q[p] = pool[p]
    BY <2>1, <2>3, <2>4, <2>5, Appended
  <2>8. /\ v \in Seq(V) /\ Len(v) = Len(values) + 1 /\ v[Len(v)] = x
        /\ \A p \in 1 .. Len(values) : v[p] = values[p]
    BY <2>1, <2>3, <2>4, <2>5, Appended
  <2>9. Len(tables) \in Nat
    BY <2>3
  <2>10. PoolStates'
    <3>1. /\ Len(v) = Len(q) /\ Len(tables) + Len(t) = Len(q)
      <4>1. PICK i, j, k : i = Len(tables) /\ j = Len(enums) /\ k = Len(pool)
        OBVIOUS
      <4>2. /\ i \in Nat /\ j \in Nat /\ k \in Nat /\ i + j = k
            /\ Len(t) = j + 1 /\ Len(q) = k + 1 /\ Len(v) = k + 1
        BY <2>3, <2>6, <2>7, <2>8, <2>9, <4>1
      <4>3. i + (j + 1) = k + 1
        BY <4>2
      <4>4. Len(tables) + Len(t) = i + (j + 1) /\ Len(v) = Len(q)
        BY <4>1, <4>2, Zenon
      <4> QED
        BY <4>2, <4>3, <4>4, Zenon
    <3>2. /\ t \in Seq(EnumTables) /\ q \in Seq(Entries) /\ v \in Seq(SUBSET Nat)
      BY <2>2, <2>6, <2>7, <2>8
    <3>3. tables' = tables /\ phase' = "build" /\ links' \in LinkLists
      BY <2>1 DEF PoolInv, PoolStates
    <3> QED
      BY <2>3, <2>4, <3>1, <3>2, <3>3 DEF PoolStates
  <2>11. ASSUME NEW p \in 1 .. Len(pool), pool[p].kind = "enum"
         PROVE  pool[p].at \in 1 .. Len(enums)
    <3>1. pool[p].at \in Nat \ {0}
      BY <2>2, <2>7 DEF Entries
    <3>2. pool[p].at <= Len(enums)
      BY <2>11 DEF PoolInv, EntriesBuilt
    <3> QED
      BY <2>6, <3>1, <3>2
  <2>12. EntriesBuilt'
    <3>1. ASSUME NEW p \in 1 .. Len(q)
          PROVE  IF q[p].kind = "message"
                 THEN /\ q[p].at <= Len(tables)
                      /\ (\A r \in 1 .. p : q[r].kind = "message") => q[p].at = p
                 ELSE /\ q[p].at <= Len(t) /\ v[p] = ValuesOf(t[q[p].at])
      <4>1. CASE p \in 1 .. Len(pool)
        <5>1. \A r \in 1 .. p : r \in 1 .. Len(pool) /\ q[r] = pool[r]
          BY <2>7, <4>1
        <5>2. q[p] = pool[p] /\ v[p] = values[p] /\ pool[p].kind \in {"message", "enum"}
          BY <2>2, <2>3, <2>7, <2>8, <4>1 DEF Entries
        <5>3. CASE pool[p].kind = "message"
          BY <4>1, <5>1, <5>2, <5>3 DEF PoolInv, EntriesBuilt
        <5>4. CASE pool[p].kind = "enum"
          <6>1. pool[p].at \in 1 .. Len(enums) /\ values[p] = ValuesOf(enums[pool[p].at])
            BY <2>11, <4>1, <5>4 DEF PoolInv, EntriesBuilt
          <6>2. pool[p].at <= Len(t)
            BY <2>6, <6>1
          <6> QED
            BY <2>6, <5>2, <5>4, <6>1, <6>2
        <5> QED
          BY <5>2, <5>3, <5>4
      <4>2. CASE p = Len(q)
        <5>1. q[p].kind = "enum" /\ q[p].at = Len(t)
          BY <2>4, <2>6, <2>7, <4>2
        <5>2. v[p] = ValuesOf(T)
          BY <1>2, <2>3, <2>4, <2>7, <2>8, <4>2
        <5>3. Len(t) <= Len(t)
          BY <2>6
        <5> QED
          BY <2>6, <5>1, <5>2, <5>3
      <4> QED
        BY <2>7, <4>1, <4>2
    <3>2. q[1].kind = "message"
      <4>1. 1 \in 1 .. Len(pool)
        BY <2>1, <2>3
      <4> QED
        BY <2>1, <2>7, <4>1 DEF PoolInv, EntriesBuilt
    <3>3. q[Len(q)].kind # "message" /\ Len(q) \in 1 .. Len(q)
      BY <2>4, <2>7
    <3>4. q # <<>>
      BY <2>7
    <3> QED
      BY <2>1, <2>4, <3>1, <3>2, <3>3, <3>4 DEF EntriesBuilt
  <2>13. TablesLinked'
    BY <2>1 DEF TablesLinked
  <2>14. DecodeStands'
    <3>1. at \in 0 .. Len(q)
      <4>1. at \in 0 .. Len(pool)
        BY DEF PoolInv, DecodeStands
      <4> QED
        BY <2>7, <4>1
    <3> QED
      BY <2>1, <2>4, <3>1 DEF DecodeStands
  <2>15. EnumChecked'
    <3>1. ASSUME checked.enum # 0
          PROVE  /\ checked.enum \in 1 .. Len(q) /\ q[checked.enum].kind = "enum"
                 /\ checked.probe \in Nat
                 /\ checked.answer <=> CheckValue(t[q[checked.enum].at], checked.probe)
      <4>1. PICK c : c = checked.enum
        OBVIOUS
      <4>2. /\ c \in 1 .. Len(pool) /\ pool[c].kind = "enum" /\ checked.probe \in Nat
            /\ checked.answer <=> CheckValue(enums[pool[c].at], checked.probe)
        BY <3>1, <4>1 DEF PoolInv, EnumChecked
      <4>3. pool[c].at \in 1 .. Len(enums) /\ q[c] = pool[c] /\ c \in 1 .. Len(q)
        BY <2>7, <2>11, <4>2
      <4>4. t[q[c].at] = enums[pool[c].at]
        BY <2>6, <4>3
      <4> QED
        BY <4>1, <4>2, <4>3, <4>4
    <3> QED
      BY <2>1, <2>4, <3>1 DEF EnumChecked
  <2> QED
    BY <2>10, <2>12, <2>13, <2>14, <2>15 DEF PoolInv
<1> QED
  BY <1>3, <1>4

LEMMA LinksGiven ==
  ASSUME NEW given \in Seq(Nat), PoolInv, GiveLinks(given)
  PROVE  PoolInv'
<1>1. /\ phase \in {"build", "given"} /\ phase' = "given" /\ Len(links) < Len(pool)
      /\ links' = Append(links, given)
      /\ UNCHANGED <<values, tables, enums, pool, at, checked>>
  BY DEF GiveLinks
<1>a. PICK G : G = Seq(Nat)
  OBVIOUS
<1>b. links \in Seq(G) /\ given \in G
  BY <1>a DEF PoolInv, PoolStates, LinkLists
<1>c. links' \in Seq(G)
  BY <1>1, <1>b
<1>d. links' \in LinkLists
  BY <1>a, <1>c DEF LinkLists
<1>2. PoolStates'
  BY <1>1, <1>d DEF PoolInv, PoolStates
<1>3. pool # <<>>
  BY <1>1, <1>b
<1>4. EntriesBuilt'
  BY <1>1, <1>3 DEF PoolInv, EntriesBuilt
<1>5. TablesLinked' /\ DecodeStands'
  BY <1>1 DEF PoolInv, TablesLinked, DecodeStands
<1>6. EnumChecked'
  BY <1>1 DEF PoolInv, EnumChecked
<1> QED
  BY <1>2, <1>4, <1>5, <1>6 DEF PoolInv

(* Linking writes the flags of the fields and nothing else of a table.      *)
LEMMA TableLinked ==
  ASSUME NEW T \in MessageTables, NEW flags, \A i \in 1 .. Len(T.fields) : flags[i] \in BOOLEAN,
         NEW U, U = [T EXCEPT !.fields = [i \in 1 .. Len(T.fields) |->
                                            [T.fields[i] EXCEPT !.map = flags[i]]]]
  PROVE  /\ U \in MessageTables /\ U.map = T.map /\ Len(U.fields) = Len(T.fields)
         /\ \A i \in 1 .. Len(T.fields) : /\ U.fields[i].type = T.fields[i].type
                                          /\ U.fields[i].map = flags[i]
<1>1. PICK K, n, f : K = Seq(LinkFields) /\ n = Len(T.fields) /\ f = T.fields
  OBVIOUS
<1>2. T \in [map : BOOLEAN, written : MessageTypes, read : ReadStates, fields : K]
  BY <1>1 DEF MessageTables
<1>3. f \in Seq(LinkFields) /\ n = Len(f)
  BY <1>1, <1>2
<1>4. n \in Nat /\ \A i \in 1 .. n : f[i] \in LinkFields
  BY <1>3
<1>5. PICK g : g = [i \in 1 .. n |-> [f[i] EXCEPT !.map = flags[i]]]
  OBVIOUS
<1>6. ASSUME NEW i \in 1 .. n
      PROVE  g[i] \in LinkFields /\ g[i].type = f[i].type /\ g[i].map = flags[i]
  <2>1. PICK b \in BOOLEAN : b = flags[i]
    BY <1>1
  <2>2. g[i] = [f[i] EXCEPT !.map = b]
    BY <1>5, <2>1
  <2> QED
    BY <1>4, <2>1, <2>2 DEF LinkFields
<1>7. g \in Seq(LinkFields) /\ Len(g) = n
  <2>1. \A i \in 1 .. n : g[i] \in LinkFields
    BY <1>6
  <2>2. DOMAIN g = 1 .. n /\ g = [i \in 1 .. n |-> g[i]]
    BY <1>5
  <2> QED
    BY <1>4, <2>1, <2>2
<1>8. U = [T EXCEPT !.fields = g]
  BY <1>1, <1>5
<1>9. g \in K
  BY <1>1, <1>7
<1>10. /\ U \in [map : BOOLEAN, written : MessageTypes, read : ReadStates, fields : K]
       /\ U.fields = g /\ U.map = T.map /\ U.written = T.written /\ U.read = T.read
  BY <1>2, <1>8, <1>9
<1>11. U \in MessageTables
  BY <1>1, <1>7, <1>10 DEF MessageTables
<1> QED
  BY <1>1, <1>6, <1>7, <1>10, <1>11

LEMMA LinksMade ==
  ASSUME PoolInv, Link
  PROVE  PoolInv'
<1> DEFINE AllFit == \A t \in 1 .. Len(tables) : \A i \in 1 .. Len(tables[t].fields) :
                     LET f == tables[t].fields[i]
                     IN HasSub(f) /\ LinkOf(t, i) # Unlinked
                          => Linkable(tables[t], f.type, LinkOf(t, i))
<1>1. phase = "given" /\ UNCHANGED <<values, enums, pool, links, at, checked>> /\ pool # <<>>
  BY DEF Link, PoolInv, EntriesBuilt
<1>2. CASE ~AllFit
  <2>1. phase' = "error" /\ UNCHANGED tables
    BY <1>2 DEF Link
  <2>2. PoolStates' /\ EntriesBuilt'
    BY <1>1, <2>1 DEF PoolInv, PoolStates, EntriesBuilt
  <2>3. TablesLinked' /\ DecodeStands'
    BY <1>1, <2>1 DEF PoolInv, TablesLinked, DecodeStands
  <2>4. EnumChecked'
    BY <1>1, <2>1 DEF PoolInv, EnumChecked
  <2> QED
    BY <2>2, <2>3, <2>4 DEF PoolInv
<1>3. CASE AllFit
  <2> DEFINE Flag(t, i) == tables[t].fields[i].type = "message" /\ LinksToMap(LinkOf(t, i))
  <2>1. /\ phase' = "linked"
        /\ tables' = [t \in 1 .. Len(tables) |->
               [tables[t] EXCEPT !.fields =
                  [i \in 1 .. Len(tables[t].fields) |->
                     [tables[t].fields[i] EXCEPT !.map = Flag(t, i)]]]]
    BY <1>3 DEF Link
  <2>2. \A t, i : Flag(t, i) \in BOOLEAN
    OBVIOUS
  <2> HIDE DEF Flag
  <2>3. PICK M, n, new : M = MessageTables /\ n = Len(tables) /\ new = tables'
    OBVIOUS
  <2>4. tables \in Seq(M) /\ n \in Nat /\ \A t \in 1 .. n : tables[t] \in MessageTables
    BY <2>3 DEF PoolInv, PoolStates
  <2>5. ASSUME NEW t \in 1 .. n
        PROVE  /\ new[t] \in M /\ new[t].map = tables[t].map
               /\ Len(new[t].fields) = Len(tables[t].fields)
               /\ \A i \in 1 .. Len(tables[t].fields) :
                    /\ new[t].fields[i].type = tables[t].fields[i].type
                    /\ new[t].fields[i].map = Flag(t, i)
    <3>1. PICK T, U, flags : T = tables[t] /\ U = new[t] /\ flags = [i \in Nat |-> Flag(t, i)]
      OBVIOUS
    <3>2. T \in MessageTables
      BY <2>4, <3>1
    <3>3. PICK K : K = Seq(LinkFields)
      OBVIOUS
    <3>4. T.fields \in K
      BY <3>2, <3>3 DEF MessageTables
    <3>5. T.fields \in Seq(LinkFields)
      BY <3>3, <3>4
    <3>6. \A i \in 1 .. Len(T.fields) : flags[i] = Flag(t, i)
      BY <3>1, <3>5
    <3>7. U = [T EXCEPT !.fields = [i \in 1 .. Len(T.fields) |->
                                      [T.fields[i] EXCEPT !.map = flags[i]]]]
      BY <2>1, <2>3, <3>1, <3>6
    <3>8. \A i \in 1 .. Len(T.fields) : flags[i] \in BOOLEAN
      BY <2>2, <3>6
    <3>9. /\ U \in MessageTables /\ U.map = T.map /\ Len(U.fields) = Len(T.fields)
          /\ \A i \in 1 .. Len(T.fields) : /\ U.fields[i].type = T.fields[i].type
                                           /\ U.fields[i].map = flags[i]
      BY <3>2, <3>7, <3>8, TableLinked
    <3> QED
      BY <2>3, <3>1, <3>6, <3>9
  <2>6. new \in Seq(M) /\ Len(new) = n
    <3>1. DOMAIN new = 1 .. n /\ new = [t \in 1 .. n |-> new[t]]
      BY <2>1, <2>3
    <3> QED
      BY <2>4, <2>5, <3>1
  <2>7. PoolStates'
    <3>1. new \in Seq(MessageTables) /\ Len(new) = Len(tables)
      BY <2>3, <2>6
    <3>2. phase' = "linked" /\ new = tables'
      BY <2>1, <2>3
    <3> QED
      BY <1>1, <3>1, <3>2 DEF PoolInv, PoolStates
  <2>8. EntriesBuilt'
    <3>1. Len(tables') = Len(tables)
      BY <2>3, <2>6
    <3> QED
      BY <1>1, <3>1 DEF PoolInv, EntriesBuilt
  <2>9. TablesLinked'
    <3>1. ASSUME NEW t \in 1 .. n, NEW i \in 1 .. Len(new[t].fields)
          PROVE  Linked(t, i)'
      <4>1. i \in 1 .. Len(tables[t].fields)
        BY <2>5, <3>1
      <4>2. PICK s : s = SlotOf(tables[t].fields, i)
        OBVIOUS
      <4>3. SlotOf(new[t].fields, i) = s
        <5>1. PICK K : K = Seq(LinkFields)
          OBVIOUS
        <5>2. tables[t].fields \in K
          BY <2>4, <5>1 DEF MessageTables
        <5>3. Len(tables[t].fields) \in Nat
          BY <5>1, <5>2
        <5>4. \A j \in 1 .. i : j \in 1 .. Len(tables[t].fields)
          BY <4>1, <5>3
        <5>5. \A j \in 1 .. i : new[t].fields[j].type = tables[t].fields[j].type
          BY <2>5, <5>4
        <5> QED
          BY <4>2, <5>5, SlotsSame
      <4>4. PICK target : target = LinkOf(t, i)
        OBVIOUS
      <4>5. LinkOf(t, i)' = target
        <5>1. LinkOf(t, i)' = Target(t, SlotOf(new[t].fields, i))'
          BY <2>3 DEF LinkOf
        <5>2. Target(t, SlotOf(new[t].fields, i))' = Target(t, s)
          BY <1>1, <2>3, <4>3 DEF Target
        <5> QED
          BY <4>2, <4>4, <5>1, <5>2 DEF LinkOf
      <4>6. PICK f, g : f = tables[t].fields[i] /\ g = new[t].fields[i]
        OBVIOUS
      <4>7. g.type = f.type /\ g.map = Flag(t, i) /\ (HasSub(g) <=> HasSub(f))
        BY <2>5, <4>1, <4>6 DEF HasSub
      <4>8. ASSUME NEW p \in 1 .. Len(pool), pool[p].kind = "message"
            PROVE  pool[p].at \in 1 .. n
        <5>1. pool[p].at <= n
          BY <2>3, <4>8 DEF PoolInv, EntriesBuilt
        <5>2. pool[p] \in Entries
          BY DEF PoolInv, PoolStates
        <5>3. pool[p].at \in Nat \ {0}
          BY <5>2 DEF Entries
        <5> QED
          BY <2>4, <5>1, <5>3
      <4>9. ASSUME HasSub(g), target # Unlinked
            PROVE  Linkable(new[t], g.type, target)'
        <5>1. Linkable(tables[t], f.type, target)
          BY <1>3, <2>3, <4>1, <4>4, <4>6, <4>7, <4>9
        <5>2. target \in 1 .. Len(pool) /\ pool[target].kind \in {"message", "enum"}
          <6>1. target \in 1 .. Len(pool)
            BY <5>1 DEF Linkable
          <6>2. pool[target] \in Entries
            BY <6>1 DEF PoolInv, PoolStates
          <6> QED
            BY <6>1, <6>2 DEF Entries
        <5>3. CASE pool[target].kind = "enum"
          BY <1>1, <2>3, <2>5, <4>7, <5>1, <5>2, <5>3 DEF Linkable
        <5>4. CASE pool[target].kind = "message"
          <6>1. pool[target].at \in 1 .. n
            BY <4>8, <5>2, <5>4
          <6>2. tables'[pool[target].at].map = tables[pool[target].at].map
            BY <2>3, <2>5, <6>1
          <6>3. new[t].map = tables[t].map /\ new[t]' = new[t]
            BY <2>5
          <6> QED
            BY <1>1, <4>7, <5>1, <5>2, <5>4, <6>2, <6>3 DEF Linkable
        <5> QED
          BY <5>2, <5>3, <5>4
      <4>10. g.map <=> g.type = "message" /\ LinksToMap(target)'
        <5>1. ASSUME g.type = "message"
              PROVE  LinksToMap(target) <=> LinksToMap(target)'
          <6>1. CASE target = Unlinked
            BY <6>1 DEF LinksToMap
          <6>2. CASE target # Unlinked
            <7>1. target \in 1 .. Len(pool)
              BY <4>7, <4>9, <5>1, <6>2, <1>1 DEF Linkable, HasSub
            <7>2. CASE pool[target].kind = "message"
              <8>1. tables'[pool[target].at].map = tables[pool[target].at].map
                BY <2>3, <2>5, <4>8, <7>1, <7>2
              <8> QED
                BY <1>1, <8>1 DEF LinksToMap
            <7>3. CASE pool[target].kind # "message"
              BY <1>1, <7>3 DEF LinksToMap
            <7> QED
              BY <7>2, <7>3
          <6> QED
            BY <6>1, <6>2
        <5>2. Flag(t, i) <=> f.type = "message" /\ LinksToMap(target)
          BY <4>4, <4>6 DEF Flag
        <5> QED
          BY <4>7, <5>1, <5>2
      <4> QED
        BY <2>3, <4>5, <4>6, <4>7, <4>9, <4>10 DEF Linked
    <3> QED
      BY <2>3, <2>6, <3>1 DEF TablesLinked
  <2>10. DecodeStands'
    BY <1>1, <2>1 DEF PoolInv, DecodeStands
  <2>11. EnumChecked'
    BY <1>1, <2>1 DEF PoolInv, EnumChecked
  <2> QED
    BY <2>7, <2>8, <2>9, <2>10, <2>11 DEF PoolInv
<1> QED
  BY <1>2, <1>3

LEMMA LinksStay ==
  ASSUME TablesLinked, phase \in {"linked", "ready", "panic"},
         UNCHANGED <<tables, enums, pool, links>>
  PROVE  TablesLinked'
<1>1. ASSUME NEW t \in 1 .. Len(tables), NEW i \in 1 .. Len(tables[t].fields)
      PROVE  Linked(t, i)'
  <2>1. PICK target, f : target = LinkOf(t, i) /\ f = tables[t].fields[i]
    OBVIOUS
  <2>2. LinkOf(t, i)' = target
    <3>1. PICK s : s = SlotOf(tables[t].fields, i)
      OBVIOUS
    <3>2. SlotOf(tables[t].fields, i)' = s
      BY <3>1
    <3> QED
      BY <2>1, <3>1, <3>2 DEF LinkOf, Target
  <2>3. Linked(t, i)
    BY <1>1 DEF TablesLinked
  <2>4. Linkable(tables[t], f.type, target)' <=> Linkable(tables[t], f.type, target)
    BY DEF Linkable
  <2>5. LinksToMap(target)' <=> LinksToMap(target)
    BY DEF LinksToMap
  <2>6. HasSub(f) /\ target # Unlinked => Linkable(tables[t], f.type, target)
    BY <2>1, <2>3 DEF Linked
  <2>7. f.map <=> f.type = "message" /\ LinksToMap(target)
    BY <2>1, <2>3 DEF Linked
  <2>8. tables'[t].fields[i] = f
    BY <2>1
  <2>9. Linkable(tables[t], f.type, LinkOf(t, i))' <=> Linkable(tables[t], f.type, target)'
    BY <2>2
  <2>10. LinksToMap(LinkOf(t, i))' <=> LinksToMap(target)'
    BY <2>2
  <2> QED
    BY <2>2, <2>4, <2>5, <2>6, <2>7, <2>8, <2>9, <2>10 DEF Linked
<1> QED
  BY <1>1 DEF TablesLinked

LEMMA DeferredRejected ==
  ASSUME PoolInv, RejectDeferred
  PROVE  PoolInv'
<1>1. /\ phase = "linked" /\ UNCHANGED <<values, tables, enums, pool, links, checked>>
      /\ \/ phase' = "error" /\ at' = at
         \/ phase' = "ready" /\ at' = 1
  BY DEF RejectDeferred
<1>2. PoolStates' /\ EntriesBuilt'
  BY <1>1 DEF PoolInv, PoolStates, EntriesBuilt
<1>3. TablesLinked'
  BY <1>1, LinksStay DEF PoolInv
<1>4. DecodeStands'
  <2>1. CASE phase' = "error"
    BY <1>1, <2>1 DEF PoolInv, DecodeStands
  <2>2. CASE phase' = "ready" /\ at' = 1
    <3>1. PICK E : E = Entries
      OBVIOUS
    <3>2. pool \in Seq(E) /\ pool # <<>> /\ pool[1].kind = "message"
      BY <1>1, <3>1 DEF PoolInv, PoolStates, EntriesBuilt
    <3>3. 1 \in 0 .. Len(pool)
      BY <3>2
    <3> QED
      BY <1>1, <2>2, <3>2, <3>3 DEF DecodeStands
  <2> QED
    BY <1>1, <2>1, <2>2
<1>5. EnumChecked'
  BY <1>1 DEF PoolInv, EnumChecked
<1> QED
  BY <1>2, <1>3, <1>4, <1>5 DEF PoolInv

(* With the enums behind the messages, tables are numbered like the pool.   *)
LEMMA TablesInPool ==
  ASSUME PoolInv, EnumsLast, NEW p \in 1 .. Len(pool), pool[p].kind = "message"
  PROVE  p \in 1 .. Len(tables) /\ pool[p].at = p
<1>1. PICK E, M : E = Entries /\ M = MessageTables
  OBVIOUS
<1>2. pool \in Seq(E) /\ tables \in Seq(M)
  BY <1>1 DEF PoolInv, PoolStates
<1>3. ASSUME NEW q \in 1 .. p
      PROVE  pool[q].kind = "message"
  <2>1. q \in 1 .. Len(pool) /\ q <= p /\ q \in Nat /\ p \in Nat
    BY <1>2
  <2>2. pool[q] \in E
    BY <1>2, <2>1
  <2>3. pool[q].kind = "enum" => p < q
    BY <2>1 DEF EnumsLast
  <2> QED
    BY <1>1, <2>1, <2>2, <2>3 DEF Entries
<1>4. pool[p].at <= Len(tables) /\ pool[p].at = p
  BY <1>3 DEF PoolInv, EntriesBuilt
<1> QED
  BY <1>2, <1>4

LEMMA Descended ==
  ASSUME PoolInv, NEW i \in Nat \ {0}, Descend(i)
  PROVE  PoolInv'
<1>1. /\ phase = "ready" /\ UNCHANGED <<values, tables, enums, pool, links, checked>>
      /\ i <= Len(TableAt(at).fields)
      /\ \/ phase' = "panic" /\ at' = at /\ Panics(at, i)
         \/ phase' = "ready" /\ at' = Sub(at, i) /\ Sub(at, i) # Unlinked
  BY DEF Descend
<1>2. PoolStates' /\ EntriesBuilt'
  BY <1>1 DEF PoolInv, PoolStates, EntriesBuilt
<1>3. TablesLinked'
  BY <1>1, LinksStay DEF PoolInv
<1>4. DecodeStands'
  <2>1. CASE phase' = "panic" /\ at' = at /\ Panics(at, i)
    <3>1. ASSUME EnumsLast PROVE FALSE
      <4>1. at \in 1 .. Len(pool) /\ pool[at].kind = "message"
        BY <1>1 DEF PoolInv, DecodeStands
      <4>2. PICK p : p = at
        OBVIOUS
      <4>3. p \in 1 .. Len(tables) /\ pool[p].at = p
        BY <3>1, <4>1, <4>2, TablesInPool
      <4>4. i <= Len(tables[p].fields)
        BY <1>1, <4>2, <4>3 DEF TableAt
      <4>5. PICK M, K : M = MessageTables /\ K = Seq(LinkFields)
        OBVIOUS
      <4>6. tables \in Seq(M)
        BY <4>5 DEF PoolInv, PoolStates
      <4>7. tables[p] \in MessageTables /\ Len(tables) \in Nat
        BY <4>3, <4>5, <4>6
      <4>8. tables[p].fields \in K
        BY <4>5, <4>7 DEF MessageTables
      <4>9. Len(tables[p].fields) \in Nat
        BY <4>5, <4>8
      <4> QED
        BY <2>1, <4>2, <4>3, <4>4, <4>7, <4>9 DEF Panics
    <3>2. ~EnumsLast'
      BY <1>1, <3>1 DEF EnumsLast
    <3> QED
      BY <1>1, <2>1, <3>2 DEF PoolInv, DecodeStands
  <2>2. CASE phase' = "ready" /\ at' = Sub(at, i) /\ Sub(at, i) # Unlinked
    <3>1. at' \in 1 .. Len(pool) /\ pool[at'].kind = "message"
      BY <2>2 DEF Sub
    <3>2. pool' = pool
      BY <1>1
    <3> QED
      BY <2>2, <3>1, <3>2 DEF DecodeStands
  <2> QED
    BY <1>1, <2>1, <2>2
<1>5. EnumChecked'
  BY <1>1 DEF PoolInv, EnumChecked
<1> QED
  BY <1>2, <1>3, <1>4, <1>5 DEF PoolInv

LEMMA ProbeChecked ==
  ASSUME PoolInv, NEW i \in Nat \ {0}, NEW v \in Nat, Check(i, v)
  PROVE  PoolInv'
<1>1. PICK target : target = SubEnum(at, i)
  OBVIOUS
<1>2. /\ phase = "ready" /\ UNCHANGED <<values, tables, enums, pool, links, at>>
      /\ i <= Len(TableAt(at).fields)
      /\ \/ phase' = "panic" /\ checked' = checked /\ Panics(at, i)
         \/ /\ phase' = "ready"
            /\ checked' = [probe |-> v, enum |-> target,
                           answer |-> /\ target # Unlinked
                                      /\ CheckValue(enums[pool[target].at], v)]
  BY <1>1 DEF Check
<1>3. PoolStates' /\ EntriesBuilt'
  BY <1>2 DEF PoolInv, PoolStates, EntriesBuilt
<1>4. TablesLinked'
  BY <1>2, LinksStay DEF PoolInv
<1>5. DecodeStands'
  <2>1. CASE phase' = "panic" /\ Panics(at, i)
    <3>1. ASSUME EnumsLast PROVE FALSE
      <4>1. at \in 1 .. Len(pool) /\ pool[at].kind = "message"
        BY <1>2 DEF PoolInv, DecodeStands
      <4>2. PICK p : p = at
        OBVIOUS
      <4>3. p \in 1 .. Len(tables) /\ pool[p].at = p
        BY <3>1, <4>1, <4>2, TablesInPool
      <4>4. i <= Len(tables[p].fields)
        BY <1>2, <4>2, <4>3 DEF TableAt
      <4>5. PICK M, K : M = MessageTables /\ K = Seq(LinkFields)
        OBVIOUS
      <4>6. tables \in Seq(M)
        BY <4>5 DEF PoolInv, PoolStates
      <4>7. tables[p] \in MessageTables /\ Len(tables) \in Nat
        BY <4>3, <4>5, <4>6
      <4>8. tables[p].fields \in K
        BY <4>5, <4>7 DEF MessageTables
      <4>9. Len(tables[p].fields) \in Nat
        BY <4>5, <4>8
      <4> QED
        BY <2>1, <4>2, <4>3, <4>4, <4>7, <4>9 DEF Panics
    <3>2. ~EnumsLast'
      BY <1>2, <3>1 DEF EnumsLast
    <3> QED
      BY <1>2, <2>1, <3>2 DEF PoolInv, DecodeStands
  <2>2. CASE phase' = "ready"
    BY <1>2, <2>2 DEF PoolInv, DecodeStands
  <2> QED
    BY <1>2, <2>1, <2>2
<1>6. EnumChecked'
  <2>1. CASE checked' = checked
    BY <1>2, <2>1 DEF PoolInv, EnumChecked
  <2>2. CASE checked' = [probe |-> v, enum |-> target,
                         answer |-> /\ target # Unlinked
                                    /\ CheckValue(enums[pool[target].at], v)]
    <3>1. checked'.probe = v /\ checked'.enum = target
          /\ (checked'.answer <=> target # Unlinked /\ CheckValue(enums[pool[target].at], v))
      BY <2>2
    <3>2. ASSUME target # Unlinked
          PROVE  target \in 1 .. Len(pool) /\ pool[target].kind = "enum"
      BY <1>1, <3>2 DEF SubEnum
    <3> QED
      BY <1>2, <3>1, <3>2 DEF EnumChecked, Unlinked
  <2> QED
    BY <1>2, <2>1, <2>2
<1> QED
  BY <1>3, <1>4, <1>5, <1>6 DEF PoolInv

LEMMA PoolStays == PoolInv /\ UNCHANGED poolVars => PoolInv'
<1> SUFFICES ASSUME PoolInv, UNCHANGED poolVars PROVE PoolInv'
  OBVIOUS
<1>1. UNCHANGED <<phase, values, tables, enums, pool, links, at, checked>>
  BY DEF poolVars
<1>2. PoolStates' /\ EntriesBuilt'
  BY <1>1 DEF PoolInv, PoolStates, EntriesBuilt
<1>3. TablesLinked'
  <2>1. CASE phase \in {"linked", "ready", "panic"}
    BY <1>1, <2>1, LinksStay DEF PoolInv
  <2>2. CASE phase \notin {"linked", "ready", "panic"}
    BY <1>1, <2>2 DEF TablesLinked
  <2> QED
    BY <2>1, <2>2
<1>4. DecodeStands'
  BY <1>1 DEF PoolInv, DecodeStands, EnumsLast
<1>5. EnumChecked'
  BY <1>1 DEF PoolInv, EnumChecked
<1> QED
  BY <1>2, <1>3, <1>4, <1>5 DEF PoolInv

LEMMA MessagesTyped ==
  \A m \in MainMessages \cup Messages \cup LoneMessages : m \in MessageTypes
BY MessagesAssumption DEF MessageTypes

(* As many links are given as a table has sub slots, and to any entry or    *)
(* the one after the last.                                                  *)
LEMMA LinksTyped ==
  ASSUME PoolInv, Len(links) < Len(pool), NEW n \in 0 .. SubsOf(Len(links) + 1),
         NEW given \in [1 .. n -> 1 .. Len(pool) + 1]
  PROVE  given \in Seq(Nat)
<1>1. PICK p, E, M, L : p = Len(links) + 1 /\ E = Entries /\ M = MessageTables /\ L = Seq(Nat)
  OBVIOUS
<1>2. pool \in Seq(E) /\ tables \in Seq(M) /\ links \in Seq(L)
  BY <1>1 DEF PoolInv, PoolStates, LinkLists
<1>3. p \in 1 .. Len(pool) /\ Len(pool) \in Nat /\ Len(tables) \in Nat
  BY <1>1, <1>2
<1>4. SubsOf(p) \in Nat
  <2>1. CASE pool[p].kind = "enum"
    BY <2>1 DEF SubsOf
  <2>2. CASE pool[p].kind # "enum"
    <3>1. pool[p] \in Entries
      BY <1>1, <1>2, <1>3
    <3>2. pool[p].at \in 1 .. Len(tables)
      BY <1>3, <2>2, <3>1 DEF PoolInv, EntriesBuilt, Entries
    <3>3. PICK T, K : T = tables[pool[p].at] /\ K = Seq(LinkFields)
      OBVIOUS
    <3>4. T \in MessageTables
      BY <1>1, <1>2, <3>2, <3>3
    <3>5. T.fields \in K
      BY <3>3, <3>4 DEF MessageTables
    <3>6. Len(T.fields) \in Nat
      BY <3>3, <3>5
    <3>7. PICK k, S : k = Len(T.fields) /\ S = {j \in 1 .. k : HasSub(T.fields[j])}
      OBVIOUS
    <3>8. S \subseteq 1 .. k /\ IsFiniteSet(1 .. k)
      <4>1. S \subseteq 1 .. k
        BY <3>7
      <4>2. 1 \in Int /\ k \in Int
        BY <3>6, <3>7
      <4> QED
        BY <4>1, <4>2, FS_Interval
    <3>9. Cardinality(S) \in Nat
      BY <3>8, FS_Subset, FS_CardinalityType
    <3>10. SubsOf(p) = Cardinality(S)
      BY <2>2, <3>3, <3>7 DEF SubsOf, SlotOf
    <3> QED
      BY <3>9, <3>10
  <2> QED
    BY <2>1, <2>2
<1>5. n \in Nat
  BY <1>1, <1>4
<1> QED
  BY <1>3, <1>5

LEMMA PoolSteps == PoolInv /\ [PoolNext]_poolVars => PoolInv'
<1> SUFFICES ASSUME PoolInv, [PoolNext]_poolVars PROVE PoolInv'
  OBVIOUS
<1>1. ASSUME NEW m \in IF pool = <<>> THEN MainMessages ELSE Messages, BuildMessage(m, "build")
      PROVE  PoolInv'
  <2>1. m \in MessageTypes
    BY <1>1, MessagesTyped
  <2> QED
    BY <1>1, <2>1, MessageBuilt
<1>2. ASSUME NEW m \in LoneMessages, BuildMessage(m, "given")
      PROVE  PoolInv'
  <2>1. m \in MessageTypes
    BY <1>2, MessagesTyped
  <2> QED
    BY <1>2, <2>1, MessageBuilt
<1>3. ASSUME NEW v \in IF Len(pool) = 1 /\ Len(tables[1].fields) = 1
                       THEN EnumValues ELSE SmallEnums,
             BuildEnumTable(EncodeEnum(v), ToSet(v))
      PROVE  PoolInv'
  <2>1. v \in EnumValues \cup SmallEnums
    BY <1>3
  <2>2. v \in Seq(0 .. Word - 1) /\ Ascending(v)
    BY <2>1, EnumsAssumption
  <2>3. PICK tokens, described : tokens = EncodeEnum(v) /\ described = ToSet(v)
    OBVIOUS
  <2>4. tokens \in Seq(EnumTokens) /\ described = ValuesOf(BuildEnum(tokens))
    BY <2>2, <2>3, EnumEncoded
  <2> QED
    BY <1>3, <2>3, <2>4, EnumAdded
<1>4. ASSUME NEW d \in RawEnums, BuildEnumTable(d, Described(d))
      PROVE  PoolInv'
  <2>1. d \in Seq(EnumTokens)
    BY EnumsAssumption
  <2>2. Described(d) = ValuesOf(BuildEnum(d))
    BY <2>1, DescribedBuilt
  <2> QED
    BY <1>4, <2>1, <2>2, EnumAdded
<1>5. ASSUME Len(links) < Len(pool), NEW n \in 0 .. SubsOf(Len(links) + 1),
             NEW given \in [1 .. n -> 1 .. Len(pool) + 1], GiveLinks(given)
      PROVE  PoolInv'
  BY <1>5, LinksTyped, LinksGiven
<1>6. CASE Link
  BY <1>6, LinksMade
<1>7. CASE RejectDeferred
  BY <1>7, DeferredRejected
<1>8. ASSUME NEW i \in 1 .. MaxPoolFields,
             Descend(i) \/ \E v \in Probes : Check(i, v)
      PROVE  PoolInv'
  <2>1. i \in Nat \ {0}
    BY DEF MaxPoolFields
  <2>2. ASSUME NEW v \in Probes PROVE v \in Nat
    BY EnumsAssumption, WordIsNat
  <2> QED
    BY <1>8, <2>1, <2>2, Descended, ProbeChecked
<1>9. CASE UNCHANGED poolVars
  BY <1>9, PoolStays
<1> QED
  BY <1>1, <1>2, <1>3, <1>4, <1>5, <1>6, <1>7, <1>8, <1>9 DEF PoolNext

(* The tables, entries, links and answers of a pool are always those of     *)
(* from_pool and of the walk that a decode takes.                           *)
THEOREM PoolInvariant == PoolSpec => []PoolInv
<1>1. PoolInit => PoolInv
  BY PoolStarts
<1>2. PoolInv /\ [PoolNext]_poolVars => PoolInv'
  BY PoolSteps
<1> QED
  BY <1>1, <1>2, PTL DEF PoolSpec

LEMMA PoolIsTyped == PoolInv => PoolTypeOK
<1> SUFFICES ASSUME PoolInv PROVE PoolTypeOK
  OBVIOUS
<1>1. PICK E, M : E = Entries /\ M = MessageTables
  OBVIOUS
<1>2. pool \in Seq(E) /\ tables \in Seq(M) /\ enums \in Seq(EnumTables)
  BY <1>1 DEF PoolInv, PoolStates
<1>3. ASSUME NEW p \in 1 .. Len(pool)
      PROVE  \/ pool[p].kind = "message" /\ pool[p].at \in 1 .. Len(tables)
             \/ pool[p].kind = "enum" /\ pool[p].at \in 1 .. Len(enums)
  <2>1. pool[p] \in Entries
    BY <1>1, <1>2
  <2>2. pool[p].kind \in {"message", "enum"} /\ pool[p].at \in Nat \ {0}
    BY <2>1 DEF Entries
  <2>3. IF pool[p].kind = "message" THEN pool[p].at <= Len(tables) ELSE pool[p].at <= Len(enums)
    BY DEF PoolInv, EntriesBuilt
  <2>4. Len(tables) \in Nat /\ Len(enums) \in Nat
    BY <1>2
  <2> QED
    BY <2>2, <2>3, <2>4
<1> QED
  BY <1>3 DEF PoolTypeOK, PoolInv, PoolStates, DecodeStands

LEMMA FieldsCounted ==
  ASSUME PoolInv, NEW t \in 1 .. Len(tables)
  PROVE  /\ tables[t] \in MessageTables /\ Len(tables) \in Nat
         /\ Len(tables[t].fields) \in Nat
<1>1. PICK M, K : M = MessageTables /\ K = Seq(LinkFields)
  OBVIOUS
<1>2. tables \in Seq(M)
  BY <1>1 DEF PoolInv, PoolStates
<1>3. tables[t] \in MessageTables /\ Len(tables) \in Nat
  BY <1>1, <1>2
<1>4. tables[t].fields \in K
  BY <1>1, <1>3 DEF MessageTables
<1> QED
  BY <1>1, <1>3, <1>4

LEMMA LinksAreFollowed == PoolInv => LinksFollowed
<1> SUFFICES ASSUME PoolInv PROVE LinksFollowed
  OBVIOUS
<1>1. ASSUME EnumsLast, phase \in {"ready", "panic"}, NEW p \in 1 .. Len(pool),
             pool[p].kind = "message", NEW i \in 1 .. Len(TableAt(p).fields),
             HasSub(TableAt(p).fields[i]),
             NEW target, target = Target(p, SlotOf(TableAt(p).fields, i))
      PROVE  ~Panics(p, i) /\ (target # Unlinked => target \in {Sub(p, i), SubEnum(p, i)})
  <2>1. p \in 1 .. Len(tables) /\ TableAt(p) = tables[p]
    BY <1>1, TablesInPool DEF TableAt
  <2>2. Len(tables) \in Nat /\ Len(tables[p].fields) \in Nat
    BY <2>1, FieldsCounted
  <2>3. ~Panics(p, i)
    BY <2>1, <2>2 DEF Panics
  <2>4. target = LinkOf(p, i)
    BY <1>1, <2>1 DEF LinkOf
  <2>5. ASSUME target # Unlinked
        PROVE  target \in {Sub(p, i), SubEnum(p, i)}
    <3>1. Linkable(tables[p], tables[p].fields[i].type, target)
      BY <1>1, <2>1, <2>4, <2>5 DEF PoolInv, TablesLinked, Linked
    <3>2. target \in 1 .. Len(pool)
      BY <3>1 DEF Linkable
    <3>3. pool[target].kind \in {"message", "enum"}
      <4>1. PICK E : E = Entries
        OBVIOUS
      <4>2. pool \in Seq(E)
        BY <4>1 DEF PoolInv, PoolStates
      <4>3. pool[target] \in Entries
        BY <3>2, <4>1, <4>2
      <4> QED
        BY <4>3 DEF Entries
    <3> QED
      BY <2>4, <3>2, <3>3 DEF Sub, SubEnum
  <2> QED
    BY <2>3, <2>5
<1>2. EnumsLast => LinksByDescriptor
  BY <1>1 DEF LinksByDescriptor
<1>3. EnumsLast => phase # "panic"
  BY DEF PoolInv, DecodeStands
<1> QED
  BY <1>2, <1>3, PoolIsTyped DEF LinksFollowed

LEMMA MapFieldsLead == PoolInv => MapFieldsHaveEntries
<1> SUFFICES ASSUME PoolInv, phase = "ready", EnumsLast,
                    NEW p \in 1 .. Len(pool), pool[p].kind = "message",
                    NEW i \in 1 .. Len(TableAt(p).fields),
                    NEW f, f = TableAt(p).fields[i]
             PROVE  /\ f.map <=> /\ f.type = "message" /\ Sub(p, i) # Unlinked
                                 /\ TableAt(Sub(p, i)).map
                    /\ f.map => /\ ~TableAt(p).map
                                /\ Len(TableAt(Sub(p, i)).fields) = 2
  BY DEF MapFieldsHaveEntries
<1>1. p \in 1 .. Len(tables) /\ TableAt(p) = tables[p]
  BY TablesInPool DEF TableAt
<1>2. PICK target : target = LinkOf(p, i)
  OBVIOUS
<1>3. /\ HasSub(f) /\ target # Unlinked => Linkable(tables[p], f.type, target)
      /\ f.map <=> f.type = "message" /\ LinksToMap(target)
  BY <1>1, <1>2 DEF PoolInv, TablesLinked, Linked
<1>4. Sub(p, i) = IF target \in 1 .. Len(pool) /\ pool[target].kind = "message" THEN target
                  ELSE Unlinked
  BY <1>2 DEF Sub
<1>5. ASSUME f.map
      PROVE  /\ f.type = "message" /\ Sub(p, i) # Unlinked /\ TableAt(Sub(p, i)).map
             /\ ~TableAt(p).map /\ Len(TableAt(Sub(p, i)).fields) = 2
  <2>1. /\ f.type = "message" /\ target # Unlinked /\ pool[target].kind = "message"
        /\ tables[pool[target].at].map
    BY <1>3, <1>5 DEF LinksToMap
  <2>2. Linkable(tables[p], f.type, target)
    BY <1>3, <2>1 DEF HasSub
  <2>3. target \in 1 .. Len(pool) /\ ~tables[p].map
    BY <2>1, <2>2 DEF Linkable
  <2>4. Sub(p, i) = target
    BY <1>4, <2>1, <2>3
  <2>5. target \in 1 .. Len(tables) /\ pool[target].at = target
    BY <2>1, <2>3, TablesInPool
  <2>6. tables[target] \in MessageTables
    BY <2>5, FieldsCounted
  <2>7. Len(tables[target].fields) = 2
    <3>1. tables[target].written \in MessageTypes /\ tables[target].written.map
          /\ Len(tables[target].fields) = Len(tables[target].written.fields)
      BY <2>1, <2>5, <2>6 DEF MessageTables
    <3> QED
      BY <3>1 DEF MessageTypes
  <2> QED
    BY <1>1, <2>1, <2>3, <2>4, <2>5, <2>7 DEF TableAt
<1>6. ASSUME f.type = "message", Sub(p, i) # Unlinked, TableAt(Sub(p, i)).map
      PROVE  f.map
  BY <1>3, <1>4, <1>6 DEF TableAt, LinksToMap
<1> QED
  BY <1>5, <1>6

LEMMA DescriptorsAreRead == PoolInv => DescriptorsRead
<1> SUFFICES ASSUME PoolInv PROVE DescriptorsRead
  OBVIOUS
<1>1. ASSUME NEW t \in 1 .. Len(tables)
      PROVE  /\ tables[t].read.fields = tables[t].written.fields
             /\ tables[t].read.mods = tables[t].written.mods
             /\ tables[t].read.oneofs = tables[t].written.oneofs
  BY FieldsCounted DEF MessageTables
<1>2. phase # "unreadable"
  BY DEF PoolInv, PoolStates
<1> QED
  BY <1>1, <1>2 DEF DescriptorsRead

LEMMA EnumsAnswer == PoolInv => EnumAnswers
<1> SUFFICES ASSUME PoolInv, checked.enum # 0 PROVE EnumAnswers
  BY DEF EnumAnswers
<1>1. PICK c, e, E : c = checked.enum /\ e = enums[pool[c].at] /\ E = Entries
  OBVIOUS
<1>2. /\ c \in 1 .. Len(pool) /\ pool[c].kind = "enum" /\ checked.probe \in Nat
      /\ checked.answer <=> CheckValue(e, checked.probe)
  BY <1>1 DEF PoolInv, EnumChecked
<1>3. pool \in Seq(E) /\ enums \in Seq(EnumTables)
  BY <1>1 DEF PoolInv, PoolStates
<1>4. pool[c].at \in Nat \ {0}
  <2>1. pool[c] \in Entries
    BY <1>1, <1>2, <1>3
  <2> QED
    BY <2>1 DEF Entries
<1>5. pool[c].at <= Len(enums) /\ values[c] = ValuesOf(e)
  BY <1>1, <1>2 DEF PoolInv, EntriesBuilt
<1>6. e \in EnumTables
  <2>1. PICK M : M = EnumTables
    OBVIOUS
  <2>2. enums \in Seq(M)
    BY <1>3, <2>1
  <2> QED
    BY <1>1, <1>4, <1>5, <2>1, <2>2
<1>7. CheckValue(e, checked.probe) <=> checked.probe \in ValuesOf(e) \ Shadowed(e)
  BY <1>2, <1>6, Checked
<1> QED
  BY <1>1, <1>2, <1>5, <1>7 DEF EnumAnswers

(* With the enums behind the messages a decode follows the links that were  *)
(* given and does not panic: set_sub looks at the pool by descriptor and    *)
(* the decoder by table, and the two agree.                                 *)
THEOREM PoolLinksFollowed == PoolSpec => []LinksFollowed
BY PoolInvariant, LinksAreFollowed, PTL

(* A field the decoder takes for a map leads to an entry of two fields that *)
(* is no entry of another entry, and only such a field does.                *)
THEOREM PoolMapFields == PoolSpec => []MapFieldsHaveEntries
BY PoolInvariant, MapFieldsLead, PTL

(* build_mini_table reads every descriptor MessageEncoder writes, whatever  *)
(* the numbers, the modifiers and the members of the oneof.                 *)
THEOREM PoolDescriptorsRead == PoolSpec => []DescriptorsRead
BY PoolInvariant, DescriptorsAreRead, PTL

(* check_value answers for the values EnumEncoder described and no others,  *)
(* but for the shadowed ones.                                               *)
THEOREM PoolEnumAnswers == PoolSpec => []EnumAnswers
BY PoolInvariant, EnumsAnswer, PTL
=============================================================================
