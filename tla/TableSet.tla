------------------------------ MODULE TableSet ------------------------------
(* The pool of tables a decode runs with (TableSet in message_known.rs):   *)
(* from_pool builds a table of each descriptor, links the sub slots, and   *)
(* reject_deferred checks the result; from then on a decode follows the    *)
(* links from table to table, by pool index.                               *)
(* A descriptor is written by MessageEncoder or EnumEncoder, and read; of   *)
(* a message table, only what linking asks for is kept: whether it is a map *)
(* entry, and the kinds of its fields.                                      *)
EXTENDS EnumTable, Descriptor

CONSTANTS
  MainMessages, \* the main message: [map, mods, fields, oneofs], see Descriptor
  Messages,     \* the other messages
  LoneMessages, \* main messages without others beside them
  EnumValues,   \* closed enums: ascending sequences of values
  SmallEnums,   \* those of them in pools of more than two descriptors
  RawEnums,     \* enum descriptors written by hand, as sequences of tokens
  MaxPool,      \* bound on the number of descriptors with small enums
  Probes        \* the values asked of a closed enum

Encoded(type) == IF type >= RepeatedBase THEN type - RepeatedBase ELSE type
KindOfType(type) == CASE Encoded(type) = 16 -> "group"
                      [] Encoded(type) = 17 -> "message"
                      [] Encoded(type) = 18 -> "enum"
                      [] OTHER -> "scalar"

Ascending(s) == \A i, j \in 1 .. Len(s) : i < j => s[i] < s[j]

(* Numbers are below Word, as a protobuf's are; MessageEncoder's caller     *)
(* gives them in order.  map_descriptor writes a map entry's two types, and *)
(* nothing is written between two oneofs.                                   *)
FieldTypes == [number : 1 .. Word - 1, type : 0 .. MaxField, mods : 0 .. Word - 1]
ASSUME MessagesAssumption ==
  \A m \in MainMessages \cup Messages \cup LoneMessages :
    /\ m \in [map : BOOLEAN, mods : 0 .. Word - 1, fields : Seq(FieldTypes),
              oneofs : Seq(Seq(1 .. Word - 1))]
    /\ Ascending([i \in 1 .. Len(m.fields) |-> m.fields[i].number])
    /\ Len(m.oneofs) <= 1
    /\ m.map => /\ Len(m.fields) = 2 /\ KindOfType(m.fields[1].type) = "scalar"
                /\ \A i \in {1, 2} : m.fields[i].number = i /\ m.fields[i].mods = 0
                /\ m.mods = 0 /\ m.oneofs = <<>>

ASSUME EnumsAssumption ==
  /\ \A v \in EnumValues \cup SmallEnums : v \in Seq(0 .. Word - 1) /\ Ascending(v)
  /\ RawEnums \subseteq Seq(EnumTokens)
  /\ Probes \subseteq 0 .. Word - 1

VARIABLES
  phase,    \* "build", "given", "linked", "ready", "unreadable", "error" or
            \* "panic"
  values,   \* per pool entry, the values of an enum EnumEncoder described
  tables,   \* the message tables: [map, fields : Seq([type, map])], with what
            \* was written and read of the descriptor
  enums,    \* the enum tables
  pool,     \* per descriptor, [kind, at]: where in tables or enums it is
  links,    \* per descriptor, the targets given for its sub slots
  at,       \* the pool index a decode stands at, 0 before it
  checked   \* the probe a decode last checked, and the answer
poolVars == <<phase, values, tables, enums, pool, links, at, checked>>

NoCheck == [probe |-> 0, enum |-> 0, answer |-> FALSE]

PoolInit ==
  /\ phase = "build" /\ values = <<>> /\ tables = <<>> /\ enums = <<>>
  /\ pool = <<>> /\ links = <<>> /\ at = 0 /\ checked = NoCheck

Room == Len(pool) < IF \A p \in 1 .. Len(pool) : Cardinality(values[p]) <= 1
                    THEN MaxPool ELSE 2

TextOf(m) == IF m.map THEN EncodeMap(m.fields[1].type, m.fields[2].type)
             ELSE EncodeMessage(m)

(* `after` is "given" when no more descriptors follow.                      *)
BuildMessage(m, after) ==
  /\ phase = "build" /\ Room
  /\ IF Readable(TextOf(m))
     THEN LET read == ReadMessage(TextOf(m))
          IN /\ pool' = Append(pool, [kind |-> "message", at |-> Len(tables) + 1])
             /\ tables' = Append(tables,
                  [map |-> m.map, written |-> m, read |-> read,
                   fields |-> [i \in 1 .. Len(read.fields) |->
                     [type |-> KindOfType(read.fields[i].type), map |-> FALSE]]])
             /\ values' = Append(values, {})
             /\ phase' = after
     ELSE phase' = "unreadable" /\ UNCHANGED <<pool, tables, values>>
  /\ UNCHANGED <<enums, links, at, checked>>

BuildEnumTable(tokens, described) ==
  /\ phase = "build" /\ Room /\ pool # <<>>   \* the main message comes first
  /\ IF Buildable(tokens)
     THEN /\ pool' = Append(pool, [kind |-> "enum", at |-> Len(enums) + 1])
          /\ enums' = Append(enums, BuildEnum(tokens))
          /\ values' = Append(values, described)
          /\ UNCHANGED phase
     ELSE phase' = "error" /\ UNCHANGED <<pool, enums, values>>
  /\ UNCHANGED <<tables, links, at, checked>>

(***************************************************************************)
(* Linking                                                                 *)
(***************************************************************************)
HasSub(f) == f.type \in {"message", "group", "enum"}
SlotOf(fields, i) == Cardinality({j \in 1 .. i : HasSub(fields[j])})

(* `links.get(t)`, `l.get(slot)`: no entry leaves the slot unlinked.       *)
Unlinked == 0
Target(t, slot) ==
  IF t \in 1 .. Len(links) /\ slot \in 1 .. Len(links[t]) THEN links[t][slot]
  ELSE Unlinked

(* upb_MiniTable_SetSubMessage and SetSubEnum.  Variant: a map entry may    *)
(* hold a map.                                                             *)
LinkableMapInMap(table, type, target) ==
  /\ target \in 1 .. Len(pool)
  /\ LET entry == pool[target]
     IN IF entry.kind = "enum"
        THEN /\ type = "enum"
             /\ table.map => CheckValue(enums[entry.at], 0)
        ELSE type = "message" \/ (type = "group" /\ ~tables[entry.at].map)
Linkable(table, type, target) ==
  /\ target \in 1 .. Len(pool)
  /\ LET entry == pool[target]
     IN IF entry.kind = "enum"
        THEN /\ type = "enum"
             /\ table.map => CheckValue(enums[entry.at], 0)
        ELSE \/ type = "group" /\ ~tables[entry.at].map
             \/ type = "message" /\ ~(tables[entry.at].map /\ table.map)

\* Variant: a field's slot is taken for the field's place.
LinkOfField(t, i) == Target(t, i)
LinkOf(t, i) == Target(t, SlotOf(tables[t].fields, i))
LinksToMap(target) == /\ target # Unlinked /\ pool[target].kind = "message"
                      /\ tables[pool[target].at].map

(* The caller's links, descriptor by descriptor: targets for its first sub *)
(* slots, one of them possibly outside of the pool.                        *)
SubsOf(p) == IF pool[p].kind = "enum" THEN 0
             ELSE LET fields == tables[pool[p].at].fields
                  IN SlotOf(fields, Len(fields))
GiveLinks(given) ==
  /\ phase \in {"build", "given"} /\ Len(links) < Len(pool)
  /\ links' = Append(links, given) /\ phase' = "given"
  /\ UNCHANGED <<values, tables, enums, pool, at, checked>>

(* The loop over `tables` asks for each table's links by its index there.  *)
Link ==
  /\ phase = "given" /\ Len(links) = Len(pool)
  /\ IF \A t \in 1 .. Len(tables) : \A i \in 1 .. Len(tables[t].fields) :
          LET f == tables[t].fields[i]
          IN HasSub(f) /\ LinkOf(t, i) # Unlinked
               => Linkable(tables[t], f.type, LinkOf(t, i))
     THEN /\ tables' = [t \in 1 .. Len(tables) |->
               [tables[t] EXCEPT !.fields =
                  [i \in 1 .. Len(tables[t].fields) |->
                     LET f == tables[t].fields[i]
                     IN [f EXCEPT !.map = f.type = "message"
                                          /\ LinksToMap(LinkOf(t, i))]]]]
          /\ phase' = "linked"
     ELSE phase' = "error" /\ UNCHANGED tables
  /\ UNCHANGED <<values, enums, pool, links, at, checked>>

(***************************************************************************)
(* Following the links.  `idx` is a pool index wherever a decode asks.     *)
(***************************************************************************)
Sub(idx, i) ==
  LET target == LinkOf(idx, i)
  IN IF target \in 1 .. Len(pool) /\ pool[target].kind = "message" THEN target
     ELSE Unlinked
SubEnum(idx, i) ==
  LET target == LinkOf(idx, i)
  IN IF target \in 1 .. Len(pool) /\ pool[target].kind = "enum" THEN target
     ELSE Unlinked

(* An index slot_of cannot take panics.                                    *)
Panics(idx, i) == idx > Len(tables) \/ i > Len(tables[idx].fields)

(* A closed enum field that is not linked is rejected; this loop, too,     *)
(* goes over the tables by their index.                                    *)
RejectDeferred ==
  /\ phase = "linked"
  /\ IF \E t \in 1 .. Len(tables) : \E i \in 1 .. Len(tables[t].fields) :
          tables[t].fields[i].type = "enum" /\ SubEnum(t, i) = Unlinked
     THEN phase' = "error" /\ UNCHANGED at
     ELSE phase' = "ready" /\ at' = 1
  /\ UNCHANGED <<values, tables, enums, pool, links, checked>>

TableAt(idx) == tables[pool[idx].at]

(* A decode descends into a field's submessage, group or map entry.        *)
Descend(i) ==
  /\ phase = "ready" /\ i <= Len(TableAt(at).fields)
  /\ TableAt(at).fields[i].type \in {"message", "group"}
  /\ IF Panics(at, i)
     THEN phase' = "panic" /\ UNCHANGED at
     ELSE /\ Sub(at, i) # Unlinked
          /\ at' = Sub(at, i) /\ UNCHANGED phase
  /\ UNCHANGED <<values, tables, enums, pool, links, checked>>

(* It checks a closed enum's value.                                        *)
Check(i, v) ==
  /\ phase = "ready" /\ i <= Len(TableAt(at).fields)
  /\ TableAt(at).fields[i].type = "enum"
  /\ IF Panics(at, i)
     THEN phase' = "panic" /\ UNCHANGED checked
     ELSE LET target == SubEnum(at, i)
          IN /\ checked' = [probe |-> v, enum |-> target,
                 answer |-> /\ target # Unlinked
                            /\ CheckValue(enums[pool[target].at], v)]
             /\ UNCHANGED phase
  /\ UNCHANGED <<values, tables, enums, pool, links, at>>

MaxPoolFields == 3

PoolNext ==
  \/ \E m \in IF pool = <<>> THEN MainMessages ELSE Messages :
       BuildMessage(m, "build")
  \/ pool = <<>> /\ \E m \in LoneMessages : BuildMessage(m, "given")
  \/ \E v \in IF Len(pool) = 1 /\ Len(tables[1].fields) = 1
             THEN EnumValues ELSE SmallEnums :
       BuildEnumTable(EncodeEnum(v), ToSet(v))
  \/ \E d \in RawEnums : BuildEnumTable(d, Described(d))
  \/ /\ Len(links) < Len(pool)
     /\ \E n \in 0 .. SubsOf(Len(links) + 1) :
          \E given \in [1 .. n -> 1 .. Len(pool) + 1] : GiveLinks(given)
  \/ Link \/ RejectDeferred
  \/ \E i \in 1 .. MaxPoolFields : Descend(i) \/ \E v \in Probes : Check(i, v)

PoolSpec == PoolInit /\ [][PoolNext]_poolVars
-----------------------------------------------------------------------------
(* Every variable holds a value of the type the code declares for it.      *)
PoolTypeOK ==
  /\ phase \in {"build", "given", "linked", "ready", "unreadable", "error", "panic"}
  /\ Len(values) = Len(pool)
  /\ \A p \in 1 .. Len(pool) :
       \/ pool[p].kind = "message" /\ pool[p].at \in 1 .. Len(tables)
       \/ pool[p].kind = "enum" /\ pool[p].at \in 1 .. Len(enums)
  /\ Len(tables) + Len(enums) = Len(pool)
  /\ at \in 0 .. Len(pool)
  /\ phase = "ready" => pool[at].kind = "message"

EnumsLast == \A p, q \in 1 .. Len(pool) :
               pool[p].kind = "enum" /\ pool[q].kind = "message" => q < p

(* links[p] are the targets of the sub slots of descriptor p, in field     *)
(* order: that is where a decode goes from the table of p.                 *)
LinksByDescriptor ==
  phase \in {"ready", "panic"} =>
    \A p \in 1 .. Len(pool) :
      pool[p].kind = "message" =>
        \A i \in 1 .. Len(TableAt(p).fields) :
          HasSub(TableAt(p).fields[i]) =>
            LET target == Target(p, SlotOf(TableAt(p).fields, i))
            IN /\ ~Panics(p, i)
               /\ target # Unlinked => target \in {Sub(p, i), SubEnum(p, i)}

(* With the enums behind the messages, tables and links go by one index:   *)
(* a decode follows the links that were given and does not panic.          *)
LinksFollowed ==
  /\ PoolTypeOK
  /\ EnumsLast => LinksByDescriptor /\ phase # "panic"

(* A field a decode takes for a map leads to a map entry, whose own fields *)
(* are no maps, and a field that leads to a map entry is taken for a map:  *)
(* the decoder indexes the two fields of the entry without looking.        *)
MapFieldsHaveEntries ==
  phase = "ready" /\ EnumsLast =>
    \A p \in 1 .. Len(pool) :
      pool[p].kind = "message" =>
        \A i \in 1 .. Len(TableAt(p).fields) :
          LET f == TableAt(p).fields[i]
          IN /\ f.map <=> /\ f.type = "message" /\ Sub(p, i) # Unlinked
                         /\ TableAt(Sub(p, i)).map
             /\ f.map => /\ ~TableAt(p).map
                         /\ Len(TableAt(Sub(p, i)).fields) = 2

(* Tail values below the mask's limit that the mask does not hold: a mask  *)
(* that was extended to a multiple of 32 covers values that come after it, *)
(* check_value asks the mask for them and never the tail.                  *)
Shadowed(e) == {v \in ToSet(e.tail) : v < e.maskLimit /\ v \notin e.mask}

(* build_mini_table reads off a descriptor the very message MessageEncoder  *)
(* wrote: numbers over any gaps, types, modifiers and the members of an     *)
(* oneof, although the digits of a varint are told from what follows only   *)
(* by their range, and although each side has its own formula for their     *)
(* width.  The messages have one oneof at most: MessageEncoder writes       *)
(* nothing between two.                                                     *)
DescriptorsRead ==
  /\ phase # "unreadable"
  /\ \A t \in 1 .. Len(tables) :
       LET written == tables[t].written
           read == tables[t].read
       IN /\ read.fields = written.fields /\ read.mods = written.mods
          /\ read.oneofs = written.oneofs

(* A closed enum accepts the values its descriptor was written for and no  *)
(* others: through the encoder's masks and skips, the base92 varints, the  *)
(* two ways a table keeps a value and the two ways it looks for one.  The  *)
(* shadowed values, which upb loses the same way, are exempt.              *)
EnumAnswers ==
  checked.enum # 0 =>
    LET e == enums[pool[checked.enum].at]
    IN checked.answer <=> checked.probe \in values[checked.enum] \ Shadowed(e)

(* The debug_assert in BuildValue: the mask words are complete and nothing *)
(* else is in the data when a value goes to the tail.                      *)
TailAsserts == \A k \in 1 .. Len(enums) : enums[k].asserted
=============================================================================
