-------------------------------- MODULE Content --------------------------------
(***************************************************************************)
(* What an input says, without a decoder: the fields of a message are the  *)
(* units at its level, a submessage is the concatenation of its            *)
(* occurrences, a oneof what was set last.  The decoder is checked against *)
(* this reading of its input.                                              *)
(***************************************************************************)
EXTENDS Decoder, Encoder

(* encode_map_entry on an entry that is kept as it is: options 0            *)
EntryUnits(ent, t) ==
  Encode(ent, t, [deterministic |-> FALSE, skipUnknown |-> FALSE])

-----------------------------------------------------------------------------
(* The units of an input as a tree *)

RECURSIVE After(_, _), GroupEnd(_, _), FieldsIn(_, _, _)

(* The EndGroup at the level of position q. *)
GroupEnd(in, q) == IF in[q].wt = "end" THEN q ELSE GroupEnd(in, After(in, q))

After(in, q) == IF in[q].wt = "start" THEN GroupEnd(in, q + 1) + 1
                                      ELSE q + 1 + in[q].size

(* The positions of the fields from q to before r. *)
FieldsIn(in, q, r) == IF q >= r THEN << >> ELSE <<q>> \o FieldsIn(in, After(in, q), r)

BodyOf(in, q) ==
  FieldsIn(in, q + 1, IF in[q].wt = "start" THEN GroupEnd(in, q + 1) ELSE After(in, q))

RawOf(in, q) == SubSeq(in, q, After(in, q) - 1)

-----------------------------------------------------------------------------
(* The content of a message: for each field << >> or <<its value>>, and the *)
(* unknown fields in order.                                                 *)

RECURSIVE ContentOf(_, _, _)

(* Of a message without presence that never appeared: empty_dump.           *)
EmptyDump == [fields |-> << >>, unknown |-> << >>]

Sets(in, t, f, q) == in[q].num = f.num /\ Op(t, in[q]) # "unknown"

(* Another member of the field's oneof is set at q. *)
Rivals(in, t, f, q) ==
  \E i \in DOMAIN Tables[t] :
    LET g == Tables[t][i]
    IN f.presence < 0 /\ g.presence = f.presence /\ g.num # f.num /\ Sets(in, t, g, q)

(* The occurrences of a field that count. *)
Occurrences(in, t, f, fields) ==
  LET cut == SelectLastInSeq(fields, LAMBDA q : Rivals(in, t, f, q))
  IN SelectSeq(SubSeq(fields, cut + 1, Len(fields)), LAMBDA q : Sets(in, t, f, q))

Bodies(in, occ) == FlattenSeq([i \in DOMAIN occ |-> BodyOf(in, occ[i])])

(* The values a field with a scalar or string type has at q. *)
ValuesAt(in, f, q) ==
  CASE f.type \in StringTypes -> <<in[q].bytes>>
    [] in[q].wt = "delimited" ->
         LET good == SelectSeq(in[q].bytes, LAMBDA v : IsClosedEnum(f) => CheckValue(f, v))
         IN [i \in DOMAIN good |-> Munge(f, good[i])]
    [] OTHER -> <<Munge(f, in[q].val)>>

Entry(in, f, q) == ContentOf(in, f.sub, BodyOf(in, q))

(* The key and value of an entry, each with its default if it is absent. *)
KeyOf(f, c) ==
  IF c.fields[1] = << >> THEN Zero(Tables[f.sub][1]) ELSE c.fields[1][1]
ValueOf(f, c) ==
  LET val == Tables[f.sub][2]
      v   == c.fields[2]
  IN CASE val.type = "message" /\ v \in {<< >>, <<EmptyDump>>} ->
            ContentOf(<< >>, val.sub, << >>)
       [] v = << >> -> Zero(val)
       [] OTHER -> v[1]

MapOf(in, f, occ) ==
  LET clean == SelectSeq([i \in DOMAIN occ |-> Entry(in, f, occ[i])],
                         LAMBDA c : c.unknown = << >>)
      lastOf(k) == SelectLastInSeq(clean, LAMBDA c : KeyOf(f, c) = k)
  IN [k \in {KeyOf(f, c) : c \in Range(clean)} |-> ValueOf(f, clean[lastOf(k)])]

FieldContent(in, t, f, fields) ==
  LET occ    == Occurrences(in, t, f, fields)
      values == FlattenSeq([i \in DOMAIN occ |-> ValuesAt(in, f, occ[i])])
  IN CASE f.mode = "map" -> <<MapOf(in, f, occ)>>
       [] f.mode = "array" /\ f.type \in MessageTypes ->
            <<[i \in DOMAIN occ |-> ContentOf(in, f.sub, BodyOf(in, occ[i]))]>>
       [] f.mode = "array" -> <<values>>
       [] occ = << >> ->
            IF f.presence # 0 THEN << >>
            ELSE <<IF f.type \in MessageTypes THEN EmptyDump ELSE Zero(f)>>
       [] f.type \in MessageTypes -> <<ContentOf(in, f.sub, Bodies(in, occ))>>
       [] OTHER -> <<Last(values)>>

(* An unknown field as it stands, or the entry that was not inserted. *)
RawItem(units) == [raw |-> units, entry |-> << >>]
EntryItem(c) == [raw |-> << >>, entry |-> <<c>>]

UnknownAt(in, t, q) ==
  CASE Op(t, in[q]) = "unknown" -> <<RawItem(RawOf(in, q))>>
    [] Op(t, in[q]) = "packed" /\ IsClosedEnum(FieldOf(t, in[q].num)) ->
         LET bad == SelectSeq(in[q].bytes, LAMBDA v : ~CheckValue(FieldOf(t, in[q].num), v))
         IN [i \in DOMAIN bad |-> RawItem(<<Varint(in[q].num, bad[i])>>)]
    [] Op(t, in[q]) = "map" /\ Entry(in, FieldOf(t, in[q].num), q).unknown # << >> ->
         <<EntryItem(Entry(in, FieldOf(t, in[q].num), q))>>
    [] OTHER -> << >>

ContentOf(in, t, fields) ==
  [fields |-> [i \in DOMAIN Tables[t] |-> FieldContent(in, t, Tables[t][i], fields)],
   unknown |-> FlattenSeq([i \in DOMAIN fields |-> UnknownAt(in, t, fields[i])])]

Says(in, t) == ContentOf(in, t, FieldsIn(in, 1, Len(in) + 1))

-----------------------------------------------------------------------------
(* The same view of a decoded message: what dump shows of it, with each map *)
(* by its keys, or what of that an encode writes.  The two differ in the    *)
(* maps that have a hasbit, which the decoder does not set.                 *)

RECURSIVE ViewAs(_, _, _)

ViewField(m, f, written) ==
  CASE f.mode = "map" ->
         LET es  == IF written /\ ~ShouldEncode(m, f) THEN << >>
                    ELSE Lookup(m.maps, f.num, << >>)
             val == Tables[f.sub][2]
         IN <<[k \in {e.key : e \in Range(es)} |->
                 LET e == CHOOSE e \in Range(es) : e.key = k
                 IN IF val.type # "message" THEN e.value
                    ELSE IF val.sub = 0 THEN EmptyDump
                    ELSE ViewAs(e.value, val.sub, written)]>>
    [] f.mode = "array" /\ f.type \in MessageTypes ->
         LET elems == Lookup(m.subArrays, f.num, << >>)
         IN <<[i \in DOMAIN elems |-> ViewAs(elems[i], f.sub, written)]>>
    [] f.mode = "array" -> <<Lookup(m.arrays, f.num, << >>)>>
    [] f.presence # 0 /\ ~FieldPresent(m, f) -> << >>
    [] f.type \in MessageTypes ->
         <<IF f.num \in DOMAIN m.submsgs THEN ViewAs(m.submsgs[f.num], f.sub, written)
                                          ELSE EmptyDump>>
    [] OTHER -> <<Stored(m, f)>>

(* The unknown fields of a message are read again, so that an entry that    *)
(* was encoded anew is compared by what it says.                            *)
ViewAs(m, t, written) ==
  [fields |-> [i \in DOMAIN Tables[t] |-> ViewField(m, Tables[t][i], written)],
   unknown |-> Says(m.unknown, t).unknown]

(* dump.  (It also names the member of each oneof that is set; here that is *)
(* told by which of them is present.)                                       *)
View(m, t) == ViewAs(m, t, FALSE)

-----------------------------------------------------------------------------
(* Correctness *)

(* A decode that returns Ok gives the message its input says: the last      *)
(* scalar, repeated values in order, submessages merged across their        *)
(* occurrences, nothing of a oneof member that was switched away, maps by   *)
(* the last clean entry of a key, every unknown field in wire order.        *)
DecodesContent ==
  /\ TypeOK
  /\ phase = "ok" => View(Msg, Main) = Says(input, Main)

(* An input accepted under a depth has been read to its last unit and is    *)
(* one whose groups end by their own numbers, whose payloads hold whole     *)
(* fields, whose strings are UTF-8 and which nests no deeper, counting map  *)
(* entries and skipped groups; nor does a decode that fails go deeper.      *)
RECURSIVE Sound(_, _, _, _)
SoundAt(in, t, q, depth) ==
  LET u  == in[q]
      op == IF t = 0 THEN "unknown" ELSE Op(t, u)
      f  == FieldOf(t, u.num)
  IN /\ u.wt # "end"
     /\ u.wt = "start" => /\ depth > 0 /\ in[GroupEnd(in, q + 1)].num = u.num
                          /\ Sound(in, IF op = "group" THEN f.sub ELSE 0, BodyOf(in, q), depth - 1)
     /\ op \in {"submessage", "map"} =>
          /\ depth > 0 /\ Sound(in, f.sub, BodyOf(in, q), depth - 1)
          /\ BodyOf(in, q) # << >> => After(in, Last(BodyOf(in, q))) = After(in, q)
     /\ op = "string" /\ f.type = "string" => BadByte \notin Range(u.bytes)
Sound(in, t, fields, depth) == \A i \in DOMAIN fields : SoundAt(in, t, fields[i], depth)

OkIsSound ==
  /\ InputRead /\ BudgetKept
  /\ phase = "ok" => Sound(input, Main, FieldsIn(input, 1, len + 1), EffectiveDepth)
=============================================================================
