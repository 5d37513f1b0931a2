----------------------------- MODULE Descriptor -----------------------------
(* The text of a message descriptor: what MessageEncoder (mdgen.rs) writes  *)
(* for a message, and how build_mini_table (decode.rs) takes it apart into  *)
(* the tokens of MiniTable.  A character is its base92 value; the version   *)
(* is kept apart.                                                           *)
(* A message is [mods, fields, oneofs]: fields are [number, type, mods] in  *)
(* ascending order, a type is a number, RepeatedBase more when repeated, a  *)
(* modifier is a number, and an oneof is a sequence of field numbers.       *)
EXTENDS Base92

RepeatedBase == 20
MaxField == 39       \* `I`
End == 59            \* `^`
FieldSeparator == 89 \* `|`
OneofSeparator == 91 \* `~`

InRange(ch, range) == ch \in range.min .. range.max

(***************************************************************************)
(* MessageEncoder                                                          *)
(***************************************************************************)
Put(out, val, range) ==
  out \o [k \in 1 .. Len(EncodeVarint(val, range)) |->
            range.min + EncodeVarint(val, range)[k]]
PutUnlessZero(out, val, range) == IF val = 0 THEN out ELSE Put(out, val, range)

(* Variant: a skip counts the numbers that are left out.                    *)
PutFieldGap(out, last, f) ==
  PutUnlessZero(Append(PutUnlessZero(out, f.number - last - 1, SkipRange), f.type),
                f.mods, ModifierRange)
PutField(out, last, f) ==
  LET skipped == IF f.number = last + 1 THEN out
                 ELSE Put(out, f.number - last, SkipRange)
  IN PutUnlessZero(Append(skipped, f.type), f.mods, ModifierRange)

(* Nothing is written between two oneofs. *)
PutMember(out, number, first) ==
  Put(IF first THEN out ELSE Append(out, FieldSeparator), number, OneofRange)
PutOneof(out, members) ==
  LET put[i \in 0 .. Len(members)] ==
        IF i = 0 THEN out ELSE PutMember(put[i - 1], members[i], i = 1)
  IN put[Len(members)]
PutOneofs(out, oneofs) ==
  LET put[i \in 0 .. Len(oneofs)] ==
        IF i = 0 THEN Append(out, End) ELSE PutOneof(put[i - 1], oneofs[i])
  IN IF oneofs = <<>> THEN out ELSE put[Len(oneofs)]

PutFields(out, fields) ==
  LET put[i \in 0 .. Len(fields)] ==
        IF i = 0 THEN out
        ELSE PutField(put[i - 1], IF i = 1 THEN 0 ELSE fields[i - 1].number, fields[i])
  IN put[Len(fields)]

EncodeMessage(m) ==
  PutOneofs(PutFields(PutUnlessZero(<<>>, m.mods, ModifierRange), m.fields), m.oneofs)

(* map_descriptor *)
EncodeMap(key, value) == <<key, value>>

(***************************************************************************)
(* parse_message and decode_oneofs                                         *)
(***************************************************************************)
Kind(ended, ch) ==
  IF ended
  THEN CASE ch = FieldSeparator -> "separator"
         [] ch = OneofSeparator -> "next"
         [] InRange(ch, OneofRange) -> "member"
         [] OTHER -> "bad"
  ELSE CASE ch <= MaxField -> "field"
         [] InRange(ch, ModifierRange) -> "modifier"
         [] ch = End -> "end"
         [] InRange(ch, SkipRange) -> "skip"
         [] OTHER -> "bad"

(* Characters of one range, side by side, are one varint. *)
Unsplit == [ended |-> FALSE, tokens |-> <<>>]
SplitAt(acc, ch) ==
  LET kind == Kind(acc.ended, ch)
  IN [ended |-> acc.ended \/ kind = "end",
      tokens |->
        IF /\ kind \in {"modifier", "skip", "member"} /\ acc.tokens # <<>>
           /\ Last(acc.tokens).kind = kind
        THEN Append(Front(acc.tokens),
                    [kind |-> kind, text |-> Append(Last(acc.tokens).text, ch)])
        ELSE Append(acc.tokens, [kind |-> kind, text |-> <<ch>>])]
Splitting(text) ==
  LET split[i \in 0 .. Len(text)] ==
        IF i = 0 THEN Unsplit ELSE SplitAt(split[i - 1], text[i])
  IN split[Len(text)]
Split(text) == Splitting(text).tokens

Number(token, range) ==
  DecodeVarint([k \in 1 .. Len(token.text) |-> token.text[k] - range.min], range)

RangeOf(kind) == CASE kind = "modifier" -> ModifierRange
                   [] kind = "skip" -> SkipRange
                   [] OTHER -> OneofRange

(* A number, type or modifier that has no meaning is refused in MiniTable;  *)
(* here, what the text alone is refused for.                                *)
Readable(text) ==
  \A token \in ToSet(Split(text)) :
    /\ token.kind # "bad"
    /\ token.kind \in {"modifier", "skip", "member"} =>
         Number(token, RangeOf(token.kind)) # Overlong
    /\ token.kind = "skip" => Number(token, SkipRange) # 0

ReadToken(m, token) ==
  LET n == Number(token, RangeOf(token.kind))
  IN CASE token.kind = "field" ->
            [m EXCEPT !.last = @ + 1,
                      !.fields = Append(@, [number |-> m.last + 1,
                                            type |-> token.text[1], mods |-> 0])]
       [] token.kind = "modifier" /\ m.fields = <<>> -> [m EXCEPT !.mods = n]
       [] token.kind = "modifier" /\ m.fields # <<>> ->
            [m EXCEPT !.fields[Len(m.fields)].mods = n]
       [] token.kind = "skip" -> [m EXCEPT !.last = @ + n - 1]
       [] token.kind \in {"end", "next"} -> [m EXCEPT !.oneofs = Append(@, <<>>)]
       [] token.kind = "member" ->
            [m EXCEPT !.oneofs[Len(m.oneofs)] = Append(@, n)]
       [] OTHER -> m

Unread == [mods |-> 0, fields |-> <<>>, oneofs |-> <<>>, last |-> 0]
ReadTokens(tokens) ==
  LET read[i \in 0 .. Len(tokens)] ==
        IF i = 0 THEN Unread ELSE ReadToken(read[i - 1], tokens[i])
  IN read[Len(tokens)]
ReadMessage(text) == ReadTokens(Split(text))
=============================================================================
