-------------------------------- MODULE MsgOps --------------------------------
(***************************************************************************)
(* encode_submsg and msgop_submsg of message_known.rs: a message is        *)
(* decoded, merged with another, cleared, cloned or left alone, and        *)
(* encoded again.  A merge is itself an encode of the source and a decode  *)
(* onto the destination, both with the default depth.                      *)
(***************************************************************************)
EXTENDS Content

CONSTANTS Ops, Options

ASSUME MsgOpsAssumption == Ops \subseteq {"none", "merge", "clear", "clone"}

VARIABLES
  op, options,
  budget,  \* the max_depth of the case
  stage,   \* a, b: decoding an input, merge: decoding the source's encoding
           \* onto the destination, done, or failed
  dst, src, \* the two messages of a merge
  result,  \* the message encoded at the end
  out      \* << >> or <<its encoding>>

opVars == <<op, options, budget, stage, dst, src, result, out>>
allVars == <<vars, opVars>>

Plain == [deterministic |-> FALSE, skipUnknown |-> FALSE]

OpInit ==
  /\ Init
  /\ op \in Ops /\ options = Plain /\ budget = EffectiveDepth
  /\ stage = "a" /\ dst = NewMessage /\ src = NewMessage /\ result = NewMessage
  /\ out = << >>

Decode ==
  /\ stage \in {"a", "b", "merge"} /\ Next
  /\ UNCHANGED opVars

DecodeFailed ==
  /\ stage \in {"a", "b", "merge"} /\ phase = "failed"
  /\ stage' = "failed" /\ UNCHANGED <<vars, op, options, budget, dst, src, result, out>>

(* The decoder is set to another input, to be decoded onto msg. *)
Restart(msg, given, n, depth) ==
  /\ maxDepth' = depth /\ input' = given /\ len' = n /\ pos' = 0
  /\ ends' = <<n>> /\ spoiled' = FALSE
  /\ stack' = <<NewFrame(Main, msg, "root", 0, FALSE)>>
  /\ skip' = << >> /\ start' = 0 /\ phase' = "boundary" /\ error' = "none"

DecodeSource ==
  /\ stage = "a" /\ phase = "ok" /\ op = "merge"
  /\ stage' = "b" /\ dst' = Msg
  /\ \E n \in Lens : Restart(NewMessage, << >>, n, maxDepth)
  /\ UNCHANGED <<op, options, budget, src, result, out>>

(* Variant: the source is decoded onto a new message.                       *)
MergeAfresh == NewMessage
MergeOnto == dst

MergeFrom ==
  /\ stage = "b" /\ phase = "ok" /\ src' = Msg
  /\ \/ /\ ~EncodeFails(Msg, Main, DefaultDepthLimit)
        /\ stage' = "merge"
        /\ LET bytes == Encode(Msg, Main, Plain)
           IN Restart(MergeOnto, bytes, Len(bytes), 0)
     \/ /\ EncodeFails(Msg, Main, DefaultDepthLimit)
        /\ stage' = "failed" /\ UNCHANGED vars
  /\ UNCHANGED <<op, options, budget, dst, result, out>>

(* clone_set_map_presence: a clone's maps get the hasbit that the decoder   *)
(* never sets, at every level.                                              *)
RECURSIVE Cloned(_, _)
Cloned(m, t) ==
  LET bits == {f.presence : f \in {f \in Range(Tables[t]) :
                 f.mode = "map" /\ f.presence > 0 /\ NonEmpty(m.maps, f.num)}}
      Value(f, e) ==
        IF Tables[f.sub][2].type = "message" /\ Tables[f.sub][2].sub # 0
          THEN [e EXCEPT !.value = Cloned(e.value, Tables[f.sub][2].sub)] ELSE e
      Each(f, elems) == [i \in DOMAIN elems |-> Cloned(elems[i], f.sub)]
  IN [m EXCEPT
        !.has = @ \cup bits,
        !.maps = [n \in DOMAIN @ |->
                    [i \in DOMAIN m.maps[n] |-> Value(FieldOf(t, n), m.maps[n][i])]],
        !.submsgs = [n \in DOMAIN @ |-> Cloned(m.submsgs[n], FieldOf(t, n).sub)],
        !.subArrays = [n \in DOMAIN @ |-> Each(FieldOf(t, n), m.subArrays[n])]]

Outcome ==
  CASE op = "clear" -> NewMessage
    [] op = "clone" -> Cloned(Msg, Main)
    [] OTHER -> Msg

(* The operation and the encode of its result, under options that nothing   *)
(* before it looked at.                                                     *)
Finish ==
  /\ phase = "ok" /\ stage = (IF op = "merge" THEN "merge" ELSE "a")
  /\ result' = Outcome /\ options' \in Options
  /\ \/ /\ ~EncodeFails(Outcome, Main, budget)
        /\ stage' = "done" /\ out' = <<Encode(Outcome, Main, options')>>
     \/ /\ EncodeFails(Outcome, Main, budget)
        /\ stage' = "failed" /\ UNCHANGED out
  /\ UNCHANGED <<vars, op, budget, dst, src>>

OpNext == Decode \/ DecodeFailed \/ DecodeSource \/ MergeFrom \/ Finish

OpSpec == OpInit /\ [][OpNext]_allVars /\ WF_allVars(OpNext)

-----------------------------------------------------------------------------
(* Correctness *)

(* The shape of an operation's state: an output there is exactly when the   *)
(* operation has succeeded.                                                 *)
OpTypeOK ==
  /\ op \in Ops /\ options \in Options \cup {Plain} /\ budget \in Nat
  /\ stage \in {"a", "b", "merge", "done", "failed"}
  /\ Len(out) <= 1 /\ (stage = "done" <=> out # << >>)

(* A content without the unknown fields at any level. *)
RECURSIVE Stripped(_, _)
StrippedField(f, v) ==
  CASE v = << >> \/ (f.type \notin MessageTypes) -> v
    [] f.mode = "map" ->
         IF Tables[f.sub][2].type # "message" THEN v
         ELSE <<[k \in DOMAIN v[1] |-> Stripped(v[1][k], Tables[f.sub][2].sub)]>>
    [] f.mode = "array" -> <<[i \in DOMAIN v[1] |-> Stripped(v[1][i], f.sub)]>>
    [] OTHER -> <<Stripped(v[1], f.sub)>>
Stripped(c, t) ==
  [fields |-> [i \in DOMAIN c.fields |-> StrippedField(Tables[t][i], c.fields[i])],
   unknown |-> << >>]

(* What is encoded says what the message was: reading the output again      *)
(* gives every present field, default, element, entry and unknown field; a  *)
(* clone writes all its source holds, the maps with a hasbit included.      *)
EncodesContent ==
  /\ OpTypeOK
  /\ stage = "done" =>
       LET content == IF op = "clone" THEN View(Msg, Main)
                      ELSE ViewAs(result, Main, TRUE)
       IN Says(out[1], Main) =
            IF options.skipUnknown THEN Stripped(content, Main) ELSE content

(* A deterministic encode does not depend on the order in which the entries *)
(* of a map were inserted.                                                  *)
DeterministicOrder ==
  stage = "done" /\ options.deterministic =>
    out[1] = Encode([result EXCEPT !.maps = [n \in DOMAIN @ |-> Reverse(@[n])]], Main, options)

(* How deep an encode descends into a message, entries not counted. *)
RECURSIVE Levels(_, _)
Levels(m, t) ==
  1 + Max({0} \cup UNION {{Levels(n[2], n[1]) : n \in {n \in Nested(m, f) : n[1] # 0}}
                          : f \in Range(Tables[t])})

(* A message is encoded if and only if it has at most max_depth levels, one *)
(* level fewer than are decoded: the root counts.                           *)
EncodeBudget ==
  stage \in {"done", "failed"} /\ phase = "ok" /\ (op = "merge" => result # NewMessage) =>
    (stage = "done" <=> Levels(result, Main) <= budget)

(* Merging by fields, as the comment on msgop_submsg has it.                *)
RECURSIVE Merged(_, _, _)
MergedField(a, b, t, i) ==
  LET f == Tables[t][i]
      va == a.fields[i]
      vb == b.fields[i]
      switched == \E j \in DOMAIN Tables[t] :
                    Tables[t][j].presence = f.presence /\ f.presence < 0 /\ b.fields[j] # << >>
  IN CASE f.mode = "map" -> <<vb[1] @@ va[1]>>
       [] f.mode = "array" -> <<va[1] \o vb[1]>>
       [] vb = << >> -> IF switched THEN << >> ELSE va
       [] f.type \in MessageTypes /\ va \in {<< >>, <<EmptyDump>>} -> vb
       [] f.type \in MessageTypes ->
            IF vb[1] = EmptyDump THEN va ELSE <<Merged(va[1], vb[1], f.sub)>>
       [] f.presence = 0 -> IF vb[1] = Zero(f) THEN va ELSE vb
       [] OTHER -> vb
Merged(a, b, t) ==
  [fields |-> [i \in DOMAIN Tables[t] |-> MergedField(a, b, t, i)],
   unknown |-> a.unknown \o b.unknown]

(* A merge, done by encoding and decoding, merges field by field: scalars   *)
(* that are set overwrite, a oneof switches, submessages merge, repeated    *)
(* fields and unknown fields are appended, map keys overwritten.  A map of  *)
(* the source that an encode leaves out is not merged.                      *)
MergeIsFieldwise ==
  stage = "done" /\ op = "merge" =>
    View(result, Main) = Merged(View(dst, Main), ViewAs(src, Main, TRUE), Main)
=============================================================================
