-------------------------------- MODULE Decoder --------------------------------
(***************************************************************************)
(* decode_message of crates/upb-rs-wire/src/message_known.rs, with         *)
(* skip_group_inner of reader.rs, as a machine with an explicit stack: a   *)
(* frame per call in progress, and above the top one the unknown groups    *)
(* being skipped.  It reads its input through the cursor that              *)
(* EpsCopyStream implements.                                               *)
(*                                                                         *)
(* The input is a sequence of units (see WireUnits).  It is chosen as it is *)
(* read, from the units given for the main table; an input that is there   *)
(* already is read as it is.                                               *)
(***************************************************************************)
EXTENDS WireUnits

CONSTANTS
  Units,      \* main table -> the units its inputs are made of
  Lens,       \* lengths of the inputs
  MaxDepths,  \* max_depth arguments
  DefaultDepthLimit, \* the depth that 0 stands for (100)
  BadByte,    \* a payload with this unit in it is not UTF-8
  EncodedEntry(_, _),     \* entry, table -> the units it is encoded as
  EncodeRefuses(_, _, _)  \* message, table, max_depth -> the encode fails

ASSUME DecoderAssumption ==
  /\ DOMAIN Units \subseteq DOMAIN Tables /\ Lens \subseteq Nat /\ MaxDepths \subseteq Nat
  /\ DefaultDepthLimit \in Nat \ {0}

ASSUME UnitsAssumption ==
  \A t \in DOMAIN Units : \A u \in Units[t] : u.num \in Nat /\ u.size \in Nat

VARIABLES
  maxDepth, input, len, pos,
  ends,     \* absolute ends of the payloads in progress, the input's first
  spoiled,  \* the stream's error flag
  stack,    \* frames [table, msg, kind, num, group] of the calls in progress
  skip,     \* numbers of the unknown groups being skipped
  start,    \* where the outermost of them starts
  phase,    \* boundary: is_done is next, field: it said no, end: it said yes,
            \* ok and failed: the decode has returned
  error     \* none, malformed, depth or utf8

vars == <<maxDepth, input, len, pos, ends, spoiled, stack, skip, start, phase, error>>

EffectiveDepth == IF maxDepth = 0 THEN DefaultDepthLimit ELSE maxDepth

Top == Last(ends)
Frame == Last(stack)
NewFrame(t, msg, kind, num, group) ==
  [table |-> t, msg |-> msg, kind |-> kind, num |-> num, group |-> group]

(* The budget of the message being decoded.                                *)
Depth == EffectiveDepth - (Len(stack) - 1)

(* decode_known, decode_submsg: a decode onto msg of an input given or not. *)
Start(t, msg, given) ==
  /\ input = given /\ pos = 0
  /\ ends = <<len>> /\ spoiled = FALSE
  /\ stack = <<NewFrame(t, msg, "root", 0, FALSE)>>
  /\ skip = << >> /\ start = 0 /\ phase = "boundary" /\ error = "none"

Init ==
  /\ len \in Lens /\ maxDepth \in MaxDepths
  /\ \E t \in DOMAIN Units : Start(t, NewMessage, << >>)

Main == stack[1].table

-----------------------------------------------------------------------------
(* What a field is decoded as: decode_wire_value and delimited_op *)

OpOf(f, u) ==
  CASE u.wt = "varint" /\ IsClosedEnum(f) ->
         IF CheckValue(f, u.val) THEN "scalar" ELSE "unknown"
    [] u.wt = "varint" /\ f.mode # "map" ->
         IF f.type \in VarintTypes THEN "scalar" ELSE "unknown"
    [] u.wt \in FixedTypes /\ f.mode # "map" ->
         IF f.type = u.wt THEN "scalar" ELSE "unknown"
    [] u.wt = "start" ->
         IF f.type = "group" /\ f.sub # 0 THEN "group" ELSE "unknown"
    [] u.wt = "delimited" /\ f.mode = "map" -> IF f.sub # 0 THEN "map" ELSE "unknown"
    [] u.wt = "delimited" /\ f.type \in StringTypes -> "string"
    [] u.wt = "delimited" /\ f.type = "message" /\ f.sub # 0 -> "submessage"
    [] u.wt = "delimited" /\ f.mode = "array" /\ f.type \in VarintTypes \cup FixedTypes ->
         "packed"
    [] OTHER -> "unknown"

Op(t, u) == IF IsField(t, u.num) THEN OpOf(FieldOf(t, u.num), u) ELSE "unknown"

-----------------------------------------------------------------------------
(* Steps of the decode *)

Fail(e) ==
  /\ phase' = "failed" /\ error' = e
  /\ UNCHANGED <<maxDepth, input, len, pos, ends, stack, skip, start>>

(* The units that can be next: the one that is there, or any.               *)
Coming == IF pos < Len(input) THEN {input[pos + 1]} ELSE Units[Main]

(* Reads u and the payload it carries. *)
Consume(u, size) ==
  /\ pos' = pos + 1 + size
  /\ input' = IF pos < Len(input) THEN input ELSE input \o <<u>> \o Payloads(size)
  /\ phase' = "boundary"
  /\ UNCHANGED <<maxDepth, len, error>>

(* is_done: more, the end, or past it *)
IsDone ==
  /\ phase = "boundary"
  /\ phase' = CASE pos < Top -> "field"
                [] pos = Top /\ ~spoiled -> "end"
                [] OTHER -> "failed"
  /\ spoiled' = (spoiled \/ pos > Top)
  /\ error' = IF phase' = "failed" THEN "malformed" ELSE error
  /\ UNCHANGED <<maxDepth, input, len, pos, ends, stack, skip, start>>

(* A tag or value no reader accepts, or one in the padding after the input. *)
Malformed ==
  /\ phase = "field" /\ (pos >= Len(input))
  /\ Fail("malformed") /\ UNCHANGED spoiled

AtField == phase = "field" /\ skip = << >> /\ pos < len

Msg == Frame.msg
WithMsg(m) == stack' = [stack EXCEPT ![Len(stack)].msg = m]

Scalar(u) ==
  /\ AtField /\ Op(Frame.table, u) = "scalar"
  /\ LET f == FieldOf(Frame.table, u.num)
         v == Munge(f, u.val)
     IN WithMsg(IF f.mode = "array"
                  THEN [Msg EXCEPT !.arrays = Push(@, f.num, <<v>>)]
                  ELSE ApplyScalar(Msg, f, v))
  /\ Consume(u, 0) /\ UNCHANGED <<ends, spoiled, skip, start>>

(* The payload of a string, a packed or an unknown field only has to fit    *)
(* the input.                                                               *)
Fits(u) == u.size <= len - (pos + 1)

String(u) ==
  /\ AtField /\ Op(Frame.table, u) = "string" /\ UNCHANGED spoiled
  /\ LET f == FieldOf(Frame.table, u.num) IN
     \/ /\ Fits(u) /\ (f.type = "string" => BadByte \notin Range(u.bytes))
        /\ WithMsg(IF f.mode = "array"
                     THEN [Msg EXCEPT !.arrays = Push(@, f.num, <<u.bytes>>)]
                     ELSE ApplyString(Msg, f, u.bytes))
        /\ Consume(u, u.size) /\ UNCHANGED <<ends, skip, start>>
     \/ ~Fits(u) /\ Fail("malformed")
     \/ Fits(u) /\ f.type = "string" /\ BadByte \in Range(u.bytes) /\ Fail("utf8")

(* A closed enum keeps the values it does not have as unknown fields.       *)
Refused(f, values) ==
  LET bad == SelectSeq(values, LAMBDA v : ~CheckValue(f, v))
  IN [i \in DOMAIN bad |-> Varint(f.num, bad[i])]

Packed(u) ==
  /\ AtField /\ Op(Frame.table, u) = "packed" /\ UNCHANGED spoiled
  /\ LET f    == FieldOf(Frame.table, u.num)
         enum == IsClosedEnum(f)
         good == SelectSeq(u.bytes, LAMBDA v : enum => CheckValue(f, v))
     IN \/ /\ Fits(u)
           /\ WithMsg([Msg EXCEPT
                !.arrays = Push(@, f.num, [i \in DOMAIN good |-> Munge(f, good[i])]),
                !.unknown = @ \o IF enum THEN Refused(f, u.bytes) ELSE << >>])
           /\ Consume(u, u.size) /\ UNCHANGED <<ends, skip, start>>
        \/ ~Fits(u) /\ Fail("malformed")

(* decode_unknown_field, but for a group: the units as they are *)
Unknown(u) ==
  /\ AtField /\ Op(Frame.table, u) = "unknown"
  /\ u.wt \in {"varint", "delimited"} \cup FixedTypes /\ UNCHANGED spoiled
  /\ \/ /\ Fits(u)
        /\ Consume(u, u.size) /\ UNCHANGED <<ends, skip, start>>
        /\ WithMsg([Msg EXCEPT !.unknown = @ \o SubSeq(input', pos + 1, pos')])
     \/ ~Fits(u) /\ Fail("malformed")

-----------------------------------------------------------------------------
(* Messages within messages *)

(* The parent as the call leaves it, and the frame of the call. *)
Descend(f, kind, group) ==
  LET parent == IF kind = "sub" THEN PrepareSubmsg(Msg, f) ELSE Msg
      child  == IF kind = "sub" THEN parent.submsgs[f.num] ELSE NewMessage
  IN stack' = Append([stack EXCEPT ![Len(stack)].msg = parent],
                     NewFrame(f.sub, child, kind, f.num, group))

KindOf(f) == IF f.mode = "map" THEN "entry" ELSE IF f.mode = "array" THEN "element" ELSE "sub"

(* Variant: nothing overflows.                                              *)
OverflowsNever(end) == FALSE
Overflows(end) == end > Top

(* push_limit is called before the depth is looked at.                      *)
OpenPayload(u) ==
  /\ AtField /\ Op(Frame.table, u) \in {"submessage", "map"}
  /\ LET end == pos + 1 + u.size IN
     /\ spoiled' = (spoiled \/ Overflows(end))
     /\ \/ /\ Depth - 1 >= 0
           /\ LET f == FieldOf(Frame.table, u.num) IN Descend(f, KindOf(f), FALSE)
           /\ ends' = Append(ends, end)
           /\ Consume(u, 0) /\ UNCHANGED <<skip, start>>
        \/ Depth - 1 < 0 /\ Fail("depth")

OpenGroup(u) ==
  /\ AtField /\ Op(Frame.table, u) = "group" /\ UNCHANGED spoiled
  /\ \/ /\ Depth - 1 >= 0
        /\ LET f == FieldOf(Frame.table, u.num) IN Descend(f, KindOf(f), TRUE)
        /\ Consume(u, 0) /\ UNCHANGED <<ends, skip, start>>
     \/ Depth - 1 < 0 /\ Fail("depth")

(* A finished map entry is inserted, or goes whole to the unknown fields if *)
(* it has some of its own (encode_map_entry: options 0).                    *)
AddEntry(m, f, ent) ==
  LET key == Tables[f.sub][1]
      val == Tables[f.sub][2]
  IN IF ent.unknown # << >>
       THEN [m EXCEPT !.unknown = @ \o Delimited(f.num, EncodedEntry(ent, f.sub))]
       ELSE [m EXCEPT !.maps = Put(@, f.num, Insert(Lookup(@, f.num, << >>),
               [key |-> Stored(ent, key),
                value |-> IF val.type = "message"
                            THEN Lookup(ent.submsgs, val.num, NewMessage)
                            ELSE Stored(ent, val)]))]

(* What the caller does with the message when the call returns. *)
Returned(parent, frame) ==
  LET f == FieldOf(parent.table, frame.num)
      m == parent.msg
  IN CASE frame.kind = "sub" -> [m EXCEPT !.submsgs = Put(@, f.num, frame.msg)]
       [] frame.kind = "element" -> [m EXCEPT !.subArrays = Push(@, f.num, <<frame.msg>>)]
       [] frame.kind = "entry" -> AddEntry(m, f, frame.msg)

Pop ==
  LET parent == stack[Len(stack) - 1]
  IN stack' = Append(SubSeq(stack, 1, Len(stack) - 2),
                     [parent EXCEPT !.msg = Returned(parent, Frame)])

(* An entry that has to be encoded is encoded with the default depth. *)
EntryTooDeep ==
  /\ Frame.kind = "entry" /\ Frame.msg.unknown # << >>
  /\ EncodeRefuses(Frame.msg, Frame.table, DefaultDepthLimit)

(* The end of a payload *)
ClosePayload ==
  /\ phase = "end" /\ skip = << >> /\ ~Frame.group /\ Len(stack) > 1
  /\ UNCHANGED spoiled
  /\ \/ /\ ~EntryTooDeep
        /\ Pop /\ ends' = Front(ends) /\ phase' = "boundary"
        /\ UNCHANGED <<maxDepth, input, len, pos, skip, start, error>>
     \/ EntryTooDeep /\ Fail("depth")

(* Variant: any EndGroup ends the group.                                    *)
ClosesAny(u) == Frame.group
(* Only the EndGroup of its own number ends a group.                        *)
Closes(u) == Frame.group /\ Frame.num = u.num

CloseGroup(u) ==
  /\ AtField /\ u.wt = "end" /\ UNCHANGED spoiled
  /\ \/ Closes(u) /\ Pop /\ Consume(u, 0) /\ UNCHANGED <<ends, skip, start>>
     \/ ~Closes(u) /\ Fail("malformed")

(* Variant: a group that is not finished is waited for.                     *)
UnterminatedRetry ==
  /\ phase = "end" /\ (skip # << >> \/ Frame.group)
  /\ phase' = "boundary"
  /\ UNCHANGED <<maxDepth, input, len, pos, ends, spoiled, stack, skip, start, error>>
(* The end of the payload or input within a group *)
Unterminated ==
  /\ phase = "end" /\ (skip # << >> \/ Frame.group)
  /\ Fail("malformed") /\ UNCHANGED spoiled

Return ==
  /\ phase = "end" /\ skip = << >> /\ ~Frame.group /\ Len(stack) = 1
  /\ phase' = "ok"
  /\ UNCHANGED <<maxDepth, input, len, pos, ends, spoiled, stack, skip, start, error>>

-----------------------------------------------------------------------------
(* Unknown groups: skip_group_inner and skip_value *)

(* a StartGroup met by the decode or within a skipped group *)
SkipGroup(u) ==
  /\ phase = "field" /\ pos < len /\ u.wt = "start" /\ UNCHANGED spoiled
  /\ skip = << >> => Op(Frame.table, u) = "unknown"
  /\ \/ /\ Depth - Len(skip) - 1 >= 0
        /\ skip' = Append(skip, u.num)
        /\ start' = IF skip = << >> THEN pos ELSE start
        /\ Consume(u, 0) /\ UNCHANGED <<ends, stack>>
     \/ Depth - Len(skip) - 1 < 0 /\ Fail("malformed")

SkipField(u) ==
  /\ phase = "field" /\ pos < len /\ skip # << >>
  /\ u.wt \in {"varint", "delimited"} \cup FixedTypes
  /\ \/ /\ u.size <= Top - (pos + 1)
        /\ Consume(u, u.size) /\ UNCHANGED <<ends, spoiled, stack, skip, start>>
     \/ u.size > Top - (pos + 1) /\ Fail("malformed") /\ spoiled' = TRUE

(* The outermost group that ends is captured with all there is in it.       *)
SkipEnd(u) ==
  /\ phase = "field" /\ pos < len /\ skip # << >> /\ u.wt = "end" /\ UNCHANGED spoiled
  /\ \/ /\ u.num = Last(skip)
        /\ skip' = Front(skip) /\ Consume(u, 0)
        /\ IF Len(skip) = 1
             THEN WithMsg([Msg EXCEPT !.unknown = @ \o SubSeq(input', start + 1, pos')])
             ELSE UNCHANGED stack
        /\ UNCHANGED <<ends, start>>
     \/ u.num # Last(skip) /\ Fail("malformed")

Next ==
  \/ IsDone \/ Malformed \/ ClosePayload \/ Unterminated \/ Return
  \/ \E u \in Coming :
       \/ Scalar(u) \/ String(u) \/ Packed(u) \/ Unknown(u)
       \/ OpenPayload(u) \/ OpenGroup(u) \/ CloseGroup(u)
       \/ SkipGroup(u) \/ SkipField(u) \/ SkipEnd(u)

(* The decoder is one thread that keeps running until it returns. *)
Spec == Init /\ [][Next]_vars /\ WF_vars(Next)

-----------------------------------------------------------------------------
(* Correctness *)

KindsOfFrame == {"root", "sub", "element", "entry"}

(* The shape of the decoder's state.                                        *)
TypeOK ==
  /\ maxDepth \in MaxDepths /\ len \in Lens /\ pos \in Nat
  /\ ends \in Seq(Nat) /\ ends # << >> /\ spoiled \in BOOLEAN
  /\ stack # << >> /\ skip \in Seq(Nat) /\ start \in Nat
  /\ \A i \in DOMAIN stack :
       /\ stack[i].table \in DOMAIN Tables /\ stack[i].group \in BOOLEAN
       /\ stack[i].kind \in KindsOfFrame /\ (stack[i].kind = "root" <=> i = 1)
  /\ phase \in {"boundary", "field", "end", "ok", "failed"}
  /\ error \in {"none", "malformed", "depth", "utf8"}
  /\ phase = "failed" <=> error # "none"

(* A decode reads beyond its input only once the stream's error is set, and *)
(* one that returns Ok has read all of it and set no error: no payload left *)
(* the one around it, no unit of the input was passed over or made up.      *)
InputRead ==
  /\ ~spoiled => pos <= len
  /\ phase = "ok" => pos = len /\ Len(input) = len /\ ~spoiled

(* However messages, entries, elements and groups nest, the calls in        *)
(* progress and the groups being skipped stay within the one budget.        *)
BudgetKept == Len(stack) - 1 + Len(skip) <= EffectiveDepth

C == INSTANCE Cursor

(* The decode loop moves through its input as the stream's users do.        *)
ImplementsCursor == C!CursorSpec

(* Every decode returns. *)
Terminates == <>(phase \in {"ok", "failed"})
=============================================================================
