----------------------------- MODULE DecoderProofs -----------------------------
(* However deep messages, entries and groups nest, the decode moves through *)
(* its input like a cursor, keeps its budget and accepts nothing but a      *)
(* whole input, for all tables, inputs, budgets and encoders of an entry.   *)
EXTENDS Decoder, NumberProofs, FiniteSetTheorems

-----------------------------------------------------------------------------
(* The inductive invariant *)

(* What every variable but the input and the stack ranges over.             *)
PlainTypes ==
  /\ maxDepth \in MaxDepths /\ len \in Lens /\ pos \in Nat
  /\ ends \in Seq(Nat) /\ spoiled \in BOOLEAN
  /\ skip \in Seq(Nat) /\ start \in Nat
  /\ phase \in {"boundary", "field", "end", "ok", "failed"}
  /\ error \in {"none", "malformed", "depth", "utf8"}
  /\ phase = "failed" <=> error # "none"

(* The input is what was read of it so far.                                 *)
UnitSet == {Payload} \cup UNION {Units[t] : t \in DOMAIN Units}
InputInv == input \in Seq(UnitSet) /\ Len(input) = pos

(* The frames: the root's is the first, of a main table and no group.       *)
FrameOK(f) ==
  /\ f = NewFrame(f.table, f.msg, f.kind, f.num, f.group)
  /\ f.table \in DOMAIN Tables /\ f.group \in BOOLEAN /\ f.kind \in KindsOfFrame
FramesOK(s) ==
  /\ \E S : s \in Seq(S)
  /\ Len(s) > 0
  /\ \A i \in 1 .. Len(s) : FrameOK(s[i]) /\ (s[i].kind = "root" <=> i = 1)
  /\ s[1].table \in DOMAIN Units /\ ~s[1].group

(* A payload in progress is a frame that is no group, and each has its end. *)
PayloadFrames(s) == {i \in 1 .. Len(s) : ~s[i].group}
StackInv == FramesOK(stack) /\ Cardinality(PayloadFrames(stack)) = Len(ends)

(* Without an error no payload ends beyond the input.                       *)
EndsInv ==
  /\ Len(ends) > 0 /\ ends[1] = len
  /\ ~spoiled => pos <= len /\ \A k \in 1 .. Len(ends) : ends[k] <= len

(* is_done says yes at the very end of a payload only.                      *)
PhaseInv ==
  /\ phase \in {"end", "ok"} => pos = ends[Len(ends)] /\ ~spoiled
  /\ phase = "ok" => Len(ends) = 1

DecoderInv == PlainTypes /\ InputInv /\ StackInv /\ EndsInv /\ PhaseInv /\ BudgetKept

-----------------------------------------------------------------------------
(* What holds of fields and of the operators on the stack *)

(* The field of a number is one of the table's.                             *)
LEMMA FieldIsOfTable ==
  ASSUME NEW t \in DOMAIN Tables, NEW num, IsField(t, num)
  PROVE  \E i \in DOMAIN Tables[t] : FieldOf(t, num) = Tables[t][i]
<1> DEFINE Nums == {Tables[t][i].num : i \in DOMAIN Tables[t]}
           T(n) == {i \in DOMAIN Tables[t] : Tables[t][i].num = n}
           First(n, i) == /\ Tables[t][i].num = n
                          /\ \A j \in DOMAIN Tables[t] : Tables[t][j].num = n => i <= j
           c(n) == CHOOSE i \in DOMAIN Tables[t] : First(n, i)
<1>1. FieldsByNumber[t] = [n \in Nums |-> Tables[t][c(n)]]
  BY DEF FieldsByNumber
<1>2. num \in Nums /\ FieldOf(t, num) = Tables[t][c(num)]
  BY <1>1 DEF IsField, FieldOf
<1>3. T(num) \in SUBSET Nat /\ T(num) # {}
  BY <1>2, TablesAssumption
<1>4. PICK m \in T(num) : \A j \in T(num) : m <= j
  BY <1>3, LeastNat
<1>5. m \in DOMAIN Tables[t] /\ First(num, m)
  BY <1>4
<1>6. c(num) \in DOMAIN Tables[t]
  BY <1>5
<1> QED
  BY <1>2, <1>6

(* A field that a message, entry or group is decoded from has a table.      *)
LEMMA SubIsTable ==
  ASSUME NEW t \in DOMAIN Tables, NEW u, Op(t, u) \in {"submessage", "map", "group"}
  PROVE  FieldOf(t, u.num).sub \in DOMAIN Tables
<1>1. IsField(t, u.num) /\ FieldOf(t, u.num).sub # 0
  BY DEF Op, OpOf
<1>2. PICK i \in DOMAIN Tables[t] : FieldOf(t, u.num) = Tables[t][i]
  BY <1>1, FieldIsOfTable
<1> QED
  BY <1>1, <1>2, TablesAssumption

(* The payload frames are finitely many.                                    *)
LEMMA PayloadsFinite ==
  ASSUME NEW s, Len(s) \in Nat
  PROVE  IsFiniteSet(PayloadFrames(s)) /\ Cardinality(PayloadFrames(s)) \in Nat
<1>1. IsFiniteSet(1 .. Len(s)) /\ PayloadFrames(s) \in SUBSET (1 .. Len(s))
  BY FS_Interval DEF PayloadFrames
<1> QED
  BY <1>1, FS_Subset, FS_CardinalityType

(* Changing the message of the top frame changes no other part of a stack.  *)
LEMMA TopChanged ==
  ASSUME NEW s, FramesOK(s), NEW m
  PROVE  LET r == [s EXCEPT ![Len(s)].msg = m]
         IN /\ FramesOK(r) /\ Len(r) = Len(s)
            /\ PayloadFrames(r) = PayloadFrames(s)
<1> DEFINE top == [s[Len(s)] EXCEPT !.msg = m]
           r == [s EXCEPT ![Len(s)].msg = m]
<1>1. PICK S : s \in Seq(S)
  BY DEF FramesOK
<1>2. Len(s) \in Nat /\ Len(s) > 0
  BY <1>1 DEF FramesOK
<1>3. FrameOK(s[Len(s)])
  BY <1>2 DEF FramesOK
<1>4. /\ FrameOK(top) /\ top.kind = s[Len(s)].kind
      /\ top.table = s[Len(s)].table /\ top.group = s[Len(s)].group
  BY <1>3 DEF FrameOK, NewFrame
<1>5. r = [s EXCEPT ![Len(s)] = top]
  OBVIOUS
<1>6. r \in Seq(S \cup {top}) /\ Len(r) = Len(s)
  BY <1>1, <1>2, <1>5
<1>7. \A i \in 1 .. Len(s) : r[i] = IF i = Len(s) THEN top ELSE s[i]
  BY <1>1, <1>2, <1>5
<1> HIDE DEF top, r
<1>8. \A i \in 1 .. Len(s) :
        /\ FrameOK(r[i]) /\ r[i].kind = s[i].kind
        /\ r[i].table = s[i].table /\ r[i].group = s[i].group
  BY <1>4, <1>7 DEF FramesOK
<1>9. FramesOK(r)
  BY <1>2, <1>6, <1>8 DEF FramesOK
<1>10. PayloadFrames(r) = PayloadFrames(s)
  BY <1>6, <1>8 DEF PayloadFrames
<1> QED
  BY <1>6, <1>9, <1>10 DEF r

(* A frame that is pushed, of a payload or of a group.                      *)
LEMMA FramePushed ==
  ASSUME NEW s, FramesOK(s), NEW f, FrameOK(f), f.kind # "root"
  PROVE  /\ FramesOK(Append(s, f)) /\ Len(Append(s, f)) = Len(s) + 1
         /\ Cardinality(PayloadFrames(Append(s, f))) =
              Cardinality(PayloadFrames(s)) + IF f.group THEN 0 ELSE 1
<1> DEFINE r == Append(s, f)
<1>1. PICK S : s \in Seq(S)
  BY DEF FramesOK
<1>2. Len(s) \in Nat /\ Len(s) > 0
  BY <1>1 DEF FramesOK
<1>3. r \in Seq(S \cup {f}) /\ Len(r) = Len(s) + 1
  BY <1>1
<1>4. \A i \in 1 .. Len(s) + 1 : r[i] = IF i = Len(s) + 1 THEN f ELSE s[i]
  BY <1>1, <1>2
<1> HIDE DEF r
<1>5. \A i \in 1 .. Len(s) : r[i] = s[i]
  BY <1>2, <1>4
<1>6. r[Len(s) + 1] = f
  BY <1>2, <1>4
<1>7. FramesOK(r)
  BY <1>2, <1>3, <1>4 DEF FramesOK
<1>8. PayloadFrames(r) =
        IF f.group THEN PayloadFrames(s) ELSE PayloadFrames(s) \cup {Len(s) + 1}
  BY <1>2, <1>3, <1>5, <1>6 DEF PayloadFrames
<1>9. Len(s) + 1 \notin PayloadFrames(s)
  BY <1>2 DEF PayloadFrames
<1>10. IsFiniteSet(PayloadFrames(s)) /\ Cardinality(PayloadFrames(s)) \in Nat
  BY <1>2, PayloadsFinite
<1>11. Cardinality(PayloadFrames(r)) =
         Cardinality(PayloadFrames(s)) + IF f.group THEN 0 ELSE 1
  <2>1. CASE f.group
    BY <2>1, <1>8, <1>10
  <2>2. CASE ~f.group
    BY <2>2, <1>8, <1>9, <1>10, FS_AddElement
  <2> QED
    BY <2>1, <2>2
<1> QED
  BY <1>3, <1>7, <1>11 DEF r

(* The frame under the top one, with another message, takes its place.      *)
LEMMA FramePopped ==
  ASSUME NEW s, FramesOK(s), Len(s) > 1, NEW m,
         NEW r, r = Append(SubSeq(s, 1, Len(s) - 2), [s[Len(s) - 1] EXCEPT !.msg = m])
  PROVE  /\ FramesOK(r) /\ Len(r) = Len(s) - 1
         /\ Cardinality(PayloadFrames(r)) =
              Cardinality(PayloadFrames(s)) - IF s[Len(s)].group THEN 0 ELSE 1
<1> DEFINE top == [s[Len(s) - 1] EXCEPT !.msg = m]
           n == Len(s)
<1>1. PICK S : s \in Seq(S)
  BY DEF FramesOK
<1>2. n \in Nat /\ n > 1
  BY <1>1
<1>3. FrameOK(s[n - 1])
  BY <1>2 DEF FramesOK
<1>4. /\ FrameOK(top) /\ top.kind = s[n - 1].kind
      /\ top.table = s[n - 1].table /\ top.group = s[n - 1].group
  BY <1>3 DEF FrameOK, NewFrame
<1> HIDE DEF top
<1>5. /\ SubSeq(s, 1, n - 2) \in Seq(S) /\ Len(SubSeq(s, 1, n - 2)) = n - 2
      /\ \A i \in 1 .. n - 2 : SubSeq(s, 1, n - 2)[i] = s[i]
  <2> DEFINE k == n - 2
  <2>1. k \in 0 .. Len(s)
    BY <1>2
  <2> HIDE DEF k
  <2>2. SubSeq(s, 1, k) \in Seq(S) /\ Len(SubSeq(s, 1, k)) = k
    BY <1>1, <2>1
  <2>3. \A i \in 1 .. k : SubSeq(s, 1, k)[i] = s[i]
    BY <1>1, <2>1
  <2> QED
    BY <2>2, <2>3 DEF k
<1> DEFINE low == SubSeq(s, 1, n - 2)
<1>6. r = Append(low, top)
  BY DEF top
<1> HIDE DEF low
<1>7. low \in Seq(S) /\ Len(low) = n - 2 /\ \A i \in 1 .. n - 2 : low[i] = s[i]
  BY <1>5 DEF low
<1>8. r \in Seq(S \cup {top}) /\ Len(r) = n - 1
  BY <1>2, <1>6, <1>7
<1>9. \A i \in 1 .. n - 1 : r[i] = IF i = n - 1 THEN top ELSE s[i]
  BY <1>2, <1>6, <1>7
<1>10. \A i \in 1 .. n - 1 :
         /\ FrameOK(r[i]) /\ r[i].kind = s[i].kind
         /\ r[i].table = s[i].table /\ r[i].group = s[i].group
  BY <1>2, <1>4, <1>9 DEF FramesOK
<1>11. FramesOK(r)
  <2>1. \E R : r \in Seq(R)
    BY <1>8
  <2>2. Len(r) > 0 /\ 1 \in 1 .. n - 1 /\ \A i \in 1 .. n - 1 : i \in 1 .. n
    BY <1>2, <1>8
  <2>3. \A i \in 1 .. n - 1 : r[i].kind = "root" <=> i = 1
    BY <1>10, <2>2 DEF FramesOK
  <2>4. r[1].table \in DOMAIN Units /\ ~r[1].group
    BY <1>10, <2>2 DEF FramesOK
  <2> QED
    BY <1>8, <1>10, <2>1, <2>2, <2>3, <2>4 DEF FramesOK
<1>12. PayloadFrames(s) =
         IF s[n].group THEN PayloadFrames(r) ELSE PayloadFrames(r) \cup {n}
  BY <1>2, <1>8, <1>10 DEF PayloadFrames
<1>13. n \notin PayloadFrames(r)
  BY <1>2, <1>8 DEF PayloadFrames
<1>14. IsFiniteSet(PayloadFrames(r)) /\ Cardinality(PayloadFrames(r)) \in Nat
  BY <1>2, <1>8, PayloadsFinite
<1>15. Cardinality(PayloadFrames(r)) =
         Cardinality(PayloadFrames(s)) - IF s[n].group THEN 0 ELSE 1
  <2>1. CASE s[n].group
    BY <2>1, <1>12, <1>14
  <2>2. CASE ~s[n].group
    <3>1. Cardinality(PayloadFrames(s)) = Cardinality(PayloadFrames(r)) + 1
      BY <2>2, <1>12, <1>13, <1>14, FS_AddElement
    <3> QED
      BY <2>2, <3>1, <1>14
  <2> QED
    BY <2>1, <2>2
<1> QED
  BY <1>8, <1>11, <1>15

-----------------------------------------------------------------------------
(* Initial states, and what steps have in common *)

LEMMA InitDecoder == Init => DecoderInv /\ C!CursorInit
<1> SUFFICES ASSUME Init PROVE DecoderInv /\ C!CursorInit
  OBVIOUS
<1>1. PICK t \in DOMAIN Units : Start(t, NewMessage, << >>)
  BY DEF Init
<1>2. /\ len \in Lens /\ maxDepth \in MaxDepths /\ len \in Nat
      /\ t \in DOMAIN Tables /\ EffectiveDepth \in Nat
  BY DecoderAssumption DEF Init, EffectiveDepth
<1>3. /\ input = << >> /\ pos = 0 /\ ends = <<len>> /\ spoiled = FALSE
      /\ skip = << >> /\ start = 0 /\ phase = "boundary" /\ error = "none"
  BY <1>1 DEF Start
<1> DEFINE f == NewFrame(t, NewMessage, "root", 0, FALSE)
<1>4. stack = <<f>>
  BY <1>1 DEF Start
<1>5. f.table = t /\ ~f.group /\ f.kind = "root" /\ FrameOK(f)
  BY <1>2 DEF FrameOK, NewFrame, KindsOfFrame
<1> HIDE DEF f
<1>6. stack \in Seq({f}) /\ Len(stack) = 1 /\ stack[1] = f
  BY <1>4
<1>7. FramesOK(stack)
  <2>1. \E S : stack \in Seq(S)
    BY <1>6
  <2>2. \A i \in 1 .. Len(stack) : i = 1
    BY <1>6
  <2> QED
    BY <1>5, <1>6, <2>1, <2>2 DEF FramesOK
<1>8. PayloadFrames(stack) = {1}
  BY <1>5, <1>6 DEF PayloadFrames
<1>9. StackInv
  BY <1>3, <1>7, <1>8, FS_Singleton DEF StackInv
<1>10. PlainTypes /\ InputInv
  <2>1. ends \in Seq(Nat) /\ skip \in Seq(Nat) /\ 0 \in Nat
    BY <1>2, <1>3
  <2>2. PlainTypes
    BY <1>2, <1>3, <2>1 DEF PlainTypes
  <2>3. InputInv
    BY <1>3 DEF InputInv
  <2> QED
    BY <2>2, <2>3
<1>11. EndsInv /\ PhaseInv
  BY <1>2, <1>3 DEF EndsInv, PhaseInv
<1>12. BudgetKept
  BY <1>2, <1>3, <1>6 DEF BudgetKept
<1> QED
  BY <1>2, <1>3, <1>9, <1>10, <1>11, <1>12 DEF DecoderInv, C!CursorInit

(* A stack has a frame for every payload and perhaps more.                  *)
LEMMA StackShape ==
  ASSUME DecoderInv
  PROVE  /\ Len(stack) \in Nat /\ Len(stack) > 0 /\ Len(ends) \in Nat /\ Len(ends) > 0
         /\ Len(skip) \in Nat /\ len \in Nat /\ ends[Len(ends)] \in Nat
         /\ FrameOK(Frame) /\ EffectiveDepth \in Nat
         /\ Frame.group => Len(stack) > 1
         /\ Frame = stack[Len(stack)] /\ Top = ends[Len(ends)]
<1>1. PICK S : stack \in Seq(S)
  BY DEF DecoderInv, StackInv, FramesOK
<1>2. /\ Len(stack) \in Nat /\ Len(stack) > 0 /\ Len(ends) \in Nat /\ Len(ends) > 0
      /\ Len(skip) \in Nat /\ ends \in Seq(Nat) /\ len \in Lens /\ maxDepth \in MaxDepths
  BY <1>1 DEF DecoderInv, StackInv, FramesOK, PlainTypes, EndsInv
<1>3. ends[Len(ends)] \in Nat /\ len \in Nat /\ EffectiveDepth \in Nat
  BY <1>2, DecoderAssumption DEF EffectiveDepth
<1>4. Frame = stack[Len(stack)] /\ Top = ends[Len(ends)]
  BY DEF Frame, Top, Last
<1>5. FrameOK(Frame)
  BY <1>2, <1>4 DEF DecoderInv, StackInv, FramesOK
<1>6. Frame.group => Len(stack) > 1
  BY <1>2, <1>4 DEF DecoderInv, StackInv, FramesOK
<1> QED
  BY <1>2, <1>3, <1>4, <1>5, <1>6

(* What comes next is a unit given for the main table.                      *)
LEMMA ComingUnit ==
  ASSUME DecoderInv, NEW u \in Coming
  PROVE  u \in UnitSet /\ u.num \in Nat /\ u.size \in Nat
<1>1. Main \in DOMAIN Units
  BY DEF DecoderInv, StackInv, FramesOK, Main
<1>2. pos \in Nat /\ Len(input) = pos
  BY DEF DecoderInv, PlainTypes, InputInv
<1>3. u \in Units[Main]
  BY <1>2 DEF Coming
<1> QED
  BY <1>1, <1>3, UnitsAssumption DEF UnitSet

(* A decode that fails leaves everything but the error flag as it is.       *)
LEMMA FailStep ==
  ASSUME DecoderInv, NEW e \in {"malformed", "depth", "utf8"}, Fail(e),
         phase \in {"field", "end"}, spoiled' \in BOOLEAN, spoiled => spoiled'
  PROVE  DecoderInv' /\ C!CursorNext
<1>1. /\ phase' = "failed" /\ error' = e
      /\ UNCHANGED <<maxDepth, input, len, pos, ends, stack, skip, start>>
  BY DEF Fail
<1>2. PlainTypes'
  BY <1>1 DEF DecoderInv, PlainTypes
<1>3. InputInv' /\ StackInv' /\ BudgetKept' /\ PhaseInv'
  BY <1>1 DEF DecoderInv, InputInv, StackInv, BudgetKept, EffectiveDepth, PhaseInv
<1>4. EndsInv'
  BY <1>1 DEF DecoderInv, EndsInv
<1>5. spoiled \in BOOLEAN
  BY DEF DecoderInv, PlainTypes
<1>6. C!Fail
  <2>1. spoiled' \in {spoiled, TRUE}
    BY <1>5
  <2> QED
    BY <1>1, <2>1 DEF C!Fail
<1> QED
  BY <1>2, <1>3, <1>4, <1>6 DEF DecoderInv, C!CursorNext

LEMMA JoinedLength ==
  ASSUME NEW S, NEW a \in Seq(S), NEW b \in Seq(S)
  PROVE  a \o b \in Seq(S) /\ Len(a \o b) = Len(a) + Len(b)
OBVIOUS

(* A unit is read with its payload: the input grows by them.                *)
LEMMA Consumed ==
  ASSUME DecoderInv, phase = "field", NEW u \in UnitSet, NEW size \in Nat, Consume(u, size),
         skip' \in Seq(Nat), start' \in Nat, ends' \in Seq(Nat), spoiled' \in BOOLEAN
  PROVE  PlainTypes' /\ InputInv' /\ pos' = pos + 1 + size /\ pos' > pos
<1>1. /\ pos' = pos + 1 + size
      /\ input' = IF pos < Len(input) THEN input ELSE input \o <<u>> \o Payloads(size)
      /\ phase' = "boundary" /\ UNCHANGED <<maxDepth, len, error>>
  BY DEF Consume
<1>2. pos \in Nat /\ Len(input) = pos /\ input \in Seq(UnitSet)
  BY DEF DecoderInv, PlainTypes, InputInv
<1>3. pos' \in Nat /\ pos' > pos
  BY <1>1, <1>2
<1>4. Payloads(size) \in Seq(UnitSet) /\ Len(Payloads(size)) = size
  BY DEF Payloads, UnitSet
<1>5. /\ input \o <<u>> \in Seq(UnitSet) /\ Len(input \o <<u>>) = pos + 1
  BY <1>2
<1>6. input' = (input \o <<u>>) \o Payloads(size)
  BY <1>1, <1>2
<1>7. input' \in Seq(UnitSet) /\ Len(input') = pos + 1 + size
  <2> DEFINE a == input \o <<u>>
             b == Payloads(size)
  <2>1. a \in Seq(UnitSet) /\ b \in Seq(UnitSet) /\ Len(a) = pos + 1 /\ Len(b) = size
    BY <1>4, <1>5
  <2> HIDE DEF a, b
  <2>2. a \o b \in Seq(UnitSet) /\ Len(a \o b) = Len(a) + Len(b)
    BY <2>1, JoinedLength
  <2>3. input' = a \o b
    BY <1>6 DEF a, b
  <2> QED
    BY <2>1, <2>2, <2>3
<1>8. InputInv'
  BY <1>1, <1>7 DEF InputInv
<1>9. PlainTypes'
  BY <1>1, <1>3 DEF DecoderInv, PlainTypes
<1> QED
  BY <1>1, <1>3, <1>8, <1>9

(* A field that is read, a group that is entered or left, a field that is   *)
(* skipped: no end is moved.                                                *)
LEMMA FieldStep ==
  ASSUME DecoderInv, phase = "field", NEW u \in UnitSet, NEW size \in Nat,
         Consume(u, size), skip' \in Seq(Nat), start' \in Nat,
         UNCHANGED <<ends, spoiled>>, ~spoiled => pos + 1 + size <= len,
         StackInv', BudgetKept'
  PROVE  DecoderInv' /\ C!CursorNext
<1>1. ends \in Seq(Nat) /\ spoiled \in BOOLEAN
  BY DEF DecoderInv, PlainTypes
<1>2. PlainTypes' /\ InputInv' /\ pos' = pos + 1 + size /\ pos' > pos
  BY <1>1, Consumed
<1>3. phase' = "boundary" /\ len' = len
  BY DEF Consume
<1>4. EndsInv' /\ PhaseInv'
  BY <1>2, <1>3 DEF DecoderInv, EndsInv, PhaseInv
<1>5. C!Field
  BY <1>2, <1>3 DEF C!Field
<1> QED
  BY <1>2, <1>4, <1>5 DEF DecoderInv, C!CursorNext

(* The budget of a step that adds no level.                                 *)
LEMMA BudgetStep ==
  ASSUME DecoderInv, maxDepth' = maxDepth, Len(stack') \in Nat, Len(skip') \in Nat,
         Len(stack') + Len(skip') <= Len(stack) + Len(skip)
  PROVE  BudgetKept'
BY StackShape DEF DecoderInv, BudgetKept, EffectiveDepth

(* A step that changes the top message only.                                *)
LEMMA MessageStep ==
  ASSUME DecoderInv, NEW m, WithMsg(m), ends' = ends, maxDepth' = maxDepth,
         Len(skip') \in Nat, Len(skip') <= Len(skip)
  PROVE  StackInv' /\ BudgetKept'
<1>1. stack' = [stack EXCEPT ![Len(stack)].msg = m]
  BY DEF WithMsg
<1>2. FramesOK(stack)
  BY DEF DecoderInv, StackInv
<1>3. FramesOK(stack') /\ Len(stack') = Len(stack) /\ PayloadFrames(stack') = PayloadFrames(stack)
  BY <1>1, <1>2, TopChanged
<1>4. StackInv'
  BY <1>3 DEF DecoderInv, StackInv
<1>5. BudgetKept'
  BY <1>3, StackShape, BudgetStep
<1> QED
  BY <1>4, <1>5

-----------------------------------------------------------------------------
(* The steps *)

LEMMA IsDoneStep ==
  ASSUME DecoderInv, IsDone
  PROVE  DecoderInv' /\ C!CursorNext
<1>1. /\ phase = "boundary"
      /\ phase' = CASE pos < Top -> "field"
                    [] pos = Top /\ ~spoiled -> "end"
                    [] OTHER -> "failed"
      /\ spoiled' = (spoiled \/ pos > Top)
      /\ error' = IF phase' = "failed" THEN "malformed" ELSE error
      /\ UNCHANGED <<maxDepth, input, len, pos, ends, stack, skip, start>>
  BY DEF IsDone
<1>2. Top = ends[Len(ends)] /\ Top \in Nat /\ pos \in Nat /\ spoiled \in BOOLEAN
  BY StackShape DEF DecoderInv, PlainTypes
<1>3. error = "none"
  BY <1>1 DEF DecoderInv, PlainTypes
<1>4. spoiled' \in BOOLEAN /\ (spoiled => spoiled')
  BY <1>1, <1>2
<1>5. /\ phase' \in {"field", "end", "failed"}
      /\ phase' = "end" => pos = Top /\ ~spoiled
  BY <1>1, <1>2
<1>6. phase' = "end" => ~spoiled'
  BY <1>1, <1>2, <1>5
<1>7. PlainTypes'
  BY <1>1, <1>3, <1>4, <1>5 DEF DecoderInv, PlainTypes
<1>8. InputInv' /\ StackInv' /\ BudgetKept'
  BY <1>1 DEF DecoderInv, InputInv, StackInv, BudgetKept, EffectiveDepth
<1>9. EndsInv'
  BY <1>1, <1>4 DEF DecoderInv, EndsInv
<1>10. PhaseInv'
  BY <1>1, <1>2, <1>5, <1>6 DEF DecoderInv, PhaseInv
<1>11. C!Check
  BY <1>1, <1>2 DEF C!Check, C!Top
<1> QED
  BY <1>7, <1>8, <1>9, <1>10, <1>11 DEF DecoderInv, C!CursorNext

LEMMA MalformedStep ==
  ASSUME DecoderInv, Malformed
  PROVE  DecoderInv' /\ C!CursorNext
<1>1. phase = "field" /\ Fail("malformed") /\ spoiled' = spoiled /\ spoiled \in BOOLEAN
  BY DEF Malformed, DecoderInv, PlainTypes
<1> QED
  BY <1>1, FailStep

(* What the guard of a field says, with the payload within the input.       *)
LEMMA AtFieldFits ==
  ASSUME DecoderInv, AtField, NEW u \in Coming
  PROVE  /\ phase = "field" /\ skip = << >> /\ Len(skip) = 0 /\ pos + 1 <= len
         /\ pos \in Nat /\ u \in UnitSet /\ u.size \in Nat /\ u.num \in Nat
         /\ Fits(u) => pos + 1 + u.size <= len
<1>1. phase = "field" /\ skip = << >> /\ pos < len
  BY DEF AtField
<1>2. pos \in Nat /\ len \in Nat
  BY StackShape DEF DecoderInv, PlainTypes
<1>3. u \in UnitSet /\ u.size \in Nat /\ u.num \in Nat
  BY ComingUnit
<1> QED
  BY <1>1, <1>2, <1>3 DEF Fits

(* A field that only changes the message at hand.                           *)
LEMMA ValueStep ==
  ASSUME DecoderInv, AtField, NEW u \in Coming, NEW size \in Nat, NEW m,
         WithMsg(m), Consume(u, size), UNCHANGED <<ends, spoiled, skip, start>>,
         pos + 1 + size <= len
  PROVE  DecoderInv' /\ C!CursorNext
<1>1. phase = "field" /\ u \in UnitSet /\ Len(skip) = 0
  BY AtFieldFits
<1>2. skip' \in Seq(Nat) /\ start' \in Nat /\ Len(skip') <= Len(skip) /\ Len(skip') \in Nat
  BY <1>1 DEF DecoderInv, PlainTypes
<1>3. maxDepth' = maxDepth /\ ends' = ends
  BY DEF Consume
<1>4. StackInv' /\ BudgetKept'
  BY <1>2, <1>3, MessageStep
<1> QED
  BY <1>1, <1>2, <1>4, FieldStep

LEMMA ScalarStep ==
  ASSUME DecoderInv, NEW u \in Coming, Scalar(u)
  PROVE  DecoderInv' /\ C!CursorNext
<1>1. AtField /\ Consume(u, 0) /\ UNCHANGED <<ends, spoiled, skip, start>>
  BY DEF Scalar
<1>2. \E m : WithMsg(m)
  BY DEF Scalar
<1>3. pos + 1 + 0 <= len
  BY <1>1, AtFieldFits
<1> QED
  BY <1>1, <1>2, <1>3, ValueStep

LEMMA StringStep ==
  ASSUME DecoderInv, NEW u \in Coming, String(u)
  PROVE  DecoderInv' /\ C!CursorNext
<1>1. AtField /\ spoiled' = spoiled /\ spoiled \in BOOLEAN
  BY DEF String, DecoderInv, PlainTypes
<1>2. phase = "field" /\ u.size \in Nat /\ (Fits(u) => pos + 1 + u.size <= len)
  BY <1>1, AtFieldFits
<1>3. CASE Fail("malformed") \/ Fail("utf8")
  BY <1>1, <1>2, <1>3, FailStep
<1>4. CASE /\ Fits(u) /\ Consume(u, u.size) /\ UNCHANGED <<ends, skip, start>>
           /\ \E m : WithMsg(m)
  BY <1>1, <1>2, <1>4, ValueStep
<1> QED
  BY <1>3, <1>4 DEF String

LEMMA PackedStep ==
  ASSUME DecoderInv, NEW u \in Coming, Packed(u)
  PROVE  DecoderInv' /\ C!CursorNext
<1>1. AtField /\ spoiled' = spoiled /\ spoiled \in BOOLEAN
  BY DEF Packed, DecoderInv, PlainTypes
<1>2. phase = "field" /\ u.size \in Nat /\ (Fits(u) => pos + 1 + u.size <= len)
  BY <1>1, AtFieldFits
<1>3. CASE Fail("malformed")
  BY <1>1, <1>2, <1>3, FailStep
<1>4. CASE /\ Fits(u) /\ Consume(u, u.size) /\ UNCHANGED <<ends, skip, start>>
           /\ \E m : WithMsg(m)
  BY <1>1, <1>2, <1>4, ValueStep
<1> QED
  BY <1>3, <1>4 DEF Packed

LEMMA UnknownStep ==
  ASSUME DecoderInv, NEW u \in Coming, Unknown(u)
  PROVE  DecoderInv' /\ C!CursorNext
<1>1. AtField /\ spoiled' = spoiled /\ spoiled \in BOOLEAN
  BY DEF Unknown, DecoderInv, PlainTypes
<1>2. phase = "field" /\ u.size \in Nat /\ (Fits(u) => pos + 1 + u.size <= len)
  BY <1>1, AtFieldFits
<1>3. CASE Fail("malformed")
  BY <1>1, <1>2, <1>3, FailStep
<1>4. CASE /\ Fits(u) /\ Consume(u, u.size) /\ UNCHANGED <<ends, skip, start>>
           /\ \E m : WithMsg(m)
  BY <1>1, <1>2, <1>4, ValueStep
<1> QED
  BY <1>3, <1>4 DEF Unknown

(* A call that is entered has a frame for the field's table.                *)
LEMMA Descended ==
  ASSUME DecoderInv, NEW f, f.sub \in DOMAIN Tables,
         NEW kind \in {"sub", "element", "entry"}, NEW group \in BOOLEAN,
         Descend(f, kind, group)
  PROVE  /\ FramesOK(stack') /\ Len(stack') = Len(stack) + 1
         /\ Cardinality(PayloadFrames(stack')) = Len(ends) + IF group THEN 0 ELSE 1
<1>2. \E m, child : stack' = Append([stack EXCEPT ![Len(stack)].msg = m],
                                    NewFrame(f.sub, child, kind, f.num, group))
  BY DEF Descend
<1>3. PICK m, child : stack' = Append([stack EXCEPT ![Len(stack)].msg = m],
                                      NewFrame(f.sub, child, kind, f.num, group))
  BY <1>2
<1> DEFINE low == [stack EXCEPT ![Len(stack)].msg = m]
           g == NewFrame(f.sub, child, kind, f.num, group)
<1>4. FrameOK(g) /\ g.kind # "root" /\ g.group = group
  BY DEF FrameOK, NewFrame, KindsOfFrame
<1>5. FramesOK(stack) /\ Cardinality(PayloadFrames(stack)) = Len(ends)
  BY DEF DecoderInv, StackInv
<1>6. FramesOK(low) /\ Len(low) = Len(stack) /\ PayloadFrames(low) = PayloadFrames(stack)
  BY <1>5, TopChanged
<1> HIDE DEF low, g
<1>7. stack' = Append(low, g)
  BY <1>3 DEF low, g
<1> QED
  BY <1>4, <1>5, <1>6, <1>7, FramePushed

LEMMA OpenPayloadStep ==
  ASSUME DecoderInv, NEW u \in Coming, OpenPayload(u)
  PROVE  DecoderInv' /\ C!CursorNext
<1> DEFINE end == pos + 1 + u.size
<1>1. /\ AtField /\ Op(Frame.table, u) \in {"submessage", "map"}
      /\ spoiled' = (spoiled \/ Overflows(end))
  BY DEF OpenPayload
<1>2. /\ phase = "field" /\ skip = << >> /\ Len(skip) = 0 /\ pos + 1 <= len
      /\ pos \in Nat /\ u \in UnitSet /\ u.size \in Nat
  BY <1>1, AtFieldFits
<1>3. /\ Top = ends[Len(ends)] /\ Top \in Nat /\ ends \in Seq(Nat) /\ Len(ends) \in Nat
      /\ Len(ends) > 0 /\ len \in Nat /\ end \in Nat /\ Len(stack) \in Nat
      /\ EffectiveDepth \in Nat
  BY <1>2, StackShape DEF DecoderInv, PlainTypes
<1>4. /\ spoiled \in BOOLEAN /\ spoiled' \in BOOLEAN /\ (spoiled => spoiled')
      /\ spoiled' = (spoiled \/ end > Top)
  BY <1>1 DEF DecoderInv, PlainTypes, Overflows
<1>5. CASE Fail("depth")
  BY <1>2, <1>4, <1>5, FailStep
<1>6. CASE /\ Depth - 1 >= 0
           /\ LET f == FieldOf(Frame.table, u.num) IN Descend(f, KindOf(f), FALSE)
           /\ ends' = Append(ends, end)
           /\ Consume(u, 0) /\ UNCHANGED <<skip, start>>
  <2>1. \A f : KindOf(f) \in {"sub", "element", "entry"}
    BY DEF KindOf
  <2>2. /\ FramesOK(stack') /\ Len(stack') = Len(stack) + 1
        /\ Cardinality(PayloadFrames(stack')) = Len(ends) + 1
    <3> DEFINE f == FieldOf(Frame.table, u.num)
    <3>1. Descend(f, KindOf(f), FALSE)
      BY <1>6
    <3>2. f.sub \in DOMAIN Tables
      BY <1>1, StackShape, SubIsTable DEF FrameOK
    <3> HIDE DEF f
    <3>3. Cardinality(PayloadFrames(stack')) = Len(ends) + IF FALSE THEN 0 ELSE 1
      BY <2>1, <3>1, <3>2, Descended
    <3>4. FramesOK(stack') /\ Len(stack') = Len(stack) + 1
      BY <2>1, <3>1, <3>2, Descended
    <3> QED
      BY <3>3, <3>4
  <2>3. /\ ends' \in Seq(Nat) /\ Len(ends') = Len(ends) + 1 /\ ends'[Len(ends')] = end
        /\ \A k \in 1 .. Len(ends) : ends'[k] = ends[k]
    BY <1>3, <1>6
  <2>4. PlainTypes' /\ InputInv' /\ pos' = pos + 1 + 0 /\ pos' > pos
    <3>1. skip' \in Seq(Nat) /\ start' \in Nat
      BY <1>6 DEF DecoderInv, PlainTypes
    <3> QED
      BY <1>2, <1>4, <1>6, <2>3, <3>1, Consumed
  <2>5. phase' = "boundary" /\ len' = len /\ maxDepth' = maxDepth
    BY <1>6 DEF Consume
  <2>6. StackInv'
    BY <2>2, <2>3 DEF StackInv
  <2>7. EndsInv'
    <3>1. ends'[1] = len' /\ Len(ends') > 0
      BY <1>3, <2>3, <2>5 DEF DecoderInv, EndsInv
    <3>2. ASSUME ~spoiled' PROVE pos' <= len' /\ \A k \in 1 .. Len(ends') : ends'[k] <= len'
      <4>1. ~spoiled /\ end <= Top
        <5>1. ~spoiled /\ ~(end > Top)
          BY <1>4, <3>2, Zenon
        <5> QED
          BY <1>3, <5>1
      <4>2. \A k \in 1 .. Len(ends) : ends[k] <= len
        BY <4>1 DEF DecoderInv, EndsInv
      <4>3. end <= len
        BY <1>3, <4>1, <4>2
      <4>4. \A k \in 1 .. Len(ends') : k \in 1 .. Len(ends) \/ k = Len(ends')
        BY <1>3, <2>3
      <4> QED
        BY <1>2, <2>3, <2>4, <2>5, <4>2, <4>3, <4>4
    <3> QED
      BY <3>1, <3>2 DEF EndsInv
  <2>8. PhaseInv'
    BY <2>5 DEF PhaseInv
  <2>9. BudgetKept'
    <3>1. EffectiveDepth' = EffectiveDepth /\ skip' = skip
      BY <1>6, <2>5 DEF EffectiveDepth
    <3>2. EffectiveDepth - (Len(stack) - 1) - 1 >= 0
      BY <1>6 DEF Depth
    <3> QED
      BY <1>2, <1>3, <2>2, <3>1, <3>2 DEF BudgetKept
  <2>10. C!Descend
    <3>1. SubSeq(ends', 1, Len(ends)) = ends
      BY <1>3, <1>6
    <3>2. spoiled' = (spoiled \/ ends'[Len(ends')] > C!Top)
      BY <1>3, <1>4, <2>3 DEF C!Top
    <3>3. ends'[Len(ends')] >= pos'
      BY <1>2, <2>3, <2>4
    <3> QED
      BY <1>2, <2>3, <2>4, <2>5, <3>1, <3>2, <3>3 DEF C!Descend
  <2> QED
    BY <2>4, <2>6, <2>7, <2>8, <2>9, <2>10 DEF DecoderInv, C!CursorNext
<1> QED
  BY <1>5, <1>6 DEF OpenPayload

LEMMA OpenGroupStep ==
  ASSUME DecoderInv, NEW u \in Coming, OpenGroup(u)
  PROVE  DecoderInv' /\ C!CursorNext
<1>1. /\ AtField /\ Op(Frame.table, u) = "group" /\ spoiled' = spoiled
      /\ spoiled \in BOOLEAN
  BY DEF OpenGroup, DecoderInv, PlainTypes
<1>2. /\ phase = "field" /\ skip = << >> /\ Len(skip) = 0 /\ pos + 1 <= len
      /\ pos \in Nat /\ u \in UnitSet
  BY <1>1, AtFieldFits
<1>3. CASE Fail("depth")
  BY <1>1, <1>2, <1>3, FailStep
<1>4. CASE /\ Depth - 1 >= 0
           /\ LET f == FieldOf(Frame.table, u.num) IN Descend(f, KindOf(f), TRUE)
           /\ Consume(u, 0) /\ UNCHANGED <<ends, skip, start>>
  <2>1. \A f : KindOf(f) \in {"sub", "element", "entry"}
    BY DEF KindOf
  <2>2. /\ FramesOK(stack') /\ Len(stack') = Len(stack) + 1
        /\ Cardinality(PayloadFrames(stack')) = Len(ends) + 0
    <3> DEFINE f == FieldOf(Frame.table, u.num)
    <3>1. Descend(f, KindOf(f), TRUE)
      BY <1>4
    <3>2. f.sub \in DOMAIN Tables
      BY <1>1, StackShape, SubIsTable DEF FrameOK
    <3> HIDE DEF f
    <3>3. Cardinality(PayloadFrames(stack')) = Len(ends) + IF TRUE THEN 0 ELSE 1
      BY <2>1, <3>1, <3>2, Descended
    <3>4. FramesOK(stack') /\ Len(stack') = Len(stack) + 1
      BY <2>1, <3>1, <3>2, Descended
    <3> QED
      BY <3>3, <3>4
  <2>3. Len(ends) \in Nat /\ Len(stack) \in Nat /\ EffectiveDepth \in Nat
    BY StackShape
  <2>4. StackInv'
    BY <1>4, <2>2, <2>3 DEF StackInv
  <2>5. BudgetKept'
    <3>1. EffectiveDepth' = EffectiveDepth /\ skip' = skip
      BY <1>4 DEF EffectiveDepth, Consume
    <3>2. EffectiveDepth - (Len(stack) - 1) - 1 >= 0
      BY <1>4 DEF Depth
    <3> QED
      BY <1>2, <2>2, <2>3, <3>1, <3>2 DEF BudgetKept
  <2>6. skip' \in Seq(Nat) /\ start' \in Nat
    BY <1>4 DEF DecoderInv, PlainTypes
  <2>7. pos + 1 + 0 <= len /\ 0 \in Nat
    BY <1>2
  <2> QED
    BY <1>1, <1>2, <1>4, <2>4, <2>5, <2>6, <2>7, FieldStep
<1> QED
  BY <1>3, <1>4 DEF OpenGroup

(* A call that returns leaves its caller's frame on top.                    *)
LEMMA Popped ==
  ASSUME DecoderInv, Len(stack) > 1, Pop
  PROVE  /\ FramesOK(stack') /\ Len(stack') = Len(stack) - 1
         /\ Cardinality(PayloadFrames(stack')) = Len(ends) - IF Frame.group THEN 0 ELSE 1
<1>1. \E m : stack' = Append(SubSeq(stack, 1, Len(stack) - 2),
                             [stack[Len(stack) - 1] EXCEPT !.msg = m])
  BY DEF Pop
<1>2. FramesOK(stack) /\ Cardinality(PayloadFrames(stack)) = Len(ends)
  BY DEF DecoderInv, StackInv
<1>3. Frame = stack[Len(stack)]
  BY StackShape
<1> QED
  BY <1>1, <1>2, <1>3, FramePopped

(* Above the root, a payload that ends is not the only one.                 *)
LEMMA InnerPayload ==
  ASSUME DecoderInv, Len(stack) > 1, ~Frame.group
  PROVE  Len(ends) > 1
<1> DEFINE n == Len(stack)
<1>1. n \in Nat /\ n > 1 /\ ~stack[n].group /\ ~stack[1].group
  BY StackShape DEF DecoderInv, StackInv, FramesOK
<1>2. {1} \cup {n} \in SUBSET PayloadFrames(stack)
  BY <1>1 DEF PayloadFrames
<1>3. IsFiniteSet({1}) /\ Cardinality({1}) = 1 /\ n \notin {1}
  <2>1. IsFiniteSet({1}) /\ Cardinality({1}) = 1
    BY FS_Singleton
  <2>2. n \notin {1}
    BY <1>1
  <2> QED
    BY <2>1, <2>2
<1>4. Cardinality({1} \cup {n}) = Cardinality({1}) + 1
  BY <1>3, FS_AddElement
<1>5. Cardinality({1} \cup {n}) = 1 + 1
  BY <1>3, <1>4, Zenon
<1>6. IsFiniteSet(PayloadFrames(stack)) /\ Cardinality(PayloadFrames(stack)) \in Nat
  BY <1>1, PayloadsFinite
<1>7. Cardinality({1} \cup {n}) <= Cardinality(PayloadFrames(stack))
  BY <1>2, <1>6, FS_Subset
<1>8. 1 + 1 <= Cardinality(PayloadFrames(stack))
  BY <1>5, <1>7, Zenon
<1> QED
  BY <1>6, <1>8 DEF DecoderInv, StackInv

LEMMA ClosePayloadStep ==
  ASSUME DecoderInv, ClosePayload
  PROVE  DecoderInv' /\ C!CursorNext
<1>1. /\ phase = "end" /\ skip = << >> /\ ~Frame.group /\ Len(stack) > 1
      /\ spoiled' = spoiled /\ spoiled \in BOOLEAN
  BY DEF ClosePayload, DecoderInv, PlainTypes
<1>2. CASE Fail("depth")
  BY <1>1, <1>2, FailStep
<1>3. CASE /\ Pop /\ ends' = Front(ends) /\ phase' = "boundary"
           /\ UNCHANGED <<maxDepth, input, len, pos, skip, start, error>>
  <2>1. /\ FramesOK(stack') /\ Len(stack') = Len(stack) - 1
        /\ Cardinality(PayloadFrames(stack')) = Len(ends) - 1
    BY <1>1, <1>3, Popped
  <2>2. Len(ends) \in Nat /\ Len(ends) > 1 /\ ends \in Seq(Nat) /\ Len(stack) \in Nat
    BY <1>1, StackShape, InnerPayload DEF DecoderInv, PlainTypes
  <2>3. ends' = SubSeq(ends, 1, Len(ends) - 1)
    BY <1>3 DEF Front
  <2>4. /\ ends' \in Seq(Nat) /\ Len(ends') = Len(ends) - 1
        /\ \A k \in 1 .. Len(ends) - 1 : ends'[k] = ends[k]
    <3> DEFINE k == Len(ends) - 1
    <3>1. k \in 0 .. Len(ends)
      BY <2>2
    <3> HIDE DEF k
    <3>2. SubSeq(ends, 1, k) \in Seq(Nat) /\ Len(SubSeq(ends, 1, k)) = k
      BY <2>2, <3>1
    <3>3. \A j \in 1 .. k : SubSeq(ends, 1, k)[j] = ends[j]
      BY <2>2, <3>1
    <3> QED
      BY <2>3, <3>2, <3>3 DEF k
  <2>5. StackInv'
    BY <2>1, <2>4 DEF StackInv
  <2>6. PlainTypes'
    BY <1>1, <1>3, <2>4 DEF DecoderInv, PlainTypes
  <2>7. InputInv' /\ PhaseInv'
    BY <1>3 DEF DecoderInv, InputInv, PhaseInv
  <2>8. EndsInv'
    <3>1. Len(ends') > 0 /\ ends'[1] = len'
      BY <1>3, <2>2, <2>4 DEF DecoderInv, EndsInv
    <3>2. \A k \in 1 .. Len(ends') : k \in 1 .. Len(ends) /\ k \in 1 .. Len(ends) - 1
      BY <2>2, <2>4
    <3>3. ~spoiled' => pos' <= len' /\ \A k \in 1 .. Len(ends') : ends'[k] <= len'
      BY <1>1, <1>3, <2>4, <3>2 DEF DecoderInv, EndsInv
    <3> QED
      BY <3>1, <3>3 DEF EndsInv
  <2>9. BudgetKept'
    <3>1. Len(skip') = Len(skip) /\ Len(skip) \in Nat
      BY <1>3, StackShape
    <3>2. Len(stack') \in Nat /\ Len(stack') + Len(skip') <= Len(stack) + Len(skip)
      BY <1>1, <2>1, <2>2, <3>1
    <3> QED
      BY <1>3, <3>1, <3>2, BudgetStep
  <2>10. C!Ascend
    BY <1>1, <1>3, <2>2, <2>3 DEF C!Ascend
  <2> QED
    BY <2>5, <2>6, <2>7, <2>8, <2>9, <2>10 DEF DecoderInv, C!CursorNext
<1> QED
  BY <1>2, <1>3 DEF ClosePayload

LEMMA CloseGroupStep ==
  ASSUME DecoderInv, NEW u \in Coming, CloseGroup(u)
  PROVE  DecoderInv' /\ C!CursorNext
<1>1. AtField /\ spoiled' = spoiled /\ spoiled \in BOOLEAN
  BY DEF CloseGroup, DecoderInv, PlainTypes
<1>2. /\ phase = "field" /\ skip = << >> /\ Len(skip) = 0 /\ pos + 1 <= len
      /\ pos \in Nat /\ u \in UnitSet
  BY <1>1, AtFieldFits
<1>3. CASE Fail("malformed")
  BY <1>1, <1>2, <1>3, FailStep
<1>4. CASE Closes(u) /\ Pop /\ Consume(u, 0) /\ UNCHANGED <<ends, skip, start>>
  <2>1. Frame.group /\ Len(stack) > 1 /\ Len(stack) \in Nat /\ Len(ends) \in Nat
    BY <1>4, StackShape DEF Closes
  <2>2. /\ FramesOK(stack') /\ Len(stack') = Len(stack) - 1
        /\ Cardinality(PayloadFrames(stack')) = Len(ends) - 0
    BY <1>4, <2>1, Popped
  <2>3. StackInv'
    BY <1>4, <2>1, <2>2 DEF StackInv
  <2>4. BudgetKept'
    <3>1. /\ Len(stack') \in Nat /\ Len(skip') \in Nat /\ maxDepth' = maxDepth
          /\ Len(stack') + Len(skip') <= Len(stack) + Len(skip)
      BY <1>2, <1>4, <2>1, <2>2 DEF Consume
    <3> QED
      BY <3>1, BudgetStep
  <2>5. skip' \in Seq(Nat) /\ start' \in Nat
    BY <1>4 DEF DecoderInv, PlainTypes
  <2>6. pos + 1 + 0 <= len /\ 0 \in Nat
    BY <1>2
  <2> QED
    BY <1>1, <1>2, <1>4, <2>3, <2>4, <2>5, <2>6, FieldStep
<1> QED
  BY <1>3, <1>4 DEF CloseGroup

LEMMA UnterminatedStep ==
  ASSUME DecoderInv, Unterminated
  PROVE  DecoderInv' /\ C!CursorNext
<1>1. phase = "end" /\ Fail("malformed") /\ spoiled' = spoiled /\ spoiled \in BOOLEAN
  BY DEF Unterminated, DecoderInv, PlainTypes
<1> QED
  BY <1>1, FailStep

(* The decode of the root returns at the input's own end.                   *)
LEMMA ReturnStep ==
  ASSUME DecoderInv, Return
  PROVE  DecoderInv' /\ C!CursorNext
<1>1. /\ phase = "end" /\ Len(stack) = 1 /\ phase' = "ok"
      /\ UNCHANGED <<maxDepth, input, len, pos, ends, spoiled, stack, skip, start, error>>
  BY DEF Return
<1>2. Len(ends) = 1
  <2>1. PayloadFrames(stack) = {1}
    BY <1>1 DEF DecoderInv, StackInv, FramesOK, PayloadFrames
  <2> QED
    BY <2>1, FS_Singleton DEF DecoderInv, StackInv
<1>3. PlainTypes'
  BY <1>1 DEF DecoderInv, PlainTypes
<1>4. InputInv' /\ StackInv' /\ BudgetKept'
  BY <1>1 DEF DecoderInv, InputInv, StackInv, BudgetKept, EffectiveDepth
<1>5. EndsInv' /\ PhaseInv'
  BY <1>1, <1>2 DEF DecoderInv, EndsInv, PhaseInv
<1>6. C!Finish
  BY <1>1, <1>2 DEF C!Finish
<1> QED
  BY <1>3, <1>4, <1>5, <1>6 DEF DecoderInv, C!CursorNext

(* A step within a skipped group, of which at most one is entered.          *)
LEMMA SkipGroupStep ==
  ASSUME DecoderInv, NEW u \in Coming, SkipGroup(u)
  PROVE  DecoderInv' /\ C!CursorNext
<1>1. /\ phase = "field" /\ pos < len /\ spoiled' = spoiled /\ spoiled \in BOOLEAN
  BY DEF SkipGroup, DecoderInv, PlainTypes
<1>2. u \in UnitSet /\ u.num \in Nat
  BY ComingUnit
<1>3. /\ pos \in Nat /\ len \in Nat /\ skip \in Seq(Nat) /\ start \in Nat
      /\ Len(stack) \in Nat /\ Len(skip) \in Nat /\ EffectiveDepth \in Nat
  BY StackShape DEF DecoderInv, PlainTypes
<1>4. CASE Fail("malformed")
  BY <1>1, <1>4, FailStep
<1>5. CASE /\ Depth - Len(skip) - 1 >= 0
           /\ skip' = Append(skip, u.num)
           /\ start' = IF skip = << >> THEN pos ELSE start
           /\ Consume(u, 0) /\ UNCHANGED <<ends, stack>>
  <2>1. skip' \in Seq(Nat) /\ Len(skip') = Len(skip) + 1 /\ start' \in Nat
    BY <1>2, <1>3, <1>5
  <2>2. StackInv'
    BY <1>5 DEF DecoderInv, StackInv
  <2>3. BudgetKept'
    <3>1. EffectiveDepth' = EffectiveDepth /\ stack' = stack
      BY <1>5 DEF EffectiveDepth, Consume
    <3>2. EffectiveDepth - (Len(stack) - 1) - Len(skip) - 1 >= 0
      BY <1>5 DEF Depth
    <3> QED
      BY <1>3, <2>1, <3>1, <3>2 DEF BudgetKept
  <2>4. pos + 1 + 0 <= len /\ 0 \in Nat
    BY <1>1, <1>3
  <2> QED
    BY <1>1, <1>2, <1>5, <2>1, <2>2, <2>3, <2>4, FieldStep
<1> QED
  BY <1>4, <1>5 DEF SkipGroup

LEMMA SkipFieldStep ==
  ASSUME DecoderInv, NEW u \in Coming, SkipField(u)
  PROVE  DecoderInv' /\ C!CursorNext
<1>1. phase = "field" /\ pos < len /\ spoiled \in BOOLEAN
  BY DEF SkipField, DecoderInv, PlainTypes
<1>2. u \in UnitSet /\ u.size \in Nat
  BY ComingUnit
<1>3. /\ pos \in Nat /\ len \in Nat /\ skip \in Seq(Nat) /\ start \in Nat
      /\ Top = ends[Len(ends)] /\ Top \in Nat /\ Len(ends) \in Nat /\ Len(ends) > 0
      /\ Len(stack) \in Nat /\ Len(skip) \in Nat
  BY StackShape DEF DecoderInv, PlainTypes
<1>4. CASE Fail("malformed") /\ spoiled' = TRUE
  BY <1>1, <1>4, FailStep
<1>5. CASE /\ u.size <= Top - (pos + 1)
           /\ Consume(u, u.size) /\ UNCHANGED <<ends, spoiled, stack, skip, start>>
  <2>1. ~spoiled => pos + 1 + u.size <= len
    <3>1. ~spoiled => Top <= len
      BY <1>3 DEF DecoderInv, EndsInv
    <3> QED
      BY <1>2, <1>3, <1>5, <3>1
  <2>2. StackInv'
    BY <1>5 DEF DecoderInv, StackInv
  <2>3. BudgetKept'
    BY <1>5 DEF DecoderInv, BudgetKept, EffectiveDepth, Consume
  <2>4. skip' \in Seq(Nat) /\ start' \in Nat
    BY <1>3, <1>5
  <2> QED
    BY <1>1, <1>2, <1>5, <2>1, <2>2, <2>3, <2>4, FieldStep
<1> QED
  BY <1>4, <1>5 DEF SkipField

LEMMA SkipEndStep ==
  ASSUME DecoderInv, NEW u \in Coming, SkipEnd(u)
  PROVE  DecoderInv' /\ C!CursorNext
<1>1. /\ phase = "field" /\ pos < len /\ skip # << >> /\ spoiled' = spoiled
      /\ spoiled \in BOOLEAN
  BY DEF SkipEnd, DecoderInv, PlainTypes
<1>2. u \in UnitSet
  BY ComingUnit
<1>3. /\ pos \in Nat /\ len \in Nat /\ skip \in Seq(Nat) /\ start \in Nat
      /\ Len(stack) \in Nat /\ Len(skip) \in Nat
  BY StackShape DEF DecoderInv, PlainTypes
<1>4. CASE Fail("malformed")
  BY <1>1, <1>4, FailStep
<1>5. CASE /\ skip' = Front(skip) /\ Consume(u, 0)
           /\ (\E m : WithMsg(m)) \/ stack' = stack
           /\ UNCHANGED <<ends, start>>
  <2>1. skip' \in Seq(Nat) /\ Len(skip') = Len(skip) - 1 /\ Len(skip') \in Nat
    <3>1. Len(skip) > 0 /\ skip' = SubSeq(skip, 1, Len(skip) - 1)
      BY <1>1, <1>3, <1>5 DEF Front
    <3> DEFINE k == Len(skip) - 1
    <3>2. k \in 0 .. Len(skip) /\ k \in Nat
      BY <1>3, <3>1
    <3> HIDE DEF k
    <3>3. SubSeq(skip, 1, k) \in Seq(Nat) /\ Len(SubSeq(skip, 1, k)) = k
      BY <1>3, <3>2
    <3> QED
      BY <3>1, <3>2, <3>3 DEF k
  <2>2. Len(skip') <= Len(skip)
    BY <1>3, <2>1
  <2>3. maxDepth' = maxDepth /\ ends' = ends /\ start' \in Nat
    BY <1>3, <1>5 DEF Consume
  <2>4. StackInv' /\ BudgetKept'
    <3>1. CASE \E m : WithMsg(m)
      BY <2>1, <2>2, <2>3, <3>1, MessageStep
    <3>2. CASE stack' = stack
      <4>1. StackInv'
        BY <2>3, <3>2 DEF DecoderInv, StackInv
      <4>2. Len(stack') \in Nat /\ Len(stack') + Len(skip') <= Len(stack) + Len(skip)
        BY <1>3, <2>1, <2>2, <3>2
      <4> QED
        BY <2>1, <2>3, <4>1, <4>2, BudgetStep
    <3> QED
      BY <1>5, <3>1, <3>2
  <2>5. pos + 1 + 0 <= len /\ 0 \in Nat
    BY <1>1, <1>3
  <2> QED
    BY <1>1, <1>2, <1>5, <2>1, <2>3, <2>4, <2>5, FieldStep
<1> QED
  BY <1>4, <1>5 DEF SkipEnd

(* Every step keeps the invariant and is a step of the cursor.              *)
LEMMA NextDecoder ==
  ASSUME DecoderInv, [Next]_vars
  PROVE  DecoderInv' /\ [C!CursorNext]_(C!cursorVars)
<1>1. CASE UNCHANGED vars
  <2>1. UNCHANGED <<maxDepth, input, len, pos, ends, spoiled, stack, skip, start, phase, error>>
    BY <1>1 DEF vars
  <2>2. UNCHANGED C!cursorVars
    BY <2>1 DEF C!cursorVars
  <2>3. PlainTypes' /\ InputInv' /\ StackInv'
    BY <2>1 DEF DecoderInv, PlainTypes, InputInv, StackInv
  <2>4. EndsInv' /\ PhaseInv' /\ BudgetKept'
    BY <2>1 DEF DecoderInv, EndsInv, PhaseInv, BudgetKept, EffectiveDepth
  <2> QED
    BY <2>2, <2>3, <2>4 DEF DecoderInv
<1>2. CASE IsDone \/ Malformed \/ ClosePayload \/ Unterminated \/ Return
  BY <1>2, IsDoneStep, MalformedStep, ClosePayloadStep, UnterminatedStep, ReturnStep
<1>3. ASSUME NEW u \in Coming, Scalar(u) \/ String(u) \/ Packed(u) \/ Unknown(u)
      PROVE  DecoderInv' /\ C!CursorNext
  BY <1>3, ScalarStep, StringStep, PackedStep, UnknownStep
<1>4. ASSUME NEW u \in Coming, OpenPayload(u) \/ OpenGroup(u) \/ CloseGroup(u)
      PROVE  DecoderInv' /\ C!CursorNext
  BY <1>4, OpenPayloadStep, OpenGroupStep, CloseGroupStep
<1>5. ASSUME NEW u \in Coming, SkipGroup(u) \/ SkipField(u) \/ SkipEnd(u)
      PROVE  DecoderInv' /\ C!CursorNext
  BY <1>5, SkipGroupStep, SkipFieldStep, SkipEndStep
<1> QED
  BY <1>1, <1>2, <1>3, <1>4, <1>5 DEF Next

LEMMA DecoderAlwaysInv == Spec => []DecoderInv
<1>1. Init => DecoderInv
  BY InitDecoder
<1>2. DecoderInv /\ [Next]_vars => DecoderInv'
  BY NextDecoder
<1> QED
  BY <1>1, <1>2, PTL DEF Spec

-----------------------------------------------------------------------------
(* The theorems *)

(* The decoder's state has its shape: frames of known tables, the root's at *)
(* the bottom only, an error exactly when the decode has failed.            *)
THEOREM DecoderTyped == Spec => []TypeOK
<1>1. DecoderInv => TypeOK
  <2> SUFFICES ASSUME DecoderInv PROVE TypeOK
    OBVIOUS
  <2>1. ends # << >>
    BY DEF DecoderInv, EndsInv
  <2>2. PICK S : stack \in Seq(S)
    BY DEF DecoderInv, StackInv, FramesOK
  <2>3. stack # << >> /\ DOMAIN stack = 1 .. Len(stack)
    BY <2>2 DEF DecoderInv, StackInv, FramesOK
  <2>4. \A i \in DOMAIN stack :
          /\ stack[i].table \in DOMAIN Tables /\ stack[i].group \in BOOLEAN
          /\ stack[i].kind \in KindsOfFrame /\ (stack[i].kind = "root" <=> i = 1)
    BY <2>3 DEF DecoderInv, StackInv, FramesOK, FrameOK
  <2> QED
    BY <2>1, <2>3, <2>4 DEF DecoderInv, PlainTypes, TypeOK
<1> QED
  BY <1>1, DecoderAlwaysInv, PTL

(* A decode that returns Ok has read exactly its input, and none reads      *)
(* beyond it before the stream's error is set.                              *)
THEOREM InputAlwaysRead == Spec => []InputRead
<1>1. DecoderInv => InputRead
  <2> SUFFICES ASSUME DecoderInv PROVE InputRead
    OBVIOUS
  <2>1. ~spoiled => pos <= len
    BY DEF DecoderInv, EndsInv
  <2>2. phase = "ok" => pos = len /\ Len(input) = len /\ ~spoiled
    BY DEF DecoderInv, EndsInv, PhaseInv, InputInv
  <2> QED
    BY <2>1, <2>2 DEF InputRead
<1> QED
  BY <1>1, DecoderAlwaysInv, PTL

(* Messages, entries, elements and groups, known or skipped, never nest     *)
(* deeper than the budget.                                                  *)
THEOREM BudgetAlwaysKept == Spec => []BudgetKept
<1>1. DecoderInv => BudgetKept
  BY DEF DecoderInv
<1> QED
  BY <1>1, DecoderAlwaysInv, PTL

(* The decode loop is a user of the cursor that the input stream has been   *)
(* shown to be: it enters a payload by push_limit and leaves it at its very *)
(* end, once for each payload, however groups lie between them, and returns *)
(* at the end of the input with no payload in progress.                     *)
THEOREM DecoderIsCursor == Spec => ImplementsCursor
<1>1. Init => C!CursorInit
  BY InitDecoder
<1>2. DecoderInv /\ [Next]_vars => [C!CursorNext]_(C!cursorVars)
  BY NextDecoder
<1> QED
  BY <1>1, <1>2, DecoderAlwaysInv, PTL DEF Spec, ImplementsCursor, C!CursorSpec
=============================================================================
