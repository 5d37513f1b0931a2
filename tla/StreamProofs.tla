---------------------------- MODULE StreamProofs ----------------------------
(* The window of the input stream shows the input, and Slop bytes can be    *)
(* read wherever a field begins, for all inputs, payloads, nestings and     *)
(* sizes of the slop.                                                       *)
EXTENDS EpsCopyStream, NumberProofs

(* The window reaches Slop bytes beyond its end, and the input no further.  *)
WindowInv ==
  /\ WindowIsInput
  /\ end + Slop <= Len(window)
  /\ len <= base + end + Slop

(* The ends of the payloads in progress, written down as they were pushed:  *)
(* an end is found again by adding the saved deltas to the current limit.   *)
EndsFrom(e) ==
  /\ e \in [1 .. Len(deltas) + 1 -> Int]
  /\ e[Len(deltas) + 1] = base + end + limit
  /\ \A k \in 1 .. Len(deltas) : e[k] = e[k + 1] + deltas[k]
  /\ e[1] = len
  /\ ~error => /\ \A k \in 1 .. Len(deltas) + 1 : e[k] <= len
               /\ \A k \in 1 .. Len(deltas) : e[k + 1] <= e[k]

LimitInv == \E e : EndsFrom(e)

(* Between is_done and the read that it allows. *)
FieldInv == phase = "field" /\ ~error => ptr + Slop <= Len(window)

StreamInv == WindowInv /\ LimitInv /\ FieldInv

-----------------------------------------------------------------------------
(* A function that steps down from the top by the saved deltas is the one   *)
(* that recursion defines.                                                  *)
LEMMA EndsAre ==
  ASSUME NEW ds \in Seq(Int), NEW top \in Int, NEW e \in [1 .. Len(ds) + 1 -> Int],
         e[Len(ds) + 1] = top, \A k \in 1 .. Len(ds) : e[k] = e[k + 1] + ds[k]
  PROVE  EndsOf(ds, top) = e
<1> DEFINE L == Len(ds)
           F(g) == [k \in 1 .. L + 1 |-> IF k = L + 1 THEN top ELSE g[k + 1] + ds[k]]
           f == CHOOSE g : g = F(g)
<1>0. L \in Nat
  OBVIOUS
<1>1. e = F(e)
  OBVIOUS
<1>2. f = F(f)
  BY <1>1
<1>3. EndsOf(ds, top) = f
  BY DEF EndsOf
<1> HIDE DEF f
<1>4. f = [k \in 1 .. L + 1 |-> IF k = L + 1 THEN top ELSE f[k + 1] + ds[k]]
  BY <1>2
<1> HIDE DEF F
<1>5. ASSUME NEW k \in 1 .. L + 1, f[k] # e[k] PROVE FALSE
  <2> DEFINE T == {d \in 0 .. L : f[(L + 1) - d] # e[(L + 1) - d]}
  <2>1. T \in SUBSET Nat /\ T # {}
    <3>0. \A d \in 0 .. L : d \in Nat
      BY <1>0
    <3>1. (L + 1) - k \in 0 .. L /\ (L + 1) - ((L + 1) - k) = k
      BY <1>0, <1>5
    <3>2. (L + 1) - k \in T
      BY <1>5, <3>1
    <3>3. T \in SUBSET Nat
      BY <3>0
    <3> QED BY <3>2, <3>3
  <2>2. PICK d \in T : \A y \in T : d <= y
    BY <2>1, LeastNat
  <2>3. d # 0
    BY <1>0, <1>4, <2>2
  <2>4. d - 1 \in 0 .. L /\ ~(d <= d - 1) /\ (L + 1) - d \in 1 .. L /\ (L + 1) - (d - 1) = ((L + 1) - d) + 1
    BY <1>0, <2>2, <2>3
  <2>5. f[(L + 1) - (d - 1)] = e[(L + 1) - (d - 1)]
    BY <2>2, <2>4
  <2>6. PICK j \in 1 .. L : j = (L + 1) - d /\ j + 1 = (L + 1) - (d - 1)
    BY <1>0, <2>2, <2>3
  <2>7. f[j + 1] = e[j + 1]
    BY <2>5, <2>6
  <2>8. j # L + 1 /\ j \in 1 .. L + 1
    BY <1>0
  <2>9. f[j] = f[j + 1] + ds[j]
    BY <1>4, <2>8
  <2>10. e[j] = e[j + 1] + ds[j]
    OBVIOUS
  <2> QED BY <2>2, <2>6, <2>7, <2>9, <2>10
<1>6. f = e
  BY <1>4, <1>5
<1> QED BY <1>3, <1>6

-----------------------------------------------------------------------------
(* A patch of n input positions is 2 * Slop long, with zeros behind them.   *)
LEMMA PatchShape ==
  ASSUME NEW S, NEW s \in Seq(S), Zero \in S, Len(s) <= 2 * Slop
  PROVE  /\ Patch(s) \in Seq(S)
         /\ Len(Patch(s)) = 2 * Slop
         /\ \A i \in 1 .. 2 * Slop :
              Patch(s)[i] = IF i <= Len(s) THEN s[i] ELSE Zero
<1> DEFINE zeros == [i \in 1 .. 2 * Slop - Len(s) |-> Zero]
<1>1. Slop \in Nat /\ Len(s) \in Nat
  BY StreamAssumption
<1>2. 2 * Slop - Len(s) \in Nat
  BY <1>1
<1>3. zeros \in Seq(S) /\ Len(zeros) = 2 * Slop - Len(s)
  BY <1>2
<1>4. \A i \in 1 .. 2 * Slop - Len(s) : zeros[i] = Zero
  OBVIOUS
<1> HIDE DEF zeros
<1>5. Patch(s) = s \o zeros
  BY DEF Patch, zeros
<1> QED
  BY <1>1, <1>3, <1>4, <1>5

(* The input itself, as a sequence of positions.                            *)
LEMMA InputShape ==
  ASSUME NEW n \in Nat
  PROVE  /\ [i \in 1 .. n |-> i - 1] \in Seq({Zero} \cup 0 .. n)
         /\ Len([i \in 1 .. n |-> i - 1]) = n
         /\ \A i \in 1 .. n : [k \in 1 .. n |-> k - 1][i] = i - 1
<1> DEFINE input == [i \in 1 .. n |-> i - 1]
<1>1. \A i \in 1 .. n : i - 1 \in 0 .. n
  OBVIOUS
<1>2. input \in [1 .. n -> {Zero} \cup 0 .. n]
  BY <1>1
<1>3. input \in Seq({Zero} \cup 0 .. n) /\ Len(input) = n
  BY <1>2
<1> QED
  BY <1>3

LEMMA InitStream == Init => StreamInv
<1> SUFFICES ASSUME Init PROVE StreamInv
  OBVIOUS
<1> DEFINE input == [i \in 1 .. len |-> i - 1]
           S == {Zero} \cup 0 .. len
<1>1. len \in Nat /\ len \in Lens /\ Slop \in Nat /\ Slop > 0
  BY StreamAssumption DEF Init
<1>2. input \in Seq(S) /\ Len(input) = len /\ \A i \in 1 .. len : input[i] = i - 1
  BY <1>1, InputShape
<1>3. base = 0 /\ ptr = 0 /\ error = FALSE /\ deltas = << >> /\ phase = "boundary"
  BY DEF Init
<1>4. /\ len <= Slop => window = Patch(input) /\ end = len /\ limit = 0
      /\ ~(len <= Slop) => window = input /\ end = len - Slop /\ limit = Slop
  BY DEF Init
<1> HIDE DEF input
<1>5. /\ window \in Seq(S) /\ Len(window) = (IF len <= Slop THEN 2 * Slop ELSE len)
      /\ \A i \in 1 .. Len(window) : window[i] = IF i <= len THEN i - 1 ELSE Zero
  <2>1. CASE len <= Slop
    <3>1. Zero \in S /\ Len(input) <= 2 * Slop
      BY <1>1, <1>2, <2>1
    <3> HIDE DEF S
    <3>2. /\ Patch(input) \in Seq(S) /\ Len(Patch(input)) = 2 * Slop
          /\ \A i \in 1 .. 2 * Slop :
               Patch(input)[i] = IF i <= Len(input) THEN input[i] ELSE Zero
      BY <1>2, <3>1, PatchShape
    <3>3. \A i \in 1 .. 2 * Slop : i <= len => i \in 1 .. len
      BY <1>1
    <3> QED
      BY <1>2, <1>4, <2>1, <3>2, <3>3
  <2>2. CASE ~(len <= Slop)
    BY <1>1, <1>2, <1>4, <2>2
  <2> QED
    BY <2>1, <2>2
<1>6. /\ end \in Nat /\ limit \in Int /\ base + end + limit = len
      /\ end + Slop <= Len(window) /\ len <= base + end + Slop
  BY <1>1, <1>3, <1>4, <1>5
<1>7. TypeOK
  <2>1. deltas \in Seq(Int)
    BY <1>3
  <2>2. phase \in {"boundary", "field", "end", "ok", "failed"}
    BY <1>3
  <2>3. base \in Nat /\ ptr \in Nat /\ error \in BOOLEAN
    BY <1>3
  <2> QED
    BY <1>1, <1>5, <1>6, <2>1, <2>2, <2>3, Zenon DEF TypeOK
<1>8. WindowIsInput
  <2> SUFFICES ASSUME NEW i \in 1 .. Len(window)
               PROVE  window[i] = IF base + (i - 1) < len THEN base + (i - 1) ELSE Zero
    BY <1>7 DEF WindowIsInput
  <2>1. i \in Nat /\ (base + (i - 1) < len <=> i <= len) /\ base + (i - 1) = i - 1
    BY <1>1, <1>3, <1>5
  <2> QED
    BY <1>5, <2>1
<1>9. EndsFrom(<<len>>)
  BY <1>1, <1>3, <1>6 DEF EndsFrom
<1> QED
  BY <1>3, <1>6, <1>8, <1>9 DEF StreamInv, WindowInv, LimitInv, FieldInv

-----------------------------------------------------------------------------
(* Most steps move within the window ...                                    *)
LEMMA WindowKept ==
  ASSUME WindowInv, len' = len, window' = window, end' = end, base' = base,
         ptr' \in Nat, limit' \in Int, error' \in BOOLEAN, deltas' \in Seq(Int),
         phase' \in {"boundary", "field", "end", "ok", "failed"}
  PROVE  WindowInv'
<1>1. TypeOK'
  BY Zenon DEF WindowInv, WindowIsInput, TypeOK
<1> QED
  BY <1>1, Zenon DEF WindowInv, WindowIsInput

(* ... and leave the ends of the payloads alone.                            *)
LEMMA LimitKept ==
  ASSUME LimitInv, len' = len, deltas' = deltas,
         base' + end' + limit' = base + end + limit, error => error'
  PROVE  LimitInv'
<1>1. PICK e : EndsFrom(e)
  BY DEF LimitInv
<1>2. ~error' => ~error
  OBVIOUS
<1>3. EndsFrom(e)'
  BY <1>1, <1>2 DEF EndsFrom
<1> QED
  BY <1>3 DEF LimitInv

(* Without an error the limit is at most Slop beyond the window's end,      *)
(* since the input ends there.                                              *)
LEMMA LimitWithinSlop ==
  ASSUME StreamInv, ~error
  PROVE  limit <= Slop
<1>1. PICK e : EndsFrom(e)
  BY DEF StreamInv, LimitInv
<1>2. /\ len \in Nat /\ end \in Nat /\ base \in Nat /\ limit \in Int /\ Slop \in Nat
      /\ deltas \in Seq(Int) /\ len <= base + end + Slop
  BY StreamAssumption DEF StreamInv, WindowInv, WindowIsInput, TypeOK
<1>3. e[Len(deltas) + 1] <= len
  BY <1>1, <1>2 DEF EndsFrom
<1>4. base + end + limit <= len
  BY <1>1, <1>3 DEF EndsFrom
<1> QED
  BY <1>2, <1>4

-----------------------------------------------------------------------------
(* is_done                                                                  *)

LEMMA NotDoneKeeps == StreamInv /\ NotDone => StreamInv'
<1> SUFFICES ASSUME StreamInv, NotDone PROVE StreamInv'
  OBVIOUS
<1>1. TypeOK /\ WindowInv /\ LimitInv /\ end + Slop <= Len(window)
  BY DEF StreamInv, WindowInv, WindowIsInput
<1>2. /\ ptr < LimitPtr /\ phase' = "field"
      /\ UNCHANGED <<len, window, end, limit, base, error, ptr, deltas>>
  BY DEF NotDone, streamVars
<1>3. WindowInv'
  BY <1>1, <1>2, WindowKept DEF TypeOK
<1>4. LimitInv'
  BY <1>1, <1>2, LimitKept
<1>5. ptr + Slop <= Len(window)
  BY <1>1, <1>2, StreamAssumption DEF LimitPtr, TypeOK
<1> QED
  BY <1>2, <1>3, <1>4, <1>5 DEF StreamInv, FieldInv

(* A step that stays in the window, keeps the limit and is not followed by  *)
(* a field.                                                                 *)
LEMMA MoveKeeps ==
  ASSUME StreamInv, UNCHANGED <<len, window, end, limit, base, deltas>>,
         ptr' \in Nat, error' \in BOOLEAN, error => error',
         phase' \in {"boundary", "end", "ok", "failed"}
  PROVE  StreamInv'
<1>1. TypeOK /\ WindowInv /\ LimitInv
  BY DEF StreamInv, WindowInv, WindowIsInput
<1>2. WindowInv'
  BY <1>1, WindowKept DEF TypeOK
<1>3. LimitInv'
  BY <1>1, LimitKept
<1> QED
  BY <1>2, <1>3 DEF StreamInv, FieldInv

LEMMA FallbackKeeps == StreamInv /\ Fallback => StreamInv'
<1> SUFFICES ASSUME StreamInv, Fallback PROVE StreamInv'
  OBVIOUS
<1> DEFINE s == SubSeq(window, end + 1, end + Slop)
           S == {Zero} \cup 0 .. len
<1>1. /\ len \in Lens /\ len \in Nat /\ end \in Nat /\ limit \in Int /\ base \in Nat
      /\ ptr \in Nat /\ Slop \in Nat /\ window \in Seq(S) /\ deltas \in Seq(Int)
      /\ error \in BOOLEAN
  BY StreamAssumption DEF StreamInv, WindowInv, WindowIsInput, TypeOK
<1>2. /\ end + Slop <= Len(window) /\ len <= base + end + Slop
      /\ \A i \in 1 .. Len(window) :
           window[i] = IF base + (i - 1) < len THEN base + (i - 1) ELSE Zero
  BY DEF StreamInv, WindowInv, WindowIsInput
<1>3. /\ phase = "boundary" /\ ptr >= LimitPtr /\ Overrun < limit
      /\ window' = Patch(s) /\ base' = NextBase /\ ptr' = Overrun
      /\ end' = Slop /\ limit' = limit - Slop /\ phase' = "field"
      /\ len' = len /\ error' = error /\ deltas' = deltas
  BY DEF Fallback
<1>4. ptr >= end /\ ptr' = ptr - end /\ ptr' \in Nat /\ base' = base + end /\ ptr' < limit
  BY <1>1, <1>3 DEF LimitPtr, Overrun, NextBase
<1>5. /\ s \in Seq(S) /\ Len(s) = Slop
      /\ \A i \in 1 .. Slop : s[i] = window[end + i]
  BY <1>1, <1>2
<1> HIDE DEF s
<1>6. Zero \in S /\ Len(s) <= 2 * Slop
  BY <1>1, <1>5
<1> HIDE DEF S
<1>7. /\ Patch(s) \in Seq(S) /\ Len(Patch(s)) = 2 * Slop
      /\ \A i \in 1 .. 2 * Slop : Patch(s)[i] = IF i <= Slop THEN s[i] ELSE Zero
  BY <1>5, <1>6, PatchShape
<1>8. TypeOK'
  <2>1. base' \in Nat /\ end' \in Nat /\ limit' \in Int
    BY <1>1, <1>3, <1>4
  <2>2. window' \in Seq({Zero} \cup 0 .. len')
    BY <1>3, <1>7 DEF S
  <2>3. phase' \in {"boundary", "field", "end", "ok", "failed"}
    BY <1>3
  <2> QED
    BY <1>1, <1>3, <1>4, <2>1, <2>2, <2>3, Zenon DEF TypeOK
<1>9. WindowIsInput'
  <2> SUFFICES ASSUME NEW i \in 1 .. 2 * Slop
               PROVE  Patch(s)[i] = IF base' + (i - 1) < len THEN base' + (i - 1) ELSE Zero
    BY <1>3, <1>7, <1>8 DEF WindowIsInput
  <2>1. CASE i <= Slop
    <3>1. i \in 1 .. Slop /\ end + i \in 1 .. Len(window)
      BY <1>1, <1>2, <2>1
    <3>2. Patch(s)[i] = window[end + i]
      BY <1>5, <1>7, <2>1, <3>1
    <3>3. base + ((end + i) - 1) = base' + (i - 1)
      BY <1>1, <1>4, <3>1
    <3>4. window[end + i] = IF base + ((end + i) - 1) < len
                              THEN base + ((end + i) - 1) ELSE Zero
      BY <1>2, <3>1, Zenon
    <3> QED
      BY <3>2, <3>3, <3>4
  <2>2. CASE ~(i <= Slop)
    <3>1. ~(base' + (i - 1) < len)
      BY <1>1, <1>2, <1>4, <2>2
    <3> QED
      BY <1>7, <2>2, <3>1
  <2> QED
    BY <2>1, <2>2
<1>10. WindowInv'
  <2>1. end' + Slop <= Len(window') /\ len' <= base' + end' + Slop
    BY <1>1, <1>2, <1>3, <1>4, <1>7
  <2> QED
    BY <1>9, <2>1 DEF WindowInv
<1>11. LimitInv'
  <2>1. base' + end' + limit' = base + end + limit
    BY <1>1, <1>3, <1>4
  <2> QED
    BY <1>3, <2>1, LimitKept DEF StreamInv
<1>12. FieldInv'
  <2>1. ~error => ptr' + Slop <= 2 * Slop
    BY <1>1, <1>4, LimitWithinSlop
  <2> QED
    BY <1>3, <1>7, <2>1 DEF FieldInv
<1> QED
  BY <1>10, <1>11, <1>12 DEF StreamInv

-----------------------------------------------------------------------------
(* Limits                                                                   *)

(* push_limit adds the end of the new payload ...                           *)
LEMMA PushLimitKeeps ==
  ASSUME StreamInv, NEW n \in Reads, NEW size \in Payloads, PushLimit(n, size)
  PROVE  /\ StreamInv'
         /\ \E e, f : /\ EndsFrom(e) /\ EndsFrom(f)'
                      /\ f = Append(e, base' + end' + limit')
<1> DEFINE new == size + ((ptr + n) - end)
           delta == limit - new
<1>1. /\ len \in Nat /\ end \in Nat /\ limit \in Int /\ base \in Nat /\ ptr \in Nat
      /\ deltas \in Seq(Int) /\ error \in BOOLEAN /\ n \in Nat /\ size \in Nat
  BY StreamAssumption DEF StreamInv, WindowInv, WindowIsInput, TypeOK
<1>2. /\ ptr' = ptr + n /\ limit' = new /\ error' = (error \/ delta < 0)
      /\ deltas' = Append(deltas, delta) /\ phase' = "boundary"
      /\ UNCHANGED <<len, window, end, base>>
  <2>1. /\ ptr' = ptr + n /\ limit' = new /\ deltas' = Append(deltas, delta)
        /\ phase' = "boundary" /\ UNCHANGED <<len, window, end, base>>
    BY DEF PushLimit
  <2>2. error' = (error \/ delta < 0)
    BY Zenon DEF PushLimit, Spoils
  <2> QED
    BY <2>1, <2>2
<1>3. new \in Int /\ delta \in Int /\ new + delta = limit
  BY <1>1
<1> HIDE DEF new, delta
<1>4. /\ deltas' \in Seq(Int) /\ Len(deltas') = Len(deltas) + 1
      /\ deltas'[Len(deltas) + 1] = delta
      /\ \A k \in 1 .. Len(deltas) : deltas'[k] = deltas[k]
  BY <1>1, <1>2, <1>3
<1>5. WindowInv'
  <2>1. ptr' \in Nat /\ limit' \in Int /\ error' \in BOOLEAN
    BY <1>1, <1>2, <1>3
  <2> QED
    BY <1>2, <1>4, <2>1, WindowKept DEF StreamInv
<1>6. \E e, f : /\ EndsFrom(e) /\ EndsFrom(f)'
               /\ f = Append(e, base' + end' + limit')
  <2>1. PICK e : EndsFrom(e)
    BY DEF StreamInv, LimitInv
  <2> DEFINE L == Len(deltas)
  <2>2. /\ L \in Nat /\ e \in [1 .. L + 1 -> Int] /\ e[L + 1] = base + end + limit
        /\ \A k \in 1 .. L : e[k] = e[k + 1] + deltas[k]
        /\ e[1] = len
        /\ ~error => /\ \A k \in 1 .. L + 1 : e[k] <= len
                     /\ \A k \in 1 .. L : e[k + 1] <= e[k]
    BY <1>1, <2>1 DEF EndsFrom
  <2> HIDE DEF L
  <2>3. PICK f : /\ f \in [1 .. L + 2 -> Int] /\ f[L + 2] = base + end + new
                 /\ \A k \in 1 .. L + 1 : f[k] = e[k]
                 /\ f = Append(e, base + end + new)
    <3> DEFINE g == Append(e, base + end + new)
    <3>1. e \in Seq(Int) /\ Len(e) = L + 1 /\ base + end + new \in Int
      BY <1>1, <1>3, <2>2
    <3>2. /\ g \in Seq(Int) /\ Len(g) = L + 2 /\ g[L + 2] = base + end + new
          /\ \A k \in 1 .. L + 1 : g[k] = e[k]
      BY <2>2, <3>1
    <3> HIDE DEF g
    <3>3. g \in [1 .. L + 2 -> Int]
      BY <3>2
    <3> QED
      BY <3>2, <3>3 DEF g
  <2>4. \A k \in 1 .. L + 1 : f[k] = f[k + 1] + deltas'[k]
    <3> TAKE k \in 1 .. L + 1
    <3>1. CASE k = L + 1
      <4>1. f[k] = base + end + limit /\ f[k + 1] = base + end + new
        BY <2>2, <2>3, <3>1
      <4>2. deltas'[k] = delta
        BY <1>4, <3>1 DEF L
      <4> QED
        BY <1>1, <1>3, <4>1, <4>2
    <3>2. CASE k # L + 1
      <4>1. k \in 1 .. L /\ k + 1 \in 1 .. L + 1
        BY <2>2, <3>2
      <4>2. deltas'[k] = deltas[k]
        BY <1>4, <4>1 DEF L
      <4> QED
        BY <2>2, <2>3, <4>1, <4>2
    <3> QED
      BY <3>1, <3>2
  <2>5. ~error' => \A k \in 1 .. L + 2 : f[k] <= len
    <3> SUFFICES ASSUME ~error', NEW k \in 1 .. L + 2 PROVE f[k] <= len
      OBVIOUS
    <3>1. ~error /\ ~(delta < 0)
      BY <1>2
    <3>2. base + end + limit <= len
      BY <2>2, <3>1
    <3>3. base + end + new <= len
      BY <1>1, <1>3, <3>1, <3>2
    <3>4. k \in 1 .. L + 1 \/ k = L + 2
      BY <2>2
    <3> QED
      BY <2>2, <2>3, <3>1, <3>3, <3>4
  <2>6. Len(deltas') = L + 1 /\ L + 1 + 1 = L + 2
    BY <1>4, <2>2 DEF L
  <2>7. ~error' => \A k \in 1 .. L + 1 : f[k + 1] <= f[k]
    <3> SUFFICES ASSUME ~error', NEW k \in 1 .. L + 1 PROVE f[k + 1] <= f[k]
      OBVIOUS
    <3>1. ~error /\ ~(delta < 0)
      BY <1>2
    <3>2. CASE k = L + 1
      <4>1. f[k] = base + end + limit /\ f[k + 1] = base + end + new
        BY <2>2, <2>3, <3>2
      <4> QED
        BY <1>1, <1>3, <3>1, <4>1
    <3>3. CASE k # L + 1
      <4>1. k \in 1 .. L /\ k + 1 \in 1 .. L + 1
        BY <2>2, <3>3
      <4> QED
        BY <2>2, <2>3, <3>1, <4>1
    <3> QED
      BY <3>2, <3>3
  <2>8. f[1] = len'
    BY <1>2, <2>2, <2>3
  <2>9. EndsFrom(f)'
    BY <1>2, <2>3, <2>4, <2>5, <2>6, <2>7, <2>8 DEF EndsFrom
  <2> QED
    BY <1>2, <2>1, <2>3, <2>9
<1>7. LimitInv'
  BY <1>6 DEF LimitInv
<1> QED
  BY <1>2, <1>5, <1>6, <1>7 DEF StreamInv, FieldInv

(* ... and pop_limit takes it off again.                                    *)
LEMMA PopLimitKeeps ==
  ASSUME StreamInv, PopLimit
  PROVE  /\ StreamInv'
         /\ \E e, f : /\ EndsFrom(e) /\ EndsFrom(f)'
                      /\ f = SubSeq(e, 1, Len(deltas))
<1> DEFINE L == Len(deltas)
<1>1. /\ len \in Nat /\ end \in Nat /\ limit \in Int /\ base \in Nat /\ ptr \in Nat
      /\ deltas \in Seq(Int) /\ error \in BOOLEAN
  BY StreamAssumption DEF StreamInv, WindowInv, WindowIsInput, TypeOK
<1>2. /\ deltas # << >> /\ limit' = limit + deltas[L]
      /\ deltas' = SubSeq(deltas, 1, L - 1) /\ phase' = "boundary"
      /\ UNCHANGED <<len, window, end, base, error, ptr>>
  BY DEF PopLimit, Outer, Front, Last
<1>3. /\ L \in Nat \ {0} /\ L \in 1 .. L /\ deltas[L] \in Int
      /\ deltas' \in Seq(Int) /\ Len(deltas') = L - 1
      /\ \A k \in 1 .. L - 1 : deltas'[k] = deltas[k]
  <2>1. L \in Nat \ {0} /\ L \in 1 .. L
    BY <1>1, <1>2
  <2>2. deltas[L] \in Int
    BY <1>1, <2>1
  <2>3. L - 1 \in Nat /\ L - 1 <= L /\ \A k \in 1 .. L - 1 : k \in 1 .. L
    BY <2>1
  <2> HIDE DEF L
  <2>4. \A k \in 1 .. L - 1 : deltas[k] \in Int
    BY <1>1, <2>3 DEF L
  <2>5. /\ deltas' \in Seq(Int) /\ Len(deltas') = L - 1
        /\ \A k \in 1 .. L - 1 : deltas'[k] = deltas[k]
    BY <1>1, <1>2, <2>1, <2>3, <2>4
  <2> QED
    BY <2>1, <2>2, <2>5
<1>4. WindowInv'
  <2>1. ptr' \in Nat /\ limit' \in Int /\ error' \in BOOLEAN
    BY <1>1, <1>2, <1>3
  <2> QED
    BY <1>2, <1>3, <2>1, WindowKept DEF StreamInv
<1>5. \E e, f : EndsFrom(e) /\ EndsFrom(f)' /\ f = SubSeq(e, 1, L)
  <2>1. PICK e : EndsFrom(e)
    BY DEF StreamInv, LimitInv
  <2>2. /\ e \in [1 .. L + 1 -> Int] /\ e[L + 1] = base + end + limit
        /\ \A k \in 1 .. L : e[k] = e[k + 1] + deltas[k]
        /\ e[1] = len
        /\ ~error => /\ \A k \in 1 .. L + 1 : e[k] <= len
                     /\ \A k \in 1 .. L : e[k + 1] <= e[k]
    BY <2>1 DEF EndsFrom
  <2>3. PICK f : /\ f \in [1 .. L -> Int] /\ \A k \in 1 .. L : f[k] = e[k]
                 /\ f = SubSeq(e, 1, L)
    <3>1. L \in Nat /\ L + 1 \in Nat
      BY <1>3
    <3> HIDE DEF L
    <3>2. e \in Seq(Int) /\ Len(e) = L + 1
      BY <2>2, <3>1
    <3>3. \A k \in 1 .. L : k \in 1 .. L + 1 /\ e[k] \in Int
      BY <2>2, <3>1
    <3> DEFINE g == SubSeq(e, 1, L)
    <3>4. g \in Seq(Int) /\ Len(g) = L /\ \A k \in 1 .. L : g[k] = e[k]
      BY <3>1, <3>2, <3>3
    <3> HIDE DEF g
    <3>5. g \in [1 .. L -> Int]
      BY <3>4
    <3> QED
      BY <3>4, <3>5 DEF g
  <2>4. f[L] = base + end + limit'
    <3>1. f[L] = e[L + 1] + deltas[L] /\ L \in 1 .. L
      BY <1>3, <2>2, <2>3
    <3> QED
      BY <1>1, <1>2, <1>3, <2>2, <3>1
  <2>5. \A k \in 1 .. L - 1 : f[k] = f[k + 1] + deltas'[k]
    BY <1>3, <2>2, <2>3
  <2>6. ~error => \A k \in 1 .. L : f[k] <= len
    BY <1>3, <2>2, <2>3
  <2>7. Len(deltas') = L - 1 /\ L - 1 + 1 = L
    BY <1>3
  <2>8. ~error => \A k \in 1 .. L - 1 : f[k + 1] <= f[k]
    BY <1>3, <2>2, <2>3
  <2>9. f[1] = len'
    BY <1>2, <1>3, <2>2, <2>3
  <2>10. EndsFrom(f)'
    BY <1>2, <2>3, <2>4, <2>5, <2>6, <2>7, <2>8, <2>9 DEF EndsFrom
  <2> QED
    BY <2>1, <2>3, <2>10
<1>6. LimitInv'
  BY <1>5 DEF LimitInv
<1> QED
  BY <1>2, <1>4, <1>5, <1>6 DEF StreamInv, FieldInv

-----------------------------------------------------------------------------
LEMMA StepKeeps == StreamInv /\ [Next]_vars => StreamInv'
<1> SUFFICES ASSUME StreamInv, [Next]_vars PROVE StreamInv'
  OBVIOUS
<1>1. ptr \in Nat /\ error \in BOOLEAN
  BY DEF StreamInv, WindowInv, WindowIsInput, TypeOK
<1>2. CASE IsDone
  <2>1. CASE NotDone
    BY <2>1, NotDoneKeeps
  <2>2. CASE AtLimit
    BY <1>1, <2>2, MoveKeeps DEF AtLimit, streamVars
  <2>3. CASE Fallback
    BY <2>3, FallbackKeeps
  <2>4. CASE PastLimit
    BY <1>1, <2>4, MoveKeeps DEF PastLimit
  <2> QED
    BY <1>2, <2>1, <2>2, <2>3, <2>4 DEF IsDone
<1>3. CASE PopLimit
  BY <1>3, PopLimitKeeps
<1>4. CASE Return \/ Unterminated \/ Malformed
  BY <1>1, <1>4, MoveKeeps DEF Return, Unterminated, Malformed, streamVars
<1>5. ASSUME NEW n \in Reads, ReadScalar(n) PROVE StreamInv'
  <2>1. ptr' \in Nat
    BY <1>1, <1>5, StreamAssumption DEF ReadScalar
  <2> QED
    BY <1>1, <1>5, <2>1, MoveKeeps DEF ReadScalar, streamVars
<1>6. ASSUME NEW n \in Reads, NEW size \in Payloads, SkipDelimited(n, size)
      PROVE  StreamInv'
  <2>1. /\ ptr' = ptr + n + size \/ ptr' = ptr
        /\ error' \in BOOLEAN /\ (error => error')
        /\ phase' \in {"boundary", "failed"}
        /\ UNCHANGED <<len, window, end, limit, base, deltas>>
    BY <1>1, <1>6, Zenon DEF SkipDelimited
  <2>2. ptr' \in Nat
    BY <1>1, <2>1, StreamAssumption
  <2> QED
    BY <1>1, <2>1, <2>2, MoveKeeps
<1>7. ASSUME NEW n \in Reads, NEW size \in Payloads, TakePayload(n, size)
      PROVE  StreamInv'
  <2>1. /\ ptr' = ptr + n + size \/ ptr' = ptr
        /\ phase' \in {"boundary", "failed"}
        /\ UNCHANGED <<len, window, end, limit, base, error, deltas>>
    BY <1>7 DEF TakePayload, streamVars
  <2>2. ptr' \in Nat
    BY <1>1, <2>1, StreamAssumption
  <2> QED
    BY <1>1, <2>1, <2>2, MoveKeeps
<1>8. CASE UNCHANGED vars
  BY <1>8 DEF vars, streamVars, StreamInv, WindowInv, WindowIsInput, TypeOK,
              LimitInv, EndsFrom, FieldInv
<1> QED
  BY <1>2, <1>3, <1>4, <1>5, <1>6, <1>7, <1>8, PushLimitKeeps DEF Next

LEMMA StreamAlwaysInv == Spec => []StreamInv
  BY InitStream, StepKeeps, PTL DEF Spec

-----------------------------------------------------------------------------
(* In every reachable state, in place or in a patch, every byte of the      *)
(* window is the input's byte at the same absolute position, and padding    *)
(* appears only beyond the input's end: is_done may replace the window in   *)
(* the middle of anything.                                                  *)
THEOREM WindowShowsInput == Spec => []WindowIsInput
<1>1. StreamInv => WindowIsInput
  BY DEF StreamInv, WindowInv
<1> QED
  BY <1>1, StreamAlwaysInv, PTL

(* Slop bytes are readable wherever is_done let a field begin, copying the  *)
(* patch stays in the window even after push_limit noted an error, and the  *)
(* debug assertions of is_done_fallback hold as long as it did not.         *)
THEOREM SlopAlwaysReadable == Spec => []SlopIsReadable
<1>1. ASSUME StreamInv PROVE SlopIsReadable
  <2>1. end \in Nat /\ limit \in Int /\ ptr \in Nat /\ Slop \in Nat
    BY <1>1, StreamAssumption DEF StreamInv, WindowInv, WindowIsInput, TypeOK
  <2>2. ASSUME ~error PROVE FallbackAsserts
    BY <1>1, <2>1, <2>2, LimitWithinSlop DEF FallbackAsserts, Overrun
  <2> QED
    BY <1>1, <2>2 DEF SlopIsReadable, StreamInv, WindowInv, FieldInv
<1> QED
  BY <1>1, StreamAlwaysInv, PTL

-----------------------------------------------------------------------------
(* Ends sums the deltas up to what LimitInv wrote down.                     *)
LEMMA EndsFromIsEnds ==
  ASSUME TypeOK, NEW e, EndsFrom(e)
  PROVE  Ends = e
<1>1. deltas \in Seq(Int) /\ base + end + limit \in Int
  BY DEF TypeOK
<1> QED
  BY <1>1, EndsAre DEF Ends, EndsFrom

LEMMA EndsFromIsNextEnds ==
  ASSUME TypeOK', NEW e, EndsFrom(e)'
  PROVE  Ends' = e
<1>1. deltas' \in Seq(Int) /\ base' + end' + limit' \in Int
  BY DEF TypeOK
<1> QED
  BY <1>1, EndsAre DEF Ends, EndsFrom

(* The ends that the saved deltas stand for begin with the length of the    *)
(* input, and until push_limit notes an error each payload lies within the  *)
(* one around it.                                                           *)
THEOREM EndsAlwaysNested == Spec => []EndsNested
<1>1. ASSUME StreamInv PROVE EndsNested
  <2>1. PICK e : EndsFrom(e)
    BY <1>1 DEF StreamInv, LimitInv
  <2>2. Ends = e
    BY <1>1, <2>1, EndsFromIsEnds DEF StreamInv, WindowInv, WindowIsInput
  <2> QED
    BY <2>1, <2>2 DEF EndsNested, EndsFrom
<1> QED
  BY <1>1, StreamAlwaysInv, PTL

-----------------------------------------------------------------------------
(* The stream as a cursor: a position and the ends.                         *)

LEMMA CursorFacts ==
  ASSUME StreamInv
  PROVE  /\ end \in Nat /\ limit \in Int /\ base \in Nat /\ ptr \in Nat
         /\ error \in BOOLEAN
         /\ Ends \in Seq(Int) /\ Len(Ends) = Len(deltas) + 1 /\ Len(deltas) \in Nat
         /\ C!Top = base + end + limit
<1>1. TypeOK
  BY DEF StreamInv, WindowInv, WindowIsInput
<1>2. PICK e : EndsFrom(e)
  BY DEF StreamInv, LimitInv
<1>3. Ends = e
  BY <1>1, <1>2, EndsFromIsEnds
<1>4. Len(deltas) \in Nat
  BY <1>1 DEF TypeOK
<1>5. /\ e \in Seq(Int) /\ Len(e) = Len(deltas) + 1
      /\ e[Len(deltas) + 1] = base + end + limit
  BY <1>2, <1>4 DEF EndsFrom
<1> QED
  BY <1>1, <1>3, <1>4, <1>5 DEF TypeOK, C!Top

(* What is_done answers, the cursor checks, window or no window.            *)
LEMMA DoneChecks == StreamInv /\ IsDone => C!Check
<1> SUFFICES ASSUME StreamInv, IsDone PROVE C!Check
  OBVIOUS
<1> DEFINE pos == Absolute(ptr)
<1>1. /\ end \in Nat /\ limit \in Int /\ base \in Nat /\ ptr \in Nat
      /\ error \in BOOLEAN /\ C!Top = base + end + limit
  BY CursorFacts
<1>2. pos = base + ptr
  BY DEF Absolute
<1>3. ASSUME phase = "boundary", pos < C!Top, phase' = "field", len' = len,
             pos' = pos, Ends' = Ends, error' = error
      PROVE  C!Check
  BY <1>1, <1>2, <1>3 DEF C!Check
<1> HIDE DEF pos
<1>4. CASE NotDone
  <2>1. pos < C!Top
    BY <1>1, <1>2, <1>4 DEF NotDone, LimitPtr
  <2>2. pos' = pos /\ Ends' = Ends
    BY <1>4 DEF NotDone, streamVars, pos, Absolute, Ends
  <2> QED
    BY <1>3, <1>4, <2>1, <2>2 DEF NotDone, streamVars
<1>5. CASE AtLimit
  <2>1. pos = C!Top /\ ~(pos < C!Top) /\ ~(pos > C!Top)
    BY <1>1, <1>2, <1>5 DEF AtLimit, Exactly, Overrun
  <2>2. pos' = pos /\ Ends' = Ends /\ len' = len /\ error' = error
    BY <1>5 DEF AtLimit, streamVars, pos, Absolute, Ends
  <2>3. phase = "boundary" /\ phase' = IF error THEN "failed" ELSE "end"
    BY <1>5 DEF AtLimit
  <2>4. CASE error
    BY <1>1, <2>1, <2>2, <2>3, <2>4 DEF C!Check, pos
  <2>5. CASE ~error
    BY <1>1, <2>1, <2>2, <2>3, <2>5 DEF C!Check, pos
  <2> QED
    BY <2>4, <2>5
<1>6. CASE Fallback
  <2>1. /\ Overrun < limit /\ base' = NextBase /\ ptr' = Overrun /\ end' = Slop
        /\ limit' = limit - Slop /\ deltas' = deltas /\ phase = "boundary"
        /\ phase' = "field" /\ len' = len /\ error' = error
    BY <1>6 DEF Fallback
  <2>2. ptr' = ptr - end /\ base' = base + end /\ Slop \in Nat
    BY <1>1, <2>1, StreamAssumption DEF NextBase, Overrun
  <2>3. pos < C!Top
    BY <1>1, <1>2, <2>1 DEF Overrun
  <2>4. pos' = pos
    BY <1>1, <2>2 DEF pos, Absolute
  <2>5. base' + end' + limit' = base + end + limit
    BY <1>1, <2>1, <2>2
  <2>6. Ends' = Ends
    BY <2>1, <2>5 DEF Ends
  <2> QED
    BY <1>3, <2>1, <2>3, <2>4, <2>6
<1>7. CASE PastLimit
  <2>1. pos > C!Top /\ ~(pos < C!Top) /\ pos # C!Top
    BY <1>1, <1>2, <1>7 DEF PastLimit, Overrun
  <2>2. /\ pos' = pos /\ Ends' = Ends /\ len' = len /\ error' = TRUE
        /\ phase = "boundary" /\ phase' = "failed"
    BY <1>7 DEF PastLimit, pos, Absolute, Ends
  <2> QED
    BY <2>1, <2>2 DEF C!Check, pos
<1> QED
  BY <1>4, <1>5, <1>6, <1>7 DEF IsDone

(* A field takes at least its tag.                                          *)
LEMMA MoveIsField ==
  ASSUME StreamInv, phase = "field", phase' = "boundary",
         NEW n \in Nat, n > 0, ptr' = ptr + n,
         UNCHANGED <<len, window, end, limit, base, error, deltas>>
  PROVE  C!Field
<1>1. base \in Nat /\ ptr \in Nat
  BY CursorFacts
<1>2. Absolute(ptr)' > Absolute(ptr)
  BY <1>1 DEF Absolute
<1>3. Ends' = Ends
  BY DEF Ends
<1> QED
  BY <1>2, <1>3 DEF C!Field

(* Giving up leaves the cursor where it is.                                 *)
LEMMA StopIsFail ==
  ASSUME StreamInv, phase \in {"field", "end"}, phase' = "failed",
         UNCHANGED <<len, window, end, limit, base, ptr, deltas>>,
         error' \in {error, TRUE}
  PROVE  C!Fail
<1>1. Absolute(ptr)' = Absolute(ptr) /\ Ends' = Ends
  BY DEF Absolute, Ends
<1> QED
  BY <1>1 DEF C!Fail

LEMMA PushDescends ==
  ASSUME StreamInv, NEW n \in Reads, NEW size \in Payloads, PushLimit(n, size)
  PROVE  C!Descend
<1> DEFINE new == size + ((ptr + n) - end)
<1>1. /\ end \in Nat /\ limit \in Int /\ base \in Nat /\ ptr \in Nat
      /\ error \in BOOLEAN /\ C!Top = base + end + limit /\ Len(Ends) \in Nat
      /\ Ends \in Seq(Int) /\ n \in Nat /\ n > 0 /\ size \in Nat
  BY CursorFacts, StreamAssumption
<1>2. StreamInv'
  BY PushLimitKeeps
<1>3. PICK e, f : EndsFrom(e) /\ EndsFrom(f)' /\ f = Append(e, base' + end' + limit')
  BY PushLimitKeeps
<1>4. Ends = e /\ Ends' = f
  BY <1>2, <1>3, EndsFromIsEnds, EndsFromIsNextEnds
     DEF StreamInv, WindowInv, WindowIsInput
<1>5. /\ phase = "field" /\ phase' = "boundary" /\ ptr' = ptr + n /\ limit' = new
      /\ len' = len /\ end' = end /\ base' = base
  BY DEF PushLimit
<1>6. error' = (error \/ limit - new < 0)
  BY Zenon DEF PushLimit, Spoils
<1>7. new \in Int /\ new = size + ((ptr + n) - end)
  BY <1>1
<1> HIDE DEF new
<1>8. /\ Ends' = Append(Ends, base + end + new) /\ base + end + new \in Int
      /\ base + end + new >= Absolute(ptr)'
  BY <1>1, <1>3, <1>4, <1>5, <1>7 DEF Absolute
<1>9. /\ Len(Ends') = Len(Ends) + 1 /\ SubSeq(Ends', 1, Len(Ends)) = Ends
      /\ Ends'[Len(Ends')] = base + end + new
  BY <1>1, <1>8
<1>10. Absolute(ptr)' > Absolute(ptr)
  BY <1>1, <1>5 DEF Absolute
<1>11. limit - new < 0 <=> base + end + new > C!Top
  BY <1>1, <1>7
<1>12. error' = (error \/ Ends'[Len(Ends')] > C!Top)
  BY <1>6, <1>9, <1>11, Zenon
<1> QED
  BY <1>5, <1>8, <1>9, <1>10, <1>12 DEF C!Descend

LEMMA PopAscends == StreamInv /\ PopLimit => C!Ascend
<1> SUFFICES ASSUME StreamInv, PopLimit PROVE C!Ascend
  OBVIOUS
<1>1. StreamInv'
  BY PopLimitKeeps
<1>2. PICK e, f : EndsFrom(e) /\ EndsFrom(f)' /\ f = SubSeq(e, 1, Len(deltas))
  BY PopLimitKeeps
<1>3. Ends = e /\ Ends' = f
  BY <1>1, <1>2, EndsFromIsEnds, EndsFromIsNextEnds
     DEF StreamInv, WindowInv, WindowIsInput
<1>4. /\ phase = "end" /\ phase' = "boundary" /\ deltas # << >>
      /\ UNCHANGED <<len, window, end, base, error, ptr>>
  BY DEF PopLimit
<1>5. Len(Ends) = Len(deltas) + 1 /\ Len(deltas) \in Nat /\ deltas \in Seq(Int)
  BY CursorFacts DEF StreamInv, WindowInv, WindowIsInput, TypeOK
<1>6. Len(Ends) > 1 /\ Ends' = SubSeq(Ends, 1, Len(Ends) - 1)
  BY <1>2, <1>3, <1>4, <1>5
<1>7. Absolute(ptr)' = Absolute(ptr)
  BY <1>4 DEF Absolute
<1> QED
  BY <1>4, <1>6, <1>7 DEF C!Ascend

LEMMA StepIsCursor == StreamInv /\ [Next]_vars => [C!CursorNext]_(C!cursorVars)
<1> SUFFICES ASSUME StreamInv, [Next]_vars PROVE C!CursorNext \/ UNCHANGED C!cursorVars
  OBVIOUS
<1>1. ptr \in Nat /\ \A n \in Reads : n \in Nat /\ n > 0
  BY CursorFacts, StreamAssumption
<1>2. CASE IsDone
  BY <1>2, DoneChecks DEF C!CursorNext
<1>3. CASE PopLimit
  BY <1>3, PopAscends DEF C!CursorNext
<1>4. CASE Return
  <2>1. Len(Ends) = 1
    BY <1>4, CursorFacts DEF Return
  <2>2. Absolute(ptr)' = Absolute(ptr) /\ Ends' = Ends
    BY <1>4 DEF Return, streamVars, Absolute, Ends
  <2> QED
    BY <1>4, <2>1, <2>2 DEF Return, streamVars, C!Finish, C!CursorNext
<1>5. CASE Unterminated \/ Malformed
  BY <1>5, StopIsFail DEF Unterminated, Malformed, streamVars, C!CursorNext
<1>6. ASSUME NEW n \in Reads, ReadScalar(n) PROVE C!CursorNext
  <2>1. n \in Nat /\ n > 0
    BY <1>1
  <2> QED
    BY <1>6, <2>1, MoveIsField DEF ReadScalar, streamVars, C!CursorNext
<1>7. ASSUME NEW n \in Reads, NEW size \in Payloads, SkipDelimited(n, size)
      PROVE  C!CursorNext
  <2>1. n \in Nat /\ n > 0 /\ size \in Nat
    BY <1>1, StreamAssumption
  <2>2. phase = "field" /\ UNCHANGED <<len, window, end, limit, base, deltas>>
    BY <1>7 DEF SkipDelimited
  <2>3. CASE CheckSize(ptr + n, size)
    <3>1. ptr' = ptr + n + size /\ phase' = "boundary" /\ error' = error
      BY <1>7, <2>3 DEF SkipDelimited
    <3>2. n + size \in Nat /\ n + size > 0 /\ ptr' = ptr + (n + size)
      BY <1>1, <2>1, <3>1
    <3> QED
      BY <2>2, <3>1, <3>2, MoveIsField DEF streamVars, C!CursorNext
  <2>4. CASE ~CheckSize(ptr + n, size)
    <3>1. phase' = "failed" /\ error' = TRUE /\ ptr' = ptr
      BY <1>7, <2>4 DEF SkipDelimited
    <3> QED
      BY <2>2, <3>1, StopIsFail DEF C!CursorNext
  <2> QED
    BY <2>3, <2>4
<1>8. ASSUME NEW n \in Reads, NEW size \in Payloads, TakePayload(n, size)
      PROVE  C!CursorNext
  <2>1. n \in Nat /\ n > 0 /\ size \in Nat
    BY <1>1, StreamAssumption
  <2>2. phase = "field" /\ UNCHANGED <<len, streamVars, deltas>>
    BY <1>8 DEF TakePayload
  <2>3. CASE size <= len - Absolute(ptr + n)
    <3>1. ptr' = ptr + n + size /\ phase' = "boundary"
      BY <1>8, <2>3 DEF TakePayload
    <3>2. n + size \in Nat /\ n + size > 0 /\ ptr' = ptr + (n + size)
      BY <1>1, <2>1, <3>1
    <3> QED
      BY <2>2, <3>1, <3>2, MoveIsField DEF streamVars, C!CursorNext
  <2>4. CASE ~(size <= len - Absolute(ptr + n))
    <3>1. phase' = "failed" /\ ptr' = ptr
      BY <1>8, <2>4 DEF TakePayload
    <3> QED
      BY <2>2, <3>1, StopIsFail DEF streamVars, C!CursorNext
  <2> QED
    BY <2>3, <2>4
<1>9. ASSUME NEW n \in Reads, NEW size \in Payloads, PushLimit(n, size)
      PROVE  C!CursorNext
  BY <1>9, PushDescends DEF C!CursorNext
<1>10. CASE UNCHANGED vars
  BY <1>10 DEF vars, streamVars, C!cursorVars, Absolute, Ends
<1> QED
  BY <1>2, <1>3, <1>4, <1>5, <1>6, <1>7, <1>8, <1>9, <1>10 DEF Next

(* The stream is a plain cursor over the input: whichever window a position *)
(* is in, is_done answers as if the input were read in place, fields only   *)
(* move forward, push_limit and pop_limit keep a stack of absolute ends,    *)
(* and a payload that leaves the one around it can no longer end well.      *)
THEOREM StreamIsCursor == Spec => ImplementsCursor
<1>1. Init => C!CursorInit
  <2> SUFFICES ASSUME Init PROVE C!CursorInit
    OBVIOUS
  <2>1. StreamInv /\ len \in Lens /\ phase = "boundary" /\ error = FALSE
    BY InitStream DEF Init
  <2>2. deltas = << >> /\ base = 0 /\ ptr = 0
    BY DEF Init
  <2>3. PICK e : EndsFrom(e)
    BY <2>1 DEF StreamInv, LimitInv
  <2>4. Ends = e
    BY <2>1, <2>3, EndsFromIsEnds DEF StreamInv, WindowInv, WindowIsInput
  <2>5. e \in [1 .. 1 -> Int] /\ e[1] = len
    BY <2>2, <2>3 DEF EndsFrom
  <2>6. Ends = <<len>>
    BY <2>4, <2>5
  <2>7. Absolute(ptr) = 0
    BY <2>2 DEF Absolute
  <2> QED
    BY <2>1, <2>6, <2>7 DEF C!CursorInit
<1>2. StreamInv /\ [Next]_vars => [C!CursorNext]_(C!cursorVars)
  BY StepIsCursor
<1> QED
  BY <1>1, <1>2, StreamAlwaysInv, PTL DEF Spec, ImplementsCursor, C!CursorSpec
=============================================================================
