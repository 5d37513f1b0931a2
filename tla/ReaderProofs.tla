---------------------------- MODULE ReaderProofs ----------------------------
(* The byte readers never leave the window of the stream and answer what    *)
(* the bytes say, and the decoder of empty tables uses the stream as        *)
(* EpsCopyStream has it and accepts what Fields accepts, for all inputs,    *)
(* tags, depths, numbers of bits and sizes of the slop.                     *)
EXTENDS WireReader, NumberProofs

(* The stream's own invariant is kept by whatever its reader does.          *)
T == INSTANCE StreamProofs WITH
       deltas <- << >>, MaxDepth <- 0,
       Reads <- 1 .. Slop - 1, Payloads <- 0 .. PowerOf2(TagBits - 1) - 1

Fixed == {"read_fixed32", "read_fixed64"}

(* Where the next byte is, while a field or an operation is being read.     *)
ReadingFrom ==
  /\ Len(read) < Longest
  /\ number = "tag" => at = ptr + Len(read)
  /\ number \in {"size", "varint"} =>
       ptr + Len(read) <= at /\ at <= ptr + TagBytes + Len(read)
  /\ number = "value" => at = ptr /\ read = << >>

(* The numbers of a field of decode_empty begin with real bytes.            *)
Real(p) == window[p + 1] # S!Zero
ReadingReal ==
  /\ number # "tag" => ptr + Len(read) < at /\ Real(ptr)
  /\ read # << >> => Real(at - Len(read))

ReaderInv ==
  /\ T!StreamInv
  /\ error => phase = "failed"
  /\ at \in Nat /\ read \in Seq(Nat) /\ groups \in Seq(Nat \ {0})
  /\ number \in {"tag", "size", "varint", "value"}
  /\ op = "decode_empty" => number # "value"
  /\ op \in Fixed => number = "value"
  /\ op # "packed" /\ outcome = None /\ phase = "boundary" => at = ptr /\ read = << >>
  /\ op = "decode_empty" /\ phase = "boundary" => number = "tag"
  /\ Reading => ReadingFrom /\ (op = "decode_empty" => ReadingReal)

-----------------------------------------------------------------------------
(* The constants *)

LEMMA Constants ==
  /\ {Slop, DefaultDepth, Fixed32, Fixed64} \subseteq Nat
  /\ {PayloadBits, TagBytes, VarintBytes, TagBits, WordBits} \subseteq Nat \ {0}
  /\ TagBytes <= VarintBytes /\ Fixed32 < Fixed64
  /\ TagBytes + VarintBytes < Slop /\ TagBytes + Fixed64 < Slop
  /\ Bytes \subseteq Nat /\ GivenTags \subseteq Nat
<1>1. Bytes \subseteq 0 .. PowerOf2(PayloadBits + 1) - 1 /\ PayloadBits + 1 \in Nat
  BY ReaderAssumption
<1>2. PowerOf2(PayloadBits + 1) \in Nat
  BY <1>1, Powers
<1> QED
  BY <1>1, <1>2, ReaderAssumption

LEMMA StreamConstants ==
  /\ Slop \in Nat \ {0} /\ Lens \subseteq Nat
  /\ 0 .. PowerOf2(TagBits - 1) - 1 \subseteq Nat
  /\ 1 .. Slop - 1 \subseteq 1 .. Slop - 1 /\ 0 \in Nat
<1>1. TagBits - 1 \in Nat
  BY Constants
<1>2. PowerOf2(TagBits - 1) \in Nat
  BY <1>1, Powers
<1> QED
  BY <1>2, Constants, ReaderAssumption

(* A byte that says more is not zero, nor read from the padding.            *)
LEMMA MoreIsReal ==
  ASSUME NEW p, NEW b \in ByteAt(p), More(b) \/ b # 0
  PROVE  Real(p)
<1>1. PowerOf2(PayloadBits) \in Nat /\ PowerOf2(PayloadBits) >= 1
  BY Constants, Powers
<1> QED
  BY <1>1 DEF More, ByteAt, Real

LEMMA ByteIsNat ==
  ASSUME NEW p, NEW b \in ByteAt(p)
  PROVE  b \in Nat
BY Constants DEF ByteAt

(* How the munged sum grows, byte by byte.                                  *)
ValueTable(t, s) ==
  /\ t \in [0 .. Len(s) - 1 -> Nat] /\ t[0] = s[1]
  /\ \A i \in 1 .. Len(s) - 1 :
       t[i] = (t[i - 1] + (s[i + 1] - 1) * PowerOf2(PayloadBits * i)) % PowerOf2(WordBits)

LEMMA ValueTabled ==
  ASSUME NEW s \in Seq(Nat), s # << >>
  PROVE  \E t : ValueTable(t, s) /\ Value(s) = t[Len(s) - 1]
<1>0. PICK n : n = Len(s) - 1
  OBVIOUS
<1> DEFINE step(i, v) == (v + (s[i + 1] - 1) * PowerOf2(PayloadBits * i)) % PowerOf2(WordBits)
<1>1. n \in Nat /\ s[1] \in Nat /\ \A i \in 1 .. n : s[i + 1] \in Nat
  BY <1>0
<1>2. PowerOf2(WordBits) \in Nat /\ PowerOf2(WordBits) >= 1
  BY Constants, Powers
<1>3. ASSUME NEW i \in 1 .. n, NEW v \in Nat PROVE step(i, v) \in Nat
  <2>1. i \in Nat /\ PayloadBits \in Nat
    BY <1>1, Constants
  <2>2. PayloadBits * i \in Nat
    BY <2>1
  <2>3. PowerOf2(PayloadBits * i) \in Int
    BY <2>2, Powers
  <2>4. PICK u : u = s[i + 1] - 1
    OBVIOUS
  <2>5. u \in Int
    BY <1>1, <2>4
  <2>6. u * PowerOf2(PayloadBits * i) \in Int
    BY <2>3, <2>5
  <2>7. v + u * PowerOf2(PayloadBits * i) \in Int
    BY <2>6
  <2>8. (v + u * PowerOf2(PayloadBits * i)) % PowerOf2(WordBits) \in Nat
    BY <1>2, <2>7
  <2> QED
    BY <2>4, <2>8
<1> DEFINE g == [i \in 1 .. n |-> [v \in Nat |-> step(i, v)]]
<1>4. g \in [1 .. n -> [Nat -> Nat]] /\ \A i \in 1 .. n : \A v \in Nat : g[i][v] = step(i, v)
  BY <1>3
<1> HIDE DEF g
<1>5. PICK tbl : Tabled(tbl, g, s[1], n, Nat)
  BY <1>1, <1>4, TableExists
<1>6. tbl \in [0 .. n -> Nat] /\ tbl[0] = s[1] /\ \A i \in 1 .. n : tbl[i] = g[i][tbl[i - 1]]
  BY <1>5 DEF Tabled
<1> DEFINE R(f) == f = [i \in 0 .. n |-> IF i = 0 THEN s[1] ELSE step(i, f[i - 1])]
           c == CHOOSE f : R(f)
<1>7. Value(s) = c[n]
  BY <1>0 DEF Value
<1> HIDE DEF step
<1>8. ASSUME NEW i \in 1 .. n PROVE tbl[i] = step(i, tbl[i - 1])
  <2>1. PICK j : j = i - 1
    OBVIOUS
  <2>2. j \in 0 .. n
    BY <1>1, <2>1
  <2>3. tbl[j] \in Nat
    BY <1>6, <2>2
  <2>4. tbl[i] = step(i, tbl[j])
    BY <1>4, <1>6, <2>1, <2>3
  <2> QED
    BY <2>1, <2>4
<1>9. R(tbl)
  <2>1. ASSUME NEW i \in 0 .. n PROVE tbl[i] = IF i = 0 THEN s[1] ELSE step(i, tbl[i - 1])
    <3>1. i = 0 \/ i \in 1 .. n
      BY <1>1
    <3> QED
      BY <1>6, <1>8, <3>1, Zenon
  <2>2. tbl = [i \in 0 .. n |-> tbl[i]]
    BY <1>6
  <2> QED
    BY <2>1, <2>2
<1>10. R(c)
  BY <1>9
<1> HIDE DEF c
<1>11. IsTable(c, n) /\ c[0] = s[1] /\ \A i \in 1 .. n : c[i] = step(i, c[i - 1])
  <2>1. c = [i \in 0 .. n |-> IF i = 0 THEN s[1] ELSE step(i, c[i - 1])]
    BY <1>10
  <2>2. IsTable(c, n)
    BY <2>1 DEF IsTable
  <2>3. 0 \in 0 .. n /\ \A i \in 1 .. n : i \in 0 .. n /\ i # 0
    BY <1>1
  <2>4. \A i \in 0 .. n : c[i] = IF i = 0 THEN s[1] ELSE step(i, c[i - 1])
    BY <2>1, Zenon
  <2> QED
    BY <2>2, <2>3, <2>4, Zenon
<1>12. IsTable(tbl, n)
  BY <1>6 DEF IsTable
<1> HIDE DEF R
<1>13. ASSUME NEW i \in 1 .. n, c[i - 1] = tbl[i - 1] PROVE c[i] = tbl[i]
  BY <1>8, <1>11, <1>13, Zenon
<1>14. \A i \in 1 .. n : c[i - 1] = tbl[i - 1] => c[i] = tbl[i]
  BY <1>13
<1>15. c = tbl
  BY <1>1, <1>6, <1>11, <1>12, <1>14, TablesAgree, Zenon
<1>16. \A i \in 1 .. n : tbl[i] = step(i, tbl[i - 1])
  BY <1>8, Zenon
<1>17. ValueTable(tbl, s)
  BY <1>0, <1>6, <1>16 DEF ValueTable, step
<1> QED
  BY <1>0, <1>7, <1>15, <1>17

(* How the base-128 sum grows.                                              *)
LebTable(t, s) ==
  /\ t \in [0 .. Len(s) -> Nat] /\ t[0] = 0
  /\ \A i \in 1 .. Len(s) :
       t[i] = (t[i - 1] + (s[i] % PowerOf2(PayloadBits)) * PowerOf2(PayloadBits * (i - 1)))
                % PowerOf2(WordBits)

LEMMA LebTabled ==
  ASSUME NEW s \in Seq(Nat)
  PROVE  \E t : LebTable(t, s) /\ Leb(s) = t[Len(s)]
<1>0. PICK n : n = Len(s)
  OBVIOUS
<1> DEFINE step(i, v) == 
             (v + (s[i] % PowerOf2(PayloadBits)) * PowerOf2(PayloadBits * (i - 1))) % PowerOf2(WordBits)
<1>1. n \in Nat /\ \A i \in 1 .. n : s[i] \in Nat
  BY <1>0
<1>2. PowerOf2(WordBits) \in Nat /\ PowerOf2(WordBits) >= 1
  BY Constants, Powers
<1>3. ASSUME NEW i \in 1 .. n, NEW v \in Nat PROVE step(i, v) \in Nat
  <2>1. i \in Nat /\ i >= 1 /\ PayloadBits \in Nat /\ i - 1 \in Nat
    BY <1>1, Constants
  <2>2. PayloadBits * (i - 1) \in Nat
    BY <2>1
  <2>3. PowerOf2(PayloadBits * (i - 1)) \in Int
    BY <2>2, Powers
  <2>4. PICK u : u = s[i] % PowerOf2(PayloadBits)
    OBVIOUS
  <2>5. u \in Int
    <3>1. PICK b, m : b = s[i] /\ m = PowerOf2(PayloadBits)
      OBVIOUS
    <3>2. b \in Nat /\ m \in Nat /\ m >= 1
      BY <1>1, <2>1, <3>1, Powers
    <3>3. b % m \in Int
      BY <3>2
    <3> QED
      BY <2>4, <3>1, <3>3
  <2>6. u * PowerOf2(PayloadBits * (i - 1)) \in Int
    BY <2>3, <2>5
  <2>7. v + u * PowerOf2(PayloadBits * (i - 1)) \in Int
    BY <2>6
  <2>8. (v + u * PowerOf2(PayloadBits * (i - 1))) % PowerOf2(WordBits) \in Nat
    BY <1>2, <2>7
  <2> QED
    BY <2>4, <2>8
<1> DEFINE g == [i \in 1 .. n |-> [v \in Nat |-> step(i, v)]]
<1>4. g \in [1 .. n -> [Nat -> Nat]] /\ \A i \in 1 .. n : \A v \in Nat : g[i][v] = step(i, v)
  BY <1>3
<1> HIDE DEF g
<1>5. PICK tbl : Tabled(tbl, g, 0, n, Nat)
  BY <1>1, <1>4, TableExists
<1>6. tbl \in [0 .. n -> Nat] /\ tbl[0] = 0 /\ \A i \in 1 .. n : tbl[i] = g[i][tbl[i - 1]]
  BY <1>5 DEF Tabled
<1> DEFINE R(f) == f = [i \in 0 .. n |-> IF i = 0 THEN 0 ELSE step(i, f[i - 1])]
           c == CHOOSE f : R(f)
<1>7. Leb(s) = c[n]
  BY <1>0 DEF Leb
<1> HIDE DEF step
<1>8. ASSUME NEW i \in 1 .. n PROVE tbl[i] = step(i, tbl[i - 1])
  <2>1. PICK j : j = i - 1
    OBVIOUS
  <2>2. j \in 0 .. n
    BY <1>1, <2>1
  <2>3. tbl[j] \in Nat
    BY <1>6, <2>2
  <2>4. tbl[i] = step(i, tbl[j])
    BY <1>4, <1>6, <2>1, <2>3
  <2> QED
    BY <2>1, <2>4
<1>9. R(tbl)
  <2>1. ASSUME NEW i \in 0 .. n PROVE tbl[i] = IF i = 0 THEN 0 ELSE step(i, tbl[i - 1])
    <3>1. i = 0 \/ i \in 1 .. n
      BY <1>1
    <3> QED
      BY <1>6, <1>8, <3>1, Zenon
  <2>2. tbl = [i \in 0 .. n |-> tbl[i]]
    BY <1>6
  <2> QED
    BY <2>1, <2>2
<1>10. R(c)
  BY <1>9
<1> HIDE DEF c
<1>11. IsTable(c, n) /\ c[0] = 0 /\ \A i \in 1 .. n : c[i] = step(i, c[i - 1])
  <2>1. c = [i \in 0 .. n |-> IF i = 0 THEN 0 ELSE step(i, c[i - 1])]
    BY <1>10
  <2>2. IsTable(c, n)
    BY <2>1 DEF IsTable
  <2>3. 0 \in 0 .. n /\ \A i \in 1 .. n : i \in 0 .. n /\ i # 0
    BY <1>1
  <2>4. \A i \in 0 .. n : c[i] = IF i = 0 THEN 0 ELSE step(i, c[i - 1])
    BY <2>1, Zenon
  <2> QED
    BY <2>2, <2>3, <2>4, Zenon
<1>12. IsTable(tbl, n)
  BY <1>6 DEF IsTable
<1> HIDE DEF R
<1>13. ASSUME NEW i \in 1 .. n, c[i - 1] = tbl[i - 1] PROVE c[i] = tbl[i]
  BY <1>8, <1>11, <1>13, Zenon
<1>14. \A i \in 1 .. n : c[i - 1] = tbl[i - 1] => c[i] = tbl[i]
  BY <1>13
<1>15. c = tbl
  BY <1>1, <1>6, <1>11, <1>12, <1>14, TablesAgree, Zenon
<1>16. \A i \in 1 .. n : tbl[i] = step(i, tbl[i - 1])
  BY <1>8, Zenon
<1>17. LebTable(tbl, s)
  BY <1>0, <1>6, <1>16 DEF LebTable, step
<1> QED
  BY <1>0, <1>7, <1>15, <1>17

(* One more byte, in both sums: low is its payload, q the weight of its     *)
(* place, and carry the weight of the next when more bytes follow.          *)
OneMore(m, v, l, q, low, b, carry) ==
  /\ m \in Nat \ {0} /\ v \in Int /\ l \in Int /\ q \in Int
  /\ low \in Int /\ b \in Int /\ carry \in Int
  /\ v % m = (l + q) % m /\ b * q = low * q + carry

LEMMA MungeStep ==
  ASSUME NEW m, NEW v, NEW l, NEW q, NEW low, NEW b, NEW carry,
         OneMore(m, v, l, q, low, b, carry)
  PROVE  ((v + (b - 1) * q) % m) % m = (((l + low * q) % m) + carry) % m
<1> USE DEF OneMore
<1>1. PICK x \in Int, y \in Int : x = (b - 1) * q /\ y = low * q
  OBVIOUS
<1>2. (l + q) + x = (l + y) + carry
  <2>1. (b - 1) * q = b * q - q
    OBVIOUS
  <2> QED
    BY <1>1, <2>1
<1>3. (v + x) % m = ((v % m) + x) % m
  BY RemainderOfSum
<1>4. (((l + q) % m) + x) % m = ((l + q) + x) % m
  <2>1. l + q \in Int
    OBVIOUS
  <2> QED
    BY <2>1, RemainderOfSum
<1>5. (((l + y) % m) + carry) % m = ((l + y) + carry) % m
  <2>1. l + y \in Int
    OBVIOUS
  <2> QED
    BY <2>1, RemainderOfSum
<1>6. (v + x) % m = (((l + y) % m) + carry) % m
  BY <1>2, <1>3, <1>4, <1>5
<1>7. ((v + x) % m) % m = (v + x) % m
  <2>1. PICK w : w = (v + x) % m
    OBVIOUS
  <2>2. w \in 0 .. m - 1
    <3>1. v + x \in Int
      OBVIOUS
    <3> QED
      BY <2>1, <3>1, Remainder
  <2>3. w % m = w
    BY <2>2
  <2> QED
    BY <2>1, <2>3
<1> QED
  BY <1>1, <1>6, <1>7

(* A byte is its payload, and a bit above it that says more follow.         *)
LEMMA BytePayload ==
  ASSUME NEW b \in 0 .. PowerOf2(PayloadBits + 1) - 1
  PROVE  /\ b \in Nat /\ b % PowerOf2(PayloadBits) \in Nat
         /\ More(b) => b = (b % PowerOf2(PayloadBits)) + PowerOf2(PayloadBits)
         /\ ~More(b) => b = b % PowerOf2(PayloadBits)
<1>1. PICK m \in Nat \ {0} : m = PowerOf2(PayloadBits) /\ PowerOf2(PayloadBits + 1) = 2 * m
  BY Constants, Powers
<1>2. b \in 0 .. 2 * m - 1 /\ (More(b) <=> b >= m)
  BY <1>1 DEF More
<1>3. b >= m => b - m \in 0 .. m - 1 /\ b = 1 * m + (b - m)
  BY <1>2
<1>4. PICK r \in 0 .. m - 1, q \in Int : r = b % m /\ b = q * m + r
  <2>1. b \in Int
    BY <1>2
  <2>2. b % m \in 0 .. m - 1 /\ \E q \in Int : b = q * m + (b % m)
    BY <2>1, Remainder
  <2> QED
    BY <2>2
<1>5. ASSUME b >= m PROVE r = b - m
  <2>1. PICK d \in 0 .. m - 1 : d = b - m /\ 1 * m + d = q * m + r
    BY <1>3, <1>4, <1>5
  <2>2. 1 \in Int
    OBVIOUS
  <2> QED
    BY <2>1, <2>2, OneRemainder
<1>6. ASSUME ~(b >= m) PROVE r = b
  <2>1. PICK d \in 0 .. m - 1 : d = b /\ 0 * m + d = q * m + r
    BY <1>2, <1>4, <1>6
  <2>2. 0 \in Int
    OBVIOUS
  <2> QED
    BY <2>1, <2>2, OneRemainder
<1> QED
  BY <1>1, <1>2, <1>4, <1>5, <1>6

(* The weights of the places.                                               *)
LEMMA Weights ==
  ASSUME NEW i \in Nat
  PROVE  /\ PowerOf2(PayloadBits * i) \in Nat
         /\ PowerOf2(PayloadBits) * PowerOf2(PayloadBits * i) = PowerOf2(PayloadBits * (i + 1))
<1>1. PICK p \in Nat : p = PayloadBits
  BY Constants
<1>2. p * i \in Nat /\ p + p * i = p * (i + 1)
  BY <1>1
<1>3. PowerOf2(p + p * i) = PowerOf2(p) * PowerOf2(p * i)
  BY <1>2, PowersMultiply
<1> QED
  BY <1>1, <1>2, <1>3, Powers

(* A number is its bytes, each but the last of which says more follow.      *)
Byte == 0 .. PowerOf2(PayloadBits + 1) - 1
Complete(s) ==
  /\ s \in Seq(Byte) /\ s # << >> /\ ~More(s[Len(s)])
  /\ \A i \in 1 .. Len(s) - 1 : More(s[i])

(* Its munged sum is its base-128 value.                                    *)
LEMMA ValueIsLeb ==
  ASSUME NEW s, Complete(s)
  PROVE  Value(s) = Leb(s)
<1>1. PICK n : n = Len(s)
  OBVIOUS
<1>2. /\ n \in Nat \ {0} /\ \A i \in 1 .. n : s[i] \in Byte
      /\ ~More(s[n]) /\ \A i \in 1 .. n - 1 : More(s[i])
  BY <1>1 DEF Complete
<1>3. s \in Seq(Nat) /\ s # << >>
  <2>1. \A i \in 1 .. n : s[i] \in Nat
    BY <1>2 DEF Byte
  <2> QED
    BY <1>1, <2>1 DEF Complete
<1>4. PICK t : ValueTable(t, s) /\ Value(s) = t[Len(s) - 1]
  BY <1>3, ValueTabled
<1>5. PICK l : LebTable(l, s) /\ Leb(s) = l[Len(s)]
  BY <1>3, LebTabled
<1>6. PICK m \in Nat \ {0} : m = PowerOf2(WordBits)
  BY Constants, Powers
<1> DEFINE Q(i) == PowerOf2(PayloadBits * i)
           Low(i) == s[i] % PowerOf2(PayloadBits)
           Carry(i) == IF More(s[i]) THEN Q(i) ELSE 0
<1>7. /\ t \in [0 .. n - 1 -> Nat] /\ t[0] = s[1]
      /\ \A i \in 1 .. n - 1 : t[i] = (t[i - 1] + (s[i + 1] - 1) * Q(i)) % m
  BY <1>1, <1>4, <1>6 DEF ValueTable
<1>8. /\ l \in [0 .. n -> Nat] /\ l[0] = 0
      /\ \A i \in 1 .. n : l[i] = (l[i - 1] + Low(i) * Q(i - 1)) % m
  BY <1>1, <1>5, <1>6 DEF LebTable
<1>9. ASSUME NEW i \in 1 .. n
      PROVE  /\ s[i] \in Nat /\ Low(i) \in Nat /\ Carry(i) \in Nat /\ Q(i - 1) \in Nat
             /\ s[i] * Q(i - 1) = Low(i) * Q(i - 1) + Carry(i)
  <2>1. PICK j \in Nat : j = i - 1
    OBVIOUS
  <2>2. i = j + 1 /\ i \in Nat
    BY <2>1
  <2>3. PICK b, low, p, q, w : /\ b = s[i] /\ low = Low(i) /\ p = PowerOf2(PayloadBits)
                              /\ q = Q(j) /\ w = Q(i)
    OBVIOUS
  <2>4. q \in Nat /\ w \in Nat /\ p * q = w
    BY <2>2, <2>3, Weights
  <2>5. /\ b \in Nat /\ low \in Nat /\ p \in Nat
        /\ More(s[i]) => b = low + p
        /\ ~More(s[i]) => b = low
    <3>1. s[i] \in Byte
      BY <1>2
    <3> QED
      BY <2>3, <3>1, BytePayload, Constants, Powers DEF Byte
  <2>6. CASE More(s[i])
    <3>1. Carry(i) = w /\ b = low + p
      BY <2>3, <2>5, <2>6
    <3>2. (low + p) * q = low * q + w
      <4>1. (low + p) * q = low * q + p * q
        BY <2>4, <2>5
      <4> QED
        BY <2>4, <4>1
    <3> QED
      BY <2>1, <2>3, <2>4, <2>5, <3>1, <3>2
  <2>7. CASE ~More(s[i])
    <3>1. Carry(i) = 0 /\ b = low
      BY <2>5, <2>7
    <3>2. low * q = low * q + 0
      BY <2>4, <2>5
    <3> QED
      BY <2>1, <2>3, <2>4, <2>5, <3>1, <3>2
  <2> QED
    BY <2>6, <2>7
<1> DEFINE Same == {i \in 0 .. n - 1 : t[i] % m = (l[i + 1] + Carry(i + 1)) % m}
<1> HIDE DEF Low
<1>10. 0 \in Same
  <2>1. 1 \in 1 .. n /\ 0 \in 0 .. n - 1 /\ 1 - 1 = 0 /\ 0 + 1 = 1
    BY <1>2
  <2>2. Q(0) = 1
    <3>1. PayloadBits * 0 = 0
      BY Constants
    <3> QED
      BY <3>1, Powers
  <2>3. PICK b, low, carry : b = s[1] /\ low = Low(1) /\ carry = Carry(1)
    OBVIOUS
  <2>4. b \in Nat /\ low \in Nat /\ carry \in Nat /\ b * 1 = low * 1 + carry
    BY <1>9, <2>1, <2>2, <2>3
  <2>5. b = low + carry
    BY <2>4
  <2>6. l[1] = low % m
    <3>1. l[1] = (l[0] + Low(1) * Q(0)) % m
      BY <1>8, <2>1
    <3>2. 0 + low * 1 = low
      BY <2>4
    <3> QED
      BY <1>8, <2>2, <2>3, <3>1, <3>2
  <2>7. b % m = ((low % m) + carry) % m
    <3>1. low \in Int /\ carry \in Int
      BY <2>4
    <3> QED
      BY <2>5, <3>1, RemainderOfSum
  <2> QED
    BY <1>7, <2>1, <2>3, <2>6, <2>7
<1>11. ASSUME NEW i \in 1 .. n - 1, i - 1 \in Same PROVE i \in Same
  <2>1. PICK j, k : j = i - 1 /\ k = i + 1
    OBVIOUS
  <2>2. /\ j \in 0 .. n - 1 /\ k \in 1 .. n /\ j + 1 = i /\ k - 1 = i
        /\ i \in 0 .. n /\ i \in 0 .. n - 1
    BY <1>2, <2>1
  <2>3. PICK v, u, q, low, b, carry : /\ v = t[j] /\ u = l[i] /\ q = Q(i) /\ low = Low(k)
                                     /\ b = s[k] /\ carry = Carry(k)
    OBVIOUS
  <2>4. v \in Nat /\ u \in Nat
    BY <1>7, <1>8, <2>2, <2>3
  <2>5. /\ q \in Nat /\ low \in Nat /\ b \in Nat /\ carry \in Nat
        /\ b * q = low * q + carry
    BY <1>9, <2>2, <2>3
  <2>6. v % m = (u + q) % m
    <3>1. Carry(i) = Q(i)
      BY <1>2
    <3>2. t[j] % m = (l[j + 1] + Carry(j + 1)) % m
      BY <1>11, <2>1
    <3> QED
      BY <2>2, <2>3, <3>1, <3>2
  <2>7. t[i] = (v + (b - 1) * q) % m
    BY <1>7, <2>1, <2>3
  <2>8. l[k] = (u + low * q) % m
    BY <1>8, <2>2, <2>3
  <2>9. ((v + (b - 1) * q) % m) % m = (((u + low * q) % m) + carry) % m
    <3>1. /\ v \in Int /\ u \in Int /\ q \in Int /\ low \in Int /\ b \in Int
          /\ carry \in Int
      BY <2>4, <2>5
    <3>2. OneMore(m, v, u, q, low, b, carry)
      BY <1>6, <2>5, <2>6, <3>1 DEF OneMore
    <3> QED
      BY <3>2, MungeStep
  <2>10. t[i] % m = (l[k] + Carry(k)) % m
    BY <2>3, <2>7, <2>8, <2>9
  <2> QED
    BY <2>1, <2>2, <2>10
<1>12. \A i \in 1 .. n - 1 : i - 1 \in Same => i \in Same
  BY <1>11
<1>13. n - 1 \in Nat /\ n - 1 \in 0 .. n - 1
  BY <1>2
<1>14. n - 1 \in Same
  <2> HIDE DEF Same
  <2>1. \A i \in 0 .. n - 1 : i \in Same
    BY <1>10, <1>12, <1>13, CountUp, Zenon
  <2> QED
    BY <1>13, <2>1
<1>15. t[n - 1] % m = (l[n] + 0) % m
  <2>1. (n - 1) + 1 = n /\ Carry(n) = 0
    BY <1>2
  <2> QED
    BY <1>14, <2>1
<1>16. l[n] \in 0 .. m - 1
  <2>1. PICK x : x = l[n - 1] + Low(n) * Q(n - 1)
    OBVIOUS
  <2>2. n \in 1 .. n /\ n - 1 \in 0 .. n
    BY <1>2
  <2>3. x \in Int
    <3>1. PICK a, b, c : a = l[n - 1] /\ b = Low(n) /\ c = Q(n - 1)
      OBVIOUS
    <3>2. a \in Nat /\ b \in Nat /\ c \in Nat
      BY <1>8, <1>9, <2>2, <3>1
    <3>3. a + b * c \in Int
      BY <3>2
    <3> QED
      BY <2>1, <3>1, <3>3
  <2>4. l[n] = x % m
    BY <1>8, <2>1, <2>2
  <2> QED
    BY <2>3, <2>4, Remainder
<1>17. t[n - 1] \in 0 .. m - 1
  <2>1. CASE n = 1
    <3>1. PICK b, p : b = s[1] /\ p = PowerOf2(PayloadBits)
      OBVIOUS
    <3>2. p <= m /\ p \in Nat
      <4>1. PayloadBits \in 0 .. WordBits /\ WordBits \in Nat /\ PayloadBits \in Nat
        BY ReaderAssumption
      <4> QED
        BY <1>6, <3>1, <4>1, PowersGrow, Powers
    <3>3. b \in Nat /\ b < p
      <4>1. b \in Nat /\ ~More(b)
        BY <1>2, <1>9, <2>1, <3>1
      <4> QED
        BY <3>1, <3>2, <4>1 DEF More
    <3> QED
      BY <1>7, <2>1, <3>1, <3>2, <3>3
  <2>2. CASE n # 1
    <3>1. PICK j : j = n - 1
      OBVIOUS
    <3>2. j \in 1 .. n - 1 /\ j - 1 \in 0 .. n - 1 /\ j + 1 \in 1 .. n /\ (j + 1) - 1 = j
      BY <1>2, <2>2, <3>1
    <3>3. PICK a, b, c : a = t[j - 1] /\ b = s[j + 1] /\ c = Q(j)
      OBVIOUS
    <3>4. a \in Nat
      BY <1>7, <3>2, <3>3
    <3>5. b \in Nat /\ c \in Nat
      <4>1. s[j + 1] \in Nat /\ Q((j + 1) - 1) \in Nat
        BY <1>9, <3>2
      <4> QED
        BY <3>2, <3>3, <4>1
    <3>6. a + (b - 1) * c \in Int
      BY <3>4, <3>5
    <3>7. t[j] = (a + (b - 1) * c) % m
      BY <1>7, <3>2, <3>3
    <3>8. t[j] \in 0 .. m - 1
      BY <3>6, <3>7, Remainder
    <3> QED
      BY <3>1, <3>8
  <2> QED
    BY <2>1, <2>2
<1>18. t[n - 1] = l[n]
  <2>1. PICK x, y : x = t[n - 1] /\ y = l[n]
    OBVIOUS
  <2>2. x \in 0 .. m - 1 /\ y \in 0 .. m - 1 /\ x % m = (y + 0) % m
    BY <1>15, <1>16, <1>17, <2>1
  <2>3. x % m = x /\ y + 0 = y /\ y % m = y
    BY <2>2
  <2> QED
    BY <2>1, <2>2, <2>3
<1> QED
  BY <1>1, <1>4, <1>5, <1>18

(* The elements of a packed payload: bytes in order, all but the last       *)
(* element at its end.                                                      *)
Chunk(e) == e \in Seq(Byte) /\ e # << >> /\ \A i \in 1 .. Len(e) - 1 : More(e[i])
Ended(e) == ~More(e[Len(e)])
Splits ==
  {v \in Seq(Seq(Byte)) :
     \A k \in 1 .. Len(v) : Chunk(v[k]) /\ (k < Len(v) => Ended(v[k]))}
Splitting(v, b) ==
  IF v # << >> /\ More(Last(Last(v)))
    THEN Append(Front(v), Append(Last(v), b))
    ELSE Append(v, <<b>>)

LEMMA ChunkGrows ==
  ASSUME NEW e, Chunk(e), ~Ended(e), NEW b \in Byte
  PROVE  Chunk(Append(e, b)) /\ Append(e, b)[Len(Append(e, b))] = b
<1>1. PICK n : n = Len(e)
  OBVIOUS
<1>2. n \in Nat \ {0} /\ e \in Seq(Byte)
  BY <1>1 DEF Chunk
<1>3. /\ Append(e, b) \in Seq(Byte) /\ Len(Append(e, b)) = n + 1
      /\ Append(e, b)[n + 1] = b /\ \A i \in 1 .. n : Append(e, b)[i] = e[i]
  BY <1>1, <1>2
<1>4. \A i \in 1 .. n : More(e[i])
  <2>1. \A i \in 1 .. n : i \in 1 .. n - 1 \/ i = n
    BY <1>2
  <2> QED
    BY <1>1, <2>1 DEF Chunk, Ended
<1>5. \A i \in 1 .. (n + 1) - 1 : More(Append(e, b)[i])
  BY <1>2, <1>3, <1>4
<1>6. Append(e, b) # << >>
  BY <1>2, <1>3
<1> QED
  BY <1>3, <1>5, <1>6 DEF Chunk

LEMMA ChunkBegins ==
  ASSUME NEW b \in Byte
  PROVE  Chunk(<<b>>) /\ <<b>>[Len(<<b>>)] = b
<1>1. <<b>> \in Seq(Byte) /\ Len(<<b>>) = 1 /\ <<b>>[1] = b
  OBVIOUS
<1> QED
  BY <1>1 DEF Chunk

LEMMA SplitsGrow ==
  ASSUME NEW v \in Splits, NEW b \in Byte
  PROVE  /\ Splitting(v, b) \in Splits /\ Splitting(v, b) # << >>
         /\ Last(Last(Splitting(v, b))) = b
<1>1. PICK n : n = Len(v)
  OBVIOUS
<1>2. /\ n \in Nat /\ v \in Seq(Seq(Byte))
      /\ \A k \in 1 .. n : Chunk(v[k]) /\ (k < n => Ended(v[k]))
  BY <1>1 DEF Splits
<1>3. CASE v # << >> /\ More(Last(Last(v)))
  <2>1. n \in Nat \ {0} /\ n \in 1 .. n /\ Last(v) = v[n]
    BY <1>1, <1>2, <1>3 DEF Last
  <2>2. Chunk(v[n]) /\ ~Ended(v[n])
    BY <1>2, <1>3, <2>1 DEF Ended, Last
  <2>3. PICK c : c = Append(v[n], b)
    OBVIOUS
  <2>4. Chunk(c) /\ c[Len(c)] = b /\ c \in Seq(Byte)
    BY <2>2, <2>3, ChunkGrows DEF Chunk
  <2>5. PICK f : f = Front(v)
    OBVIOUS
  <2>6. f \in Seq(Seq(Byte)) /\ Len(f) = n - 1 /\ \A k \in 1 .. n - 1 : f[k] = v[k]
    BY <1>1, <1>2, <2>1, <2>5 DEF Front
  <2>7. PICK w : w = Append(f, c)
    OBVIOUS
  <2>8. /\ w \in Seq(Seq(Byte)) /\ Len(w) = n /\ w[n] = c
        /\ \A k \in 1 .. n - 1 : w[k] = v[k]
    BY <2>1, <2>4, <2>6, <2>7
  <2>9. Splitting(v, b) = w
    BY <1>3, <2>1, <2>3, <2>5, <2>7 DEF Splitting
  <2>10. ASSUME NEW k \in 1 .. n PROVE Chunk(w[k]) /\ (k < n => Ended(w[k]))
    <3>1. k = n \/ (k \in 1 .. n - 1 /\ k < n)
      BY <2>1
    <3>2. CASE k = n
      BY <2>1, <2>4, <2>8, <3>2
    <3>3. CASE k \in 1 .. n - 1 /\ k < n
      BY <1>2, <2>8, <3>3
    <3> QED
      BY <3>1, <3>2, <3>3
  <2>11. w \in Splits
    BY <2>8, <2>10 DEF Splits
  <2>12. w # << >> /\ Last(w) = c /\ Last(c) = b
    BY <2>1, <2>4, <2>8 DEF Last
  <2> QED
    BY <2>9, <2>11, <2>12
<1>4. CASE ~(v # << >> /\ More(Last(Last(v))))
  <2>1. PICK w, c : w = Append(v, c) /\ c = <<b>>
    OBVIOUS
  <2>2. Chunk(c) /\ c[Len(c)] = b /\ c \in Seq(Byte)
    BY <2>1, ChunkBegins DEF Chunk
  <2>3. /\ w \in Seq(Seq(Byte)) /\ Len(w) = n + 1 /\ w[n + 1] = c
        /\ \A k \in 1 .. n : w[k] = v[k]
    BY <1>1, <1>2, <2>1, <2>2
  <2>4. Splitting(v, b) = w
    BY <1>4, <2>1 DEF Splitting
  <2>5. n # 0 => n \in 1 .. n /\ Ended(v[n])
    BY <1>1, <1>2, <1>4 DEF Ended, Last
  <2>6. ASSUME NEW k \in 1 .. n + 1 PROVE Chunk(w[k]) /\ (k < n + 1 => Ended(w[k]))
    <3>1. k = n + 1 \/ (k \in 1 .. n /\ (k < n \/ (k = n /\ n # 0)))
      BY <1>2
    <3>2. CASE k = n + 1
      BY <1>2, <2>2, <2>3, <3>2
    <3>3. CASE k \in 1 .. n /\ (k < n \/ (k = n /\ n # 0))
      <4>1. w[k] = v[k] /\ Chunk(v[k])
        BY <1>2, <2>3, <3>3
      <4>2. Ended(v[k])
        BY <1>2, <2>5, <3>3
      <4> QED
        BY <4>1, <4>2
    <3> QED
      BY <3>1, <3>2, <3>3
  <2>7. w \in Splits
    BY <2>3, <2>6 DEF Splits
  <2>8. w # << >> /\ Last(w) = c /\ Last(c) = b
    BY <1>2, <2>2, <2>3 DEF Last
  <2> QED
    BY <2>4, <2>7, <2>8
<1> QED
  BY <1>3, <1>4

LEMMA ElementsSplit ==
  ASSUME NEW s \in Seq(Byte)
  PROVE  /\ Elements(s) \in Splits
         /\ s = << >> => Elements(s) = << >>
         /\ s # << >> => Elements(s) # << >> /\ Last(Last(Elements(s))) = s[Len(s)]
<1>0. PICK n : n = Len(s)
  OBVIOUS
<1>1. n \in Nat /\ (s = << >> <=> n = 0) /\ \A i \in 1 .. n : s[i] \in Byte
  BY <1>0
<1>2. << >> \in Splits
  BY DEF Splits
<1>3. ASSUME NEW i \in 1 .. n, NEW v \in Splits
      PROVE  /\ Splitting(v, s[i]) \in Splits /\ Splitting(v, s[i]) # << >>
             /\ Last(Last(Splitting(v, s[i]))) = s[i]
  BY <1>1, SplitsGrow
<1> DEFINE g == [i \in 1 .. n |-> [v \in Splits |-> Splitting(v, s[i])]]
<1>4. g \in [1 .. n -> [Splits -> Splits]]
      /\ \A i \in 1 .. n : \A v \in Splits : g[i][v] = Splitting(v, s[i])
  BY <1>3
<1> HIDE DEF g
<1>5. PICK tbl : Tabled(tbl, g, << >>, n, Splits)
  BY <1>1, <1>2, <1>4, TableExists
<1>6. /\ tbl \in [0 .. n -> Splits] /\ tbl[0] = << >>
      /\ \A i \in 1 .. n : tbl[i] = g[i][tbl[i - 1]]
  BY <1>5 DEF Tabled
<1> DEFINE R(f) == f = [i \in 0 .. n |-> IF i = 0 THEN << >> ELSE Splitting(f[i - 1], s[i])]
           c == CHOOSE f : R(f)
<1>7. Elements(s) = c[n]
  BY <1>0 DEF Elements, Splitting
<1>8. ASSUME NEW i \in 1 .. n
      PROVE  tbl[i] = Splitting(tbl[i - 1], s[i]) /\ tbl[i - 1] \in Splits
  <2>1. PICK j : j = i - 1
    OBVIOUS
  <2>2. j \in 0 .. n
    BY <1>1, <2>1
  <2>3. tbl[j] \in Splits
    BY <1>6, <2>2
  <2>4. tbl[i] = Splitting(tbl[j], s[i])
    BY <1>4, <1>6, <2>1, <2>3
  <2> QED
    BY <2>1, <2>3, <2>4
<1>9. R(tbl)
  <2>1. ASSUME NEW i \in 0 .. n
        PROVE  tbl[i] = IF i = 0 THEN << >> ELSE Splitting(tbl[i - 1], s[i])
    <3>1. i = 0 \/ i \in 1 .. n
      BY <1>1
    <3> QED
      BY <1>6, <1>8, <3>1, Zenon
  <2>2. tbl = [i \in 0 .. n |-> tbl[i]]
    BY <1>6
  <2> QED
    BY <2>1, <2>2
<1>10. R(c)
  BY <1>9
<1> HIDE DEF c
<1>11. /\ IsTable(c, n) /\ c[0] = << >>
       /\ \A i \in 1 .. n : c[i] = Splitting(c[i - 1], s[i])
  <2>1. c = [i \in 0 .. n |-> IF i = 0 THEN << >> ELSE Splitting(c[i - 1], s[i])]
    BY <1>10
  <2>2. IsTable(c, n)
    BY <2>1 DEF IsTable
  <2>3. 0 \in 0 .. n /\ \A i \in 1 .. n : i \in 0 .. n /\ i # 0
    BY <1>1
  <2>4. \A i \in 0 .. n : c[i] = IF i = 0 THEN << >> ELSE Splitting(c[i - 1], s[i])
    BY <2>1, Zenon
  <2> QED
    BY <2>2, <2>3, <2>4, Zenon
<1>12. IsTable(tbl, n)
  BY <1>6 DEF IsTable
<1> HIDE DEF R
<1>13. ASSUME NEW i \in 1 .. n, c[i - 1] = tbl[i - 1] PROVE c[i] = tbl[i]
  BY <1>8, <1>11, <1>13, Zenon
<1>14. \A i \in 1 .. n : c[i - 1] = tbl[i - 1] => c[i] = tbl[i]
  BY <1>13
<1>15. c = tbl
  BY <1>1, <1>6, <1>11, <1>12, <1>14, TablesAgree, Zenon
<1>16. n # 0 => tbl[n] # << >> /\ Last(Last(tbl[n])) = s[n]
  <2>1. n # 0 => n \in 1 .. n
    BY <1>1
  <2> QED
    BY <1>3, <1>8, <2>1, Zenon
<1>17. tbl[n] \in Splits
  BY <1>1, <1>6
<1> QED
  BY <1>0, <1>1, <1>6, <1>7, <1>15, <1>16, <1>17

(* When the bytes do not end within one, all elements are numbers.          *)
LEMMA ElementsComplete ==
  ASSUME NEW s \in Seq(Byte), ~(s # << >> /\ More(Last(s)))
  PROVE  \A k \in DOMAIN Elements(s) : Complete(Elements(s)[k])
<1>1. PICK v, n : v = Elements(s) /\ n = Len(v)
  OBVIOUS
<1>2. /\ v \in Seq(Seq(Byte)) /\ n \in Nat /\ DOMAIN v = 1 .. n
      /\ \A k \in 1 .. n : Chunk(v[k]) /\ (k < n => Ended(v[k]))
  <2>1. v \in Splits
    BY <1>1, ElementsSplit
  <2> QED
    BY <1>1, <2>1 DEF Splits
<1>3. n # 0 => Ended(v[n])
  <2>1. n # 0 => s # << >> /\ ~More(s[Len(s)])
    BY <1>1, <1>2, ElementsSplit DEF Last
  <2>2. n # 0 => Last(Last(v)) = s[Len(s)]
    BY <1>1, <2>1, ElementsSplit
  <2> QED
    BY <1>1, <2>1, <2>2 DEF Ended, Last
<1>4. ASSUME NEW k \in 1 .. n PROVE Complete(v[k])
  <2>1. Ended(v[k])
    <3>1. k < n \/ (k = n /\ n # 0)
      BY <1>2
    <3> QED
      BY <1>2, <1>3, <3>1
  <2>2. Chunk(v[k])
    BY <1>2
  <2> QED
    BY <2>1, <2>2 DEF Chunk, Complete, Ended
<1> QED
  BY <1>1, <1>2, <1>4

(* What a sequence of bytes stands for is a number; one byte, itself.       *)
LEMMA ValueIsNat ==
  ASSUME NEW s \in Seq(Nat), s # << >>
  PROVE  Value(s) \in Nat /\ (Len(s) = 1 => Value(s) = s[1])
<1>1. PICK t : ValueTable(t, s) /\ Value(s) = t[Len(s) - 1]
  BY ValueTabled
<1>2. PICK n \in Nat : n = Len(s) - 1
  OBVIOUS
<1>3. t \in [0 .. n -> Nat] /\ t[0] = s[1]
  BY <1>1, <1>2 DEF ValueTable
<1> QED
  BY <1>1, <1>2, <1>3

-----------------------------------------------------------------------------
(* The stream *)

LEMMA SameStream == (S!Init => T!Init) /\ (S!IsDone => T!IsDone)
<1>1. S!Init => T!Init
  BY DEF S!Init, T!Init, S!Patch, T!Patch, S!Zero, T!Zero
<1>2. S!NotDone => T!NotDone
  BY DEF S!NotDone, T!NotDone, S!LimitPtr, T!LimitPtr, S!streamVars, T!streamVars
<1>3. S!AtLimit => T!AtLimit
  BY DEF S!AtLimit, T!AtLimit, S!LimitPtr, T!LimitPtr, S!Exactly, T!Exactly,
         S!Overrun, T!Overrun, S!streamVars, T!streamVars
<1>4. S!Fallback => T!Fallback
  BY DEF S!Fallback, T!Fallback, S!LimitPtr, T!LimitPtr, S!Overrun, T!Overrun,
         S!NextBase, T!NextBase, S!Patch, T!Patch, S!Zero, T!Zero
<1>5. S!PastLimit => T!PastLimit
  BY DEF S!PastLimit, T!PastLimit, S!LimitPtr, T!LimitPtr, S!Overrun, T!Overrun
<1> QED
  BY <1>1, <1>2, <1>3, <1>4, <1>5 DEF S!IsDone, T!IsDone

LEMMA DoneKept ==
  ASSUME T!StreamInv, S!IsDone
  PROVE  T!StreamInv'
<1>1. T!Next
  BY SameStream DEF T!Next
<1> QED
  BY <1>1, StreamConstants, T!StepKeeps

LEMMA StreamKept ==
  ASSUME T!StreamInv, UNCHANGED <<len, window, end, limit, base>>,
         ptr' \in Nat, error' \in BOOLEAN, error => error',
         phase' \in {"boundary", "end", "ok", "failed"}
  PROVE  T!StreamInv'
BY StreamConstants, T!MoveKeeps

LEMMA StreamStays ==
  ASSUME T!StreamInv, UNCHANGED <<streamVars, phase>>
  PROVE  T!StreamInv'
<1>1. UNCHANGED T!vars
  BY DEF T!vars, T!streamVars, streamVars
<1> QED
  BY <1>1, StreamConstants, T!StepKeeps

LEMMA StreamFacts ==
  ASSUME T!StreamInv
  PROVE  /\ len \in Nat /\ end \in Nat /\ limit \in Int /\ base \in Nat /\ ptr \in Nat
         /\ error \in BOOLEAN /\ phase \in {"boundary", "field", "end", "ok", "failed"}
         /\ Len(window) \in Nat
         /\ phase = "field" /\ ~error => ptr + Slop <= Len(window)
         /\ \A i \in 1 .. Len(window) :
              window[i] = IF base + (i - 1) < len THEN base + (i - 1) ELSE S!Zero
<1>1. T!Zero = S!Zero
  BY DEF S!Zero, T!Zero
<1> QED
  BY <1>1, StreamConstants DEF T!StreamInv, T!WindowInv, T!WindowIsInput, T!TypeOK, T!FieldInv

(* Behind padding there is only padding.                                    *)
LEMMA RealBefore ==
  ASSUME T!StreamInv, NEW p \in Nat, NEW q \in Nat, p <= q, q < Len(window), Real(q)
  PROVE  Real(p)
<1>1. p + 1 \in 1 .. Len(window) /\ q + 1 \in 1 .. Len(window) /\ (p + 1) - 1 = p
      /\ (q + 1) - 1 = q
  BY StreamFacts
<1>2. /\ window[p + 1] = IF base + p < len THEN base + p ELSE S!Zero
      /\ window[q + 1] = IF base + q < len THEN base + q ELSE S!Zero
  BY <1>1, StreamFacts
<1>3. base \in Nat /\ len \in Nat /\ S!Zero = -1
  BY StreamFacts DEF S!Zero
<1>4. base + q < len
  BY <1>2, <1>3 DEF Real
<1>5. base + p < len
  BY <1>3, <1>4
<1> QED
  BY <1>2, <1>3, <1>5 DEF Real

-----------------------------------------------------------------------------
(* What is being read *)

LEMMA ReaderFacts ==
  ASSUME ReaderInv
  PROVE  /\ T!StreamInv /\ ptr \in Nat /\ base \in Nat /\ at \in Nat /\ read \in Seq(Nat)
         /\ Len(read) \in Nat /\ groups \in Seq(Nat \ {0}) /\ Len(window) \in Nat
         /\ Slop \in Nat /\ TagBytes \in Nat /\ VarintBytes \in Nat
         /\ TagBytes <= VarintBytes /\ TagBytes + VarintBytes < Slop
         /\ TagBytes >= 1
<1>1. T!StreamInv /\ at \in Nat /\ read \in Seq(Nat) /\ groups \in Seq(Nat \ {0})
  BY DEF ReaderInv
<1>2. ptr \in Nat /\ base \in Nat /\ Len(window) \in Nat
  BY <1>1, StreamFacts
<1>3. Len(read) \in Nat
  BY <1>1
<1> QED
  BY <1>1, <1>2, <1>3, Constants

(* A byte that is read is one of the Slop bytes of the field.               *)
LEMMA ReadBounds ==
  ASSUME ReaderInv, Reading
  PROVE  /\ ~error /\ phase = "field" /\ ptr + Slop <= Len(window)
         /\ ptr <= at /\ ptr <= at - Len(read) /\ at - Len(read) \in Nat
         /\ number # "value" => at + 1 <= ptr + (TagBytes + VarintBytes)
<1>1. phase = "field" /\ ~error /\ ReadingFrom
  BY DEF ReaderInv, Reading
<1>2. ptr + Slop <= Len(window)
  BY <1>1, ReaderFacts, StreamFacts
<1>3. number \in {"tag", "size", "varint", "value"}
  BY DEF ReaderInv
<1>4. CASE number = "tag"
  <2>1. at = ptr + Len(read) /\ Len(read) < TagBytes
    BY <1>1, <1>4 DEF ReadingFrom, Longest
  <2>2. PICK l, t, v : l = Len(read) /\ t = TagBytes /\ v = VarintBytes
    OBVIOUS
  <2>3. l \in Nat /\ t \in Nat /\ v \in Nat /\ l < t /\ t <= v /\ at = ptr + l /\ ptr \in Nat
    BY <2>1, <2>2, ReaderFacts
  <2>4. at + 1 <= ptr + (t + v) /\ ptr <= at - l /\ at - l \in Nat /\ ptr <= at
    BY <2>3
  <2> QED
    BY <1>1, <1>2, <2>2, <2>4
<1>5. CASE number = "size" \/ number = "varint"
  <2>1. /\ ptr + Len(read) <= at /\ at <= ptr + TagBytes + Len(read)
        /\ Len(read) < TagBytes \/ Len(read) < VarintBytes
    BY <1>1, <1>5 DEF ReadingFrom, Longest
  <2>2. Len(read) < VarintBytes
    BY <2>1, ReaderFacts
  <2>3. PICK l, t, v : l = Len(read) /\ t = TagBytes /\ v = VarintBytes
    OBVIOUS
  <2>4. l \in Nat /\ t \in Nat /\ v \in Nat /\ l < v /\ ptr + l <= at /\ at <= ptr + t + l
        /\ ptr \in Nat /\ at \in Nat
    BY <2>1, <2>2, <2>3, ReaderFacts
  <2>5. at + 1 <= ptr + (t + v) /\ ptr <= at - l /\ at - l \in Nat /\ ptr <= at
    BY <2>4
  <2> QED
    BY <1>1, <1>2, <2>3, <2>5
<1>6. CASE number = "value"
  <2>1. at = ptr /\ Len(read) = 0
    BY <1>1, <1>6 DEF ReadingFrom
  <2> QED
    BY <1>1, <1>2, <1>6, <2>1, ReaderFacts
<1> QED
  BY <1>3, <1>4, <1>5, <1>6

LEMMA Grown ==
  ASSUME ReaderInv, NEW b \in ByteAt(at)
  PROVE  /\ Append(read, b) \in Seq(Nat) /\ Len(Append(read, b)) = Len(read) + 1
         /\ Append(read, b) # << >> /\ Value(Append(read, b)) \in Nat
         /\ read = << >> => Value(Append(read, b)) = b
<1>1. b \in Nat /\ read \in Seq(Nat)
  BY ByteIsNat DEF ReaderInv
<1>2. Append(read, b) \in Seq(Nat) /\ Len(Append(read, b)) = Len(read) + 1
  BY <1>1
<1>3. Append(read, b) # << >>
  <2>1. ASSUME Append(read, b) = << >> PROVE FALSE
    <3>1. Len(Append(read, b)) = 0 /\ Len(read) \in Nat
      BY <1>1, <2>1
    <3> QED
      BY <1>2, <3>1
  <2> QED
    BY <2>1
<1>4. read = << >> => Append(read, b)[1] = b /\ Len(Append(read, b)) = 1
  BY <1>1
<1> QED
  BY <1>2, <1>3, <1>4, ValueIsNat

(* A number that is not zero begins with a byte of the input.               *)
LEMMA NumberReal ==
  ASSUME ReaderInv, Reading, op = "decode_empty", NEW b \in ByteAt(at),
         More(b) \/ Value(Append(read, b)) # 0
  PROVE  Real(at - Len(read))
<1>1. CASE read = << >>
  <2>1. More(b) \/ b # 0
    BY <1>1, Grown
  <2>2. Real(at)
    BY <2>1, MoreIsReal
  <2>3. at - Len(read) = at
    BY <1>1, ReaderFacts
  <2> QED
    BY <2>2, <2>3
<1>2. CASE read # << >>
  BY <1>2 DEF ReaderInv, ReadingReal
<1> QED
  BY <1>1, <1>2

-----------------------------------------------------------------------------
(* Steps: what is kept, and what the stream makes of them.                  *)

AsStream == op = "decode_empty" => S!Next \/ UNCHANGED <<streamVars, phase>>

(* A read that fails.                                                       *)
LEMMA FailKeeps ==
  ASSUME ReaderInv, NEW e, Fail(e), e \in BOOLEAN, error => e
  PROVE  ReaderInv'
<1>1. /\ phase' = "failed" /\ error' = e
      /\ UNCHANGED <<len, window, end, limit, base, ptr, op, at, number, read, groups, outcome>>
  BY DEF Fail, readerVars
<1>2. T!StreamInv'
  BY <1>1, ReaderFacts, StreamKept
<1>3. ~Reading'
  BY <1>1 DEF Reading
<1> QED
  BY <1>1, <1>2, <1>3, Zenon DEF ReaderInv

LEMMA FailIsMalformed ==
  ASSUME Fail(error), phase = "field"
  PROVE  AsStream
<1>1. S!Malformed
  BY DEF Fail, S!Malformed, S!streamVars
<1> QED
  BY <1>1 DEF AsStream, S!Next

(* An answer is not the absence of one.                                     *)
LEMMA AnswerIsAnswer ==
  ASSUME base \in Nat, NEW p \in Nat, NEW value \in Nat \cup {None}
  PROVE  [value |-> value, consumed |-> S!Absolute(p)] # None
<1>1. PICK c \in Nat : c = S!Absolute(p)
  BY DEF S!Absolute
<1>2. [value |-> value, consumed |-> c] \in [value : Nat \cup {None}, consumed : Nat]
  OBVIOUS
<1>3. None \notin [value : Nat \cup {None}, consumed : Nat]
  BY ReaderAssumption
<1> QED
  BY <1>1, <1>2, <1>3

(* The end of a field or of an operation.                                   *)
LEMMA EndKeeps ==
  ASSUME ReaderInv, Reading, NEW p \in Nat, NEW value \in Nat \cup {None},
         NEW open \in Seq(Nat \ {0}), NEW bytes \in Seq(Nat),
         EndField(p, value, open, bytes), op \in Fixed => open = << >>
  PROVE  ReaderInv'
<1>1. /\ ptr' = p /\ at' = p /\ phase' = "boundary" /\ groups' = open
      /\ UNCHANGED <<len, window, end, limit, base, error, op>>
  BY DEF EndField
<1>2. T!StreamInv' /\ error' = FALSE
  <2>1. ~error /\ error \in BOOLEAN
    BY ReadBounds, ReaderFacts, StreamFacts
  <2> QED
    BY <1>1, <2>1, ReaderFacts, StreamKept
<1>3. ~Reading'
  BY <1>1 DEF Reading
<1>4. CASE op = "decode_empty" \/ open # << >>
  <2>1. number' = "tag" /\ read' = << >>
    BY <1>4 DEF EndField
  <2>2. op \notin Fixed
    BY <1>4 DEF Fixed
  <2>3. read' \in Seq(Nat)
    BY <2>1
  <2> QED
    BY <1>1, <1>2, <1>3, <2>1, <2>2, <2>3 DEF ReaderInv
<1>5. CASE ~(op = "decode_empty" \/ open # << >>)
  <2>1. /\ outcome' = [value |-> value, consumed |-> S!Absolute(p)]
        /\ read' = bytes /\ number' = number
    BY <1>5 DEF EndField
  <2>2. outcome' # None
    BY <2>1, AnswerIsAnswer, ReaderFacts
  <2> QED
    BY <1>1, <1>2, <1>3, <1>5, <2>1, <2>2 DEF ReaderInv
<1> QED
  BY <1>4, <1>5

(* A field of n bytes is a scalar of the stream.                            *)
LEMMA EndIsScalar ==
  ASSUME ReaderInv, Reading, NEW p \in Nat, NEW value, NEW open, NEW bytes,
         EndField(p, value, open, bytes), ptr < p, p < ptr + Slop, Real(ptr)
  PROVE  AsStream
<1>1. PICK n : n = p - ptr
  OBVIOUS
<1>2. n \in 1 .. Slop - 1 /\ p = ptr + n /\ ptr + n <= Len(window)
  <2>1. ptr \in Nat /\ Slop \in Nat /\ Len(window) \in Nat
    BY ReaderFacts
  <2>2. ptr + Slop <= Len(window)
    BY ReadBounds
  <2> QED
    BY <1>1, <2>1, <2>2
<1>3. S!Readable(n)
  BY <1>2 DEF S!Readable, Real
<1>4. S!ReadScalar(n)
  BY <1>2, <1>3, ReadBounds DEF S!ReadScalar, EndField, S!streamVars
<1> QED
  BY <1>2, <1>4 DEF AsStream, S!Next

(* The number after a tag, or that a skipped value begins with.             *)
LEMMA ExpectKeeps ==
  ASSUME ReaderInv, Reading, NEW kind \in {"size", "varint"}, NEW p \in Nat,
         Expect(kind, p), ptr <= p, p <= ptr + TagBytes, op \notin Fixed,
         op = "decode_empty" => ptr < p /\ Real(ptr)
  PROVE  ReaderInv' /\ AsStream
<1>1. /\ number' = kind /\ at' = p /\ read' = << >>
      /\ UNCHANGED <<streamVars, phase, op, groups, outcome>>
  BY DEF Expect
<1>2. T!StreamInv'
  BY <1>1, StreamStays, ReaderFacts
<1>3. /\ phase' = "field" /\ error' = error /\ ptr' = ptr /\ window' = window
  BY <1>1, ReadBounds DEF streamVars
<1>4. Len(read') = 0 /\ read' \in Seq(Nat)
  BY <1>1
<1>5. ReadingFrom'
  <2>1. Len(read') < Longest'
    BY <1>4, ReaderFacts DEF Longest
  <2> QED
    BY <1>1, <1>3, <1>4, <2>1, ReaderFacts DEF ReadingFrom
<1>6. op = "decode_empty" => ReadingReal'
  BY <1>1, <1>3, <1>4, ReaderFacts DEF ReadingReal, Real
<1>7. ReaderInv'
  BY <1>1, <1>2, <1>3, <1>4, <1>5, <1>6, ReadBounds DEF ReaderInv
<1> QED
  BY <1>1, <1>7 DEF AsStream

-----------------------------------------------------------------------------
(* The actions *)

Good == ReaderInv' /\ AsStream

LEMMA FailGood ==
  ASSUME ReaderInv, Reading, Fail(error)
  PROVE  Good
<1>1. error \in BOOLEAN /\ phase = "field"
  BY ReaderFacts, StreamFacts, ReadBounds
<1> QED
  BY <1>1, FailKeeps, FailIsMalformed DEF Good

(* skip_value                                                               *)
LEMMA SkipGood ==
  ASSUME ReaderInv, Reading, NEW tag \in Nat, NEW p \in Nat, SkipValue(tag, p),
         ptr <= p, p <= ptr + TagBytes, op \notin Fixed,
         op = "decode_empty" => ptr < p /\ (tag # 0 => Real(ptr))
  PROVE  Good
<1>1. CASE Fail(error)
  BY <1>1, FailGood
<1>2. CASE FieldNumber(tag) # 0
  <2>1. tag # 0
    BY <1>2 DEF FieldNumber
  <2>2. << >> \in Seq(Nat) /\ None \in Nat \cup {None} /\ groups \in Seq(Nat \ {0})
    BY ReaderFacts
  <2>3. ASSUME NEW q \in Nat, NEW open \in Seq(Nat \ {0}), p <= q, q < ptr + Slop,
               EndField(q, None, open, << >>)
        PROVE  Good
    <3>1. ReaderInv'
      BY <2>2, <2>3, EndKeeps
    <3>2. CASE op = "decode_empty"
      <4>1. ptr < q /\ Real(ptr)
        BY <2>1, <2>3, <3>2, ReaderFacts
      <4> QED
        BY <2>3, <3>1, <4>1, EndIsScalar DEF Good
    <3>3. CASE op # "decode_empty"
      BY <3>1, <3>3 DEF Good, AsStream
    <3> QED
      BY <3>2, <3>3
  <2>4. ASSUME NEW kind \in {"size", "varint"}, Expect(kind, p) PROVE Good
    BY <2>1, <2>4, ExpectKeeps DEF Good
  <2>5. /\ p + Fixed64 \in Nat /\ p + Fixed64 < ptr + Slop /\ p <= p + Fixed64
        /\ p + Fixed32 \in Nat /\ p + Fixed32 < ptr + Slop /\ p <= p + Fixed32
        /\ p < ptr + Slop /\ p <= p
    <3>1. Fixed64 \in Nat /\ Fixed32 \in Nat /\ Fixed32 < Fixed64
          /\ TagBytes + Fixed64 < Slop
      BY Constants
    <3>2. ptr \in Nat /\ Slop \in Nat /\ TagBytes \in Nat
      BY ReaderFacts
    <3> QED
      BY <3>1, <3>2
  <2>6. CASE EndField(p + Fixed64, None, groups, << >>)
    BY <2>2, <2>3, <2>5, <2>6
  <2>7. CASE EndField(p + Fixed32, None, groups, << >>)
    BY <2>2, <2>3, <2>5, <2>7
  <2>8. CASE EndField(p, None, Append(groups, EndGroupTag(tag)), << >>)
    <3>1. EndGroupTag(tag) \in Nat \ {0}
      BY DEF EndGroupTag, FieldNumber
    <3>2. Append(groups, EndGroupTag(tag)) \in Seq(Nat \ {0})
      BY <2>2, <3>1
    <3> QED
      BY <2>3, <2>5, <2>8, <3>2
  <2> QED
    BY <1>1, <2>4, <2>6, <2>7, <2>8 DEF SkipValue
<1> QED
  BY <1>1, <1>2 DEF SkipValue

LEMMA ReadByteGood ==
  ASSUME ReaderInv, NEW b, ReadByte(b)
  PROVE  Good
<1>1. /\ Reading /\ number # "value" /\ b \in ByteAt(at) /\ More(b)
      /\ Len(read) + 1 < Longest /\ at' = at + 1 /\ read' = Append(read, b)
      /\ UNCHANGED <<streamVars, phase, op, number, groups, outcome>>
  BY DEF ReadByte
<1>2. T!StreamInv'
  BY <1>1, StreamStays, ReaderFacts
<1>3. error' = error /\ ptr' = ptr /\ window' = window
  BY <1>1 DEF streamVars
<1>4. read' \in Seq(Nat) /\ Len(read') = Len(read) + 1
  BY <1>1, Grown
<1>5. ReadingFrom'
  <2>1. ReadingFrom
    BY <1>1 DEF ReaderInv
  <2>2. Longest' = Longest
    BY <1>1 DEF Longest
  <2>3. /\ Len(read) < Longest /\ Len(read) \in Nat /\ ptr \in Nat /\ at \in Nat
        /\ TagBytes \in Nat
        /\ number = "tag" => at = ptr + Len(read)
        /\ number \in {"size", "varint"} =>
             ptr + Len(read) <= at /\ at <= ptr + TagBytes + Len(read)
    BY <2>1, ReaderFacts DEF ReadingFrom
  <2>4. Len(read') < Longest'
    BY <1>1, <1>4, <2>2
  <2>5. number' = "tag" => at' = ptr' + Len(read')
    BY <1>1, <1>3, <1>4, <2>3
  <2>6. number' \in {"size", "varint"} =>
             ptr' + Len(read') <= at' /\ at' <= ptr' + TagBytes + Len(read')
    BY <1>1, <1>3, <1>4, <2>3
  <2> QED
    BY <1>1, <2>4, <2>5, <2>6 DEF ReadingFrom
<1>6. ASSUME op = "decode_empty" PROVE ReadingReal'
  <2>1. ReadingReal
    BY <1>1, <1>6 DEF ReaderInv
  <2>2. Real(at - Len(read))
    BY <1>1, <1>6, NumberReal
  <2>3. at' - Len(read') = at - Len(read)
    BY <1>1, <1>4, ReaderFacts
  <2>4. number' # "tag" => ptr' + Len(read') < at' /\ Real(ptr)
    <3>1. ptr \in Nat /\ at \in Nat /\ Len(read) \in Nat
      BY ReaderFacts
    <3>2. /\ number # "tag" => ptr + Len(read) < at /\ Real(ptr)
          /\ number' = number /\ at' = at + 1
      BY <1>1, <2>1 DEF ReadingReal
    <3> QED
      BY <1>3, <1>4, <3>1, <3>2
  <2> QED
    BY <1>3, <2>2, <2>3, <2>4 DEF ReadingReal, Real
<1>7. phase = "field" /\ ~error
  BY <1>1, ReadBounds
<1>8. ReaderInv'
  BY <1>1, <1>2, <1>3, <1>4, <1>5, <1>6, <1>7, ReaderFacts DEF ReaderInv
<1> QED
  BY <1>1, <1>8 DEF Good, AsStream

LEMMA ReadVarintGood ==
  ASSUME ReaderInv, NEW b, ReadVarint(b)
  PROVE  Good
<1>1. /\ Reading /\ number = "varint" /\ b \in ByteAt(at)
      /\ EndField(at + 1, Value(Append(read, b)), groups, Append(read, b))
  BY DEF ReadVarint, LastByte
<1>2. op \notin Fixed
  BY <1>1 DEF ReaderInv
<1>3. /\ at + 1 \in Nat /\ ptr < at + 1 /\ at + 1 < ptr + Slop
      /\ groups \in Seq(Nat \ {0})
  BY <1>1, ReadBounds, ReaderFacts
<1>4. ReaderInv'
  BY <1>1, <1>2, <1>3, Grown, EndKeeps
<1>5. ASSUME op = "decode_empty" PROVE AsStream
  <2>1. Real(ptr)
    BY <1>1, <1>5 DEF ReaderInv, ReadingReal
  <2> QED
    BY <1>1, <1>3, <2>1, EndIsScalar
<1> QED
  BY <1>4, <1>5 DEF Good, AsStream

LEMMA ReadTagGood ==
  ASSUME ReaderInv, NEW b, ReadTag(b)
  PROVE  Good
<1> DEFINE bytes == Append(read, b)
           tag == Value(bytes)
<1>1. Reading /\ number = "tag" /\ b \in ByteAt(at)
  BY DEF ReadTag, LastByte
<1>2. bytes \in Seq(Nat) /\ tag \in Nat
  BY <1>1, Grown
<1>3. op \notin Fixed
  BY <1>1 DEF ReaderInv
<1>4. at = ptr + Len(read) /\ Len(read) < TagBytes
  BY <1>1 DEF ReaderInv, ReadingFrom, Longest
<1>5. /\ at + 1 \in Nat /\ ptr < at + 1 /\ at + 1 <= ptr + TagBytes /\ at + 1 < ptr + Slop
      /\ at - Len(read) = ptr
  <2>1. /\ ptr \in Nat /\ at \in Nat /\ Len(read) \in Nat /\ Slop \in Nat
        /\ TagBytes \in Nat /\ VarintBytes \in Nat /\ TagBytes + VarintBytes < Slop
    BY ReaderFacts
  <2> QED
    BY <1>4, <2>1
<1>6. op = "decode_empty" /\ tag # 0 => Real(ptr)
  BY <1>1, <1>5, NumberReal
<1>7. << >> \in Seq(Nat) /\ << >> \in Seq(Nat \ {0}) /\ groups \in Seq(Nat \ {0})
  BY ReaderFacts
<1>8. CASE op = "read_tag" /\ EndField(at + 1, tag, << >>, bytes)
  <2>1. ReaderInv'
    BY <1>1, <1>2, <1>3, <1>5, <1>7, <1>8, EndKeeps
  <2> QED
    BY <1>8, <2>1 DEF Good, AsStream
<1>9. CASE groups # << >> /\ tag = Last(groups) /\ EndField(at + 1, None, Front(groups), << >>)
  <2>1. Front(groups) \in Seq(Nat \ {0}) /\ Last(groups) # 0
    BY <1>7, <1>9 DEF Front, Last
  <2>2. ReaderInv'
    BY <1>1, <1>3, <1>5, <1>7, <1>9, <2>1, EndKeeps
  <2>3. CASE op = "decode_empty"
    <3>1. Real(ptr)
      BY <1>6, <1>9, <2>1, <2>3
    <3>2. AsStream
      BY <1>1, <1>5, <1>9, <3>1, EndIsScalar
    <3> QED
      BY <2>2, <3>2 DEF Good
  <2>4. CASE op # "decode_empty"
    BY <2>2, <2>4 DEF Good, AsStream
  <2> QED
    BY <2>3, <2>4
<1>10. CASE SkipValue(tag, at + 1)
  <2> HIDE DEF tag
  <2>1. ptr <= at + 1
    BY <1>5, ReaderFacts
  <2> QED
    BY <1>1, <1>2, <1>3, <1>5, <1>6, <1>10, <2>1, SkipGood
<1> QED
  BY <1>8, <1>9, <1>10 DEF ReadTag

LEMMA ReadSizeGood ==
  ASSUME ReaderInv, NEW b, ReadSize(b)
  PROVE  Good
<1> DEFINE bytes == Append(read, b)
           size == Value(bytes)
<1>1. /\ Reading /\ number = "size" /\ b \in ByteAt(at) /\ size <= Largest
  BY DEF ReadSize, LastByte
<1>2. bytes \in Seq(Nat) /\ size \in Nat
  BY <1>1, Grown
<1>3. op \notin Fixed
  BY <1>1 DEF ReaderInv
<1>4. << >> \in Seq(Nat) /\ << >> \in Seq(Nat \ {0}) /\ groups \in Seq(Nat \ {0})
  BY ReaderFacts
<1>5. at + 1 \in Nat /\ ptr < at + 1 /\ at + 1 < ptr + Slop
  BY <1>1, ReadBounds, ReaderFacts
<1>6. ~error /\ error \in BOOLEAN /\ phase = "field"
  BY <1>1, ReadBounds, ReaderFacts, StreamFacts
<1>7. ASSUME op = "decode_empty"
      PROVE  \E n \in 1 .. Slop - 1 :
               /\ at + 1 = ptr + n
               /\ size \in 0 .. PowerOf2(TagBits - 1) - 1
               /\ S!Declared(n, size)
  <2>1. PICK n : n = (at + 1) - ptr
    OBVIOUS
  <2>2. ReadingReal
    BY <1>1, <1>7 DEF ReaderInv
  <2>3. ptr + Len(read) < at /\ Real(ptr)
    BY <1>1, <2>2 DEF ReadingReal
  <2>4. n \in 1 .. Slop - 1 /\ at + 1 = ptr + n /\ n > 1
    <3>1. ptr \in Nat /\ at \in Nat /\ Len(read) \in Nat /\ Slop \in Nat
      BY ReaderFacts
    <3> QED
      BY <1>5, <2>1, <2>3, <3>1
  <2>5. size \in 0 .. PowerOf2(TagBits - 1) - 1
    <3>1. PowerOf2(TagBits - 1) \in Nat
      BY Constants, Powers
    <3>2. Largest = PowerOf2(TagBits - 1) - 1
      BY <1>1 DEF Largest
    <3> QED
      BY <1>1, <1>2, <3>1, <3>2
  <2>6. ASSUME size # 0 PROVE Real(ptr + 1)
    <3>1. PICK q : q = at - Len(read)
      OBVIOUS
    <3>2. Real(q)
      BY <1>1, <1>7, <2>6, <3>1, NumberReal
    <3>3. q \in Nat /\ ptr + 1 \in Nat /\ ptr + 1 <= q /\ q < Len(window)
      <4>1. /\ ptr \in Nat /\ at \in Nat /\ Len(read) \in Nat /\ Len(window) \in Nat
            /\ Slop \in Nat
        BY ReaderFacts
      <4>2. ptr + Slop <= Len(window)
        BY <1>1, ReadBounds
      <4> QED
        BY <1>5, <2>3, <3>1, <4>1, <4>2
    <3> QED
      BY <3>2, <3>3, RealBefore, ReaderFacts
  <2>7. ptr + n <= Len(window) /\ (ptr + 1) + 1 = ptr + 2
    <3>1. ptr \in Nat /\ Len(window) \in Nat /\ Slop \in Nat
      BY ReaderFacts
    <3>2. ptr + Slop <= Len(window)
      BY <1>1, ReadBounds
    <3> QED
      BY <2>4, <3>1, <3>2
  <2>8. S!Readable(n)
    BY <2>3, <2>7 DEF S!Readable, Real
  <2>9. size > 0 => n > 1 /\ window[ptr + 2] # S!Zero
    BY <1>2, <2>4, <2>6, <2>7 DEF Real
  <2> QED
    BY <2>4, <2>5, <2>8, <2>9 DEF S!Declared
<1> HIDE DEF size
<1>8. CASE op = "read_size" /\ EndField(at + 1, size, << >>, bytes)
  <2>1. ReaderInv'
    BY <1>1, <1>2, <1>3, <1>4, <1>5, <1>8, EndKeeps
  <2> QED
    BY <1>8, <2>1 DEF Good, AsStream
<1>9. CASE Fits(size) /\ EndField(at + 1 + size, None, groups, << >>)
  <2>1. at + 1 + size \in Nat
    BY <1>2, ReaderFacts
  <2>2. ReaderInv'
    BY <1>1, <1>3, <1>4, <1>9, <2>1, EndKeeps
  <2>3. ASSUME op = "decode_empty" PROVE S!Next
    <3>1. PICK n \in 1 .. Slop - 1 :
            /\ at + 1 = ptr + n /\ size \in 0 .. PowerOf2(TagBits - 1) - 1
            /\ S!Declared(n, size)
      BY <1>7, <2>3
    <3>2. /\ ptr' = at + 1 + size /\ phase' = "boundary"
          /\ UNCHANGED <<len, window, end, limit, base, error>>
      BY <1>9 DEF EndField
    <3>3. S!CheckSize(ptr + n, size)
      BY <1>9, <3>1 DEF Fits
    <3>4. ptr' = ptr + n + size
      BY <3>1, <3>2
    <3>5. S!SkipDelimited(n, size)
      BY <1>6, <3>1, <3>2, <3>3, <3>4 DEF S!SkipDelimited
    <3> QED
      BY <3>1, <3>5 DEF S!Next
  <2> QED
    BY <2>2, <2>3 DEF Good, AsStream
<1>10. CASE ~Fits(size) /\ Fail(TRUE)
  <2>1. ReaderInv'
    BY <1>10, FailKeeps
  <2>2. ASSUME op = "decode_empty" PROVE S!Next
    <3>1. PICK n \in 1 .. Slop - 1 :
            /\ at + 1 = ptr + n /\ size \in 0 .. PowerOf2(TagBits - 1) - 1
            /\ S!Declared(n, size)
      BY <1>7, <2>2
    <3>2. /\ phase' = "failed" /\ error' = TRUE
          /\ UNCHANGED <<len, window, end, limit, base, ptr>>
      BY <1>10 DEF Fail
    <3>3. ~S!CheckSize(ptr + n, size)
      BY <1>10, <3>1 DEF Fits
    <3>4. S!SkipDelimited(n, size)
      BY <1>6, <3>1, <3>2, <3>3 DEF S!SkipDelimited
    <3> QED
      BY <3>1, <3>4 DEF S!Next
  <2> QED
    BY <2>1, <2>2 DEF Good, AsStream
<1> QED
  BY <1>8, <1>9, <1>10 DEF ReadSize, size

LEMMA DoneGood ==
  ASSUME ReaderInv, IsDone
  PROVE  Good
<1>1. /\ op # "packed" /\ S!IsDone /\ at' = ptr' /\ phase = "boundary"
      /\ UNCHANGED <<op, number, read, groups, outcome>>
  BY DEF IsDone, S!IsDone, S!NotDone, S!AtLimit, S!Fallback, S!PastLimit
<1>2. T!StreamInv'
  BY <1>1, DoneKept, ReaderFacts
<1>3. ptr' \in Nat
  BY <1>2 DEF T!StreamInv, T!WindowInv, T!WindowIsInput, T!TypeOK
<1>4. ~error /\ error \in BOOLEAN
  BY <1>1, ReaderFacts, StreamFacts DEF ReaderInv
<1>5. error' => phase' = "failed"
  <2>1. CASE S!NotDone \/ S!AtLimit \/ S!Fallback
    BY <1>4, <2>1 DEF S!NotDone, S!AtLimit, S!Fallback, S!streamVars
  <2>2. CASE S!PastLimit
    BY <2>2 DEF S!PastLimit
  <2> QED
    BY <1>1, <2>1, <2>2 DEF S!IsDone
<1>6. phase' # "boundary"
  BY <1>1, <1>4 DEF S!IsDone, S!NotDone, S!AtLimit, S!Fallback, S!PastLimit
<1>7. ASSUME Reading' PROVE ReadingFrom' /\ (op' = "decode_empty" => ReadingReal')
  <2>1. outcome = None /\ read = << >>
    BY <1>1, <1>7 DEF Reading, ReaderInv
  <2>2. read' = << >> /\ Len(read') = 0
    BY <1>1, <2>1
  <2>3. Len(read') < Longest'
    BY <2>2, ReaderFacts DEF Longest
  <2>4. ReadingFrom'
    <3>1. TagBytes \in Nat
      BY ReaderFacts
    <3>a. at' = ptr' /\ Len(read') = 0
      BY <1>1, <2>2
    <3>b. PICK p \in Nat : p = ptr'
      BY <1>3
    <3>c. p = p + 0 /\ p + 0 <= p /\ p <= p + TagBytes + 0
      BY <3>1
    <3>2. /\ at' = ptr' + Len(read') /\ ptr' + Len(read') <= at'
          /\ at' <= ptr' + TagBytes + Len(read')
      BY <3>a, <3>b, <3>c
    <3> QED
      BY <1>1, <2>2, <2>3, <3>2 DEF ReadingFrom
  <2>5. op' = "decode_empty" => number' = "tag"
    BY <1>1 DEF ReaderInv
  <2> QED
    BY <2>2, <2>4, <2>5 DEF ReadingReal
<1>8. ReaderInv'
  BY <1>1, <1>2, <1>3, <1>5, <1>6, <1>7 DEF ReaderInv
<1> QED
  BY <1>1, <1>8 DEF Good, AsStream, S!Next

LEMMA GivenGood ==
  ASSUME ReaderInv, SkipGivenValue \/ ReadFixed
  PROVE  Good
<1>1. Reading /\ number = "value" /\ op # "decode_empty" /\ at = ptr /\ at \in Nat
  BY DEF SkipGivenValue, ReadFixed, ReaderInv, ReadingFrom
<1>2. CASE SkipGivenValue
  <2>1. PICK tag \in GivenTags : SkipValue(tag, at)
    BY <1>2 DEF SkipGivenValue
  <2>2. tag \in Nat /\ ptr <= at /\ at <= ptr + TagBytes
    BY <1>1, Constants, ReaderFacts
  <2>3. op \notin Fixed
    BY <1>2 DEF SkipGivenValue, Fixed
  <2> QED
    BY <1>1, <2>1, <2>2, <2>3, SkipGood
<1>3. CASE ReadFixed
  <2>1. PICK p \in {at + Fixed32, at + Fixed64} : EndField(p, None, << >>, << >>)
    BY <1>3 DEF ReadFixed
  <2>2. Fixed32 \in Nat /\ Fixed64 \in Nat
    BY Constants
  <2>3. p \in Nat
    BY <1>1, <2>1, <2>2
  <2>4. << >> \in Seq(Nat) /\ << >> \in Seq(Nat \ {0})
    OBVIOUS
  <2>5. ReaderInv'
    BY <1>1, <2>1, <2>3, <2>4, EndKeeps
  <2> QED
    BY <1>1, <2>5 DEF Good, AsStream
<1> QED
  BY <1>2, <1>3

LEMMA ReturnGood ==
  ASSUME ReaderInv, Return \/ Unterminated
  PROVE  Good
<1>1. error \in BOOLEAN /\ ptr \in Nat /\ phase = "end"
  BY ReaderFacts, StreamFacts DEF Return, Unterminated, S!Return
<1>2. CASE Return
  <2>1. /\ S!Return /\ phase' = "ok"
        /\ UNCHANGED <<len, window, end, limit, base, error, ptr>>
        /\ UNCHANGED <<op, at, number, read, groups, outcome>>
    BY <1>2 DEF Return, S!Return, S!streamVars, readerVars
  <2>2. T!StreamInv'
    BY <1>1, <2>1, StreamKept, ReaderFacts
  <2>3. ~error
    BY <1>1 DEF ReaderInv
  <2>4. ReaderInv'
    BY <2>1, <2>2, <2>3 DEF ReaderInv, Reading
  <2> QED
    BY <2>1, <2>4 DEF Good, AsStream, S!Next
<1>3. CASE Unterminated
  <2>1. Fail(error)
    BY <1>3 DEF Unterminated
  <2>2. ReaderInv'
    BY <1>1, <2>1, FailKeeps
  <2>3. S!Unterminated
    BY <1>1, <2>1 DEF Fail, S!Unterminated, S!streamVars
  <2> QED
    BY <2>2, <2>3 DEF Good, AsStream, S!Next
<1> QED
  BY <1>2, <1>3

LEMMA PackedGood ==
  ASSUME ReaderInv, EndPacked \/ \E b \in Bytes \cup {0} : ReadPacked(b)
  PROVE  Good
<1>1. /\ op = "packed" /\ phase = "boundary" /\ error \in BOOLEAN /\ ~error
      /\ ptr \in Nat
  BY ReaderFacts, StreamFacts DEF EndPacked, ReadPacked, Parsing, ReaderInv
<1>2. CASE EndPacked
  <2>1. /\ phase' = "ok" /\ UNCHANGED <<len, window, end, limit, base, error, ptr>>
        /\ UNCHANGED <<op, at, number, read, groups>>
    BY <1>2 DEF EndPacked, streamVars
  <2>2. T!StreamInv'
    BY <1>1, <2>1, StreamKept, ReaderFacts
  <2> QED
    BY <1>1, <2>1, <2>2 DEF Good, AsStream, ReaderInv, Reading
<1>3. ASSUME NEW b \in Bytes \cup {0}, ReadPacked(b) PROVE Good
  <2>1. CASE Fail(error)
    <3>1. ReaderInv'
      BY <1>1, <2>1, FailKeeps
    <3> QED
      BY <1>1, <3>1 DEF Good, AsStream
  <2>2. CASE /\ at' = at + 1 /\ read' = Append(read, b)
             /\ UNCHANGED <<streamVars, phase, op, depth, number, groups, span, outcome>>
    <3>1. T!StreamInv'
      BY <2>2, StreamStays, ReaderFacts
    <3>2. b \in Nat
      BY Constants
    <3>3. at' \in Nat /\ read' \in Seq(Nat)
      BY <2>2, <3>2, ReaderFacts
    <3>4. UNCHANGED <<phase, op, error, number, groups>>
      BY <2>2 DEF streamVars
    <3> QED
      BY <1>1, <3>1, <3>3, <3>4 DEF Good, AsStream, ReaderInv, Reading
  <2> QED
    BY <1>3, <2>1, <2>2 DEF ReadPacked
<1> QED
  BY <1>2, <1>3

LEMMA StepGood ==
  ASSUME ReaderInv, [Next]_vars
  PROVE  Good
<1>1. ASSUME NEW b, TooLong(b) \/ TooLarge(b) PROVE Good
  BY <1>1, FailGood DEF TooLong, TooLarge
<1>2. CASE UNCHANGED vars
  <2>1. UNCHANGED <<streamVars, phase, op, readerVars>>
    BY <1>2 DEF vars
  <2>2. T!StreamInv'
    BY <2>1, StreamStays, ReaderFacts
  <2>3. UNCHANGED <<phase, op, error, ptr, window, at, number, read, groups, outcome>>
    BY <2>1 DEF streamVars, readerVars
  <2>4. ReaderInv'
    BY <2>2, <2>3 DEF ReaderInv, Reading, ReadingFrom, ReadingReal, Real, Longest
  <2> QED
    BY <2>1, <2>4 DEF Good, AsStream
<1> QED
  BY <1>1, <1>2, DoneGood, GivenGood, ReturnGood, PackedGood, ReadByteGood,
     ReadVarintGood, ReadTagGood, ReadSizeGood DEF Next

LEMMA InitReader == Init => ReaderInv
<1> SUFFICES ASSUME Init PROVE ReaderInv
  OBVIOUS
<1>1. S!Init /\ at = 0 /\ number = FirstNumber /\ read = << >> /\ outcome = None
  BY DEF Init
<1>2. T!StreamInv
  BY <1>1, SameStream, StreamConstants, T!InitStream
<1>3. error = FALSE /\ ptr = 0 /\ phase = "boundary"
  BY <1>1 DEF S!Init
<1>4. groups \in Seq(Nat \ {0})
  <2>1. CASE op = "skip_group"
    <3>1. PICK tag \in GivenTags : groups = <<EndGroupTag(tag)>>
      BY <2>1 DEF Init
    <3>2. EndGroupTag(tag) \in Nat \ {0}
      BY Constants DEF EndGroupTag, FieldNumber
    <3> QED
      BY <3>1, <3>2
  <2>2. CASE op # "skip_group"
    BY <2>2 DEF Init
  <2> QED
    BY <2>1, <2>2
<1>5. /\ number \in {"tag", "size", "varint", "value"}
      /\ op = "decode_empty" => number = "tag"
      /\ op \in Fixed => number = "value"
  BY <1>1 DEF FirstNumber, Fixed
<1>6. read \in Seq(Nat)
  BY <1>1
<1> QED
  BY <1>1, <1>2, <1>3, <1>4, <1>5, <1>6 DEF ReaderInv, Reading

LEMMA ReaderAlwaysInv == Spec => []ReaderInv
<1>1. ReaderInv /\ [Next]_vars => ReaderInv'
  BY StepGood DEF Good
<1> QED
  BY <1>1, InitReader, PTL DEF Spec

-----------------------------------------------------------------------------
(* The primitive operations.  A number that is being read goes on, an       *)
(* operation that reads one expects no other, and its answer is where the   *)
(* stream stands; the end of the input is where the stream has it.          *)
Numeric == {"read_varint", "read_tag", "read_size"}
PrimitiveInv ==
  /\ PrimitiveExact
  /\ base + end + limit = len
  /\ read \in Seq(Byte)
  /\ op # "packed" /\ outcome = None => \A i \in 1 .. Len(read) : More(read[i])
  /\ op \in Numeric => groups = << >> /\ number = FirstNumber
  /\ outcome # None =>
       /\ op # "decode_empty" /\ groups = << >>
       /\ (op # "packed" => outcome.consumed = S!Absolute(ptr))
  /\ Parsing => span \in Nat /\ groups = << >> /\ (at > span => InElement)

LEMMA BytesRead ==
  ASSUME NEW p, NEW b \in ByteAt(p) \cup Bytes \cup {0}
  PROVE  b \in Byte
<1>1. PayloadBits + 1 \in Nat
  BY Constants
<1>2. 0 \in Byte
  BY <1>1, Powers DEF Byte
<1>3. Bytes \subseteq Byte
  BY ReaderAssumption DEF Byte
<1> QED
  BY <1>2, <1>3 DEF ByteAt

LEMMA NumberEnds ==
  ASSUME PrimitiveInv, op # "packed", outcome = None, NEW b \in ByteAt(at), ~More(b)
  PROVE  /\ Append(read, b) \in Seq(Byte)
         /\ Value(Append(read, b)) = Leb(Append(read, b))
<1>1. PICK n : n = Len(read)
  OBVIOUS
<1>2. b \in Byte /\ read \in Seq(Byte) /\ n \in Nat
  BY <1>1, BytesRead DEF PrimitiveInv
<1>3. \A i \in 1 .. n : More(read[i])
  BY <1>1 DEF PrimitiveInv
<1>4. PICK s : s = Append(read, b)
  OBVIOUS
<1>5. /\ s \in Seq(Byte) /\ Len(s) = n + 1 /\ s[n + 1] = b
      /\ \A i \in 1 .. n : s[i] = read[i]
  BY <1>1, <1>2, <1>4
<1>6. \A i \in 1 .. Len(s) - 1 : More(s[i])
  BY <1>2, <1>3, <1>5
<1>7. s # << >> /\ ~More(s[Len(s)])
  BY <1>2, <1>5
<1>8. Complete(s)
  BY <1>5, <1>6, <1>7 DEF Complete
<1> QED
  BY <1>4, <1>5, <1>8, ValueIsLeb

(* What ends an operation early, before it has an answer.                   *)
LEMMA FailPrimitive ==
  ASSUME PrimitiveInv, outcome = None, NEW e, Fail(e)
  PROVE  PrimitiveInv'
<1>1. /\ phase' = "failed"
      /\ UNCHANGED <<len, end, limit, base, ptr, op, at, number, read, groups, span, outcome>>
  BY DEF Fail, readerVars
<1>2. PrimitiveExact' /\ ~Parsing'
  BY <1>1 DEF PrimitiveExact, Parsing
<1>3. FirstNumber' = FirstNumber
  BY <1>1 DEF FirstNumber
<1> QED
  BY <1>1, <1>2, <1>3 DEF PrimitiveInv

(* The end of a field, or of an operation with its answer.                  *)
LEMMA EndPrimitive ==
  ASSUME ReaderInv, PrimitiveInv, Reading, NEW p \in Nat,
         NEW value \in Nat \cup {None}, NEW open,
         NEW bytes \in Seq(Byte), EndField(p, value, open, bytes),
         op \in Numeric => open = << >> /\ value = Leb(bytes)
  PROVE  PrimitiveInv'
<1>1. /\ outcome = None /\ op # "packed"
      /\ ptr' = p /\ phase' = "boundary" /\ groups' = open
      /\ UNCHANGED <<len, end, limit, base, op, span>>
  BY DEF EndField, Reading
<1>2. FirstNumber' = FirstNumber /\ ~Parsing'
  BY <1>1 DEF FirstNumber, Parsing
<1>3. (base + end + limit = len)'
  BY <1>1 DEF PrimitiveInv
<1>4. CASE op = "decode_empty" \/ open # << >>
  <2>1. read' = << >> /\ outcome' = None /\ op \notin Numeric
    BY <1>1, <1>4 DEF EndField, Numeric
  <2>2. read' \in Seq(Byte) /\ \A i \in 1 .. Len(read') : More(read'[i])
    BY <2>1
  <2>3. PrimitiveExact'
    BY <2>1 DEF PrimitiveExact
  <2> QED
    BY <1>1, <1>2, <1>3, <2>1, <2>2, <2>3 DEF PrimitiveInv, More
<1>5. CASE ~(op = "decode_empty" \/ open # << >>)
  <2>1. /\ outcome' = [value |-> value, consumed |-> S!Absolute(p)]
        /\ read' = bytes /\ number' = number
    BY <1>5 DEF EndField
  <2>2. outcome'.value = value /\ outcome'.consumed = S!Absolute(ptr)'
    BY <1>1, <2>1 DEF S!Absolute
  <2>3. op \in Numeric => outcome'.value = Leb(read')
    BY <2>1, <2>2
  <2>4. Leb(read)' = Leb(read')
    BY DEF Leb
  <2>5. PrimitiveExact'
    BY <1>1, <2>3, <2>4 DEF PrimitiveExact, Numeric
  <2>6. op \in Numeric => number' = FirstNumber
    BY <2>1 DEF PrimitiveInv
  <2>7. outcome' # None
    BY <2>1, AnswerIsAnswer, ReaderFacts
  <2>8. read' \in Seq(Byte)
    BY <2>1
  <2>9. outcome'.consumed = S!Absolute(ptr)'
    BY <2>2
  <2> QED
    BY <1>1, <1>2, <1>3, <1>5, <2>5, <2>6, <2>7, <2>8, <2>9 DEF PrimitiveInv
<1> QED
  BY <1>4, <1>5

LEMMA ExpectPrimitive ==
  ASSUME PrimitiveInv, Reading, NEW kind, NEW p, Expect(kind, p), op \notin Numeric
  PROVE  PrimitiveInv'
<1>1. /\ read' = << >> /\ outcome = None /\ op # "packed"
      /\ UNCHANGED <<len, end, limit, base, ptr, phase, op, groups, span, outcome>>
  BY DEF Expect, Reading, streamVars
<1>2. PrimitiveExact' /\ ~Parsing'
  BY <1>1 DEF PrimitiveExact, Parsing
<1>3. read' \in Seq(Byte) /\ \A i \in 1 .. Len(read') : More(read'[i])
  BY <1>1
<1>4. (base + end + limit = len)'
  BY <1>1 DEF PrimitiveInv
<1> QED
  BY <1>1, <1>2, <1>3, <1>4 DEF PrimitiveInv, More

LEMMA SkipPrimitive ==
  ASSUME ReaderInv, PrimitiveInv, Reading, NEW tag, NEW p \in Nat, SkipValue(tag, p),
         op \notin Numeric
  PROVE  PrimitiveInv'
<1>1. outcome = None
  BY DEF Reading
<1>2. << >> \in Seq(Byte) /\ None \in Nat \cup {None}
  OBVIOUS
<1>3. p + Fixed32 \in Nat /\ p + Fixed64 \in Nat
  BY Constants
<1>4. CASE Fail(error)
  BY <1>1, <1>4, FailPrimitive
<1>5. CASE Expect("varint", p) \/ Expect("size", p)
  BY <1>5, ExpectPrimitive
<1>6. ASSUME NEW q \in {p, p + Fixed32, p + Fixed64}, NEW open, EndField(q, None, open, << >>)
      PROVE  PrimitiveInv'
  <2>1. q \in Nat
    BY <1>3
  <2> QED
    BY <1>2, <1>6, <2>1, EndPrimitive
<1> QED
  BY <1>4, <1>5, <1>6 DEF SkipValue

LEMMA DonePrimitive ==
  ASSUME ReaderInv, PrimitiveInv, IsDone
  PROVE  PrimitiveInv'
<1>1. /\ op # "packed" /\ S!IsDone /\ phase = "boundary"
      /\ UNCHANGED <<op, number, read, groups, span, outcome>>
  BY DEF IsDone, S!IsDone, S!NotDone, S!AtLimit, S!Fallback, S!PastLimit
<1>2. /\ len \in Nat /\ end \in Nat /\ limit \in Int /\ base \in Nat /\ ptr \in Nat
      /\ base + end + limit = len /\ Slop \in Nat
  BY ReaderFacts, StreamFacts DEF PrimitiveInv
<1>3. ~error
  BY <1>1, ReaderFacts, StreamFacts DEF ReaderInv
<1>4. /\ (base + end + limit = len)' /\ S!Absolute(ptr)' = S!Absolute(ptr) /\ len' = len
      /\ phase' = "failed" <=> S!Absolute(ptr) > len
  <2>1. CASE S!NotDone
    <3>1. phase' = "field" /\ UNCHANGED <<len, end, limit, base, ptr>>
      BY <2>1 DEF S!NotDone, S!streamVars
    <3>2. ptr < end + limit \/ (limit >= 0 /\ ptr < end)
      BY <1>2, <2>1 DEF S!NotDone, S!LimitPtr
    <3>3. base + ptr < len
      BY <1>2, <3>2
    <3> QED
      BY <1>2, <3>1, <3>3 DEF S!Absolute
  <2>2. CASE S!AtLimit
    <3>1. phase' = "end" /\ UNCHANGED <<len, end, limit, base, ptr>> /\ ptr - end = limit
      BY <1>3, <2>2 DEF S!AtLimit, S!streamVars, S!Exactly, S!Overrun
    <3>2. base + ptr = len
      BY <1>2, <3>1
    <3> QED
      BY <1>2, <3>1, <3>2 DEF S!Absolute
  <2>3. CASE S!Fallback
    <3>1. /\ phase' = "field" /\ len' = len /\ end' = Slop /\ limit' = limit - Slop
          /\ base' = base + (ptr - (ptr - end)) /\ ptr' = ptr - end /\ ptr - end < limit
      BY <2>3 DEF S!Fallback, S!NextBase, S!Overrun
    <3>2. base' = base + end
      BY <1>2, <3>1
    <3>3. base' + end' + limit' = len' /\ base' + ptr' = base + ptr /\ base + ptr < len
      BY <1>2, <3>1, <3>2
    <3> QED
      BY <1>2, <3>1, <3>3 DEF S!Absolute
  <2>4. CASE S!PastLimit
    <3>1. phase' = "failed" /\ UNCHANGED <<len, end, limit, base, ptr>> /\ ptr - end > limit
      BY <2>4 DEF S!PastLimit, S!Overrun
    <3>2. base + ptr > len
      BY <1>2, <3>1
    <3> QED
      BY <1>2, <3>1, <3>2 DEF S!Absolute
  <2> QED
    BY <1>1, <2>1, <2>2, <2>3, <2>4 DEF S!IsDone
<1>5. Leb(read)' = Leb(read) /\ FirstNumber' = FirstNumber /\ ~Parsing'
  BY <1>1 DEF Leb, FirstNumber, Parsing
<1>6. outcome # None => outcome.consumed = S!Absolute(ptr)
  BY <1>1 DEF PrimitiveInv
<1>7. PrimitiveExact'
  BY <1>1, <1>4, <1>5, <1>6 DEF PrimitiveInv, PrimitiveExact
<1> QED
  BY <1>1, <1>4, <1>5, <1>7 DEF PrimitiveInv, More

LEMMA EndOfInputPrimitive ==
  ASSUME ReaderInv, PrimitiveInv, Return \/ Unterminated
  PROVE  PrimitiveInv'
<1>1. CASE Unterminated
  <2>1. groups # << >> /\ Fail(error)
    BY <1>1 DEF Unterminated
  <2> QED
    BY <2>1, FailPrimitive DEF PrimitiveInv
<1>2. CASE Return
  <2>1. /\ op = "decode_empty" /\ phase' = "ok"
        /\ UNCHANGED <<len, end, limit, base, ptr, op, number, read, groups, span, outcome>>
    BY <1>2 DEF Return, S!Return, S!streamVars, readerVars
  <2>2. PrimitiveExact' /\ ~Parsing'
    BY <2>1 DEF PrimitiveInv, PrimitiveExact, Parsing
  <2> QED
    BY <2>1, <2>2 DEF PrimitiveInv, Numeric, More
<1> QED
  BY <1>1, <1>2

LEMMA GivenPrimitive ==
  ASSUME ReaderInv, PrimitiveInv, SkipGivenValue \/ ReadFixed
  PROVE  PrimitiveInv'
<1>1. Reading /\ op \notin Numeric /\ at \in Nat
  BY ReaderFacts DEF SkipGivenValue, ReadFixed, Numeric
<1>2. CASE SkipGivenValue
  BY <1>1, <1>2, SkipPrimitive DEF SkipGivenValue
<1>3. CASE ReadFixed
  <2>1. PICK p \in {at + Fixed32, at + Fixed64} : EndField(p, None, << >>, << >>)
    BY <1>3 DEF ReadFixed
  <2>2. p \in Nat
    BY <1>1, Constants
  <2>3. << >> \in Seq(Byte) /\ None \in Nat \cup {None}
    OBVIOUS
  <2> QED
    BY <1>1, <2>1, <2>2, <2>3, EndPrimitive
<1> QED
  BY <1>2, <1>3

LEMMA BytePrimitive ==
  ASSUME ReaderInv, PrimitiveInv, NEW b, ReadByte(b)
  PROVE  PrimitiveInv'
<1>1. /\ op # "packed" /\ outcome = None /\ b \in ByteAt(at) /\ More(b)
      /\ read' = Append(read, b)
      /\ UNCHANGED <<len, end, limit, base, ptr, phase, op, number, groups, span, outcome>>
  BY DEF ReadByte, Reading, streamVars
<1>2. b \in Byte /\ read \in Seq(Byte) /\ \A i \in 1 .. Len(read) : More(read[i])
  BY <1>1, BytesRead DEF PrimitiveInv
<1>3. PICK n \in Nat : n = Len(read)
  BY <1>2
<1>4. /\ read' \in Seq(Byte) /\ Len(read') = n + 1 /\ read'[n + 1] = b
      /\ \A i \in 1 .. n : read'[i] = read[i]
  BY <1>1, <1>2, <1>3
<1>5. ASSUME NEW i \in 1 .. Len(read') PROVE More(read'[i])
  <2>1. i \in 1 .. n \/ i = n + 1
    BY <1>4
  <2> QED
    BY <1>1, <1>2, <1>3, <1>4, <2>1
<1>6. PrimitiveExact' /\ ~Parsing' /\ FirstNumber' = FirstNumber
  BY <1>1 DEF PrimitiveExact, Parsing, FirstNumber
<1>7. (base + end + limit = len)'
  BY <1>1 DEF PrimitiveInv
<1> QED
  BY <1>1, <1>4, <1>5, <1>6, <1>7 DEF PrimitiveInv, More

(* The last byte of a number, of each kind.                                 *)
LEMMA NumberPrimitive ==
  ASSUME ReaderInv, PrimitiveInv, NEW b, ReadVarint(b) \/ ReadTag(b) \/ ReadSize(b)
  PROVE  PrimitiveInv'
<1> DEFINE s == Append(read, b)
<1>1. /\ Reading /\ op # "packed" /\ outcome = None /\ b \in ByteAt(at) /\ ~More(b)
  BY DEF ReadVarint, ReadTag, ReadSize, LastByte, Reading
<1>2. s \in Seq(Byte) /\ Value(s) = Leb(s) /\ Value(s) \in Nat
  BY <1>1, NumberEnds, Grown
<1>3. at + 1 \in Nat /\ at \in Nat /\ << >> \in Seq(Byte) /\ None \in Nat \cup {None}
  BY ReaderFacts
<1>4. /\ op = "read_varint" => number = "varint" /\ groups = << >>
      /\ op = "read_tag" => number = "tag" /\ groups = << >>
      /\ op = "read_size" => number = "size" /\ groups = << >>
  BY DEF PrimitiveInv, Numeric, FirstNumber
<1> HIDE DEF s
<1>5. CASE ReadVarint(b)
  <2>1. number = "varint" /\ EndField(at + 1, Value(s), groups, s)
    BY <1>5 DEF ReadVarint, LastByte, s
  <2>2. op \in Numeric => groups = << >>
    BY <1>4 DEF Numeric
  <2> QED
    BY <1>1, <1>2, <1>3, <2>1, <2>2, EndPrimitive
<1>6. CASE ReadTag(b)
  <2>1. number = "tag"
    BY <1>6 DEF ReadTag, LastByte
  <2>2. CASE op = "read_tag"
    <3>1. EndField(at + 1, Value(s), << >>, s)
      BY <1>6, <2>2 DEF ReadTag, s
    <3> QED
      BY <1>1, <1>2, <1>3, <3>1, EndPrimitive
  <2>3. CASE op # "read_tag"
    <3>1. op \notin Numeric
      BY <1>4, <2>1, <2>3 DEF Numeric
    <3>2. \/ EndField(at + 1, None, Front(groups), << >>)
          \/ SkipValue(Value(s), at + 1)
      BY <1>6, <2>3 DEF ReadTag, s
    <3>3. CASE EndField(at + 1, None, Front(groups), << >>)
      BY <1>1, <1>3, <3>1, <3>3, EndPrimitive
    <3>4. CASE SkipValue(Value(s), at + 1)
      BY <1>1, <1>3, <3>1, <3>4, SkipPrimitive
    <3> QED
      BY <3>2, <3>3, <3>4
  <2> QED
    BY <2>2, <2>3
<1>7. CASE ReadSize(b)
  <2>1. number = "size"
    BY <1>7 DEF ReadSize, LastByte
  <2>2. CASE op = "read_size"
    <3>1. EndField(at + 1, Value(s), << >>, s)
      BY <1>7, <2>2 DEF ReadSize, s
    <3> QED
      BY <1>1, <1>2, <1>3, <3>1, EndPrimitive
  <2>3. CASE op # "read_size"
    <3>1. op \notin Numeric
      BY <1>4, <2>1, <2>3 DEF Numeric
    <3>2. \/ EndField((at + 1) + Value(s), None, groups, << >>)
          \/ Fail(TRUE)
      BY <1>7, <2>3 DEF ReadSize, s
    <3>3. CASE EndField((at + 1) + Value(s), None, groups, << >>)
      <4>1. (at + 1) + Value(s) \in Nat
        BY <1>2, <1>3
      <4> QED
        BY <1>1, <1>3, <3>1, <3>3, <4>1, EndPrimitive
    <3>4. CASE Fail(TRUE)
      BY <1>1, <3>4, FailPrimitive
    <3> QED
      BY <3>2, <3>3, <3>4
  <2> QED
    BY <2>2, <2>3
<1> QED
  BY <1>5, <1>6, <1>7

LEMMA LebsKept ==
  ASSUME read' = read
  PROVE  /\ Leb(read)' = Leb(read)
         /\ [i \in DOMAIN Elements(read) |-> Leb(Elements(read)[i])]' =
              [i \in DOMAIN Elements(read) |-> Leb(Elements(read)[i])]
<1>1. Elements(read)' = Elements(read)
  BY DEF Elements, More
<1>2. ASSUME NEW i PROVE Leb(Elements(read)[i])' = Leb(Elements(read)[i])
  BY <1>1 DEF Leb
<1>3. Leb(read)' = Leb(read)
  BY DEF Leb
<1> QED
  BY <1>1, <1>2, <1>3

LEMMA PackedPrimitive ==
  ASSUME ReaderInv, PrimitiveInv, EndPacked \/ \E b \in Bytes \cup {0} : ReadPacked(b)
  PROVE  PrimitiveInv'
<1>1. /\ Parsing /\ op = "packed" /\ outcome = None /\ at \in Nat /\ span \in Nat
      /\ read \in Seq(Byte) /\ (at > span => InElement) /\ groups = << >>
      /\ base + end + limit = len
  BY ReaderFacts DEF EndPacked, ReadPacked, Parsing, PrimitiveInv
<1>2. op \notin Numeric
  BY <1>1 DEF Numeric
<1>3. CASE EndPacked
  <2>1. /\ outcome' = [value |-> [i \in DOMAIN Elements(read) |-> Value(Elements(read)[i])],
                       consumed |-> at]
        /\ phase' = "ok" /\ at >= span /\ ~InElement
        /\ UNCHANGED <<len, end, limit, base, ptr, op, at, number, read, groups, span>>
    BY <1>3 DEF EndPacked, streamVars
  <2>2. at = span
    BY <1>1, <2>1
  <2>3. \A k \in DOMAIN Elements(read) : Complete(Elements(read)[k])
    BY <1>1, <2>1, ElementsComplete DEF InElement
  <2>4. \A k \in DOMAIN Elements(read) : Value(Elements(read)[k]) = Leb(Elements(read)[k])
    BY <2>3, ValueIsLeb
  <2>5. outcome'.value = [i \in DOMAIN Elements(read) |-> Leb(Elements(read)[i])]
    BY <2>1, <2>4
  <2>6. [i \in DOMAIN Elements(read) |-> Leb(Elements(read)[i])]' =
          [i \in DOMAIN Elements(read) |-> Leb(Elements(read)[i])]
    BY <2>1, LebsKept
  <2>7. PrimitiveExact'
    BY <1>1, <2>1, <2>2, <2>5, <2>6 DEF PrimitiveExact
  <2>8. ~Parsing' /\ op' = "packed" /\ read' \in Seq(Byte) /\ (base + end + limit = len)'
    BY <1>1, <2>1 DEF Parsing
  <2>9. groups' = << >> /\ groups = << >>
    BY <1>1, <2>1
  <2> QED
    BY <2>7, <2>8, <2>9 DEF PrimitiveInv, Numeric
<1>4. ASSUME NEW b \in Bytes \cup {0}, ReadPacked(b) PROVE PrimitiveInv'
  <2>1. CASE Fail(error)
    BY <1>1, <2>1, FailPrimitive
  <2>2. CASE /\ ~TooLate(b) /\ at' = at + 1 /\ read' = Append(read, b)
             /\ UNCHANGED <<streamVars, phase, op, depth, number, groups, span, outcome>>
    <3>1. UNCHANGED <<len, end, limit, base, ptr, phase, op, number, groups, span, outcome>>
      BY <2>2 DEF streamVars
    <3>2. b \in Byte
      BY BytesRead
    <3>3. PICK n \in Nat : n = Len(read)
      BY <1>1
    <3>4. read' \in Seq(Byte) /\ Len(read') = n + 1 /\ read'[n + 1] = b
      BY <1>1, <2>2, <3>2, <3>3
    <3>5. read' # << >> /\ Last(read') = b
      BY <3>4 DEF Last
    <3>6. at' > span' => More(b)
      BY <1>1, <2>2, <3>1 DEF TooLate
    <3>7. at' > span' => InElement'
      BY <3>5, <3>6 DEF InElement, More
    <3>8. PrimitiveExact' /\ (base + end + limit = len)'
      BY <1>1, <3>1 DEF PrimitiveExact
    <3> QED
      BY <1>1, <1>2, <3>1, <3>4, <3>7, <3>8 DEF PrimitiveInv, Numeric
  <2> QED
    BY <1>4, <2>1, <2>2 DEF ReadPacked
<1> QED
  BY <1>3, <1>4

LEMMA StepPrimitive ==
  ASSUME ReaderInv, PrimitiveInv, [Next]_vars
  PROVE  PrimitiveInv'
<1>1. ASSUME NEW b, TooLong(b) \/ TooLarge(b) PROVE PrimitiveInv'
  <2>1. outcome = None /\ Fail(error)
    BY <1>1 DEF TooLong, TooLarge, Reading
  <2> QED
    BY <2>1, FailPrimitive
<1>2. CASE UNCHANGED vars
  <2>1. UNCHANGED <<len, end, limit, base, ptr, phase, op, at, number, read, groups, span,
                    outcome>>
    BY <1>2 DEF vars, streamVars, readerVars
  <2>2. /\ Leb(read)' = Leb(read)
        /\ [i \in DOMAIN Elements(read) |-> Leb(Elements(read)[i])]' =
             [i \in DOMAIN Elements(read) |-> Leb(Elements(read)[i])]
    BY <2>1, LebsKept
  <2>3. PrimitiveExact'
    BY <2>1, <2>2 DEF PrimitiveInv, PrimitiveExact
  <2> QED
    BY <2>1, <2>3 DEF PrimitiveInv, More, FirstNumber, S!Absolute, Parsing, InElement
<1> QED
  BY <1>1, <1>2, DonePrimitive, GivenPrimitive, EndOfInputPrimitive, PackedPrimitive,
     BytePrimitive, NumberPrimitive DEF Next

LEMMA InitPrimitive == Init => PrimitiveInv
<1> SUFFICES ASSUME Init PROVE PrimitiveInv
  OBVIOUS
<1>1. /\ S!Init /\ at = 0 /\ number = FirstNumber /\ read = << >> /\ outcome = None
  BY DEF Init
<1>2. len \in Nat /\ Slop \in Nat
  BY <1>1, StreamConstants DEF S!Init
<1>3. base + end + limit = len
  BY <1>1, <1>2 DEF S!Init
<1>4. PrimitiveExact
  BY <1>1 DEF PrimitiveExact
<1>5. op \in Numeric => groups = << >>
  BY DEF Init, Numeric
<1>6. Parsing => span \in Nat /\ groups = << >>
  BY ReaderAssumption DEF Parsing, Init
<1>7. span \in Nat => ~(at > span)
  BY <1>1
<1>8. read \in Seq(Byte) /\ Len(read) = 0
  BY <1>1
<1> QED
  BY <1>1, <1>3, <1>4, <1>5, <1>6, <1>7, <1>8 DEF PrimitiveInv

-----------------------------------------------------------------------------
(* decode_empty against Fields.  A number no wider than the word is summed  *)
(* without a remainder.                                                     *)
PayloadOf(b) == b % PowerOf2(PayloadBits)
Weight(i) == PowerOf2(PayloadBits * i)
Places(s) == [i \in DOMAIN s |-> PayloadOf(s[i]) * Weight(i - 1)]

LEMMA SamePower ==
  ASSUME NEW n
  PROVE  F!PowerOf2(n) = PowerOf2(n)
BY DEF F!PowerOf2, PowerOf2

LEMMA SameSum ==
  ASSUME NEW s
  PROVE  F!SumOf(s) = SumOf(s)
BY DEF F!SumOf, SumOf

LEMMA SameMore ==
  ASSUME NEW b
  PROVE  F!More(b) <=> More(b)
BY SamePower DEF F!More, More

LEMMA PlainLeb ==
  ASSUME NEW s
  PROVE  F!Leb(s) = SumOf(Places(s))
<1>1. F!PowerOf2(PayloadBits) = PowerOf2(PayloadBits)
  BY SamePower
<1>2. ASSUME NEW i \in DOMAIN s
      PROVE  (s[i] % F!PowerOf2(PayloadBits)) * F!PowerOf2(PayloadBits * (i - 1))
               = PayloadOf(s[i]) * Weight(i - 1)
  <2>1. F!PowerOf2(PayloadBits * (i - 1)) = PowerOf2(PayloadBits * (i - 1))
    BY SamePower
  <2> QED
    BY <1>1, <2>1, Zenon DEF PayloadOf, Weight
<1>3. [i \in DOMAIN s |-> (s[i] % F!PowerOf2(PayloadBits)) * F!PowerOf2(PayloadBits * (i - 1))]
        = Places(s)
  BY <1>2, Zenon DEF Places
<1>4. F!Leb(s) = F!SumOf(Places(s))
  BY <1>3, Zenon DEF F!Leb
<1> QED
  BY <1>4, SameSum, Zenon

(* What one place adds stays below the weight of the next.                  *)
LEMMA PlaceFits ==
  ASSUME NEW i \in Nat, NEW b \in Byte, NEW v \in Nat, v < Weight(i)
  PROVE  /\ PayloadOf(b) * Weight(i) \in Nat
         /\ v + PayloadOf(b) * Weight(i) < Weight(i + 1)
<1>1. PICK m, q : m = PowerOf2(PayloadBits) /\ q = Weight(i)
  OBVIOUS
<1>2. m \in Nat \ {0} /\ q \in Nat /\ Weight(i + 1) = m * q
  BY <1>1, Constants, Powers, Weights DEF Weight
<1>3. PICK l : l = PayloadOf(b)
  OBVIOUS
<1>4. l \in 0 .. m - 1
  <2>1. b \in Int
    BY BytePayload DEF Byte
  <2> QED
    BY <1>1, <1>2, <1>3, <2>1, Remainder DEF PayloadOf
<1>5. l * q \in Nat /\ l * q <= (m - 1) * q /\ (m - 1) * q = m * q - q
  BY <1>2, <1>4
<1>6. v < q
  BY <1>1
<1>7. v + l * q < m * q
  <2>1. PICK x, y : x = l * q /\ y = m * q
    OBVIOUS
  <2>2. x \in Nat /\ y \in Int /\ x <= y - q
    BY <1>2, <1>5, <2>1
  <2>3. v + x < y
    BY <1>2, <1>6, <2>2
  <2> QED
    BY <2>1, <2>3
<1> QED
  BY <1>1, <1>2, <1>3, <1>5, <1>7

LEMMA BytesAreNat ==
  ASSUME NEW s \in Seq(Byte)
  PROVE  s \in Seq(Nat)
<1>1. PICK n \in Nat : n = Len(s)
  OBVIOUS
<1>2. \A i \in 1 .. n : s[i] \in Byte
  BY <1>1
<1>3. \A i \in 1 .. n : s[i] \in Nat
  BY <1>2 DEF Byte
<1> QED
  BY <1>1, <1>3

LEMMA LebBounds ==
  ASSUME NEW s \in Seq(Byte)
  PROVE  /\ F!Leb(s) \in Nat /\ F!Leb(s) < Weight(Len(s))
         /\ PayloadBits * Len(s) <= WordBits => Leb(s) = F!Leb(s)
         /\ Leb(s) \in Nat /\ Leb(s) < PowerOf2(WordBits)
<1>1. PICK n \in Nat : n = Len(s)
  OBVIOUS
<1>2. \A i \in 1 .. n : s[i] \in Byte
  BY <1>1
<1>3. PICK d : d = Places(s)
  OBVIOUS
<1>4. d = [i \in 1 .. n |-> PayloadOf(s[i]) * Weight(i - 1)]
  BY <1>1, <1>3 DEF Places
<1>5. ASSUME NEW i \in 1 .. n PROVE d[i] = PayloadOf(s[i]) * Weight(i - 1) /\ d[i] \in Nat
  <2>1. PICK j : j = i - 1
    OBVIOUS
  <2>2. j \in Nat /\ Weight(j) \in Nat /\ Weight(j) >= 1
    <3>1. j \in Nat
      BY <2>1
    <3>2. PayloadBits * j \in Nat
      BY <3>1, Constants
    <3> QED
      BY <3>1, <3>2, Powers DEF Weight
  <2>3. PayloadOf(s[i]) * Weight(j) \in Nat
    <3>1. 0 < Weight(j) /\ 0 \in Nat
      BY <2>2
    <3> QED
      BY <1>2, <2>2, <3>1, PlaceFits
  <2>4. d[i] = PayloadOf(s[i]) * Weight(i - 1)
    BY <1>4, Zenon
  <2> QED
    BY <2>1, <2>3, <2>4, Zenon
<1>6. d \in [1 .. n -> Nat]
  BY <1>4, <1>5
<1>7. PICK t : SumsOf(t, d, n)
  BY <1>6, SumsExist
<1>8. F!Leb(s) = t[n]
  BY <1>3, <1>6, <1>7, PlainLeb, SumIs
<1>9. t \in [0 .. n -> Nat] /\ t[0] = 0 /\ \A i \in 1 .. n : t[i] = t[i - 1] + d[i]
  BY <1>7 DEF SumsOf
<1> DEFINE Below == {i \in 0 .. n : t[i] < Weight(i)}
<1>10. 0 \in Below
  <2>1. PayloadBits * 0 = 0
    BY Constants
  <2>2. Weight(0) = 1
    BY <2>1, Powers DEF Weight
  <2> QED
    BY <1>9, <2>2
<1>11. ASSUME NEW i \in 1 .. n, i - 1 \in Below PROVE i \in Below
  <2>1. PICK j : j = i - 1
    OBVIOUS
  <2>2. j \in Nat /\ j + 1 = i /\ i \in 0 .. n
    BY <2>1
  <2>3. t[j] \in Nat /\ t[j] < Weight(j)
    BY <1>9, <1>11, <2>1
  <2>4. t[i] = t[j] + PayloadOf(s[i]) * Weight(j)
    BY <1>5, <1>9, <2>1, Zenon
  <2>5. t[i] < Weight(j + 1)
    BY <1>2, <2>2, <2>3, <2>4, PlaceFits
  <2> QED
    BY <2>2, <2>5
<1> HIDE DEF Below
<1>12. \A i \in 0 .. n : i \in Below
  BY <1>10, <1>11, CountUp
<1>13. \A i \in 0 .. n : t[i] < Weight(i)
  BY <1>12 DEF Below
<1>14. PICK u : LebTable(u, s) /\ Leb(s) = u[n]
  BY <1>1, LebTabled, BytesAreNat
<1>15. PICK w \in Nat \ {0} : w = PowerOf2(WordBits)
  <2>1. WordBits \in Nat
    BY Constants
  <2>2. PowerOf2(WordBits) \in Nat /\ PowerOf2(WordBits) >= 1
    BY <2>1, Powers
  <2> QED
    BY <2>2
<1>16. /\ u \in [0 .. n -> Nat] /\ u[0] = 0
       /\ \A i \in 1 .. n : u[i] = (u[i - 1] + PayloadOf(s[i]) * Weight(i - 1)) % w
  BY <1>1, <1>14, <1>15 DEF LebTable, PayloadOf, Weight
<1>17. u[n] < w
  <2>1. CASE n = 0
    BY <1>15, <1>16, <2>1
  <2>2. CASE n # 0
    <3>1. n \in 1 .. n
      BY <2>2
    <3>2. PICK j : j = n - 1
      OBVIOUS
    <3>3. j \in 0 .. n /\ j \in Nat
      BY <2>2, <3>2
    <3>4. u[j] \in Nat /\ d[n] \in Nat /\ u[n] = (u[j] + d[n]) % w
      BY <1>5, <1>16, <3>1, <3>2, <3>3
    <3>5. (u[j] + d[n]) % w \in 0 .. w - 1
      <4>1. u[j] + d[n] \in Int
        BY <3>4
      <4> QED
        BY <4>1, Remainder
    <3> QED
      BY <3>4, <3>5
  <2> QED
    BY <2>1, <2>2
<1>18. ASSUME PayloadBits * n <= WordBits PROVE u[n] = t[n]
  <2> DEFINE Same == {i \in 0 .. n : u[i] = t[i]}
  <2>1. 0 \in Same
    BY <1>9, <1>16
  <2>2. ASSUME NEW i \in 1 .. n, i - 1 \in Same PROVE i \in Same
    <3>1. PICK j : j = i - 1
      OBVIOUS
    <3>2. u[j] = t[j] /\ i \in 0 .. n
      BY <2>2, <3>1
    <3>3. u[i] = (t[j] + d[i]) % w /\ t[i] = t[j] + d[i]
      BY <1>5, <1>9, <1>16, <3>1, <3>2, Zenon
    <3>4. t[i] \in Nat /\ t[i] < Weight(i)
      BY <1>9, <1>13
    <3>5. Weight(i) <= w
      <4>1. PICK p \in Nat, wb \in Nat : p = PayloadBits /\ wb = WordBits
        BY Constants
      <4>2. p * i \in Nat /\ p * i <= p * n
        BY <4>1
      <4>3. p * i \in 0 .. wb
        BY <1>18, <4>1, <4>2
      <4> QED
        BY <1>15, <4>1, <4>3, PowersGrow DEF Weight
    <3>6. Weight(i) \in Nat
      <4>1. PayloadBits * i \in Nat
        BY Constants
      <4> QED
        BY <4>1, Powers DEF Weight
    <3>7. t[i] % w = t[i]
      BY <1>15, <3>4, <3>5, <3>6
    <3> QED
      BY <3>2, <3>3, <3>7
  <2> HIDE DEF Same
  <2>3. \A i \in 0 .. n : i \in Same
    BY <2>1, <2>2, CountUp
  <2> QED
    BY <2>3 DEF Same
<1>19. n \in 0 .. n
  OBVIOUS
<1> QED
  BY <1>1, <1>8, <1>9, <1>13, <1>14, <1>15, <1>16, <1>17, <1>18, <1>19

(* A number of decode_empty, when its last byte is read.                    *)
LEMMA NumberRead ==
  ASSUME ReaderInv, PrimitiveInv, Reading, op = "decode_empty",
         NEW b \in ByteAt(at), ~More(b)
  PROVE  /\ number \in {"tag", "size", "varint"}
         /\ number # "varint" => Value(Append(read, b)) = F!Leb(Append(read, b))
         /\ number = "varint" =>
              /\ Value(Append(read, b)) <= PowerOf2(WordBits) - 1
              /\ F!Leb(Append(read, b)) <= PowerOf2(PayloadBits * VarintBytes) - 1
         /\ Value(Append(read, b)) \in Nat
<1>1. PICK s : s = Append(read, b)
  OBVIOUS
<1>2. s \in Seq(Byte) /\ Value(s) = Leb(s)
  BY <1>1, NumberEnds DEF Reading
<1>3. Len(s) = Len(read) + 1 /\ Len(read) \in Nat
  BY <1>1, Grown, ReaderFacts
<1>4. number \in {"tag", "size", "varint"} /\ Len(read) < Longest
  BY DEF ReaderInv, ReadingFrom
<1>5. PICK p \in Nat \ {0}, l \in Nat \ {0} : p = PayloadBits /\ l = Len(s)
  BY <1>3, Constants
<1>6. ASSUME number # "varint" PROVE Value(s) = F!Leb(s)
  <2>1. PICK t \in Nat : t = TagBytes
    BY Constants
  <2>2. l <= t
    BY <1>3, <1>4, <1>5, <1>6, <2>1 DEF Longest
  <2>3. t * p <= WordBits
    BY <1>5, <2>1, ReaderAssumption
  <2>4. p * l \in Nat /\ p * l <= t * p
    BY <1>5, <2>1, <2>2
  <2>5. PICK w \in Nat : w = WordBits
    BY Constants
  <2>6. p * l <= w
    <3>1. PICK x, y : x = p * l /\ y = t * p
      OBVIOUS
    <3>2. x \in Nat /\ y \in Nat /\ x <= y /\ y <= w
      BY <1>5, <2>1, <2>3, <2>4, <2>5, <3>1
    <3> QED
      BY <2>5, <3>1, <3>2
  <2>7. PayloadBits * Len(s) <= WordBits
    BY <1>5, <2>5, <2>6
  <2> QED
    BY <1>2, <2>7, LebBounds
<1>7. Leb(s) \in Nat /\ Leb(s) <= PowerOf2(WordBits) - 1
  <2>1. WordBits \in Nat
    BY Constants
  <2>2. PowerOf2(WordBits) \in Nat
    BY <2>1, Powers
  <2> QED
    BY <1>2, <2>2, LebBounds
<1>8. ASSUME number = "varint" PROVE F!Leb(s) <= PowerOf2(PayloadBits * VarintBytes) - 1
  <2>1. PICK v \in Nat : v = VarintBytes
    BY Constants
  <2>2. l <= v
    BY <1>3, <1>4, <1>5, <1>8, <2>1 DEF Longest
  <2>3. p * l \in 0 .. p * v /\ p * v \in Nat
    BY <1>5, <2>1, <2>2
  <2>4. PowerOf2(p * l) <= PowerOf2(p * v) /\ PowerOf2(p * l) \in Nat /\ PowerOf2(p * v) \in Nat
    <3>1. PICK x \in Nat, y \in Nat : x = p * l /\ y = p * v
      BY <2>3
    <3>2. x \in 0 .. y
      BY <2>3, <3>1
    <3>3. PowerOf2(x) <= PowerOf2(y)
      BY <3>2, PowersGrow
    <3>4. PowerOf2(x) \in Nat /\ PowerOf2(y) \in Nat
      BY Powers
    <3> QED
      BY <3>1, <3>3, <3>4
  <2>5. F!Leb(s) \in Nat /\ F!Leb(s) < PowerOf2(p * l)
    BY <1>2, <1>5, LebBounds DEF Weight
  <2> QED
    BY <1>5, <2>1, <2>4, <2>5
<1> QED
  BY <1>1, <1>2, <1>4, <1>6, <1>7, <1>8

-----------------------------------------------------------------------------
(* Where decode_empty stands against the end of the input.                  *)
EmptyInv ==
  op = "decode_empty" =>
    /\ depth \in Nat
    /\ phase = "field" => S!Absolute(ptr) < len
    /\ phase = "end" =>
         S!Absolute(ptr) = len /\ at = ptr /\ read = << >> /\ number = "tag"

AllInv == ReaderInv /\ PrimitiveInv /\ EmptyInv

LEMMA CallKept ==
  ASSUME [Next]_vars
  PROVE  UNCHANGED <<len, op, depth>>
<1>1. ASSUME IsDone PROVE UNCHANGED <<len, op, depth>>
  BY <1>1 DEF IsDone, S!IsDone, S!NotDone, S!AtLimit, S!Fallback, S!PastLimit
<1>2. ASSUME NEW e, Fail(e) PROVE UNCHANGED <<len, op, depth>>
  BY <1>2 DEF Fail
<1>3. ASSUME NEW p, NEW v, NEW open, NEW s, EndField(p, v, open, s)
      PROVE  UNCHANGED <<len, op, depth>>
  BY <1>3 DEF EndField
<1>4. ASSUME NEW kind, NEW p, Expect(kind, p) PROVE UNCHANGED <<len, op, depth>>
  BY <1>4 DEF Expect, streamVars
<1>5. ASSUME NEW tag, NEW p, SkipValue(tag, p) PROVE UNCHANGED <<len, op, depth>>
  BY <1>2, <1>3, <1>4, <1>5 DEF SkipValue
<1>6. ASSUME Return \/ Unterminated \/ EndPacked PROVE UNCHANGED <<len, op, depth>>
  BY <1>2, <1>6 DEF Return, S!Return, Unterminated, EndPacked, streamVars
<1>7. ASSUME SkipGivenValue \/ ReadFixed PROVE UNCHANGED <<len, op, depth>>
  BY <1>3, <1>5, <1>7 DEF SkipGivenValue, ReadFixed
<1>8. ASSUME NEW b, ReadByte(b) \/ TooLong(b) \/ TooLarge(b) \/ ReadVarint(b)
                      \/ ReadTag(b) \/ ReadSize(b) \/ ReadPacked(b)
      PROVE  UNCHANGED <<len, op, depth>>
  <2>1. ReadByte(b) => UNCHANGED <<len, op, depth>>
    BY DEF ReadByte, streamVars
  <2>2. TooLong(b) \/ TooLarge(b) => UNCHANGED <<len, op, depth>>
    BY <1>2 DEF TooLong, TooLarge
  <2>3. ReadVarint(b) => UNCHANGED <<len, op, depth>>
    BY <1>3 DEF ReadVarint
  <2>4. ReadTag(b) => UNCHANGED <<len, op, depth>>
    BY <1>3, <1>5 DEF ReadTag
  <2>5. ReadSize(b) => UNCHANGED <<len, op, depth>>
    BY <1>2, <1>3 DEF ReadSize
  <2>6. ReadPacked(b) => UNCHANGED <<len, op, depth>>
    BY <1>2 DEF ReadPacked, streamVars
  <2> QED
    BY <1>8, <2>1, <2>2, <2>3, <2>4, <2>5, <2>6
<1>9. ASSUME UNCHANGED vars PROVE UNCHANGED <<len, op, depth>>
  BY <1>9 DEF vars, streamVars
<1> QED
  BY <1>1, <1>6, <1>7, <1>8, <1>9 DEF Next

(* The numbers that say where it stands.                                    *)
LEMMA Stand ==
  ASSUME AllInv
  PROVE  /\ base \in Nat /\ ptr \in Nat /\ at \in Nat /\ len \in Nat
         /\ end \in Nat /\ limit \in Int /\ base + end + limit = len
         /\ S!Absolute(ptr) = base + ptr /\ S!Absolute(at) = base + at
         /\ error \in BOOLEAN /\ (error => phase = "failed")
BY ReaderFacts, StreamFacts DEF AllInv, ReaderInv, PrimitiveInv, S!Absolute

(* is_done moves neither the position nor what was read.                    *)
LEMMA DoneStands ==
  ASSUME AllInv, op = "decode_empty", IsDone
  PROVE  /\ S!Absolute(at)' = S!Absolute(at) /\ at = ptr /\ at' = ptr'
         /\ read = << >> /\ number = "tag" /\ phase = "boundary"
         /\ UNCHANGED <<number, read, groups>>
         /\ phase' = "field" => S!Absolute(ptr)' < len
         /\ phase' = "end" => S!Absolute(ptr)' = len
         /\ phase' = "failed" => S!Absolute(at) > len
         /\ phase' \in {"field", "end", "failed"}
<1>1. /\ S!IsDone /\ at' = ptr' /\ phase = "boundary"
      /\ UNCHANGED <<number, read, groups>>
  BY DEF IsDone, S!IsDone, S!NotDone, S!AtLimit, S!Fallback, S!PastLimit
<1>2. outcome = None
  BY DEF AllInv, PrimitiveInv
<1>3. at = ptr /\ read = << >> /\ number = "tag"
  BY <1>1, <1>2 DEF AllInv, ReaderInv
<1>4. /\ base \in Nat /\ ptr \in Nat /\ len \in Nat /\ end \in Nat /\ limit \in Int
      /\ base + end + limit = len /\ error = FALSE
      /\ S!Absolute(ptr) = base + ptr /\ S!Absolute(at) = base + at
  BY <1>1, Stand
<1>5. S!Absolute(ptr)' = base' + ptr' /\ S!Absolute(at)' = base' + at'
  BY DEF S!Absolute
<1>6. CASE S!NotDone
  <2>1. phase' = "field" /\ base' = base /\ ptr' = ptr /\ ptr < S!LimitPtr
    BY <1>6 DEF S!NotDone, S!streamVars
  <2>2. base + ptr < len
    BY <1>4, <2>1 DEF S!LimitPtr
  <2> QED
    BY <1>1, <1>3, <1>4, <1>5, <2>1, <2>2
<1>7. CASE S!AtLimit
  <2>1. phase' = "end" /\ base' = base /\ ptr' = ptr /\ ptr - end = limit
    BY <1>4, <1>7 DEF S!AtLimit, S!streamVars, S!Exactly, S!Overrun
  <2>2. base + ptr = len
    BY <1>4, <2>1
  <2> QED
    BY <1>1, <1>3, <1>4, <1>5, <2>1, <2>2
<1>8. CASE S!Fallback
  <2>1. /\ phase' = "field" /\ ptr - end < limit /\ ptr' = ptr - end
        /\ base' = base + (ptr - (ptr - end))
    BY <1>8 DEF S!Fallback, S!NextBase, S!Overrun
  <2>2. base + ptr < len /\ base' + ptr' = base + ptr
    BY <1>4, <2>1
  <2> QED
    BY <1>1, <1>3, <1>4, <1>5, <2>1, <2>2
<1>9. CASE S!PastLimit
  <2>1. phase' = "failed" /\ base' = base /\ ptr' = ptr /\ ptr - end > limit
    BY <1>9 DEF S!PastLimit, S!Overrun
  <2>2. base + ptr > len
    BY <1>4, <2>1
  <2> QED
    BY <1>1, <1>3, <1>4, <1>5, <2>1, <2>2
<1> QED
  BY <1>1, <1>6, <1>7, <1>8, <1>9 DEF S!IsDone

-----------------------------------------------------------------------------
(* How a step of decode_empty is seen from Fields.                          *)
LEMMA SeenPlain ==
  ASSUME op = "decode_empty", ~Rejected
  PROVE  /\ plainAt = S!Absolute(at) /\ plainNumber = number /\ plainRead = read
         /\ plainGroups = groups
         /\ verdict = IF phase = "ok" THEN "accepted" ELSE "reading"
BY DEF Plain, plainAt, plainNumber, plainRead, plainGroups, verdict

LEMMA SeenRejected ==
  ASSUME op = "decode_empty", Rejected
  PROVE  /\ plainAt = 0 /\ plainNumber = "tag" /\ plainRead = << >>
         /\ plainGroups = << >> /\ verdict = "rejected"
BY DEF Plain, plainAt, plainNumber, plainRead, plainGroups, verdict

LEMMA SeenPlainNext ==
  ASSUME op' = "decode_empty", ~Rejected'
  PROVE  /\ plainAt' = S!Absolute(at)' /\ plainNumber' = number' /\ plainRead' = read'
         /\ plainGroups' = groups'
         /\ verdict' = IF phase' = "ok" THEN "accepted" ELSE "reading"
BY DEF Plain, plainAt, plainNumber, plainRead, plainGroups, verdict

LEMMA RejectedNext ==
  ASSUME op' = "decode_empty", Rejected'
  PROVE  F!Reject
BY DEF Plain, plainAt, plainNumber, plainRead, plainGroups, verdict, F!Reject

(* decode_empty reads a byte.                                               *)
Empty == AllInv /\ op = "decode_empty" /\ Reading

LEMMA EmptyFacts ==
  ASSUME Empty
  PROVE  /\ phase = "field" /\ base + ptr < len /\ base \in Nat /\ ptr \in Nat /\ at \in Nat
         /\ len \in Nat /\ S!Absolute(at) = base + at /\ depth \in Nat
         /\ groups \in Seq(Nat \ {0}) /\ Len(groups) \in Nat
BY Stand, ReaderFacts DEF Empty, AllInv, EmptyInv, Reading

(* What its fields and numbers end in is as Fields has it: within the input *)
(* the same, and beyond its end a rejection.                                *)
LEMMA SeenFail ==
  ASSUME Empty, NEW e, Fail(e)
  PROVE  EmptyInv' /\ Rejected' /\ F!Reject
<1>1. op' = op /\ phase' = "failed" /\ depth' = depth
  BY DEF Fail
<1>2. Rejected'
  BY <1>1 DEF Rejected
<1>3. EmptyInv'
  BY <1>1, EmptyFacts DEF EmptyInv
<1> QED
  BY <1>1, <1>2, <1>3, RejectedNext DEF Empty

LEMMA SeenEnd ==
  ASSUME Empty, NEW n \in Nat, NEW v, NEW open, NEW s, EndField(at + 1 + n, v, open, s)
  PROVE  /\ EmptyInv'
         /\ Rejected' <=> base + at + 1 + n > len
         /\ ~Rejected => F!EndField(n, open)
<1>1. /\ op' = "decode_empty" /\ phase' = "boundary" /\ at' = at + 1 + n /\ base' = base
      /\ len' = len /\ depth' = depth /\ number' = "tag" /\ read' = << >> /\ groups' = open
  BY DEF EndField, Empty
<1>2. S!Absolute(at)' = base + at + 1 + n
  BY <1>1, EmptyFacts DEF S!Absolute
<1>3. EmptyInv'
  BY <1>1, EmptyFacts DEF EmptyInv
<1>4. Rejected' <=> base + at + 1 + n > len
  BY <1>1, <1>2 DEF Rejected
<1>5. ASSUME ~Rejected PROVE F!EndField(n, open)
  <2>1. plainAt = base + at /\ verdict = "reading"
    BY <1>5, SeenPlain, EmptyFacts DEF Empty
  <2>2. (base + at) + 1 + n = base + at + 1 + n
    OBVIOUS
  <2>3. CASE Rejected'
    <3>1. F!Reject /\ plainAt + 1 + n > len
      BY <1>1, <1>4, <2>1, <2>2, <2>3, RejectedNext
    <3> QED
      BY <3>1 DEF F!EndField
  <2>4. CASE ~Rejected'
    <3>1. /\ plainAt' = plainAt + 1 + n /\ plainNumber' = "tag" /\ plainRead' = << >>
          /\ plainGroups' = open /\ verdict' = "reading"
      BY <1>1, <1>2, <2>1, <2>4, SeenPlainNext
    <3>2. ~(plainAt + 1 + n > len)
      BY <1>4, <2>1, <2>4
    <3> QED
      BY <2>1, <3>1, <3>2 DEF F!EndField
  <2> QED
    BY <2>3, <2>4
<1> QED
  BY <1>3, <1>4, <1>5

LEMMA SeenExpect ==
  ASSUME Empty, NEW kind, Expect(kind, at + 1)
  PROVE  /\ EmptyInv'
         /\ Rejected' <=> base + at + 1 > len
         /\ ~Rejected /\ base + at < len => F!Expect(kind)
<1>1. /\ op' = "decode_empty" /\ phase' = "field" /\ at' = at + 1 /\ base' = base
      /\ ptr' = ptr /\ len' = len /\ depth' = depth
      /\ number' = kind /\ read' = << >> /\ groups' = groups
  BY EmptyFacts DEF Expect, Empty, streamVars
<1>2. S!Absolute(at)' = base + at + 1 /\ S!Absolute(ptr)' = base + ptr
  BY <1>1, EmptyFacts DEF S!Absolute
<1>3. EmptyInv'
  BY <1>1, <1>2, EmptyFacts DEF EmptyInv
<1>4. Rejected' <=> base + at + 1 > len
  BY <1>1, <1>2 DEF Rejected
<1>5. ASSUME ~Rejected, base + at < len PROVE F!Expect(kind)
  <2>1. plainAt = base + at /\ verdict = "reading" /\ plainGroups = groups
    BY <1>5, SeenPlain, EmptyFacts DEF Empty
  <2>2. ~Rejected'
    BY <1>4, <1>5, EmptyFacts
  <2>3. /\ plainAt' = plainAt + 1 /\ plainNumber' = kind /\ plainRead' = << >>
        /\ plainGroups' = groups /\ verdict' = "reading"
    BY <1>1, <1>2, <2>1, <2>2, SeenPlainNext
  <2> QED
    BY <2>1, <2>3 DEF F!Expect
<1> QED
  BY <1>3, <1>4, <1>5

LEMMA SeenMore ==
  ASSUME Empty, NEW b, ReadByte(b)
  PROVE  /\ EmptyInv'
         /\ Rejected' <=> base + at + 1 > len
         /\ ~Rejected /\ base + at < len =>
              /\ plainAt' = plainAt + 1 /\ plainRead' = Append(plainRead, b)
              /\ UNCHANGED <<plainNumber, plainGroups, verdict>>
<1>1. /\ op' = "decode_empty" /\ phase' = "field" /\ at' = at + 1 /\ base' = base
      /\ ptr' = ptr /\ len' = len /\ depth' = depth
      /\ number' = number /\ read' = Append(read, b) /\ groups' = groups
  BY EmptyFacts DEF ReadByte, Empty, streamVars
<1>2. S!Absolute(at)' = base + at + 1 /\ S!Absolute(ptr)' = base + ptr
  BY <1>1, EmptyFacts DEF S!Absolute
<1>3. EmptyInv'
  BY <1>1, <1>2, EmptyFacts DEF EmptyInv
<1>4. Rejected' <=> base + at + 1 > len
  BY <1>1, <1>2 DEF Rejected
<1>5. ASSUME ~Rejected, base + at < len
      PROVE  /\ plainAt' = plainAt + 1 /\ plainRead' = Append(plainRead, b)
             /\ UNCHANGED <<plainNumber, plainGroups, verdict>>
  <2>1. /\ plainAt = base + at /\ verdict = "reading" /\ plainGroups = groups
        /\ plainRead = read /\ plainNumber = number
    BY <1>5, SeenPlain, EmptyFacts DEF Empty
  <2>2. ~Rejected'
    BY <1>4, <1>5, EmptyFacts
  <2>3. /\ plainAt' = plainAt + 1 /\ plainNumber' = number /\ plainRead' = Append(read, b)
        /\ plainGroups' = groups /\ verdict' = "reading"
    BY <1>1, <1>2, <2>1, <2>2, SeenPlainNext
  <2> QED
    BY <2>1, <2>3
<1> QED
  BY <1>3, <1>4, <1>5

(* Beyond the last byte nothing is as Fields has it, but all is rejected.   *)
LEMMA ReadBeyond ==
  ASSUME Empty, S!Absolute(at) >= len, NEW b,
         ReadByte(b) \/ TooLong(b) \/ TooLarge(b) \/ ReadVarint(b) \/ ReadTag(b) \/ ReadSize(b)
  PROVE  EmptyInv' /\ Rejected'
<1>1. base + at >= len /\ base \in Nat /\ at \in Nat /\ len \in Nat /\ op = "decode_empty"
  BY EmptyFacts DEF Empty
<1>2. ASSUME NEW n \in Nat, NEW v, NEW open, NEW s, EndField(at + 1 + n, v, open, s)
      PROVE  EmptyInv' /\ Rejected'
  BY <1>1, <1>2, SeenEnd
<1>3. ASSUME NEW v, NEW open, NEW s, EndField(at + 1, v, open, s)
      PROVE  EmptyInv' /\ Rejected'
  <2>1. at + 1 = at + 1 + 0
    BY <1>1
  <2> QED
    BY <1>2, <1>3, <2>1
<1>4. ASSUME NEW e, Fail(e) PROVE EmptyInv' /\ Rejected'
  BY <1>4, SeenFail
<1>5. ASSUME NEW kind, Expect(kind, at + 1) PROVE EmptyInv' /\ Rejected'
  BY <1>1, <1>5, SeenExpect
<1>6. Fixed32 \in Nat /\ Fixed64 \in Nat
  BY Constants
<1>7. CASE ReadByte(b)
  BY <1>1, <1>7, SeenMore
<1>8. CASE TooLong(b) \/ TooLarge(b)
  BY <1>4, <1>8 DEF TooLong, TooLarge
<1>9. CASE ReadVarint(b)
  BY <1>3, <1>9 DEF ReadVarint
<1>10. CASE ReadTag(b)
  <2>1. \/ EndField(at + 1, None, Front(groups), << >>)
        \/ SkipValue(Value(Append(read, b)), at + 1)
    BY <1>1, <1>10 DEF ReadTag
  <2>2. ASSUME NEW tag, SkipValue(tag, at + 1) PROVE EmptyInv' /\ Rejected'
    BY <1>2, <1>3, <1>4, <1>5, <1>6, <2>2 DEF SkipValue
  <2> QED
    BY <1>3, <2>1, <2>2
<1>11. CASE ReadSize(b)
  <2>1. PICK size \in Nat : size = Value(Append(read, b))
    BY <1>11, Grown DEF ReadSize, LastByte, Empty, AllInv
  <2>2. EndField(at + 1 + size, None, groups, << >>) \/ Fail(TRUE)
    BY <1>1, <1>11, <2>1 DEF ReadSize
  <2> QED
    BY <1>2, <1>4, <2>1, <2>2
<1> QED
  BY <1>7, <1>8, <1>9, <1>10, <1>11

(* What follows a tag, within the input.                                    *)
LEMMA SeenSkip ==
  ASSUME Empty, ~Rejected, base + at < len, NEW tag \in Nat, SkipValue(tag, at + 1),
         ~(groups # << >> /\ tag = Last(groups))
  PROVE  EmptyInv' /\ F!TakeTag(tag)
<1>1. plainGroups = groups /\ depth \in Nat /\ Len(groups) \in Nat /\ at \in Nat
      /\ groups \in Seq(Nat \ {0})
  BY SeenPlain, EmptyFacts DEF Empty
<1>2. ~(plainGroups # << >> /\ tag = plainGroups[Len(plainGroups)])
  BY <1>1 DEF Last
<1>3. /\ F!FieldNumber(tag) = FieldNumber(tag) /\ F!WireType(tag) = WireType(tag)
      /\ F!EndTag(tag) = EndGroupTag(tag)
  BY DEF F!FieldNumber, FieldNumber, F!WireType, WireType, F!EndTag, EndGroupTag
<1>4. ASSUME NEW n \in Nat, NEW open, EndField(at + 1 + n, None, open, << >>)
      PROVE  EmptyInv' /\ F!EndField(n, open)
  BY <1>4, SeenEnd
<1>5. Fixed32 \in Nat /\ Fixed64 \in Nat /\ at + 1 = at + 1 + 0
  BY <1>1, Constants
<1>6. CASE FieldNumber(tag) = 0
  <2>1. Fail(error)
    BY <1>6 DEF SkipValue
  <2> QED
    BY <1>2, <1>3, <1>6, <2>1, SeenFail DEF F!TakeTag
<1>7. CASE FieldNumber(tag) # 0
  <2>1. F!TakeTag(tag) <=>
          CASE WireType(tag) = 0 -> F!Expect("varint")
            [] WireType(tag) = 1 -> F!EndField(Fixed64, groups)
            [] WireType(tag) = 2 -> F!Expect("size")
            [] WireType(tag) = 3 /\ Len(groups) < depth ->
                 F!EndField(0, Append(groups, EndGroupTag(tag)))
            [] WireType(tag) = 5 -> F!EndField(Fixed32, groups)
            [] OTHER -> F!Reject
    BY <1>1, <1>2, <1>3, <1>7 DEF F!TakeTag
  <2>2. CASE WireType(tag) = 0 /\ Expect("varint", at + 1)
    <3>1. EmptyInv' /\ F!Expect("varint")
      BY <2>2, SeenExpect
    <3> QED
      BY <2>1, <2>2, <3>1
  <2>3. CASE WireType(tag) = 1 /\ EndField(at + 1 + Fixed64, None, groups, << >>)
    <3>1. EmptyInv' /\ F!EndField(Fixed64, groups)
      BY <1>4, <1>5, <2>3
    <3> QED
      BY <2>1, <2>3, <3>1
  <2>4. CASE WireType(tag) = 2 /\ Expect("size", at + 1)
    <3>1. EmptyInv' /\ F!Expect("size")
      BY <2>4, SeenExpect
    <3> QED
      BY <2>1, <2>4, <3>1
  <2>5. CASE /\ WireType(tag) = 3 /\ MayOpen
             /\ EndField(at + 1, None, Append(groups, EndGroupTag(tag)), << >>)
    <3>1. Len(groups) < depth
      BY <1>1, <2>5 DEF MayOpen
    <3>2. 0 \in Nat /\ EndField(at + 1 + 0, None, Append(groups, EndGroupTag(tag)), << >>)
      BY <1>5, <2>5
    <3>3. EmptyInv' /\ F!EndField(0, Append(groups, EndGroupTag(tag)))
      BY <1>4, <3>2
    <3> QED
      BY <2>1, <2>5, <3>1, <3>3
  <2>6. CASE WireType(tag) = 3 /\ ~MayOpen /\ Fail(error)
    <3>1. ~(Len(groups) < depth)
      BY <1>1, <2>6 DEF MayOpen
    <3>2. EmptyInv' /\ F!Reject
      BY <2>6, SeenFail
    <3> QED
      BY <2>1, <2>6, <3>1, <3>2
  <2>7. CASE WireType(tag) = 5 /\ EndField(at + 1 + Fixed32, None, groups, << >>)
    <3>1. EmptyInv' /\ F!EndField(Fixed32, groups)
      BY <1>4, <1>5, <2>7
    <3> QED
      BY <2>1, <2>7, <3>1
  <2>8. CASE WireType(tag) \in {4, 6, 7} /\ Fail(error)
    <3>1. EmptyInv' /\ F!Reject
      BY <2>8, SeenFail
    <3> QED
      BY <2>1, <2>8, <3>1
  <2> QED
    BY <1>7, <2>2, <2>3, <2>4, <2>5, <2>6, <2>7, <2>8 DEF SkipValue
<1> QED
  BY <1>6, <1>7

(* The last byte of a number, within the input.                             *)
Takes(s) ==
  CASE number = "tag" -> F!TakeTag(F!Leb(s))
    [] number = "size" -> F!EndField(F!Leb(s), groups)
    [] OTHER -> F!EndField(0, groups)

LEMMA SeenNumber ==
  ASSUME Empty, ~Rejected, base + at < len, NEW b \in ByteAt(at), ~More(b),
         ReadVarint(b) \/ ReadTag(b) \/ ReadSize(b)
  PROVE  EmptyInv' /\ Takes(Append(read, b))
<1>1. PICK s : s = Append(read, b)
  OBVIOUS
<1>2. PICK v : v = Value(s)
  OBVIOUS
<1>3. /\ ReaderInv /\ PrimitiveInv /\ Reading /\ op = "decode_empty"
      /\ base \in Nat /\ at \in Nat /\ len \in Nat /\ at + 1 = at + 1 + 0
  BY EmptyFacts DEF Empty, AllInv
<1>4. v \in Nat /\ (number # "varint" => v = F!Leb(s))
  BY <1>1, <1>2, <1>3, NumberRead
<1>5. ASSUME NEW n \in Nat, NEW value, NEW open, NEW bytes,
             EndField(at + 1 + n, value, open, bytes)
      PROVE  EmptyInv' /\ F!EndField(n, open)
  BY <1>5, SeenEnd
<1>6. CASE ReadVarint(b)
  <2>1. number = "varint" /\ EndField(at + 1, v, groups, s)
    BY <1>1, <1>2, <1>6 DEF ReadVarint, LastByte
  <2>2. 0 \in Nat /\ EndField(at + 1 + 0, v, groups, s)
    BY <1>3, <2>1
  <2>3. EmptyInv' /\ F!EndField(0, groups)
    BY <1>5, <2>2
  <2> QED
    BY <1>1, <2>1, <2>3 DEF Takes
<1>7. CASE ReadTag(b)
  <2>1. number = "tag"
    BY <1>7 DEF ReadTag, LastByte
  <2>2. CASE groups # << >> /\ v = Last(groups)
    <3>1. EndField(at + 1, None, Front(groups), << >>)
      BY <1>1, <1>2, <1>3, <1>7, <2>2 DEF ReadTag
    <3>2. 0 \in Nat /\ EndField(at + 1 + 0, None, Front(groups), << >>)
      BY <1>3, <3>1
    <3>3. EmptyInv' /\ F!EndField(0, Front(groups))
      BY <1>5, <3>2
    <3>4. plainGroups = groups
      BY SeenPlain DEF Empty
    <3>5. F!TakeTag(v)
      BY <2>2, <3>3, <3>4 DEF F!TakeTag, Last, Front
    <3> QED
      BY <1>1, <1>4, <2>1, <3>3, <3>5 DEF Takes
  <2>3. CASE ~(groups # << >> /\ v = Last(groups))
    <3>1. SkipValue(v, at + 1)
      BY <1>1, <1>2, <1>3, <1>7, <2>3 DEF ReadTag
    <3>2. EmptyInv' /\ F!TakeTag(v)
      BY <1>4, <2>3, <3>1, SeenSkip
    <3> QED
      BY <1>1, <1>4, <2>1, <3>2 DEF Takes
  <2> QED
    BY <2>2, <2>3
<1>8. CASE ReadSize(b)
  <2>1. /\ number = "size"
        /\ IF Fits(v) THEN EndField(at + 1 + v, None, groups, << >>) ELSE Fail(TRUE)
    BY <1>1, <1>2, <1>3, <1>8 DEF ReadSize, LastByte
  <2>2. EmptyInv' /\ F!EndField(v, groups)
    <3>1. CASE Fits(v)
      BY <1>4, <1>5, <2>1, <3>1
    <3>2. CASE ~Fits(v)
      <4>1. EmptyInv' /\ F!Reject
        BY <2>1, <3>2, SeenFail
      <4>2. v > limit - ((at + 1) - end)
        <5>1. limit \in Int /\ end \in Nat
          BY Stand DEF Empty
        <5> QED
          BY <1>3, <1>4, <3>2, <5>1 DEF Fits, S!CheckSize
      <4>3. base + at + 1 + v > len
        <5>1. limit \in Int /\ end \in Nat /\ base + end + limit = len
          BY Stand DEF Empty
        <5> QED
          BY <1>3, <1>4, <4>2, <5>1
      <4>4. plainAt = base + at
        BY <1>3, SeenPlain, EmptyFacts
      <4>5. plainAt + 1 + v > len
        BY <4>3, <4>4
      <4> QED
        BY <4>1, <4>5 DEF F!EndField
    <3> QED
      BY <3>1, <3>2
  <2> QED
    BY <1>1, <1>4, <2>1, <2>2 DEF Takes
<1> QED
  BY <1>6, <1>7, <1>8

(* Within the input, the byte that is read is the input's.                  *)
LEMMA RealByte ==
  ASSUME Empty, base + at < len, number # "value", NEW b \in ByteAt(at)
  PROVE  b \in Bytes
<1>1. ReaderInv /\ at \in Nat /\ base \in Nat /\ len \in Nat
  BY EmptyFacts DEF Empty, AllInv
<1>2. at + 1 \in 1 .. Len(window) /\ (at + 1) - 1 = at
  <2>1. at + 1 <= ptr + (TagBytes + VarintBytes) /\ ptr + Slop <= Len(window)
    BY <1>1, ReadBounds DEF Empty
  <2> QED
    BY <1>1, <2>1, ReaderFacts
<1>3. window[at + 1] = base + at
  BY <1>1, <1>2, StreamFacts DEF ReaderInv
<1>4. window[at + 1] # S!Zero
  BY <1>1, <1>3 DEF S!Zero
<1> QED
  BY <1>4 DEF ByteAt

(* A byte within the input is a byte of Fields.                             *)
LEMMA SeenByte ==
  ASSUME Empty, ~Rejected, base + at < len, NEW b,
         ReadByte(b) \/ TooLong(b) \/ TooLarge(b) \/ ReadVarint(b) \/ ReadTag(b) \/ ReadSize(b)
  PROVE  EmptyInv' /\ F!TakeByte(b)
<1>1. /\ ReaderInv /\ PrimitiveInv /\ Reading /\ op = "decode_empty" /\ number # "value"
      /\ at \in Nat /\ len \in Nat /\ base \in Nat /\ Len(read) \in Nat /\ read \in Seq(Nat)
  BY EmptyFacts, ReaderFacts DEF Empty, AllInv, ReaderInv
<1>2. b \in ByteAt(at)
  BY DEF ReadByte, TooLong, TooLarge, ReadVarint, ReadTag, ReadSize, LastByte
<1>3. b \in Bytes
  BY <1>1, <1>2, RealByte
<1>4. PICK s : s = Append(read, b)
  OBVIOUS
<1>5. /\ plainAt = base + at /\ plainNumber = number /\ plainRead = read
      /\ plainGroups = groups /\ verdict = "reading"
  BY <1>1, SeenPlain, EmptyFacts
<1>6. /\ F!Longest = Longest /\ Len(s) = Len(read) + 1 /\ Longest \in Nat
      /\ (F!More(b) <=> More(b))
  BY <1>1, <1>2, <1>4, <1>5, Grown, SameMore, Constants DEF F!Longest, Longest
<1>7. PICK size : size = F!Leb(s)
  OBVIOUS
<1>8. F!TakeByte(b) <=>
        /\ CASE More(b) /\ Len(s) < Longest ->
                  /\ plainAt' = plainAt + 1 /\ plainRead' = s
                  /\ UNCHANGED <<plainNumber, plainGroups, verdict>>
             [] More(b) /\ Len(s) = Longest -> F!Reject
             [] ~More(b) /\ size > F!Largest -> F!Reject
             [] ~More(b) /\ size <= F!Largest -> Takes(s)
        /\ UNCHANGED <<len, depth>>
  BY <1>1, <1>4, <1>5, <1>6, <1>7 DEF F!TakeByte, Takes
<1>9. ~More(b) =>
        /\ size \in Nat /\ F!Largest \in Nat
        /\ Value(s) \in Nat /\ (Value(s) > Largest <=> size > F!Largest)
  <2> SUFFICES ASSUME ~More(b)
               PROVE  /\ size \in Nat /\ F!Largest \in Nat
                      /\ Value(s) \in Nat /\ (Value(s) > Largest <=> size > F!Largest)
    OBVIOUS
  <2>1. /\ number \in {"tag", "size", "varint"}
        /\ number # "varint" => Value(s) = size
        /\ number = "varint" =>
             /\ Value(s) <= PowerOf2(WordBits) - 1
             /\ size <= PowerOf2(PayloadBits * VarintBytes) - 1
        /\ Value(s) \in Nat
    BY <1>1, <1>2, <1>4, <1>7, NumberRead
  <2>2. size \in Nat
    <3>1. s \in Seq(Byte)
      BY <1>1, <1>2, <1>4, NumberEnds DEF Reading
    <3> QED
      BY <1>7, <3>1, LebBounds
  <2>3. /\ TagBits \in Nat /\ TagBits - 1 \in Nat /\ WordBits \in Nat
        /\ PayloadBits * VarintBytes \in Nat
    <3>1. PICK p \in Nat \ {0}, v \in Nat \ {0}, t \in Nat \ {0}, w \in Nat :
            p = PayloadBits /\ v = VarintBytes /\ t = TagBits /\ w = WordBits
      BY Constants
    <3>2. p * v \in Nat
      BY <3>1
    <3>3. t - 1 \in Nat
      BY <3>1
    <3> QED
      BY <3>1, <3>2, <3>3
  <2>4. /\ PowerOf2(TagBits) - 1 \in Nat /\ PowerOf2(TagBits - 1) - 1 \in Nat
        /\ PowerOf2(WordBits) - 1 \in Nat /\ PowerOf2(PayloadBits * VarintBytes) - 1 \in Nat
    <3>1. ASSUME NEW n \in Nat PROVE PowerOf2(n) - 1 \in Nat
      BY Powers
    <3> QED
      BY <2>3, <3>1
  <2>5. /\ F!PowerOf2(TagBits) = PowerOf2(TagBits)
        /\ F!PowerOf2(TagBits - 1) = PowerOf2(TagBits - 1)
        /\ F!PowerOf2(PayloadBits * VarintBytes) = PowerOf2(PayloadBits * VarintBytes)
    BY SamePower
  <2>6. CASE number = "tag"
    <3>1. F!Largest = PowerOf2(TagBits) - 1 /\ Largest = PowerOf2(TagBits) - 1
      BY <1>5, <2>5, <2>6 DEF F!Largest, Largest
    <3> QED
      BY <2>1, <2>4, <2>6, <3>1
  <2>7. CASE number = "size"
    <3>1. F!Largest = PowerOf2(TagBits - 1) - 1 /\ Largest = PowerOf2(TagBits - 1) - 1
      BY <1>5, <2>5, <2>7 DEF F!Largest, Largest
    <3> QED
      BY <2>1, <2>4, <2>7, <3>1
  <2>8. CASE number = "varint"
    <3>1. /\ F!Largest = PowerOf2(PayloadBits * VarintBytes) - 1
          /\ Largest = PowerOf2(WordBits) - 1
      BY <1>5, <2>5, <2>8 DEF F!Largest, Largest
    <3> QED
      BY <2>1, <2>2, <2>4, <2>8, <3>1
  <2> QED
    BY <2>1, <2>6, <2>7, <2>8
<1>10. PICK l \in Nat, m \in Nat : l = Len(read) /\ m = Longest
  BY <1>1, <1>6
<1>11. UNCHANGED <<len, depth>>
  <2>1. b \in Bytes \cup {0}
    BY <1>3
  <2>2. Next
    BY <2>1 DEF Next
  <2> QED
    BY <2>2, CallKept
<1>12. CASE ReadByte(b)
  <2>1. More(b) /\ l + 1 < m
    BY <1>10, <1>12 DEF ReadByte
  <2>2. /\ EmptyInv' /\ plainAt' = plainAt + 1 /\ plainRead' = s
        /\ UNCHANGED <<plainNumber, plainGroups, verdict>>
    BY <1>4, <1>5, <1>12, SeenMore
  <2>3. Len(s) < Longest /\ Len(s) # Longest
    BY <1>6, <1>10, <2>1
  <2> QED
    BY <1>8, <1>11, <2>1, <2>2, <2>3
<1>13. CASE TooLong(b)
  <2>1. More(b) /\ l + 1 = m
    BY <1>10, <1>13 DEF TooLong
  <2>2. EmptyInv' /\ F!Reject
    BY <1>13, SeenFail DEF TooLong
  <2>3. Len(s) = Longest /\ ~(Len(s) < Longest)
    BY <1>6, <1>10, <2>1
  <2> QED
    BY <1>8, <1>11, <2>1, <2>2, <2>3
<1>14. CASE TooLarge(b)
  <2>1. ~More(b) /\ Value(s) > Largest
    BY <1>4, <1>14 DEF TooLarge
  <2>2. EmptyInv' /\ F!Reject
    BY <1>14, SeenFail DEF TooLarge
  <2>3. size > F!Largest /\ ~(size <= F!Largest)
    <3>1. PICK x \in Nat, y \in Nat : x = size /\ y = F!Largest
      BY <1>9, <2>1
    <3>2. x > y
      BY <1>9, <2>1, <3>1
    <3> QED
      BY <3>1, <3>2
  <2> QED
    BY <1>8, <1>11, <2>1, <2>2, <2>3
<1>15. CASE ReadVarint(b) \/ ReadTag(b) \/ ReadSize(b)
  <2>1. ~More(b) /\ Value(s) <= Largest
    BY <1>4, <1>15 DEF ReadVarint, ReadTag, ReadSize, LastByte
  <2>2. EmptyInv' /\ Takes(s)
    BY <1>2, <1>4, <1>15, <2>1, SeenNumber
  <2>3. size <= F!Largest /\ ~(size > F!Largest)
    <3>1. PICK x \in Nat, y \in Nat : x = size /\ y = F!Largest
      BY <1>9, <2>1
    <3>2. Largest \in Int
      <4>1. ASSUME NEW n \in Nat PROVE PowerOf2(n) - 1 \in Int
        BY Powers
      <4>2. TagBits \in Nat /\ TagBits - 1 \in Nat /\ WordBits \in Nat
        BY Constants
      <4> QED
        BY <4>1, <4>2 DEF Largest
    <3> QED
      BY <1>9, <2>1, <3>1, <3>2
  <2> QED
    BY <1>8, <1>11, <2>1, <2>2, <2>3
<1> QED
  BY <1>12, <1>13, <1>14, <1>15

AsFields == [F!FieldsNext]_F!fieldVars

LEMMA SeenReading ==
  ASSUME Empty, NEW b,
         ReadByte(b) \/ TooLong(b) \/ TooLarge(b) \/ ReadVarint(b) \/ ReadTag(b) \/ ReadSize(b),
         UNCHANGED <<len, op, depth>>
  PROVE  EmptyInv' /\ AsFields
<1>1. /\ op = "decode_empty" /\ op' = "decode_empty" /\ phase = "field"
      /\ base \in Nat /\ at \in Nat /\ len \in Nat /\ ptr \in Nat /\ base + ptr < len
      /\ S!Absolute(at) = base + at
  BY EmptyFacts DEF Empty
<1>2. CASE Rejected
  <2>1. base + at > len
    BY <1>1, <1>2 DEF Rejected
  <2>2. EmptyInv' /\ Rejected'
    BY <1>1, <2>1, ReadBeyond
  <2>3. UNCHANGED F!fieldVars
    BY <1>1, <1>2, <2>2, SeenRejected, RejectedNext DEF F!fieldVars, F!Reject
  <2> QED
    BY <2>2, <2>3 DEF AsFields
<1>3. CASE ~Rejected /\ base + at < len
  <2>1. EmptyInv' /\ F!TakeByte(b)
    BY <1>3, SeenByte
  <2>2. b \in ByteAt(at) /\ number # "value"
    BY <1>1 DEF ReadByte, TooLong, TooLarge, ReadVarint, ReadTag, ReadSize, LastByte, Empty,
                AllInv, ReaderInv
  <2>3. b \in Bytes
    BY <1>3, <2>2, RealByte
  <2> QED
    BY <2>1, <2>3 DEF AsFields, F!FieldsNext
<1>4. CASE ~Rejected /\ base + at >= len
  <2>1. base + at = len
    BY <1>1, <1>4 DEF Rejected
  <2>2. EmptyInv' /\ Rejected'
    BY <1>1, <1>4, ReadBeyond
  <2>3. F!Reject
    BY <1>1, <2>2, RejectedNext
  <2>4. /\ plainAt = len /\ plainNumber = number /\ plainRead = read /\ verdict = "reading"
    BY <1>1, <1>4, <2>1, SeenPlain
  <2>5. ~(number = "tag" /\ read = << >>)
    <3>1. number = "tag" => at = ptr + Len(read)
      BY DEF Empty, AllInv, ReaderInv, ReadingFrom
    <3>2. at # ptr
      BY <1>1, <2>1
    <3>3. read = << >> => ptr + Len(read) = ptr
      BY <1>1
    <3> QED
      BY <3>1, <3>2, <3>3
  <2>6. F!Finish
    BY <2>3, <2>4, <2>5 DEF F!Finish
  <2> QED
    BY <2>2, <2>6 DEF AsFields, F!FieldsNext
<1> QED
  BY <1>1, <1>2, <1>3, <1>4

LEMMA SeenDone ==
  ASSUME AllInv, op = "decode_empty", IsDone, UNCHANGED <<len, op, depth>>
  PROVE  EmptyInv' /\ AsFields
<1>1. /\ S!Absolute(at)' = S!Absolute(at) /\ at' = ptr' /\ read = << >> /\ number = "tag"
      /\ phase = "boundary" /\ UNCHANGED <<number, read, groups>>
      /\ phase' = "field" => S!Absolute(ptr)' < len
      /\ phase' = "end" => S!Absolute(ptr)' = len
      /\ phase' = "failed" => S!Absolute(at) > len
      /\ phase' \in {"field", "end", "failed"}
  BY DoneStands
<1>2. EmptyInv'
  BY <1>1 DEF EmptyInv, AllInv
<1>3. Rejected' <=> Rejected
  BY <1>1 DEF Rejected
<1>4. UNCHANGED F!fieldVars
  <2>1. CASE Rejected
    BY <1>3, <2>1, SeenRejected, RejectedNext DEF F!fieldVars, F!Reject
  <2>2. CASE ~Rejected
    BY <1>1, <1>3, <2>2, SeenPlain, SeenPlainNext DEF F!fieldVars
  <2> QED
    BY <2>1, <2>2
<1> QED
  BY <1>2, <1>4 DEF AsFields

LEMMA SeenEndOfInput ==
  ASSUME AllInv, op = "decode_empty", Return \/ Unterminated, UNCHANGED <<len, op, depth>>
  PROVE  EmptyInv' /\ AsFields
<1>1. phase = "end" /\ len \in Nat
  BY Stand DEF Return, S!Return, Unterminated
<1>2. S!Absolute(at) = len /\ read = << >> /\ number = "tag"
  BY <1>1 DEF AllInv, EmptyInv
<1>3. ~Rejected
  BY <1>1, <1>2 DEF Rejected
<1>4. /\ plainAt = len /\ plainNumber = "tag" /\ plainRead = << >> /\ plainGroups = groups
      /\ verdict = "reading"
  BY <1>1, <1>2, <1>3, SeenPlain
<1>5. CASE Return
  <2>1. /\ groups = << >> /\ phase' = "ok"
        /\ UNCHANGED <<base, ptr, at, number, read, groups>>
    BY <1>5 DEF Return, S!Return, S!streamVars, readerVars
  <2>2. EmptyInv'
    BY <2>1 DEF EmptyInv, AllInv
  <2>3. S!Absolute(at)' = len' /\ len' \in Nat
    BY <1>1, <1>2, <2>1 DEF S!Absolute
  <2>4. ~Rejected'
    BY <2>1, <2>3 DEF Rejected
  <2>5. /\ plainAt' = len' /\ plainNumber' = "tag" /\ plainRead' = << >>
        /\ plainGroups' = groups /\ verdict' = "accepted"
    BY <1>2, <2>1, <2>3, <2>4, SeenPlainNext
  <2>6. F!Finish
    BY <1>4, <2>1, <2>5 DEF F!Finish
  <2> QED
    BY <2>2, <2>6 DEF AsFields, F!FieldsNext
<1>6. CASE Unterminated
  <2>1. groups # << >> /\ phase' = "failed"
    BY <1>6 DEF Unterminated, Fail
  <2>2. EmptyInv' /\ Rejected'
    BY <2>1 DEF EmptyInv, AllInv, Rejected
  <2>3. F!Reject
    BY <2>2, RejectedNext
  <2>4. F!Finish
    BY <1>4, <2>1, <2>3 DEF F!Finish
  <2> QED
    BY <2>2, <2>4 DEF AsFields, F!FieldsNext
<1> QED
  BY <1>5, <1>6

LEMMA StepSeen ==
  ASSUME AllInv, [Next]_vars
  PROVE  EmptyInv' /\ AsFields
<1>1. UNCHANGED <<len, op, depth>>
  BY CallKept
<1>2. CASE op # "decode_empty"
  <2>1. EmptyInv'
    BY <1>1, <1>2 DEF EmptyInv
  <2>2. UNCHANGED F!fieldVars
    BY <1>1, <1>2 DEF F!fieldVars, Plain, plainAt, plainNumber, plainRead, plainGroups, verdict
  <2> QED
    BY <2>1, <2>2 DEF AsFields
<1>3. CASE op = "decode_empty"
  <2>1. ASSUME NEW b, ReadByte(b) \/ TooLong(b) \/ TooLarge(b) \/ ReadVarint(b)
                        \/ ReadTag(b) \/ ReadSize(b)
        PROVE  EmptyInv' /\ AsFields
    <3>1. Reading
      BY <2>1 DEF ReadByte, TooLong, TooLarge, ReadVarint, ReadTag, ReadSize, LastByte
    <3>2. Empty
      BY <1>3, <3>1 DEF Empty
    <3> QED
      BY <1>1, <2>1, <3>2, SeenReading
  <2>2. CASE IsDone
    BY <1>1, <1>3, <2>2, SeenDone
  <2>3. CASE Return \/ Unterminated
    BY <1>1, <1>3, <2>3, SeenEndOfInput
  <2>4. ASSUME SkipGivenValue \/ ReadFixed PROVE FALSE
    BY <1>3, <2>4 DEF SkipGivenValue, ReadFixed, AllInv, ReaderInv
  <2>5. ASSUME EndPacked \/ \E b : ReadPacked(b) PROVE FALSE
    BY <1>3, <2>5 DEF EndPacked, ReadPacked, Parsing
  <2>6. CASE UNCHANGED vars
    <3>1. UNCHANGED <<len, base, ptr, phase, op, depth, at, number, read, groups>>
      BY <2>6 DEF vars, streamVars, readerVars
    <3>2. EmptyInv'
      BY <3>1 DEF EmptyInv, AllInv, S!Absolute
    <3>3. UNCHANGED F!fieldVars
      BY <3>1 DEF F!fieldVars, Plain, plainAt, plainNumber, plainRead, plainGroups, verdict,
                  Rejected, S!Absolute
    <3> QED
      BY <3>2, <3>3 DEF AsFields
  <2> QED
    BY <2>1, <2>2, <2>3, <2>4, <2>5, <2>6 DEF Next
<1> QED
  BY <1>2, <1>3

LEMMA InitSeen == Init => EmptyInv /\ F!FieldsInit
<1> SUFFICES ASSUME Init PROVE EmptyInv /\ F!FieldsInit
  OBVIOUS
<1>1. /\ len \in Lens /\ len \in Nat /\ base = 0 /\ ptr = 0 /\ phase = "boundary"
      /\ at = 0 /\ number = FirstNumber /\ read = << >>
      /\ op # "skip_group" => groups = << >>
  BY StreamConstants DEF Init, S!Init
<1>2. depth \in Depths
  <2>1. 0 \in MaxDepths
    BY ReaderAssumption
  <2>2. DefaultDepth \in Depths
    BY <2>1 DEF Depths
  <2> QED
    BY <2>2 DEF Init
<1>3. depth \in Nat
  BY <1>2, ReaderAssumption DEF Depths
<1>4. EmptyInv
  BY <1>1, <1>3 DEF EmptyInv
<1>5. F!FieldsInit
  <2>1. CASE op = "decode_empty"
    <3>1. S!Absolute(at) = 0
      BY <1>1 DEF S!Absolute
    <3>2. ~Rejected
      BY <1>1, <3>1 DEF Rejected
    <3>3. number = "tag"
      BY <1>1, <2>1 DEF FirstNumber
    <3> QED
      BY <1>1, <1>2, <2>1, <3>1, <3>2, <3>3, SeenPlain DEF F!FieldsInit
  <2>2. CASE op # "decode_empty"
    BY <1>1, <1>2, <2>2
       DEF F!FieldsInit, Plain, plainAt, plainNumber, plainRead, plainGroups, verdict
  <2> QED
    BY <2>1, <2>2
<1> QED
  BY <1>4, <1>5

-----------------------------------------------------------------------------
(* Whatever the bytes of the input say, and wherever in the window or the   *)
(* patch the field begins, no byte of a number and no fixed value is read   *)
(* beyond the window: window_byte never has to answer for a byte that is    *)
(* not there.                                                               *)
THEOREM ReadsAlwaysInWindow == Spec => []ReadsInWindow
<1>1. ASSUME ReaderInv PROVE ReadsInWindow
  <2>1. /\ ptr \in Nat /\ at \in Nat /\ Slop \in Nat /\ TagBytes \in Nat /\ VarintBytes \in Nat
        /\ Len(window) \in Nat /\ TagBytes + VarintBytes < Slop
    BY <1>1, ReaderFacts
  <2>2. ASSUME Reading, number # "value" PROVE at < Len(window)
    BY <1>1, <2>1, <2>2, ReadBounds
  <2>3. ASSUME Reading, op \in Fixed PROVE at + Fixed64 <= Len(window)
    <3>1. at = ptr
      BY <1>1, <2>3 DEF ReaderInv, ReadingFrom
    <3>2. ptr + Slop <= Len(window)
      BY <1>1, <2>3, ReadBounds
    <3>3. Fixed64 \in Nat /\ TagBytes + Fixed64 < Slop
      BY Constants
    <3> QED
      BY <2>1, <3>1, <3>2, <3>3
  <2> QED
    BY <2>2, <2>3 DEF ReadsInWindow, Fixed
<1> QED
  BY <1>1, ReaderAlwaysInv, PTL

(* decode_empty keeps to what the stream allows: every field it reads takes *)
(* 1 to Slop - 1 bytes of the window, the first of them the input's, and a  *)
(* payload that it skips is measured against the limit from where its size  *)
(* ends.                                                                    *)
THEOREM DecodeEmptyKeepsStream == Spec => ImplementsStream
<1>1. Init => S!Init
  BY DEF Init
<1>2. ReaderInv /\ [Next]_vars =>
        [op = "decode_empty" => S!Next]_<<streamVars, phase>>
  BY StepGood DEF Good, AsStream
<1> QED
  BY <1>1, <1>2, ReaderAlwaysInv, PTL DEF Spec, ImplementsStream

(* Whatever the bytes, and however the field lies in the window, the munged *)
(* sum of a varint, a tag, a size or a packed element is the base-128 value *)
(* of the bytes that were consumed; a packed payload is taken to its last   *)
(* byte and no further; and an operation is called bounded just when it     *)
(* consumed no more than the input.                                         *)
THEOREM PrimitivesAlwaysExact == Spec => []PrimitiveExact
<1>1. ReaderInv /\ PrimitiveInv /\ [Next]_vars => PrimitiveInv'
  BY StepPrimitive
<1>2. PrimitiveInv => PrimitiveExact
  BY DEF PrimitiveInv
<1> QED
  BY <1>1, <1>2, InitPrimitive, ReaderAlwaysInv, PTL DEF Spec
(* decode_empty accepts exactly the sequences of well-formed fields: what   *)
(* it makes of each byte, through window, patch, munged sums and relative   *)
(* limits, is what a plain reading of the input makes of it, and a byte of  *)
(* the padding or a skip beyond the end never leads to acceptance.          *)
THEOREM DecodeEmptyExact == Spec => ImplementsFields
<1>1. Init => EmptyInv /\ F!FieldsInit
  BY InitSeen
<1>2. ReaderInv /\ PrimitiveInv /\ EmptyInv /\ [Next]_vars => EmptyInv' /\ [F!FieldsNext]_F!fieldVars
  BY StepSeen DEF AllInv, AsFields
<1>3. ReaderInv /\ PrimitiveInv /\ [Next]_vars => PrimitiveInv'
  BY StepPrimitive
<1> QED
  BY <1>1, <1>2, <1>3, InitPrimitive, ReaderAlwaysInv, PTL
     DEF Spec, ImplementsFields, F!FieldsSpec
=============================================================================
