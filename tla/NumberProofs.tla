---------------------------- MODULE NumberProofs ----------------------------
(* Induction over numbers without an operator for what is shown: over the   *)
(* set of the numbers for which it holds.  With it, what a function defined *)
(* by recursion is; sums, and powers of two.                                *)
EXTENDS Numbers, WellFoundedInduction, TLAPS

Less == {p \in Nat \X Nat : p[1] < p[2]}

LEMMA LeastNat ==
  ASSUME NEW T \in SUBSET Nat, T # {}
  PROVE  \E x \in T : \A y \in T : x <= y
<1>1. IsWellFoundedOn(Less, Nat)
  BY NatLessThanWellFounded DEF OpToRel, Less
<1>2. PICK x \in T : \A y \in T : ~ (<<y, x>> \in Less)
  BY <1>1, WFMin
<1>3. ASSUME NEW y \in T PROVE x <= y
  <2>1. <<y, x>> \in Nat \X Nat /\ <<y, x>>[1] = y /\ <<y, x>>[2] = x
    OBVIOUS
  <2>2. ~ (y < x)
    BY <1>2, <2>1, Zenon DEF Less
  <2> QED
    BY <2>2
<1> QED
  BY <1>3

(* A set that holds 0 and, with every number, the next one up to n.         *)
LEMMA CountUp ==
  ASSUME NEW n \in Nat, NEW T, 0 \in T, \A i \in 1 .. n : i - 1 \in T => i \in T
  PROVE  \A i \in 0 .. n : i \in T
<1> DEFINE U == {i \in Nat : i <= n /\ i \notin T}
<1>1. ASSUME U # {} PROVE FALSE
  <2>1. U \in SUBSET Nat
    OBVIOUS
  <2>2. PICK k \in U : \A y \in U : k <= y
    BY <1>1, <2>1, LeastNat
  <2>3. k \in Nat /\ k <= n /\ k \notin T /\ k # 0
    BY <2>2
  <2>4. PICK j : j = k - 1
    OBVIOUS
  <2>5. j \in Nat /\ j <= n /\ ~(k <= j) /\ k \in 1 .. n
    BY <2>3, <2>4
  <2>6. j \in T
    BY <2>2, <2>5
  <2> QED
    BY <2>3, <2>4, <2>5, <2>6
<1>2. \A i \in 0 .. n : i \in Nat /\ i <= n
  OBVIOUS
<1> QED
  BY <1>1, <1>2

-----------------------------------------------------------------------------
(* Functions by recursion *)

(* F is a at 0 and g[i] of what comes before at i.                          *)
Tabled(F, g, a, n, V) ==
  /\ F \in [0 .. n -> V] /\ F[0] = a
  /\ \A i \in 1 .. n : F[i] = g[i][F[i - 1]]

LEMMA TableExists ==
  ASSUME NEW V, NEW n \in Nat, NEW a \in V, NEW g \in [1 .. n -> [V -> V]]
  PROVE  \E F : Tabled(F, g, a, n, V)
<1> DEFINE T == {k \in 0 .. n : \E F : Tabled(F, g, a, k, V)}
<1>1. 0 \in T
  <2>1. Tabled([i \in 0 .. 0 |-> a], g, a, 0, V)
    BY DEF Tabled
  <2> QED
    BY <2>1
<1>2. ASSUME NEW k \in 1 .. n, k - 1 \in T PROVE k \in T
  <2>1. PICK j : j = k - 1
    OBVIOUS
  <2>2. j \in Nat /\ k = j + 1 /\ j <= n /\ j \in T /\ k \in 0 .. n
    BY <1>2, <2>1
  <2>3. PICK F : Tabled(F, g, a, j, V)
    BY <2>2
  <2>4. F \in [0 .. j -> V] /\ F[0] = a /\ \A i \in 1 .. j : F[i] = g[i][F[i - 1]]
    BY <2>3 DEF Tabled
  <2> DEFINE G == [i \in 0 .. k |-> IF i = k THEN g[k][F[j]] ELSE F[i]]
  <2>5. F[j] \in V /\ g[k][F[j]] \in V
    BY <2>2, <2>4
  <2>a. \A i \in 0 .. j : i \in 0 .. k /\ i # k
    BY <2>2
  <2>b. \A i \in 0 .. j : F[i] \in V
    BY <2>4
  <2>6. \A i \in 0 .. j : i \in 0 .. k /\ i # k /\ G[i] = F[i] /\ F[i] \in V
    BY <2>a, <2>b
  <2>7. G[k] = g[k][F[j]]
    BY <2>2
  <2>8. \A i \in 0 .. k : i = k \/ i \in 0 .. j
    BY <2>2
  <2>9. G \in [0 .. k -> V]
    BY <2>5, <2>6, <2>8
  <2>10. ASSUME NEW i \in 1 .. k PROVE G[i] = g[i][G[i - 1]]
    <3>1. CASE i = k
      <4>1. i - 1 = j /\ j \in 0 .. j
        BY <2>1, <2>2, <3>1
      <4>2. G[j] = F[j]
        BY <2>6, <4>1
      <4> QED
        BY <2>7, <3>1, <4>1, <4>2
    <3>2. CASE i # k
      <4>1. i \in 1 .. j /\ i \in 0 .. j /\ i - 1 \in 0 .. j
        BY <2>2, <2>8, <3>2
      <4>2. G[i] = F[i] /\ G[i - 1] = F[i - 1]
        BY <2>6, <4>1
      <4> QED
        BY <2>4, <4>1, <4>2
    <3> QED
      BY <3>1, <3>2
  <2>11. G[0] = a
    <3>1. 0 \in 0 .. j
      BY <2>2
    <3> QED
      BY <2>4, <2>6, <3>1
  <2> HIDE DEF G
  <2>12. Tabled(G, g, a, k, V)
    BY <2>9, <2>10, <2>11 DEF Tabled
  <2> QED
    BY <2>2, <2>12
<1> HIDE DEF T
<1>3. \A k \in 1 .. n : k - 1 \in T => k \in T
  BY <1>2
<1>4. \A k \in 0 .. n : k \in T
  BY <1>1, <1>3, CountUp, Zenon
<1>5. n \in T
  BY <1>4
<1> QED
  BY <1>5 DEF T

IsTable(F, n) == F = [i \in 0 .. n |-> F[i]]

(* Two tables that begin alike and go on alike are one.                     *)
LEMMA TablesAgree ==
  ASSUME NEW n \in Nat, NEW F, NEW c, IsTable(F, n), IsTable(c, n), c[0] = F[0],
         \A i \in 1 .. n : c[i - 1] = F[i - 1] => c[i] = F[i]
  PROVE  c = F
<1> DEFINE T == {i \in 0 .. n : c[i] = F[i]}
<1>1. 0 \in T
  OBVIOUS
<1>2. ASSUME NEW i \in 1 .. n, i - 1 \in T PROVE i \in T
  <2>1. i \in 0 .. n
    OBVIOUS
  <2>2. c[i - 1] = F[i - 1]
    BY <1>2
  <2>3. c[i] = F[i]
    BY <2>2
  <2> QED
    BY <2>1, <2>3
<1> HIDE DEF T
<1>a. \A i \in 1 .. n : i - 1 \in T => i \in T
  BY <1>2
<1>3. \A i \in 0 .. n : i \in T
  BY <1>1, <1>a, CountUp, Zenon
<1>4. \A i \in 0 .. n : c[i] = F[i]
  BY <1>3 DEF T
<1> QED
  BY <1>4 DEF IsTable

(* What starts at a and goes on by g is a table.                            *)
LEMMA TableIs ==
  ASSUME NEW V, NEW n \in Nat, NEW a \in V, NEW g \in [1 .. n -> [V -> V]], NEW c,
         IsTable(c, n), c[0] = a,
         \A i \in 1 .. n : c[i - 1] \in V => c[i] = g[i][c[i - 1]]
  PROVE  Tabled(c, g, a, n, V)
<1>1. PICK F : Tabled(F, g, a, n, V)
  BY TableExists
<1>2. F \in [0 .. n -> V] /\ F[0] = a /\ \A i \in 1 .. n : F[i] = g[i][F[i - 1]]
  BY <1>1 DEF Tabled
<1>3. IsTable(F, n) /\ c[0] = F[0]
  BY <1>2 DEF IsTable
<1>4. ASSUME NEW i \in 1 .. n, c[i - 1] = F[i - 1] PROVE c[i] = F[i]
  <2>1. PICK j : j = i - 1
    OBVIOUS
  <2>2. j \in 0 .. n
    BY <2>1
  <2>3. F[j] \in V
    BY <1>2, <2>2
  <2>4. c[i - 1] \in V
    BY <1>4, <2>1, <2>3
  <2>5. c[i] = g[i][c[i - 1]]
    BY <2>4
  <2>6. F[i] = g[i][F[i - 1]]
    BY <1>2
  <2> QED
    BY <1>4, <2>5, <2>6
<1>5. c = F
  <2>1. \A i \in 1 .. n : c[i - 1] = F[i - 1] => c[i] = F[i]
    BY <1>4
  <2> QED
    BY <1>3, <2>1, TablesAgree
<1> QED
  BY <1>1, <1>5

(* The steps h are those of g and one more.                                 *)
GoesOn(g, h, n, V) ==
  /\ g \in [1 .. n -> [V -> V]] /\ h \in [1 .. n + 1 -> [V -> V]]
  /\ \A i \in 1 .. n : h[i] = g[i]

(* One step more: G is F, and what comes next.                              *)
LEMMA TableGrown ==
  ASSUME NEW V, NEW n \in Nat, NEW a \in V, NEW g, NEW h, GoesOn(g, h, n, V),
         NEW F, Tabled(F, g, a, n, V), NEW G, Tabled(G, h, a, n + 1, V)
  PROVE  /\ F[n] \in V /\ G[n + 1] = h[n + 1][F[n]] /\ G[n + 1] \in V
         /\ \A i \in 0 .. n : G[i] = F[i]
<1>1. PICK m : m = n + 1
  OBVIOUS
<1>2. F \in [0 .. n -> V] /\ F[0] = a /\ \A i \in 1 .. n : F[i] = g[i][F[i - 1]]
  BY DEF Tabled
<1>3. G \in [0 .. m -> V] /\ G[0] = a /\ \A i \in 1 .. m : G[i] = h[i][G[i - 1]]
  BY <1>1 DEF Tabled
<1> DEFINE H == [i \in 0 .. n |-> G[i]]
<1>4. IsTable(H, n) /\ IsTable(F, n) /\ H[0] = F[0]
  BY <1>2, <1>3 DEF IsTable
<1>5. ASSUME NEW i \in 1 .. n, H[i - 1] = F[i - 1] PROVE H[i] = F[i]
  <2>1. i \in 1 .. m /\ i \in 0 .. n /\ i - 1 \in 0 .. n
    BY <1>1
  <2>a. h[i] = g[i]
    BY DEF GoesOn
  <2>2. G[i] = h[i][G[i - 1]] /\ F[i] = g[i][F[i - 1]] /\ h[i] = g[i]
    BY <1>2, <1>3, <2>1, <2>a
  <2>3. H[i] = G[i] /\ H[i - 1] = G[i - 1]
    BY <2>1
  <2> QED
    BY <1>5, <2>2, <2>3
<1> HIDE DEF H
<1>6. H = F
  <2>1. \A i \in 1 .. n : H[i - 1] = F[i - 1] => H[i] = F[i]
    BY <1>5
  <2> QED
    BY <1>4, <2>1, TablesAgree
<1>7. \A i \in 0 .. n : G[i] = F[i]
  BY <1>6 DEF H
<1>8. n \in 0 .. n /\ m \in 1 .. m /\ m \in 0 .. m /\ m - 1 = n
  BY <1>1
<1>9. F[n] \in V /\ G[m] = h[m][G[n]] /\ G[m] \in V /\ G[n] = F[n]
  BY <1>2, <1>3, <1>7, <1>8
<1> QED
  BY <1>1, <1>7, <1>9

(* What keeps within the sets I, one for each place, step by step.          *)
KeepsWithin(I, g, n) == \A i \in 1 .. n : \A x \in I[i - 1] : g[i][x] \in I[i]

LEMMA TableWithin ==
  ASSUME NEW n \in Nat, NEW I, NEW a, a \in I[0], NEW g, KeepsWithin(I, g, n)
  PROVE  \E F : /\ IsTable(F, n) /\ F[0] = a
                /\ \A i \in 1 .. n : F[i] = g[i][F[i - 1]]
                /\ \A i \in 0 .. n : F[i] \in I[i]
<1> DEFINE V == UNION {I[i] : i \in 0 .. n}
           h == [i \in 1 .. n |-> [x \in V |-> IF g[i][x] \in V THEN g[i][x] ELSE a]]
<1>1. \A i \in 0 .. n : I[i] \subseteq V
  OBVIOUS
<1>2. a \in V
  BY <1>1
<1>3. h \in [1 .. n -> [V -> V]]
  BY <1>2
<1>4. \A i \in 1 .. n : \A x \in V : g[i][x] \in V => h[i][x] = g[i][x]
  OBVIOUS
<1> HIDE DEF V, h
<1>5. PICK F : Tabled(F, h, a, n, V)
  BY <1>2, <1>3, TableExists
<1>6. F \in [0 .. n -> V] /\ F[0] = a /\ \A i \in 1 .. n : F[i] = h[i][F[i - 1]]
  BY <1>5 DEF Tabled
<1>7. ASSUME NEW i \in 1 .. n, F[i - 1] \in I[i - 1]
      PROVE  F[i] = g[i][F[i - 1]] /\ F[i] \in I[i]
  <2>1. PICK j : j = i - 1
    OBVIOUS
  <2>2. j \in 0 .. n /\ i \in 0 .. n
    BY <2>1
  <2>3. g[i][F[j]] \in I[i]
    BY <1>7, <2>1 DEF KeepsWithin
  <2>4. F[j] \in V /\ g[i][F[j]] \in V
    BY <1>1, <1>6, <2>2, <2>3
  <2> QED
    BY <1>4, <1>6, <2>1, <2>3, <2>4
<1> DEFINE T == {i \in 0 .. n : F[i] \in I[i]}
<1>8. 0 \in T /\ \A i \in 1 .. n : i - 1 \in T => i \in T
  BY <1>6, <1>7
<1> HIDE DEF T
<1>9. \A i \in 0 .. n : i \in T
  BY <1>8, CountUp
<1>10. \A i \in 0 .. n : F[i] \in I[i]
  BY <1>9 DEF T
<1>11. \A i \in 1 .. n : F[i] = g[i][F[i - 1]]
  <2>1. \A i \in 1 .. n : i - 1 \in 0 .. n
    OBVIOUS
  <2> QED
    BY <1>7, <1>10, <2>1
<1>12. IsTable(F, n)
  BY <1>6 DEF IsTable
<1> QED
  BY <1>6, <1>10, <1>11, <1>12

(* A recursive function that keeps within the sets ends within the last.    *)
RunsWithin(c, I, g, a, n) ==
  /\ a \in I[0] /\ KeepsWithin(I, g, n)
  /\ c[0] = a /\ \A i \in 1 .. n : c[i - 1] \in I[i - 1] => c[i] = g[i][c[i - 1]]

LEMMA EndsWithin ==
  ASSUME NEW n \in Nat, NEW I, NEW a, NEW g, NEW c, RunsWithin(c, I, g, a, n)
  PROVE  \A i \in 0 .. n : c[i] \in I[i]
<1> DEFINE T == {i \in 0 .. n : c[i] \in I[i]}
<1>1. 0 \in T
  BY DEF RunsWithin
<1>2. ASSUME NEW i \in 1 .. n, i - 1 \in T PROVE i \in T
  <2>1. c[i - 1] \in I[i - 1]
    BY <1>2
  <2>2. c[i] = g[i][c[i - 1]]
    BY <2>1 DEF RunsWithin
  <2>3. c[i] \in I[i]
    BY <2>1, <2>2 DEF RunsWithin, KeepsWithin
  <2> QED
    BY <2>3
<1> HIDE DEF T
<1>3. \A i \in 0 .. n : i \in T
  BY <1>1, <1>2, CountUp
<1> QED
  BY <1>3 DEF T

(* Steps along a sequence s: step has a function for each element.          *)
StepsOf(step, s) == [i \in 1 .. Len(s) |-> step[s[i]]]
FoldsTo(r, step, a, s, V) ==
  \E F : Tabled(F, StepsOf(step, s), a, Len(s), V) /\ r = F[Len(s)]

LEMMA FoldEmpty ==
  ASSUME NEW V, NEW a \in V, NEW step, NEW s, s = <<>>, NEW r, FoldsTo(r, step, a, s, V)
  PROVE  r = a
BY DEF FoldsTo, Tabled

LEMMA FoldGrown ==
  ASSUME NEW V, NEW S, NEW a \in V, NEW step \in [S -> [V -> V]], NEW s \in Seq(S), NEW x \in S,
         NEW r, FoldsTo(r, step, a, s, V), NEW q, FoldsTo(q, step, a, Append(s, x), V)
  PROVE  r \in V /\ q = step[x][r]
<1>1. PICK n, t, g, h : /\ n = Len(s) /\ t = Append(s, x)
                        /\ g = StepsOf(step, s) /\ h = StepsOf(step, t)
  OBVIOUS
<1>2. n \in Nat /\ Len(t) = n + 1 /\ t[n + 1] = x /\ \A i \in 1 .. n : t[i] = s[i] /\ s[i] \in S
  BY <1>1
<1>3. \A i \in 1 .. n + 1 : t[i] \in S
  BY <1>2
<1>4. \A i \in 1 .. n : i \in 1 .. n + 1
  BY <1>2
<1>5. g \in [1 .. n -> [V -> V]] /\ h \in [1 .. n + 1 -> [V -> V]] /\ h[n + 1] = step[x]
  <2>1. n + 1 \in 1 .. n + 1
    BY <1>2
  <2> QED
    BY <1>1, <1>2, <1>3, <2>1 DEF StepsOf
<1>6. \A i \in 1 .. n : h[i] = g[i]
  BY <1>1, <1>2, <1>4 DEF StepsOf
<1>7. GoesOn(g, h, n, V)
  BY <1>5, <1>6 DEF GoesOn
<1>8. PICK F : Tabled(F, g, a, n, V) /\ r = F[n]
  BY <1>1 DEF FoldsTo
<1>9. PICK G : Tabled(G, h, a, n + 1, V) /\ q = G[n + 1]
  BY <1>1, <1>2 DEF FoldsTo
<1>10. F[n] \in V /\ G[n + 1] = h[n + 1][F[n]]
  BY <1>2, <1>7, <1>8, <1>9, TableGrown
<1> QED
  BY <1>5, <1>8, <1>9, <1>10

(* What a recursive function over a sequence ends at, where it does as step *)
(* does.                                                                    *)
LEMMA FoldIs ==
  ASSUME NEW V, NEW S, NEW a \in V, NEW step \in [S -> [V -> V]], NEW s \in Seq(S), NEW c,
         IsTable(c, Len(s)), c[0] = a,
         \A i \in 1 .. Len(s) : c[i - 1] \in V => c[i] = step[s[i]][c[i - 1]]
  PROVE  FoldsTo(c[Len(s)], step, a, s, V)
<1>1. PICK n, g : n = Len(s) /\ g = StepsOf(step, s)
  OBVIOUS
<1>2. n \in Nat /\ \A i \in 1 .. n : s[i] \in S
  BY <1>1
<1>3. g \in [1 .. n -> [V -> V]] /\ \A i \in 1 .. n : g[i] = step[s[i]]
  BY <1>1, <1>2 DEF StepsOf
<1>4. \A i \in 1 .. n : c[i - 1] \in V => c[i] = g[i][c[i - 1]]
  BY <1>1, <1>3
<1>5. Tabled(c, g, a, n, V)
  BY <1>1, <1>2, <1>3, <1>4, TableIs
<1> QED
  BY <1>1, <1>5 DEF FoldsTo

LEMMA FoldExists ==
  ASSUME NEW V, NEW S, NEW a \in V, NEW step \in [S -> [V -> V]], NEW s \in Seq(S)
  PROVE  \E F : /\ IsTable(F, Len(s)) /\ F[0] = a
                /\ \A i \in 1 .. Len(s) : F[i - 1] \in V /\ F[i] = step[s[i]][F[i - 1]]
<1>1. PICK n, g : n = Len(s) /\ g = StepsOf(step, s)
  OBVIOUS
<1>2. n \in Nat /\ \A i \in 1 .. n : s[i] \in S
  BY <1>1
<1>3. g \in [1 .. n -> [V -> V]] /\ \A i \in 1 .. n : g[i] = step[s[i]]
  BY <1>1, <1>2 DEF StepsOf
<1>4. PICK F : Tabled(F, g, a, n, V)
  BY <1>2, <1>3, TableExists
<1>5. F \in [0 .. n -> V] /\ F[0] = a /\ \A i \in 1 .. n : F[i] = g[i][F[i - 1]]
  BY <1>4 DEF Tabled
<1>6. \A i \in 1 .. n : i - 1 \in 0 .. n
  BY <1>2
<1>7. IsTable(F, n)
  BY <1>5 DEF IsTable
<1> QED
  BY <1>1, <1>3, <1>5, <1>6, <1>7

-----------------------------------------------------------------------------
(* Sums                                                                     *)

(* F holds the sums of the beginnings of the sequence s of length n.        *)
SumsOf(F, s, n) ==
  /\ F \in [0 .. n -> Nat] /\ F[0] = 0
  /\ \A i \in 1 .. n : F[i] = F[i - 1] + s[i]

LEMMA SumsExist ==
  ASSUME NEW n \in Nat, NEW s \in [1 .. n -> Nat]
  PROVE  \E F : SumsOf(F, s, n)
<1> DEFINE g == [i \in 1 .. n |-> [x \in Nat |-> x + s[i]]]
<1>1. g \in [1 .. n -> [Nat -> Nat]]
  OBVIOUS
<1>2. \A i \in 1 .. n : \A x \in Nat : g[i][x] = x + s[i]
  OBVIOUS
<1> HIDE DEF g
<1>3. PICK F : Tabled(F, g, 0, n, Nat)
  BY <1>1, TableExists
<1>4. F \in [0 .. n -> Nat] /\ F[0] = 0 /\ \A i \in 1 .. n : F[i] = g[i][F[i - 1]]
  BY <1>3 DEF Tabled
<1>5. ASSUME NEW i \in 1 .. n PROVE F[i] = F[i - 1] + s[i]
  <2>1. PICK j : j = i - 1
    OBVIOUS
  <2>2. j \in 0 .. n
    BY <2>1
  <2>3. F[j] \in Nat /\ F[i] = g[i][F[j]]
    BY <1>4, <2>1, <2>2
  <2>4. F[i] = F[j] + s[i]
    BY <1>2, <2>3
  <2> QED
    BY <2>1, <2>4
<1> QED
  BY <1>4, <1>5 DEF SumsOf

(* SumOf is the last of the sums.                                           *)
LEMMA SumIs ==
  ASSUME NEW n \in Nat, NEW s \in [1 .. n -> Nat], NEW F, SumsOf(F, s, n)
  PROVE  SumOf(s) = F[n]
<1>1. s \in Seq(Nat) /\ Len(s) = n
  OBVIOUS
<1> DEFINE R(f) == f = [i \in 0 .. n |-> IF i = 0 THEN 0 ELSE f[i - 1] + s[i]]
           c == CHOOSE f : R(f)
<1>2. F = [i \in 0 .. n |-> F[i]] /\ F[0] = 0 /\ \A i \in 1 .. n : F[i] = F[i - 1] + s[i]
  BY DEF SumsOf
<1>3. ASSUME NEW i \in 0 .. n PROVE F[i] = IF i = 0 THEN 0 ELSE F[i - 1] + s[i]
  <2>1. \A j \in 1 .. n : F[j] = F[j - 1] + s[j]
    BY <1>2
  <2>2. i = 0 \/ i \in 1 .. n
    OBVIOUS
  <2> QED
    BY <1>2, <2>1, <2>2, Zenon
<1>4. R(c)
  BY <1>2, <1>3
<1>5. SumOf(s) = c[n]
  BY <1>1 DEF SumOf
<1> HIDE DEF c
<1>6. c = [i \in 0 .. n |-> c[i]] /\ c[0] = 0 /\ \A i \in 1 .. n : c[i] = c[i - 1] + s[i]
  BY <1>4
<1> HIDE DEF R
<1>a. ASSUME NEW i \in 1 .. n, c[i - 1] = F[i - 1] PROVE c[i] = F[i]
  <2>1. F[i] = F[i - 1] + s[i] /\ c[i] = c[i - 1] + s[i]
    BY <1>2, <1>6, Zenon
  <2> QED
    BY <1>a, <2>1, Zenon
<1>b. \A i \in 1 .. n : c[i - 1] = F[i - 1] => c[i] = F[i]
  BY <1>a
<1>c. IsTable(F, n) /\ IsTable(c, n)
  BY <1>2, <1>6 DEF IsTable
<1>7. c = F
  <2>1. c[0] = F[0]
    BY <1>2, <1>6, Zenon
  <2> QED
    BY <1>c, <1>b, <2>1, TablesAgree
<1> QED
  BY <1>5, <1>7

LEMMA SumIsNat ==
  ASSUME NEW n \in Nat, NEW s \in [1 .. n -> Nat]
  PROVE  SumOf(s) \in Nat
<1>1. PICK F : SumsOf(F, s, n)
  BY SumsExist
<1>2. F[n] \in Nat
  BY <1>1 DEF SumsOf
<1>3. SumOf(s) = F[n]
  BY <1>1, SumIs
<1> QED
  BY <1>2, <1>3

LEMMA SumOfOne ==
  ASSUME NEW s, NEW v \in Nat, s \in [1 .. 1 -> Nat], s[1] = v
  PROVE  SumOf(s) = v
<1> DEFINE F == [i \in 0 .. 1 |-> IF i = 0 THEN 0 ELSE v]
<1>1. SumsOf(F, s, 1) /\ F[1] = v
  BY DEF SumsOf
<1> HIDE DEF F
<1> QED
  BY <1>1, SumIs

(* g is the array f with v after its n elements.                            *)
Added(g, f, v, n, S) ==
  g \in [1 .. n + 1 -> S] /\ g[n + 1] = v /\ \A i \in 1 .. n : g[i] = f[i]
(* One more element.                                                        *)
LEMMA SumGrown ==
  ASSUME NEW n \in Nat, NEW s \in [1 .. n -> Nat], NEW v \in Nat, NEW t,
         Added(t, s, v, n, Nat)
  PROVE  SumOf(t) = SumOf(s) + v
<1>1. PICK m : m = n + 1
  OBVIOUS
<1>2. m \in Nat /\ t \in [1 .. m -> Nat] /\ t[m] = v /\ \A i \in 1 .. n : t[i] = s[i]
  BY <1>1 DEF Added
<1>3. PICK G : SumsOf(G, t, m)
  BY <1>2, SumsExist
<1>4. G \in [0 .. m -> Nat] /\ G[0] = 0 /\ \A i \in 1 .. m : G[i] = G[i - 1] + t[i]
  BY <1>3 DEF SumsOf
<1> DEFINE F == [i \in 0 .. n |-> G[i]]
<1>5. SumsOf(F, s, n)
  <2>1. ASSUME NEW i \in 1 .. n PROVE F[i] = F[i - 1] + s[i]
    <3>1. i \in 0 .. n /\ i - 1 \in 0 .. n /\ i \in 1 .. m
      BY <1>1
    <3> QED
      BY <1>2, <1>4, <3>1
  <2>2. F \in [0 .. n -> Nat] /\ F[0] = 0
    <3>1. \A i \in 0 .. n : i \in 0 .. m
      BY <1>1
    <3> QED
      BY <1>4, <3>1
  <2> HIDE DEF F
  <2> QED
    BY <2>1, <2>2 DEF SumsOf
<1>6. F[n] = G[n]
  OBVIOUS
<1> HIDE DEF F
<1>7. SumOf(s) = F[n]
  BY <1>5, SumIs
<1>8. SumOf(t) = G[m]
  BY <1>2, <1>3, SumIs
<1>9. G[m] = G[n] + t[m]
  <2>1. m \in 1 .. m /\ m - 1 = n
    BY <1>1
  <2> QED
    BY <1>4, <2>1
<1> QED
  BY <1>2, <1>6, <1>7, <1>8, <1>9

(* t is s but for d more at k.                                              *)
Bumped(t, s, k, d, n) ==
  t \in [1 .. n -> Nat] /\ t[k] = s[k] + d /\ \A i \in 1 .. n : i # k => t[i] = s[i]

LEMMA SumBumped ==
  ASSUME NEW n \in Nat, NEW s \in [1 .. n -> Nat], NEW k \in 1 .. n, NEW d \in Nat,
         NEW t, Bumped(t, s, k, d, n)
  PROVE  SumOf(t) = SumOf(s) + d
<1>1. t \in [1 .. n -> Nat] /\ t[k] = s[k] + d /\ \A i \in 1 .. n : i # k => t[i] = s[i]
  BY DEF Bumped
<1>2. PICK F : SumsOf(F, s, n)
  BY SumsExist
<1>3. F \in [0 .. n -> Nat] /\ F[0] = 0 /\ \A i \in 1 .. n : F[i] = F[i - 1] + s[i]
  BY <1>2 DEF SumsOf
<1> DEFINE G == [i \in 0 .. n |-> IF i < k THEN F[i] ELSE F[i] + d]
<1>4. \A i \in 0 .. n : F[i] \in Nat /\ F[i] + d \in Nat
  <2>1. \A i \in 0 .. n : F[i] \in Nat
    BY <1>3, Zenon
  <2> QED
    BY <2>1
<1>5. G \in [0 .. n -> Nat] /\ G[0] = 0 /\ G[n] = F[n] + d
  <2>1. 0 \in 0 .. n /\ 0 < k /\ n \in 0 .. n /\ ~(n < k)
    OBVIOUS
  <2>2. G \in [0 .. n -> Nat]
    BY <1>4
  <2>3. G[0] = F[0] /\ G[n] = F[n] + d
    BY <2>1
  <2> QED
    BY <1>3, <2>2, <2>3
<1>6. ASSUME NEW i \in 1 .. n PROVE G[i] = G[i - 1] + t[i]
  <2>1. PICK j : j = i - 1
    OBVIOUS
  <2>a. j \in 0 .. n /\ i \in 0 .. n /\ i = j + 1 /\ s[i] \in Nat
    BY <2>1
  <2>b. F[i] = F[j] + s[i]
    BY <1>3, <2>1
  <2>c. F[j] \in Nat /\ F[i] \in Nat
    BY <1>4, <2>a
  <2>2. j \in 0 .. n /\ i \in 0 .. n /\ i = j + 1 /\ F[i] = F[j] + s[i] /\ s[i] \in Nat
        /\ F[j] \in Nat /\ F[i] \in Nat
    BY <2>a, <2>b, <2>c
  <2>3. CASE i < k
    <3>1. G[i] = F[i] /\ G[j] = F[j] /\ t[i] = s[i]
      BY <1>1, <2>2, <2>3
    <3> QED
      BY <2>1, <2>2, <3>1
  <2>4. CASE i = k
    <3>a. ~(i < k) /\ j < k
      BY <2>a, <2>4
    <3>b. t[i] = s[i] + d
      BY <1>1, <2>4
    <3>1. G[i] = F[i] + d /\ G[j] = F[j] /\ t[i] = s[i] + d
      BY <2>a, <3>a, <3>b
    <3> QED
      BY <2>1, <2>2, <3>1
  <2>5. CASE k < i
    <3>a. ~(i < k) /\ ~(j < k) /\ i # k
      BY <2>a, <2>5
    <3>b. t[i] = s[i]
      BY <1>1, <3>a
    <3>1. G[i] = F[i] + d /\ G[j] = F[j] + d /\ t[i] = s[i]
      BY <2>a, <3>a, <3>b
    <3> QED
      BY <2>1, <2>2, <3>1
  <2> QED
    BY <2>3, <2>4, <2>5
<1> HIDE DEF G
<1>7. SumsOf(G, t, n)
  BY <1>5, <1>6 DEF SumsOf
<1>8. SumOf(s) = F[n] /\ SumOf(t) = G[n]
  BY <1>1, <1>2, <1>7, SumIs
<1> QED
  BY <1>5, <1>8

(* Two sequences, one after the other.                                      *)
LEMMA SumJoined ==
  ASSUME NEW n \in Nat, NEW s \in [1 .. n -> Nat], NEW m \in Nat, NEW t \in [1 .. m -> Nat],
         NEW st \in [1 .. n + m -> Nat],
         \A i \in 1 .. n : st[i] = s[i], \A i \in 1 .. m : st[n + i] = t[i]
  PROVE  SumOf(st) = SumOf(s) + SumOf(t)
<1>1. PICK F : SumsOf(F, s, n)
  BY SumsExist
<1>2. F \in [0 .. n -> Nat] /\ F[0] = 0 /\ \A i \in 1 .. n : F[i] = F[i - 1] + s[i]
  BY <1>1 DEF SumsOf
<1>3. PICK G : SumsOf(G, t, m)
  BY SumsExist
<1>4. G \in [0 .. m -> Nat] /\ G[0] = 0 /\ \A i \in 1 .. m : G[i] = G[i - 1] + t[i]
  BY <1>3 DEF SumsOf
<1>5. PICK z : z = n + m
  OBVIOUS
<1>6. z \in Nat /\ n <= z /\ z - n = m /\ st \in [1 .. z -> Nat]
  BY <1>5
<1> DEFINE H == [i \in 0 .. z |-> IF i <= n THEN F[i] ELSE F[n] + G[i - n]]
<1>7. F[n] \in Nat /\ G[m] \in Nat
  BY <1>2, <1>4
<1>8. \A i \in 0 .. z : IF i <= n THEN i \in 0 .. n /\ F[i] \in Nat
                        ELSE i - n \in 0 .. m /\ G[i - n] \in Nat
  BY <1>2, <1>4, <1>5
<1>9. H \in [0 .. z -> Nat] /\ H[0] = 0
  <2>1. ASSUME NEW i \in 0 .. z PROVE H[i] \in Nat
    <3>1. CASE i <= n
      BY <1>8, <3>1
    <3>2. CASE ~(i <= n)
      <4>1. H[i] = F[n] + G[i - n] /\ G[i - n] \in Nat
        BY <1>8, <3>2
      <4> QED
        BY <1>7, <4>1
    <3> QED
      BY <3>1, <3>2
  <2>2. 0 \in 0 .. z /\ 0 <= n
    BY <1>6
  <2>3. H[0] = F[0]
    BY <2>2
  <2> QED
    BY <1>2, <2>1, <2>3
<1>10. H[z] = F[n] + G[m]
  <2>1. CASE z <= n
    <3>1. z = n /\ m = 0
      BY <1>5, <1>6, <2>1
    <3>2. H[z] = F[n]
      BY <3>1
    <3> QED
      BY <1>4, <1>7, <3>1, <3>2
  <2>2. CASE ~(z <= n)
    BY <1>6, <2>2
  <2> QED
    BY <2>1, <2>2
<1>11. ASSUME NEW i \in 1 .. z PROVE H[i] = H[i - 1] + st[i]
  <2>1. PICK j : j = i - 1
    OBVIOUS
  <2>2. j \in 0 .. z /\ i \in 0 .. z /\ i = j + 1
    BY <1>6, <2>1
  <2>3. CASE i <= n
    <3>1. H[i] = F[i] /\ H[j] = F[j]
      BY <2>2, <2>3
    <3>2. st[i] = s[i] /\ F[i] = F[i - 1] + s[i]
      BY <1>2, <2>3
    <3> QED
      BY <2>1, <3>1, <3>2
  <2>4. CASE ~(i <= n)
    <3>1. PICK k : k = i - n
      OBVIOUS
    <3>2. k \in 1 .. m /\ n + k = i /\ H[i] = F[n] + G[k]
      BY <1>5, <2>2, <2>4, <3>1
    <3>3. PICK l : l = k - 1
      OBVIOUS
    <3>4. l \in 0 .. m /\ j - n = l /\ G[k] = G[l] + t[k] /\ st[i] = t[k] /\ t[k] \in Nat
          /\ G[l] \in Nat
      BY <1>4, <2>1, <3>1, <3>2, <3>3
    <3>5. H[j] = F[n] + G[l]
      <4>1. CASE l = 0
        <5>1. j = n
          BY <2>2, <3>1, <3>3, <4>1
        <5>2. H[j] = F[n]
          BY <2>2, <5>1
        <5> QED
          BY <1>4, <1>7, <4>1, <5>2
      <4>2. CASE l # 0
        <5>1. ~(j <= n)
          BY <2>2, <3>1, <3>2, <3>3, <3>4, <4>2
        <5> QED
          BY <2>2, <3>4, <5>1
      <4> QED
        BY <4>1, <4>2
    <3>6. F[n] + (G[l] + t[k]) = (F[n] + G[l]) + t[k]
      BY <1>7, <3>4
    <3> QED
      BY <2>1, <3>2, <3>4, <3>5, <3>6
  <2> QED
    BY <2>3, <2>4
<1> HIDE DEF H
<1>12. SumsOf(H, st, z)
  BY <1>9, <1>11 DEF SumsOf
<1>13. SumOf(st) = H[z]
  BY <1>6, <1>12, SumIs
<1>14. SumOf(s) = F[n] /\ SumOf(t) = G[m]
  BY <1>1, <1>3, SumIs
<1> QED
  BY <1>10, <1>13, <1>14

-----------------------------------------------------------------------------
(* Powers of two                                                            *)

LEMMA Powers ==
  ASSUME NEW n \in Nat
  PROVE  /\ PowerOf2(n) \in Nat /\ PowerOf2(n) >= 1
         /\ PowerOf2(0) = 1 /\ PowerOf2(n + 1) = 2 * PowerOf2(n)
<1>1. PICK m : m = n + 1
  OBVIOUS
<1>2. m \in Nat /\ m - 1 = n
  BY <1>1
<1> DEFINE g == [i \in 1 .. m |-> [x \in Nat |-> 2 * x]]
<1>3. g \in [1 .. m -> [Nat -> Nat]] /\ \A i \in 1 .. m : \A x \in Nat : g[i][x] = 2 * x
  OBVIOUS
<1> HIDE DEF g
<1>4. PICK F : Tabled(F, g, 1, m, Nat)
  BY <1>2, <1>3, TableExists
<1>5. F \in [0 .. m -> Nat] /\ F[0] = 1 /\ \A i \in 1 .. m : F[i] = g[i][F[i - 1]]
  BY <1>4 DEF Tabled
<1>6. \A i \in 1 .. m : i - 1 \in 0 .. m /\ F[i - 1] \in Nat
  BY <1>2, <1>5
<1>7. \A i \in 1 .. m : F[i] = 2 * F[i - 1]
  BY <1>3, <1>5, <1>6
<1> DEFINE T == {i \in 0 .. m : F[i] >= 1}
<1>8. \A i \in 0 .. m : F[i] >= 1
  <2>1. 0 \in T
    BY <1>2, <1>5
  <2>2. \A i \in 1 .. m : i - 1 \in T => i \in T
    <3>1. \A i \in 1 .. m : i \in 0 .. m
      OBVIOUS
    <3> QED
      BY <1>6, <1>7, <3>1
  <2> HIDE DEF T
  <2>3. \A i \in 0 .. m : i \in T
    BY <1>2, <2>1, <2>2, CountUp
  <2> QED
    BY <2>3 DEF T
<1>9. ASSUME NEW k \in 0 .. m PROVE PowerOf2(k) = F[k]
  <2> DEFINE R(f) == f = [i \in 0 .. k |-> IF i = 0 THEN 1 ELSE 2 * f[i - 1]]
             c == CHOOSE f : R(f)
             H == [i \in 0 .. k |-> F[i]]
  <2>1. k \in Nat /\ \A i \in 0 .. k : i \in 0 .. m /\ (i # 0 => i \in 1 .. m /\ i - 1 \in 0 .. k)
    <3>1. k \in Nat /\ k <= m
      BY <1>2
    <3> QED
      BY <1>2, <3>1
  <2>2. \A i \in 0 .. k : H[i] = IF i = 0 THEN 1 ELSE 2 * H[i - 1]
    BY <1>5, <1>7, <2>1
  <2>3. H = [i \in 0 .. k |-> H[i]] /\ H[0] = 1 /\ H[k] = F[k]
    BY <1>5, <2>1
  <2> HIDE DEF H
  <2>4. R(c)
    BY <2>2, <2>3
  <2>5. PowerOf2(k) = c[k]
    BY DEF PowerOf2
  <2> HIDE DEF c
  <2>6. c = [i \in 0 .. k |-> c[i]] /\ c[0] = 1 /\ \A i \in 1 .. k : c[i] = 2 * c[i - 1]
    BY <2>1, <2>4
  <2>7. \A i \in 1 .. k : H[i] = 2 * H[i - 1]
    BY <2>1, <2>2
  <2> HIDE DEF R
  <2>a. ASSUME NEW i \in 1 .. k, c[i - 1] = H[i - 1] PROVE c[i] = H[i]
    <3>1. H[i] = 2 * H[i - 1] /\ c[i] = 2 * c[i - 1]
      BY <2>6, <2>7, Zenon
    <3> QED
      BY <2>a, <3>1, Zenon
  <2>b. \A i \in 1 .. k : c[i - 1] = H[i - 1] => c[i] = H[i]
    BY <2>a
  <2>c. IsTable(H, k) /\ IsTable(c, k)
    BY <2>3, <2>6 DEF IsTable
  <2>8. c = H
    <3>1. c[0] = H[0]
      BY <2>3, <2>6, Zenon
    <3>2. k \in Nat
      BY <2>1
    <3> QED
      BY <2>b, <2>c, <3>1, <3>2, TablesAgree
  <2> QED
    BY <2>3, <2>5, <2>8
<1>10. 0 \in 0 .. m /\ n \in 0 .. m /\ m \in 0 .. m /\ m \in 1 .. m
  BY <1>1
<1> QED
  BY <1>1, <1>2, <1>5, <1>7, <1>8, <1>9, <1>10

LEMMA PowersGrow ==
  ASSUME NEW n \in Nat, NEW k \in 0 .. n
  PROVE  PowerOf2(k) <= PowerOf2(n)
<1> DEFINE T == {i \in 0 .. n - k : PowerOf2(k) <= PowerOf2(k + i)}
<1>1. n - k \in Nat /\ k \in Nat /\ PowerOf2(k) \in Nat
  BY Powers
<1>2. 0 \in T
  BY <1>1
<1>3. ASSUME NEW i \in 1 .. n - k, i - 1 \in T PROVE i \in T
  <2>1. PICK h : h = k + (i - 1)
    OBVIOUS
  <2>2. h \in Nat /\ h + 1 = k + i /\ PowerOf2(k) <= PowerOf2(h)
    BY <1>1, <1>3, <2>1
  <2>3. PowerOf2(h) \in Nat /\ PowerOf2(h + 1) = 2 * PowerOf2(h)
    BY <2>2, Powers
  <2>4. PowerOf2(k) <= PowerOf2(k + i)
    BY <1>1, <2>2, <2>3
  <2> QED
    BY <2>4
<1> HIDE DEF T
<1>4. n - k \in T
  BY <1>1, <1>2, <1>3, CountUp
<1>5. PowerOf2(k) <= PowerOf2(k + (n - k))
  BY <1>4 DEF T
<1>6. k + (n - k) = n
  BY <1>1
<1> QED
  BY <1>5, <1>6

-----------------------------------------------------------------------------
(* Remainders *)

(* Division leaves a remainder, and only one.                               *)
LEMMA Remainder ==
  ASSUME NEW x \in Int, NEW m \in Nat \ {0}
  PROVE  x % m \in 0 .. m - 1 /\ \E q \in Int : x = q * m + (x % m)
<1>1. x % m \in 0 .. m - 1
  OBVIOUS
<1>2. x \div m \in Int /\ x = (x \div m) * m + (x % m)
  OBVIOUS
<1> QED
  BY <1>1, <1>2

LEMMA OneRemainder ==
  ASSUME NEW m \in Nat \ {0}, NEW q \in Int, NEW r \in 0 .. m - 1,
         NEW p \in Int, NEW s \in 0 .. m - 1, q * m + r = p * m + s
  PROVE  r = s
<1>1. PICK d \in Int : d = q - p
  OBVIOUS
<1>2. d * m = s - r
  BY <1>1
<1>3. d >= 1 => d * m >= m
  OBVIOUS
<1>4. d <= -1 => d * m <= -m
  OBVIOUS
<1>5. d = 0
  BY <1>2, <1>3, <1>4
<1> QED
  BY <1>2, <1>5

LEMMA RemainderOfSum ==
  ASSUME NEW a \in Int, NEW b \in Int, NEW m \in Nat \ {0}
  PROVE  ((a % m) + b) % m = (a + b) % m
<1>1. PICK r \in 0 .. m - 1, q \in Int : r = a % m /\ a = q * m + r
  BY Remainder
<1>2. PICK s \in 0 .. m - 1, p \in Int : s = (r + b) % m /\ r + b = p * m + s
  <2>1. r + b \in Int
    OBVIOUS
  <2> QED
    BY <2>1, Remainder
<1>3. PICK t \in 0 .. m - 1, u \in Int : t = (a + b) % m /\ a + b = u * m + t
  <2>1. a + b \in Int
    OBVIOUS
  <2> QED
    BY <2>1, Remainder
<1>4. (q + p) * m + s = u * m + t
  <2>1. a + b = q * m + (r + b)
    BY <1>1
  <2>2. q * m + p * m = (q + p) * m
    OBVIOUS
  <2> QED
    BY <1>2, <1>3, <2>1, <2>2
<1>5. s = t
  <2>1. q + p \in Int
    OBVIOUS
  <2> QED
    BY <1>4, <2>1, OneRemainder
<1> QED
  BY <1>1, <1>2, <1>3, <1>5

LEMMA PowersMultiply ==
  ASSUME NEW a \in Nat, NEW b \in Nat
  PROVE  PowerOf2(a + b) = PowerOf2(a) * PowerOf2(b)
<1> DEFINE T == {i \in 0 .. b : PowerOf2(a + i) = PowerOf2(a) * PowerOf2(i)}
<1>1. 0 \in T
  BY Powers
<1>2. ASSUME NEW i \in 1 .. b, i - 1 \in T PROVE i \in T
  <2>1. PICK j : j = i - 1
    OBVIOUS
  <2>2. j \in Nat /\ i = j + 1 /\ a + i = (a + j) + 1 /\ a + j \in Nat
    BY <2>1
  <2>3. PowerOf2(a + j) = PowerOf2(a) * PowerOf2(j)
    BY <1>2, <2>1
  <2>4. /\ PowerOf2(i) = 2 * PowerOf2(j)
        /\ PowerOf2(a + i) = 2 * PowerOf2(a + j)
    BY <2>2, Powers
  <2>5. PICK x, y : x = PowerOf2(a) /\ y = PowerOf2(j)
    OBVIOUS
  <2>6. x \in Nat /\ y \in Nat
    BY <2>2, <2>5, Powers
  <2>7. 2 * (x * y) = x * (2 * y)
    BY <2>6
  <2>8. PowerOf2(a + i) = PowerOf2(a) * PowerOf2(i)
    BY <2>3, <2>4, <2>5, <2>7
  <2> QED
    BY <2>8
<1>3. \A i \in 1 .. b : i - 1 \in T => i \in T
  BY <1>2
<1>4. \A i \in 0 .. b : i \in T
  BY <1>1, <1>3, CountUp, Zenon
<1>5. b \in 0 .. b
  OBVIOUS
<1> QED
  BY <1>4, <1>5
=============================================================================
