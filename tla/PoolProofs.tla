----------------------------- MODULE PoolProofs -----------------------------
(* Fusing and freeing arenas, for any number of arenas, handles, cleanups   *)
(* and limits of the allocator: the forest, the lists and the counts agree, *)
(* and what they describe is groups that live as long as their handles.     *)
EXTENDS ArenaFuse, NumberProofs, FiniteSetTheorems

-----------------------------------------------------------------------------
(* The forest *)

(* par is a forest: root gives the top of every tree, and a height falls on *)
(* the way up, by whatever shortcuts.                                       *)
Forest(par, root, h) ==
  /\ par \in [DOMAIN par -> DOMAIN par]
  /\ root \in [DOMAIN par -> DOMAIN par] /\ h \in [DOMAIN par -> Nat]
  /\ \A x \in DOMAIN par :
       /\ root[par[x]] = root[x] /\ par[root[x]] = root[x]
       /\ par[x] = x => root[x] = x
       /\ par[x] # x => h[par[x]] < h[x]
       /\ root[x] # x => h[root[x]] < h[x]

(* Walking up from a stays in its tree and ends at its top.                 *)
LEMMA RootFound ==
  ASSUME NEW par, NEW root, NEW h, Forest(par, root, h), NEW a \in DOMAIN par
  PROVE  /\ FindRoot(par, a) = root[a]
         /\ Ancestors(par, a) \subseteq {x \in DOMAIN par : root[x] = root[a]}
<1> DEFINE D == DOMAIN par
           Tree == {x \in D : root[x] = root[a]}
<1>1. /\ par \in [D -> D] /\ root \in [D -> D] /\ h \in [D -> Nat]
      /\ \A x \in D : /\ root[par[x]] = root[x] /\ par[root[x]] = root[x]
                      /\ par[x] = x => root[x] = x
                      /\ par[x] # x => h[par[x]] < h[x]
  BY DEF Forest
<1>2. Ancestors(par, a) \subseteq Tree
  <2>1. Tree \in SUBSET D /\ a \in Tree /\ Closed(par, Tree)
    BY <1>1 DEF Closed
  <2> QED
    BY <2>1 DEF Ancestors
<1>3. ASSUME NEW S \in SUBSET D, a \in S, Closed(par, S)
      PROVE  root[a] \in S
  <2> DEFINE T == {n \in Nat : \E x \in S : root[x] = root[a] /\ h[x] = n}
  <2>1. T \in SUBSET Nat /\ T # {}
    BY <1>1, <1>3
  <2>2. PICK n \in T : \A y \in T : n <= y
    BY <2>1, LeastNat
  <2>3. PICK x \in S : root[x] = root[a] /\ h[x] = n
    BY <2>2
  <2>4. par[x] \in S /\ root[par[x]] = root[a] /\ h[par[x]] \in Nat /\ x \in D
    BY <1>1, <1>3, <2>3 DEF Closed
  <2>5. h[par[x]] \in T
    BY <2>4
  <2>6. n <= h[par[x]]
    BY <2>2, <2>5
  <2>7. par[x] = x
    BY <1>1, <2>2, <2>3, <2>4, <2>6
  <2> QED
    BY <1>1, <2>3, <2>4, <2>7
<1>4. root[a] \in Ancestors(par, a) /\ par[root[a]] = root[a]
  BY <1>1, <1>3 DEF Ancestors
<1>5. ASSUME NEW r \in Ancestors(par, a), par[r] = r PROVE r = root[a]
  BY <1>1, <1>2, <1>5
<1>6. FindRoot(par, a) = root[a]
  BY <1>4, <1>5 DEF FindRoot
<1> QED
  BY <1>2, <1>6

(* find_root leaves the trees and their tops as they are.                   *)
LEMMA CompressedIsForest ==
  ASSUME NEW par, NEW root, NEW h, Forest(par, root, h), NEW a \in DOMAIN par
  PROVE  /\ DOMAIN Compressed(par, a) = DOMAIN par
         /\ Forest(Compressed(par, a), root, h)
<1> DEFINE D == DOMAIN par
           q == Compressed(par, a)
<1>1. /\ par \in [D -> D] /\ root \in [D -> D] /\ h \in [D -> Nat]
      /\ \A x \in D : /\ root[par[x]] = root[x] /\ par[root[x]] = root[x]
                      /\ par[x] = x => root[x] = x
                      /\ par[x] # x => h[par[x]] < h[x]
                      /\ root[x] # x => h[root[x]] < h[x]
  BY DEF Forest
<1>2. \A x \in D : q[x] = root[x] \/ q[x] = par[x]
  BY RootFound DEF Compressed
<1>3. q = [x \in D |-> q[x]]
  BY DEF Compressed
<1> HIDE DEF q
<1>4. q \in [D -> D] /\ DOMAIN q = D
  <2>1. \A x \in D : q[x] \in D
    BY <1>1, <1>2
  <2> QED
    BY <1>3, <2>1
<1>5. ASSUME NEW x \in D
      PROVE  /\ root[q[x]] = root[x] /\ q[root[x]] = root[x]
             /\ q[x] = x => root[x] = x
             /\ q[x] # x => h[q[x]] < h[x]
             /\ root[x] # x => h[root[x]] < h[x]
  <2>1. root[x] \in D /\ root[root[x]] = root[x]
    BY <1>1
  <2>2. q[root[x]] = root[x]
    BY <1>1, <1>2, <2>1
  <2>3. root[q[x]] = root[x]
    BY <1>1, <1>2, <2>1
  <2>4. q[x] = x => root[x] = x
    BY <1>1, <1>2
  <2>5. q[x] # x => h[q[x]] < h[x]
    BY <1>1, <1>2
  <2> QED
    BY <1>1, <2>2, <2>3, <2>4, <2>5
<1>6. Forest(q, root, h)
  BY <1>1, <1>4, <1>5 DEF Forest
<1> QED
  BY <1>4, <1>6 DEF q

(* The tops after rb was made a child of ra.                                *)
Linked(root, ra, rb) == [x \in DOMAIN root |-> IF root[x] = rb THEN ra ELSE root[x]]

LEMMA LinkedIsForest ==
  ASSUME NEW par, NEW root, NEW h, Forest(par, root, h),
         NEW ra \in DOMAIN par, NEW rb \in DOMAIN par,
         root[ra] = ra, root[rb] = rb, ra # rb
  PROVE  \E g : Forest([par EXCEPT ![rb] = ra], Linked(root, ra, rb), g)
<1> DEFINE D == DOMAIN par
           q == [par EXCEPT ![rb] = ra]
           top == Linked(root, ra, rb)
           g == [x \in D |-> IF root[x] = rb THEN h[x] + h[ra] + 1 ELSE h[x]]
<1>1. /\ par \in [D -> D] /\ root \in [D -> D] /\ h \in [D -> Nat]
      /\ \A x \in D : /\ root[par[x]] = root[x] /\ par[root[x]] = root[x]
                      /\ par[x] = x => root[x] = x
                      /\ par[x] # x => h[par[x]] < h[x]
                      /\ root[x] # x => h[root[x]] < h[x]
  BY DEF Forest
<1>2. /\ q \in [D -> D] /\ DOMAIN q = D /\ q[rb] = ra
      /\ \A x \in D : x # rb => q[x] = par[x]
  BY <1>1
<1>3. /\ top \in [D -> D]
      /\ \A x \in D : top[x] = IF root[x] = rb THEN ra ELSE root[x]
  BY <1>1 DEF Linked
<1>4. /\ g \in [D -> Nat]
      /\ \A x \in D : g[x] = IF root[x] = rb THEN h[x] + h[ra] + 1 ELSE h[x]
  BY <1>1
<1> HIDE DEF q, top, g
<1>5. ASSUME NEW x \in D
      PROVE  /\ top[q[x]] = top[x] /\ q[top[x]] = top[x]
             /\ q[x] = x => top[x] = x
             /\ q[x] # x => g[q[x]] < g[x]
             /\ top[x] # x => g[top[x]] < g[x]
  <2>1. /\ h[x] \in Nat /\ h[ra] \in Nat /\ par[ra] = ra /\ g[ra] = h[ra]
        /\ root[x] \in D /\ root[root[x]] = root[x]
    BY <1>1, <1>4
  <2>2. CASE x = rb
    <3>1. top[x] = ra /\ q[x] = ra /\ top[ra] = ra /\ q[ra] = ra
      BY <1>1, <1>2, <1>3, <2>1, <2>2
    <3>2. g[x] = h[x] + h[ra] + 1
      BY <1>4, <2>2
    <3>3. g[ra] < g[x]
      BY <2>1, <3>2
    <3> QED
      BY <2>2, <3>1, <3>3
  <2>3. CASE x # rb /\ root[x] = rb
    <3>1. par[x] \in D /\ root[par[x]] = rb /\ par[x] # x /\ h[par[x]] < h[x]
          /\ h[par[x]] \in Nat
      BY <1>1, <2>3
    <3>2. top[x] = ra /\ q[x] = par[x] /\ top[par[x]] = ra /\ q[ra] = ra
      BY <1>1, <1>2, <1>3, <2>1, <2>3, <3>1
    <3>3. g[x] = h[x] + h[ra] + 1 /\ g[par[x]] = h[par[x]] + h[ra] + 1
      BY <1>4, <2>3, <3>1
    <3>4. g[ra] < g[x] /\ g[par[x]] < g[x]
      BY <2>1, <3>1, <3>3
    <3> QED
      BY <2>3, <3>1, <3>2, <3>4
  <2>4. CASE root[x] # rb
    <3>1. x # rb /\ par[x] \in D /\ root[par[x]] = root[x]
      BY <1>1, <2>4
    <3>2. top[x] = root[x] /\ q[x] = par[x] /\ top[par[x]] = root[x]
      BY <1>2, <1>3, <2>4, <3>1
    <3>3. q[root[x]] = root[x]
      BY <1>1, <1>2, <2>1, <2>4
    <3>4. g[x] = h[x] /\ g[par[x]] = h[par[x]] /\ g[root[x]] = h[root[x]]
      BY <1>4, <2>1, <2>4, <3>1
    <3> QED
      BY <1>1, <3>2, <3>3, <3>4
  <2> QED
    BY <2>2, <2>3, <2>4
<1>6. Forest(q, top, g)
  BY <1>2, <1>3, <1>4, <1>5 DEF Forest
<1> QED
  BY <1>6 DEF q, top

-----------------------------------------------------------------------------
(* The invariant *)

(* The list of an arena names the tree below it, once each: nothing, where  *)
(* the arena is no root.                                                    *)
ListsBelong(root) ==
  \A r \in Arenas : /\ IsInjective(members[r])
                    /\ \A x \in Arenas : x \in Members(r) <=> root[x] = r

(* The handles of r's tree that were not freed, and what its count says.    *)
HandlesOf(root, r) == {x \in held : root[x] = r}

CountsHandles(root) ==
  \A r \in Arenas : HandlesOf(root, r) # {} =>
    count[r] = Cardinality(HandlesOf(root, r))

(* What has run is of trees without a handle: nothing can free them again.  *)
RanWithoutHandles(root) ==
  \A i \in DOMAIN ran : HandlesOf(root, root[ran[i][1]]) = {}

GroupsBy(root, h) ==
  /\ Forest(parent, root, h) /\ ListsBelong(root)
  /\ CountsHandles(root) /\ RanWithoutHandles(root)

PoolInv == TypeOK /\ NoUseAfterFree /\ \E root, h : GroupsBy(root, h)

-----------------------------------------------------------------------------
(* Sequences *)

LEMMA Appended ==
  ASSUME NEW S, NEW n \in Nat, NEW f \in [1 .. n -> S], NEW v \in S
  PROVE  Added(Append(f, v), f, v, n, S)
<1>1. f \in Seq(S) /\ Len(f) = n
  OBVIOUS
<1> DEFINE g == Append(f, v)
<1>2. g \in Seq(S) /\ Len(g) = n + 1 /\ g[n + 1] = v /\ \A i \in 1 .. n : g[i] = f[i]
  BY <1>1
<1> HIDE DEF g
<1>3. g \in [1 .. n + 1 -> S]
  BY <1>2
<1>4. Added(g, f, v, n, S)
  BY <1>2, <1>3 DEF Added
<1> QED
  BY <1>4 DEF g

LEMMA SeqMonotone ==
  ASSUME NEW S, NEW T, S \subseteq T, NEW s \in Seq(S)
  PROVE  s \in Seq(T)
<1>1. Len(s) \in Nat /\ s = [i \in 1 .. Len(s) |-> s[i]] /\ \A i \in 1 .. Len(s) : s[i] \in T
  OBVIOUS
<1>2. [i \in 1 .. Len(s) |-> s[i]] \in Seq(T)
  BY <1>1
<1> QED
  BY <1>1, <1>2

(* Two lists that share no element, one after the other.                    *)
LEMMA Joined ==
  ASSUME NEW S, NEW s \in Seq(S), NEW t \in Seq(S),
         IsInjective(s), IsInjective(t), Range(s) \cap Range(t) = {}
  PROVE  /\ s \o t \in Seq(S) /\ IsInjective(s \o t)
         /\ Range(s \o t) = Range(s) \cup Range(t)
<1> DEFINE st == s \o t
<1>1. Len(s) \in Nat /\ Len(t) \in Nat /\ DOMAIN s = 1 .. Len(s) /\ DOMAIN t = 1 .. Len(t)
  OBVIOUS
<1>2. /\ st \in Seq(S) /\ Len(st) = Len(s) + Len(t) /\ DOMAIN st = 1 .. Len(s) + Len(t)
      /\ \A i \in 1 .. Len(s) + Len(t) :
           st[i] = IF i <= Len(s) THEN s[i] ELSE t[i - Len(s)]
  BY <1>1
<1> HIDE DEF st
<1>3. ASSUME NEW i \in DOMAIN st
      PROVE  \/ i \in DOMAIN s /\ st[i] = s[i]
             \/ i - Len(s) \in DOMAIN t /\ st[i] = t[i - Len(s)]
  BY <1>1, <1>2
<1>4. \A i \in DOMAIN s : i \in DOMAIN st /\ st[i] = s[i]
  BY <1>1, <1>2
<1>5. ASSUME NEW i \in DOMAIN t
      PROVE  i + Len(s) \in DOMAIN st /\ st[i + Len(s)] = t[i]
  <2>1. /\ i + Len(s) \in 1 .. Len(s) + Len(t) /\ ~(i + Len(s) <= Len(s))
        /\ (i + Len(s)) - Len(s) = i
    BY <1>1
  <2> QED
    BY <1>2, <2>1
<1>6. Range(st) = Range(s) \cup Range(t)
  BY <1>3, <1>4, <1>5 DEF Range
<1>7. ASSUME NEW i \in DOMAIN st, NEW j \in DOMAIN st, st[i] = st[j] PROVE i = j
  <2>1. i \in Nat /\ j \in Nat
    BY <1>1, <1>2
  <2>2. CASE i \in DOMAIN s /\ st[i] = s[i] /\ j \in DOMAIN s /\ st[j] = s[j]
    BY <1>7, <2>2 DEF IsInjective
  <2>3. CASE i \in DOMAIN s /\ st[i] = s[i] /\ j - Len(s) \in DOMAIN t /\ st[j] = t[j - Len(s)]
    BY <1>7, <2>3 DEF Range
  <2>4. CASE i - Len(s) \in DOMAIN t /\ st[i] = t[i - Len(s)] /\ j \in DOMAIN s /\ st[j] = s[j]
    BY <1>7, <2>4 DEF Range
  <2>5. CASE /\ i - Len(s) \in DOMAIN t /\ st[i] = t[i - Len(s)]
             /\ j - Len(s) \in DOMAIN t /\ st[j] = t[j - Len(s)]
    <3>1. i - Len(s) = j - Len(s)
      BY <1>7, <2>5 DEF IsInjective
    <3> QED
      BY <1>1, <2>1, <3>1
  <2> QED
    BY <1>3, <2>2, <2>3, <2>4, <2>5
<1>8. IsInjective(st)
  BY <1>7 DEF IsInjective
<1> QED
  BY <1>2, <1>6, <1>8 DEF st

(* What a group reports when it ends.                                       *)
LEMMA ReportShape ==
  ASSUME TypeOK, NEW m \in Seq(Arenas)
  PROVE  /\ Reported(m) \in Seq(Arenas \X SUBSET CleanupIds)
         /\ Len(Reported(m)) = Len(m) /\ Len(m) \in Nat
         /\ \A i \in 1 .. Len(m) : Reported(m)[i] = <<m[i], cleanup[m[i]]>>
<1> DEFINE rep == [i \in 1 .. Len(m) |-> <<m[i], cleanup[m[i]]>>]
<1>1. Len(m) \in Nat /\ \A i \in 1 .. Len(m) : m[i] \in Arenas
  OBVIOUS
<1>2. \A i \in 1 .. Len(m) : <<m[i], cleanup[m[i]]>> \in Arenas \X SUBSET CleanupIds
  BY <1>1 DEF TypeOK
<1>3. rep \in [1 .. Len(m) -> Arenas \X SUBSET CleanupIds]
  BY <1>2
<1>4. rep \in Seq(Arenas \X SUBSET CleanupIds) /\ Len(rep) = Len(m)
  BY <1>1, <1>3
<1> QED
  BY <1>1, <1>4 DEF Reported

-----------------------------------------------------------------------------
LEMMA InitPool == Init => PoolInv
<1> SUFFICES ASSUME Init PROVE PoolInv
  OBVIOUS
<1>1. /\ size = 0 /\ Arenas = {} /\ held = {} /\ ran = << >> /\ total = 0
      /\ hasInitialBlock = << >> /\ spaceAllocated = << >> /\ cleanup = << >>
      /\ parent = << >> /\ count = << >> /\ members = << >> /\ freed = << >>
  BY DEF Init, Arenas
<1>2. failAfter \in Nat /\ size \in 0 .. MaxArenas
  BY <1>1, PoolAssumption DEF Init
<1>3. ran \in Seq(Arenas \X SUBSET CleanupIds)
  BY <1>1
<1>4. \A S : << >> \in [{} -> S]
  OBVIOUS
<1>5. TypeOK
  BY <1>1, <1>2, <1>3, <1>4 DEF TypeOK
<1>6. NoUseAfterFree
  BY <1>1 DEF NoUseAfterFree
<1>7. DOMAIN parent = {} /\ << >> \in [{} -> {}] /\ << >> \in [{} -> Nat]
  BY <1>1
<1>8. GroupsBy(<< >>, << >>)
  BY <1>1, <1>7 DEF GroupsBy, Forest, ListsBelong, CountsHandles, RanWithoutHandles
<1> QED
  BY <1>5, <1>6, <1>8 DEF PoolInv

(* A new slot is a tree of its own, with a handle or without.               *)
LEMMA PushKeeps ==
  ASSUME TypeOK, NoUseAfterFree, NEW root, NEW h, GroupsBy(root, h),
         NEW initial \in BOOLEAN, NEW bytes \in Nat, PushState(initial, bytes),
         held' \in {held, held \cup {size + 1}}, ran' = ran,
         total' \in Nat, failAfter' = failAfter
  PROVE  /\ TypeOK' /\ NoUseAfterFree'
         /\ \E top, g : top = Append(root, size + 1) /\ GroupsBy(top, g)'
<1>a. PICK n : n = size + 1
  OBVIOUS
<1>b. PICK top, g : top = Append(root, n) /\ g = Append(h, 0)
  OBVIOUS
<1>1. /\ size \in Nat /\ n \in 1 .. n /\ n \notin Arenas /\ Arenas \subseteq 1 .. n
      /\ size < MaxArenas /\ size' = n /\ Arenas' = 1 .. n /\ size + 1 = n
  BY <1>a, PoolAssumption DEF TypeOK, PushState, Arenas
<1>2. \A i \in 1 .. n : i \in Arenas \/ i = n
  BY <1>1 DEF Arenas
<1>3. /\ hasInitialBlock' = Append(hasInitialBlock, initial)
      /\ spaceAllocated' = Append(spaceAllocated, bytes)
      /\ cleanup' = Append(cleanup, NoCleanup) /\ parent' = Append(parent, n)
      /\ count' = Append(count, 1) /\ members' = Append(members, <<n>>)
      /\ freed' = Append(freed, FALSE)
  BY <1>a DEF PushState
<1>4. DOMAIN parent = Arenas
  BY DEF TypeOK
<1>5. /\ root \in [Arenas -> Arenas] /\ h \in [Arenas -> Nat]
  BY <1>4 DEF GroupsBy, Forest
<1>6. Seq(Arenas) \subseteq Seq(1 .. n) /\ <<n>> \in Seq(1 .. n)
  <2>1. \A s \in Seq(Arenas) : s \in Seq(1 .. n)
    BY <1>1, SeqMonotone
  <2> QED
    BY <1>1, <2>1
<1>7. /\ parent \in [Arenas -> 1 .. n] /\ root \in [Arenas -> 1 .. n]
      /\ members \in [Arenas -> Seq(1 .. n)]
  BY <1>1, <1>5, <1>6 DEF TypeOK
<1>8. /\ Added(hasInitialBlock', hasInitialBlock, initial, size, BOOLEAN)
      /\ Added(spaceAllocated', spaceAllocated, bytes, size, Nat)
      /\ Added(cleanup', cleanup, {}, size, SUBSET CleanupIds)
      /\ Added(parent', parent, n, size, 1 .. n)
      /\ Added(members', members, <<n>>, size, Seq(1 .. n))
      /\ Added(count', count, 1, size, Nat) /\ Added(freed', freed, FALSE, size, BOOLEAN)
      /\ Added(top, root, n, size, 1 .. n) /\ Added(g, h, 0, size, Nat)
  <2>1. Added(hasInitialBlock', hasInitialBlock, initial, size, BOOLEAN)
    <3>1. hasInitialBlock \in [1 .. size -> BOOLEAN] /\ initial \in BOOLEAN
      BY <1>1, <1>6, <1>7 DEF TypeOK, Arenas
    <3>2. hasInitialBlock' = Append(hasInitialBlock, initial)
      BY <1>3 DEF NoCleanup
    <3> QED
      BY <1>1, <3>1, <3>2, Appended
  <2>2. Added(spaceAllocated', spaceAllocated, bytes, size, Nat)
    <3>1. spaceAllocated \in [1 .. size -> Nat] /\ bytes \in Nat
      BY <1>1, <1>6, <1>7 DEF TypeOK, Arenas
    <3>2. spaceAllocated' = Append(spaceAllocated, bytes)
      BY <1>3 DEF NoCleanup
    <3> QED
      BY <1>1, <3>1, <3>2, Appended
  <2>3. Added(cleanup', cleanup, {}, size, SUBSET CleanupIds)
    <3>1. cleanup \in [1 .. size -> SUBSET CleanupIds] /\ {} \in SUBSET CleanupIds
      BY <1>1, <1>6, <1>7 DEF TypeOK, Arenas
    <3>2. cleanup' = Append(cleanup, {})
      BY <1>3 DEF NoCleanup
    <3> QED
      BY <1>1, <3>1, <3>2, Appended
  <2>4. Added(parent', parent, n, size, 1 .. n)
    <3>1. parent \in [1 .. size -> 1 .. n] /\ n \in 1 .. n
      BY <1>1, <1>6, <1>7 DEF TypeOK, Arenas
    <3>2. parent' = Append(parent, n)
      BY <1>3 DEF NoCleanup
    <3> QED
      BY <1>1, <3>1, <3>2, Appended
  <2>5. Added(members', members, <<n>>, size, Seq(1 .. n))
    <3>1. members \in [1 .. size -> Seq(1 .. n)] /\ <<n>> \in Seq(1 .. n)
      BY <1>1, <1>6, <1>7 DEF TypeOK, Arenas
    <3>2. members' = Append(members, <<n>>)
      BY <1>3 DEF NoCleanup
    <3> QED
      BY <1>1, <3>1, <3>2, Appended
  <2>6. Added(count', count, 1, size, Nat)
    <3>1. count \in [1 .. size -> Nat] /\ 1 \in Nat
      BY <1>1, <1>6, <1>7 DEF TypeOK, Arenas
    <3>2. count' = Append(count, 1)
      BY <1>3 DEF NoCleanup
    <3> QED
      BY <1>1, <3>1, <3>2, Appended
  <2>7. Added(freed', freed, FALSE, size, BOOLEAN)
    <3>1. freed \in [1 .. size -> BOOLEAN] /\ FALSE \in BOOLEAN
      BY <1>1, <1>6, <1>7 DEF TypeOK, Arenas
    <3>2. freed' = Append(freed, FALSE)
      BY <1>3 DEF NoCleanup
    <3> QED
      BY <1>1, <3>1, <3>2, Appended
  <2>8. Added(top, root, n, size, 1 .. n) /\ Added(g, h, 0, size, Nat)
    BY <1>b, <1>1, <1>5, <1>7, Appended DEF Arenas
  <2> QED
    BY <2>1, <2>2, <2>3, <2>4, <2>5, <2>6, <2>7, <2>8
<1>9. /\ hasInitialBlock' \in [1 .. n -> BOOLEAN] /\ spaceAllocated' \in [1 .. n -> Nat]
      /\ cleanup' \in [1 .. n -> SUBSET CleanupIds]
  BY <1>1, <1>8 DEF Added
<1>10. /\ parent' \in [1 .. n -> 1 .. n] /\ parent'[n] = n
       /\ \A i \in Arenas : parent'[i] = parent[i]
  BY <1>1, <1>8 DEF Added, Arenas
<1>11. /\ members' \in [1 .. n -> Seq(1 .. n)] /\ members'[n] = <<n>>
       /\ \A i \in Arenas : members'[i] = members[i]
  BY <1>1, <1>8 DEF Added, Arenas
<1>12. /\ count' \in [1 .. n -> Nat] /\ count'[n] = 1
       /\ \A i \in Arenas : count'[i] = count[i]
  BY <1>1, <1>8 DEF Added, Arenas
<1>13. /\ freed' \in [1 .. n -> BOOLEAN] /\ freed'[n] = FALSE
       /\ \A i \in Arenas : freed'[i] = freed[i]
  BY <1>1, <1>8 DEF Added, Arenas
<1>14. /\ top \in [1 .. n -> 1 .. n] /\ top[n] = n
       /\ \A i \in Arenas : top[i] = root[i] /\ top[i] \in Arenas
  BY <1>1, <1>5, <1>8 DEF Added, Arenas
<1>15. /\ g \in [1 .. n -> Nat] /\ \A i \in Arenas : g[i] = h[i]
  BY <1>1, <1>8 DEF Added, Arenas
<1>16. held \subseteq Arenas /\ held' \subseteq 1 .. n /\ \A x \in held' : x \in held \/ x = n
  BY <1>1 DEF TypeOK
<1>17. /\ ran' \in Seq((1 .. n) \X SUBSET CleanupIds)
       /\ \A i \in DOMAIN ran : ran[i][1] \in Arenas
  <2>1. ran \in Seq(Arenas \X SUBSET CleanupIds)
    BY DEF TypeOK
  <2>2. Arenas \X SUBSET CleanupIds \subseteq (1 .. n) \X SUBSET CleanupIds
    BY <1>1
  <2>3. \A i \in DOMAIN ran : ran[i] \in Arenas \X SUBSET CleanupIds
    BY <2>1
  <2> QED
    BY <2>1, <2>2, <2>3, SeqMonotone
<1>18. TypeOK'
  <2>1. size' \in 0 .. MaxArenas /\ failAfter' \in Nat
    BY <1>1, PoolAssumption DEF TypeOK
  <2> QED
    BY <1>1, <1>9, <1>10, <1>11, <1>12, <1>13, <1>16, <1>17, <2>1 DEF TypeOK
<1>19. NoUseAfterFree'
  <2>1. ASSUME NEW a \in held' PROVE ~freed'[a] /\ \A i \in DOMAIN ran : ran[i][1] # a
    <3>1. a \in held \/ a = n
      BY <1>16
    <3>2. ~freed'[a]
      BY <1>13, <1>16, <3>1 DEF NoUseAfterFree
    <3>3. n \notin Arenas
      BY <1>1
    <3>4. \A i \in DOMAIN ran : ran[i][1] # a
      BY <1>17, <3>1, <3>3 DEF NoUseAfterFree
    <3> QED
      BY <3>2, <3>4
  <2>2. \A i, j \in DOMAIN ran : ran[i][1] = ran[j][1] => i = j
    BY DEF NoUseAfterFree
  <2> QED
    BY <2>1, <2>2 DEF NoUseAfterFree
<1>20. Forest(parent', top, g)
  <2>1. DOMAIN parent' = 1 .. n
    BY <1>10
  <2>2. ASSUME NEW x \in Arenas
        PROVE  /\ parent[x] \in Arenas /\ root[x] \in Arenas
               /\ root[parent[x]] = root[x] /\ parent[root[x]] = root[x]
               /\ parent[x] = x => root[x] = x
               /\ parent[x] # x => h[parent[x]] < h[x]
               /\ root[x] # x => h[root[x]] < h[x]
    BY <1>4, <1>5 DEF GroupsBy, Forest, TypeOK
  <2>3. ASSUME NEW x \in Arenas
        PROVE  /\ top[parent'[x]] = top[x] /\ parent'[top[x]] = top[x]
               /\ parent'[x] = x => top[x] = x
               /\ parent'[x] # x => g[parent'[x]] < g[x]
               /\ top[x] # x => g[top[x]] < g[x]
    <3>1. top[x] = root[x] /\ parent'[x] = parent[x] /\ g[x] = h[x]
      BY <1>10, <1>14, <1>15
    <3>2. top[parent[x]] = root[x] /\ g[parent[x]] = h[parent[x]]
      BY <1>14, <1>15, <2>2
    <3>3. parent'[root[x]] = root[x] /\ g[root[x]] = h[root[x]]
      BY <1>10, <1>15, <2>2
    <3> QED
      BY <2>2, <3>1, <3>2, <3>3
  <2>4. \A x \in 1 .. n :
          /\ top[parent'[x]] = top[x] /\ parent'[top[x]] = top[x]
          /\ parent'[x] = x => top[x] = x
          /\ parent'[x] # x => g[parent'[x]] < g[x]
          /\ top[x] # x => g[top[x]] < g[x]
    BY <1>2, <1>10, <1>14, <2>3
  <2> QED
    BY <1>10, <1>14, <1>15, <2>1, <2>4 DEF Forest
<1>21. ListsBelong(top)'
  <2>1. ASSUME NEW r \in Arenas
        PROVE  /\ IsInjective(members'[r])
               /\ \A x \in 1 .. n : x \in Range(members'[r]) <=> top[x] = r
    <3>1. /\ IsInjective(members[r]) /\ members'[r] = members[r]
          /\ \A x \in Arenas : x \in Range(members[r]) <=> root[x] = r
      BY <1>11 DEF GroupsBy, ListsBelong, Members
    <3>2. Range(members[r]) \subseteq Arenas
      BY DEF TypeOK, Range
    <3> QED
      BY <1>1, <1>2, <1>14, <3>1, <3>2
  <2>2. /\ IsInjective(members'[n])
        /\ \A x \in 1 .. n : x \in Range(members'[n]) <=> top[x] = n
    <3>1. Range(<<n>>) = {n} /\ IsInjective(<<n>>)
      BY DEF Range, IsInjective
    <3> QED
      BY <1>1, <1>2, <1>11, <1>14, <3>1
  <2> QED
    BY <1>1, <1>2, <2>1, <2>2 DEF ListsBelong, Members
<1>22. ASSUME NEW r \in Arenas
       PROVE  HandlesOf(top, r)' = HandlesOf(root, r)
  BY <1>1, <1>14, <1>16 DEF HandlesOf
<1>23. HandlesOf(top, n)' \in {{}, {n}}
  <2>1. \A x \in HandlesOf(top, n)' : x = n
    BY <1>1, <1>14, <1>16 DEF HandlesOf
  <2> QED
    BY <2>1
<1>24. CountsHandles(top)'
  <2>1. Cardinality({n}) = 1
    BY FS_Singleton
  <2>2. ASSUME NEW r \in Arenas, HandlesOf(top, r)' # {}
        PROVE  count'[r] = Cardinality(HandlesOf(top, r)')
    BY <1>12, <1>13, <1>22, <2>2 DEF GroupsBy, CountsHandles
  <2> QED
    BY <1>1, <1>2, <1>12, <1>13, <1>23, <2>1, <2>2 DEF CountsHandles
<1>25. RanWithoutHandles(top)'
  <2>1. ASSUME NEW i \in DOMAIN ran PROVE HandlesOf(top, top[ran[i][1]])' = {}
    <3>1. ran[i][1] \in Arenas /\ top[ran[i][1]] = root[ran[i][1]]
          /\ root[ran[i][1]] \in Arenas
      BY <1>14, <1>17
    <3>2. HandlesOf(top, root[ran[i][1]])' = HandlesOf(root, root[ran[i][1]])
      BY <1>22, <3>1
    <3> QED
      BY <3>1, <3>2 DEF GroupsBy, RanWithoutHandles, HandlesOf
  <2> QED
    BY <2>1 DEF RanWithoutHandles
<1>26. GroupsBy(top, g)'
  BY <1>20, <1>21, <1>24, <1>25 DEF GroupsBy
<1> QED
  BY <1>a, <1>b, <1>18, <1>19, <1>26

(* Using an arena does not touch the groups.                                *)
LEMMA GroupsKept ==
  ASSUME NEW root, NEW h, GroupsBy(root, h),
         UNCHANGED <<size, parent, count, members, held, ran>>
  PROVE  GroupsBy(root, h)'
<1>1. Arenas' = Arenas /\ \A r : Members(r)' = Members(r) /\ HandlesOf(root, r)' = HandlesOf(root, r)
  BY DEF Arenas, Members, HandlesOf
<1>2. Forest(parent', root, h) /\ ListsBelong(root)'
  BY <1>1 DEF GroupsBy, ListsBelong
<1>3. CountsHandles(root)' /\ RanWithoutHandles(root)'
  BY <1>1 DEF GroupsBy, CountsHandles, RanWithoutHandles
<1> QED
  BY <1>2, <1>3 DEF GroupsBy

LEMMA TakeBlockKeeps ==
  ASSUME TypeOK, NoUseAfterFree, NEW root, NEW h, GroupsBy(root, h),
         NEW a \in Arenas, NEW bytes \in BlockBytes, TakeBlock(a, bytes)
  PROVE  TypeOK' /\ NoUseAfterFree' /\ GroupsBy(root, h)'
<1>1. bytes \in Nat
  BY PoolAssumption
<1>2. /\ total' = total + bytes
      /\ spaceAllocated' = [spaceAllocated EXCEPT ![a] = @ + bytes]
      /\ UNCHANGED <<size, hasInitialBlock, cleanup, parent, count, members, freed,
                    failAfter, held, ran>>
  BY DEF TakeBlock, groupVars
<1>3. Arenas' = Arenas
  BY <1>2 DEF Arenas
<1>4. total' \in Nat /\ spaceAllocated' \in [Arenas -> Nat]
  BY <1>1, <1>2 DEF TypeOK
<1>5. TypeOK'
  BY <1>2, <1>3, <1>4 DEF TypeOK
<1>6. NoUseAfterFree'
  BY <1>2 DEF NoUseAfterFree
<1> QED
  BY <1>2, <1>5, <1>6, GroupsKept

LEMMA SetCleanupKeeps ==
  ASSUME TypeOK, NoUseAfterFree, NEW root, NEW h, GroupsBy(root, h),
         NEW a \in Arenas, NEW id \in CleanupIds, SetCleanup(a, id)
  PROVE  TypeOK' /\ NoUseAfterFree' /\ GroupsBy(root, h)'
<1>1. /\ cleanup' = [cleanup EXCEPT ![a] = {id}]
      /\ UNCHANGED <<size, hasInitialBlock, spaceAllocated, parent, count, members, freed,
                    total, failAfter, held, ran>>
  BY DEF SetCleanup, groupVars, allocVars
<1>2. Arenas' = Arenas /\ cleanup' \in [Arenas -> SUBSET CleanupIds]
  BY <1>1 DEF Arenas, TypeOK
<1>3. TypeOK'
  BY <1>1, <1>2 DEF TypeOK
<1>4. NoUseAfterFree'
  BY <1>1 DEF NoUseAfterFree
<1> QED
  BY <1>1, <1>3, <1>4, GroupsKept

(* What the finds at the beginning of a fuse return and leave behind.       *)
LEMMA FuseFinds ==
  ASSUME TypeOK, NEW root, NEW h, GroupsBy(root, h), NEW a \in Arenas, NEW b \in Arenas
  PROVE  /\ FindRoot(parent, a) = root[a]
         /\ FindRoot(Compressed(parent, a), b) = root[b]
         /\ Forest(Compressed(Compressed(parent, a), b), root, h)
         /\ DOMAIN Compressed(Compressed(parent, a), b) = Arenas
<1>1. DOMAIN parent = Arenas /\ Forest(parent, root, h)
  BY DEF TypeOK, GroupsBy
<1>2. FindRoot(parent, a) = root[a]
  BY <1>1, RootFound
<1>3. DOMAIN Compressed(parent, a) = Arenas /\ Forest(Compressed(parent, a), root, h)
  BY <1>1, CompressedIsForest
<1>4. FindRoot(Compressed(parent, a), b) = root[b]
  BY <1>3, RootFound
<1>5. /\ Forest(Compressed(Compressed(parent, a), b), root, h)
      /\ DOMAIN Compressed(Compressed(parent, a), b) = Arenas
  BY <1>3, CompressedIsForest
<1> QED
  BY <1>2, <1>4, <1>5

LEMMA HandlesFinite ==
  ASSUME TypeOK, NEW root, NEW r
  PROVE  IsFiniteSet(HandlesOf(root, r)) /\ Cardinality(HandlesOf(root, r)) \in Nat
<1>1. size \in Nat /\ HandlesOf(root, r) \in SUBSET (1 .. size)
  <2>1. size \in Nat /\ held \subseteq 1 .. size
    BY PoolAssumption DEF TypeOK, Arenas
  <2> QED
    BY <2>1 DEF HandlesOf
<1>2. IsFiniteSet(1 .. size)
  BY <1>1, FS_Interval
<1> QED
  BY <1>1, <1>2, FS_Subset, FS_CardinalityType

LEMMA DisjointSum ==
  ASSUME NEW A, NEW B, IsFiniteSet(A), IsFiniteSet(B), A \cap B = {}
  PROVE  Cardinality(A \cup B) = Cardinality(A) + Cardinality(B)
<1>1. Cardinality(A) \in Nat /\ Cardinality(B) \in Nat /\ Cardinality({}) = 0
  BY FS_CardinalityType, FS_EmptySet
<1>2. Cardinality(A \cup B) = Cardinality(A) + Cardinality(B) - Cardinality(A \cap B)
  BY FS_Union
<1>3. Cardinality(A \cap B) = 0
  BY <1>1, Zenon
<1>4. ASSUME NEW k \in Nat, NEW m \in Nat PROVE k + m - 0 = k + m
  OBVIOUS
<1> QED
  BY <1>1, <1>2, <1>3, <1>4, Zenon

(* Fusing what is one group already only shortens ways.                     *)
LEMMA FuseSameKeeps ==
  ASSUME TypeOK, NoUseAfterFree, NEW root, NEW h, GroupsBy(root, h),
         NEW a \in Arenas, NEW b \in Arenas, Fuse(a, b), root[a] = root[b]
  PROVE  /\ TypeOK' /\ NoUseAfterFree' /\ GroupsBy(root, h)'
         /\ UNCHANGED <<count, members>>
<1> DEFINE q == Compressed(Compressed(parent, a), b)
<1>1. /\ FindRoot(parent, a) = root[a] /\ FindRoot(Compressed(parent, a), b) = root[b]
      /\ Forest(q, root, h) /\ DOMAIN q = Arenas
  BY FuseFinds
<1>2. /\ parent' = q
      /\ UNCHANGED <<count, members, size, arenaVars, freed, allocVars, held, ran>>
  BY <1>1 DEF Fuse
<1> HIDE DEF q
<1>3. UNCHANGED <<size, hasInitialBlock, spaceAllocated, cleanup, count, members, freed,
                  total, failAfter, held, ran>>
  BY <1>2 DEF arenaVars, allocVars
<1>4. Arenas' = Arenas /\ parent' \in [Arenas -> Arenas]
  BY <1>1, <1>2 DEF Arenas, Forest
<1>5. TypeOK'
  BY <1>3, <1>4 DEF TypeOK
<1>6. NoUseAfterFree'
  BY <1>3 DEF NoUseAfterFree
<1>7. \A r : Members(r)' = Members(r) /\ HandlesOf(root, r)' = HandlesOf(root, r)
  BY <1>3 DEF Members, HandlesOf
<1>8. ListsBelong(root)' /\ CountsHandles(root)' /\ RanWithoutHandles(root)'
  BY <1>3, <1>4, <1>7 DEF GroupsBy, ListsBelong, CountsHandles, RanWithoutHandles
<1> QED
  BY <1>1, <1>2, <1>3, <1>5, <1>6, <1>8 DEF GroupsBy

(* Fusing two groups joins their trees, lists and counts.                   *)
LEMMA FuseKeeps ==
  ASSUME TypeOK, NoUseAfterFree, NEW root, NEW h, GroupsBy(root, h),
         NEW a \in Arenas, NEW b \in Arenas, Fuse(a, b), root[a] # root[b]
  PROVE  /\ TypeOK' /\ NoUseAfterFree'
         /\ \E g : GroupsBy(Linked(root, root[a], root[b]), g)'
         /\ members' = [members EXCEPT ![root[a]] = @ \o members[root[b]],
                                      ![root[b]] = << >>]
<1>1. PICK ra, rb, top : ra = root[a] /\ rb = root[b] /\ top = Linked(root, ra, rb)
  OBVIOUS
<1> DEFINE q == Compressed(Compressed(parent, a), b)
<1>2. /\ FindRoot(parent, a) = ra /\ FindRoot(Compressed(parent, a), b) = rb
      /\ Forest(q, root, h) /\ DOMAIN q = Arenas
  BY <1>1, FuseFinds
<1>3. /\ a \in held /\ b \in held /\ parent' = [q EXCEPT ![rb] = ra]
      /\ count' = [count EXCEPT ![ra] = @ + count[rb]]
      /\ members' = [members EXCEPT ![ra] = @ \o members[rb], ![rb] = << >>]
      /\ UNCHANGED <<size, arenaVars, freed, allocVars, held, ran>>
  BY <1>1, <1>2 DEF Fuse, MergedCount, MergedMembers
<1>4. UNCHANGED <<size, hasInitialBlock, spaceAllocated, cleanup, freed, total, failAfter,
                  held, ran>>
  BY <1>3 DEF arenaVars, allocVars
<1>5. /\ ra \in Arenas /\ rb \in Arenas /\ root[ra] = ra /\ root[rb] = rb /\ ra # rb
      /\ root \in [Arenas -> Arenas] /\ q \in [Arenas -> Arenas]
  BY <1>1, <1>2 DEF Forest
<1>6. PICK g : Forest(parent', top, g)
  BY <1>1, <1>2, <1>3, <1>5, LinkedIsForest
<1> HIDE DEF q
<1>7. Arenas' = Arenas /\ parent' \in [Arenas -> Arenas]
  BY <1>3, <1>4, <1>5 DEF Arenas
<1>8. /\ count' \in [Arenas -> Nat] /\ count'[ra] = count[ra] + count[rb]
      /\ \A r \in Arenas : r # ra => count'[r] = count[r]
  <2>1. count \in [Arenas -> Nat]
    BY DEF TypeOK
  <2>2. count[ra] \in Nat /\ count[rb] \in Nat
    BY <1>5, <2>1
  <2>3. count[ra] + count[rb] \in Nat
    BY <2>2
  <2> QED
    BY <1>3, <1>5, <2>1, <2>3
<1>9. \A r \in Arenas : /\ IsInjective(members[r]) /\ members[r] \in Seq(Arenas)
                        /\ Range(members[r]) = {x \in Arenas : root[x] = r}
  <2> TAKE r \in Arenas
  <2>1. members[r] \in Seq(Arenas)
    BY DEF TypeOK
  <2>2. Range(members[r]) \subseteq Arenas
    BY <2>1 DEF Range
  <2> QED
    BY <2>1, <2>2 DEF GroupsBy, ListsBelong, Members
<1>10. /\ members[ra] \o members[rb] \in Seq(Arenas)
       /\ IsInjective(members[ra] \o members[rb])
       /\ Range(members[ra] \o members[rb]) = {x \in Arenas : root[x] \in {ra, rb}}
  <2>1. Range(members[ra]) \cap Range(members[rb]) = {}
    <3>1. /\ Range(members[ra]) = {x \in Arenas : root[x] = ra}
          /\ Range(members[rb]) = {x \in Arenas : root[x] = rb}
      BY <1>5, <1>9
    <3> QED
      BY <1>5, <3>1
  <2> QED
    BY <1>5, <1>9, <2>1, Joined
<1>11. /\ members' \in [Arenas -> Seq(Arenas)]
       /\ members'[ra] = members[ra] \o members[rb] /\ members'[rb] = << >>
       /\ \A r \in Arenas \ {ra, rb} : members'[r] = members[r]
  <2>1. members \in [Arenas -> Seq(Arenas)] /\ << >> \in Seq(Arenas)
    BY DEF TypeOK
  <2> QED
    BY <1>3, <1>5, <1>10, <2>1
<1>12. TypeOK'
  BY <1>4, <1>7, <1>8, <1>11 DEF TypeOK
<1>13. NoUseAfterFree'
  BY <1>4 DEF NoUseAfterFree
<1>14. /\ top \in [Arenas -> Arenas]
       /\ \A x \in Arenas : top[x] = IF root[x] = rb THEN ra ELSE root[x]
  BY <1>1, <1>5 DEF Linked
<1>15. ListsBelong(top)'
  <2> SUFFICES ASSUME NEW r \in Arenas
               PROVE  /\ IsInjective(members'[r])
                      /\ \A x \in Arenas : x \in Range(members'[r]) <=> top[x] = r
    BY <1>7 DEF ListsBelong, Members
  <2>1. CASE r = ra
    BY <1>5, <1>10, <1>11, <1>14, <2>1
  <2>2. CASE r = rb
    <3>1. IsInjective(<< >>) /\ Range(<< >>) = {}
      BY DEF IsInjective, Range
    <3>2. \A x \in Arenas : top[x] # rb
      BY <1>5, <1>14
    <3> QED
      BY <1>11, <2>2, <3>1, <3>2
  <2>3. CASE r # ra /\ r # rb
    <3>1. members'[r] = members[r]
      BY <1>11, <2>3
    <3>2. \A x \in Arenas : top[x] = r <=> root[x] = r
      BY <1>14, <2>3
    <3> QED
      BY <1>9, <3>1, <3>2
  <2> QED
    BY <2>1, <2>2, <2>3
<1>16. held \subseteq Arenas
  BY DEF TypeOK
<1>17. /\ HandlesOf(top, ra)' = HandlesOf(root, ra) \cup HandlesOf(root, rb)
       /\ HandlesOf(root, ra) \cap HandlesOf(root, rb) = {}
       /\ HandlesOf(root, ra) # {} /\ HandlesOf(root, rb) # {}
  BY <1>1, <1>3, <1>4, <1>5, <1>14, <1>16 DEF HandlesOf
<1>18. HandlesOf(top, rb)' = {}
  BY <1>4, <1>5, <1>14, <1>16 DEF HandlesOf
<1>19. \A r \in Arenas \ {ra, rb} : HandlesOf(top, r)' = HandlesOf(root, r)
  BY <1>4, <1>14, <1>16 DEF HandlesOf
<1>20. CountsHandles(top)'
  <2>1. Cardinality(HandlesOf(top, ra)') = count[ra] + count[rb]
    <3>1. /\ count[ra] = Cardinality(HandlesOf(root, ra))
          /\ count[rb] = Cardinality(HandlesOf(root, rb))
      BY <1>5, <1>17 DEF GroupsBy, CountsHandles
    <3>2. IsFiniteSet(HandlesOf(root, ra)) /\ IsFiniteSet(HandlesOf(root, rb))
      BY HandlesFinite
    <3>3. Cardinality(HandlesOf(root, ra) \cup HandlesOf(root, rb)) =
            Cardinality(HandlesOf(root, ra)) + Cardinality(HandlesOf(root, rb))
      BY <1>17, <3>2, DisjointSum
    <3> QED
      BY <1>17, <3>1, <3>3
  <2> QED
    BY <1>7, <1>8, <1>18, <1>19, <2>1 DEF GroupsBy, CountsHandles
<1>21. RanWithoutHandles(top)'
  <2> SUFFICES ASSUME NEW i \in DOMAIN ran, NEW x, x = ran[i][1]
               PROVE  HandlesOf(top, top[x])' = {}
    BY <1>4 DEF RanWithoutHandles
  <2>1. x \in Arenas /\ root[x] \in Arenas
    <3>1. ran[i] \in Arenas \X SUBSET CleanupIds
      BY DEF TypeOK
    <3> QED
      BY <1>5, <3>1
  <2>2. HandlesOf(root, root[x]) = {}
    BY DEF GroupsBy, RanWithoutHandles
  <2>3. root[x] # ra /\ root[x] # rb
    BY <1>17, <2>2
  <2>4. top[x] = root[x]
    BY <1>14, <2>1, <2>3
  <2> QED
    BY <1>19, <2>1, <2>2, <2>3, <2>4
<1>22. GroupsBy(top, g)'
  BY <1>6, <1>15, <1>20, <1>21 DEF GroupsBy
<1> QED
  BY <1>1, <1>3, <1>12, <1>13, <1>22

(* The count a free finds is that of the handles of its group.              *)
LEMMA CountFound ==
  ASSUME TypeOK, NEW root, NEW h, GroupsBy(root, h), NEW a \in held
  PROVE  /\ a \in Arenas /\ root[a] \in Arenas /\ root \in [Arenas -> Arenas]
         /\ FindRoot(parent, a) = root[a] /\ a \in HandlesOf(root, root[a])
         /\ count[root[a]] = Cardinality(HandlesOf(root, root[a]))
         /\ count[root[a]] \in Nat \ {0}
         /\ ~(count[root[a]] > 1) => HandlesOf(root, root[a]) = {a}
<1>1. a \in Arenas /\ DOMAIN parent = Arenas /\ count \in [Arenas -> Nat]
  BY DEF TypeOK
<1>2. Forest(parent, root, h) /\ FindRoot(parent, a) = root[a]
  BY <1>1, RootFound DEF GroupsBy
<1>3. root[a] \in Arenas /\ root \in [Arenas -> Arenas]
  BY <1>1, <1>2 DEF Forest
<1>4. a \in HandlesOf(root, root[a])
  BY DEF HandlesOf
<1>5. count[root[a]] = Cardinality(HandlesOf(root, root[a]))
  BY <1>3, <1>4 DEF GroupsBy, CountsHandles
<1>6. IsFiniteSet(HandlesOf(root, root[a])) /\ Cardinality(HandlesOf(root, root[a])) \in Nat
  BY HandlesFinite
<1>7. Cardinality(HandlesOf(root, root[a])) # 0
  BY <1>4, <1>6, FS_EmptySet
<1>8. ASSUME ~(count[root[a]] > 1) PROVE HandlesOf(root, root[a]) = {a}
  <2>1. Cardinality(HandlesOf(root, root[a])) = 1
    BY <1>5, <1>6, <1>7, <1>8
  <2> QED
    BY <1>4, <1>6, <2>1, FS_Singleton
<1> QED
  BY <1>1, <1>2, <1>3, <1>4, <1>5, <1>6, <1>7, <1>8

(* free takes a handle, and with the last one it ends the group.            *)
LEMMA FreeKeeps ==
  ASSUME TypeOK, NoUseAfterFree, NEW root, NEW h, GroupsBy(root, h),
         NEW a \in Arenas, Free(a)
  PROVE  TypeOK' /\ NoUseAfterFree' /\ GroupsBy(root, h)'
<1>1. a \in held /\ held \subseteq Arenas
  BY DEF Free, TypeOK
<1>2. PICK r : r = root[a]
  OBVIOUS
<1>3. /\ r \in Arenas /\ root \in [Arenas -> Arenas] /\ FindRoot(parent, a) = r
      /\ a \in HandlesOf(root, r) /\ count[r] = Cardinality(HandlesOf(root, r))
      /\ count[r] \in Nat \ {0}
      /\ ~(count[r] > 1) => HandlesOf(root, r) = {a}
  BY <1>1, <1>2, CountFound
<1>4. /\ parent' = Compressed(parent, a) /\ held' = held \ {a}
      /\ UNCHANGED <<size, hasInitialBlock, spaceAllocated, cleanup, members, total,
                    failAfter>>
  BY DEF Free, arenaVars, allocVars
<1>5. /\ count[r] > 1 => /\ count' = [count EXCEPT ![r] = @ - 1]
                         /\ freed' = [freed EXCEPT ![a] = TRUE] /\ ran' = ran
      /\ ~(count[r] > 1) =>
           /\ freed' = [x \in Arenas |-> freed[x] \/ x \in Range(members[r])]
           /\ count' = count /\ ran' = ran \o Reported(members[r])
  BY <1>3 DEF Free, RanAfter
<1>6. Forest(parent', root, h) /\ DOMAIN parent' = Arenas
  BY <1>4, CompressedIsForest DEF GroupsBy, TypeOK
<1>7. Arenas' = Arenas /\ parent' \in [Arenas -> Arenas] /\ held' \subseteq Arenas
  BY <1>1, <1>4, <1>6 DEF Arenas, Forest
<1>8. ListsBelong(root)'
  BY <1>4, <1>7 DEF GroupsBy, ListsBelong, Members
<1>9. \A q \in Arenas \ {r} : HandlesOf(root, q)' = HandlesOf(root, q)
  BY <1>2, <1>4 DEF HandlesOf
<1>10. HandlesOf(root, r)' = HandlesOf(root, r) \ {a}
  BY <1>4 DEF HandlesOf
<1>11. /\ members[r] \in Seq(Arenas) /\ IsInjective(members[r])
       /\ \A x \in Arenas : x \in Range(members[r]) <=> root[x] = r
  BY <1>3 DEF TypeOK, GroupsBy, ListsBelong, Members
<1>12. \A i \in DOMAIN ran :
         ran[i][1] \in Arenas /\ root[ran[i][1]] \in Arenas /\ root[ran[i][1]] # r
  <2> TAKE i \in DOMAIN ran
  <2>1. ran[i] \in Arenas \X SUBSET CleanupIds
    BY DEF TypeOK
  <2>2. HandlesOf(root, root[ran[i][1]]) = {}
    BY DEF GroupsBy, RanWithoutHandles
  <2> QED
    BY <1>3, <2>1, <2>2
<1>13. CASE count[r] > 1
  <2>1. /\ count' = [count EXCEPT ![r] = @ - 1] /\ freed' = [freed EXCEPT ![a] = TRUE]
        /\ ran' = ran
    BY <1>5, <1>13
  <2>2. count \in [Arenas -> Nat] /\ count[r] - 1 \in Nat
    BY <1>3 DEF TypeOK
  <2>3. /\ count' \in [Arenas -> Nat] /\ freed' \in [Arenas -> BOOLEAN]
        /\ ran' \in Seq(Arenas \X SUBSET CleanupIds)
    BY <2>1, <2>2 DEF TypeOK
  <2>4. TypeOK'
    BY <1>4, <1>7, <2>3 DEF TypeOK
  <2>5. NoUseAfterFree'
    <3>1. \A x \in held' : x \in held /\ x # a /\ freed'[x] = freed[x]
      BY <1>1, <1>4, <2>1 DEF TypeOK
    <3> QED
      BY <2>1, <3>1 DEF NoUseAfterFree
  <2>6. CountsHandles(root)'
    <3>1. Cardinality(HandlesOf(root, r)') = count[r] - 1
      BY <1>3, <1>10, HandlesFinite, FS_RemoveElement
    <3>2. /\ count'[r] = count[r] - 1
          /\ \A q \in Arenas \ {r} : count'[q] = count[q]
      BY <1>3, <2>1, <2>2
    <3> QED
      BY <1>7, <1>9, <3>1, <3>2 DEF GroupsBy, CountsHandles
  <2>7. RanWithoutHandles(root)'
    <3> SUFFICES ASSUME NEW i \in DOMAIN ran, NEW x, x = ran[i][1]
                 PROVE  HandlesOf(root, root[x])' = {}
      BY <2>1 DEF RanWithoutHandles
    <3>1. root[x] \in Arenas \ {r} /\ HandlesOf(root, root[x]) = {}
      BY <1>12 DEF GroupsBy, RanWithoutHandles
    <3> QED
      BY <1>9, <3>1
  <2> QED
    BY <1>6, <1>8, <2>4, <2>5, <2>6, <2>7 DEF GroupsBy
<1>14. CASE ~(count[r] > 1)
  <2> DEFINE rep == Reported(members[r])
  <2>1. /\ freed' = [x \in Arenas |-> freed[x] \/ x \in Range(members[r])]
        /\ count' = count /\ ran' = ran \o rep
    BY <1>5, <1>14
  <2>2. HandlesOf(root, r)' = {}
    BY <1>3, <1>10, <1>14
  <2>3. /\ rep \in Seq(Arenas \X SUBSET CleanupIds) /\ Len(rep) \in Nat
        /\ \A i \in 1 .. Len(rep) : i \in DOMAIN members[r] /\ rep[i][1] = members[r][i]
    BY <1>11, ReportShape
  <2> HIDE DEF rep
  <2>4. \A i \in 1 .. Len(rep) : rep[i][1] \in Arenas /\ root[rep[i][1]] = r
    BY <1>11, <2>3 DEF Range
  <2>5. ran \in Seq(Arenas \X SUBSET CleanupIds) /\ Len(ran) \in Nat
        /\ DOMAIN ran = 1 .. Len(ran)
    BY DEF TypeOK
  <2>6. /\ ran' \in Seq(Arenas \X SUBSET CleanupIds) /\ DOMAIN ran' = 1 .. Len(ran) + Len(rep)
        /\ \A i \in DOMAIN ran' :
             ran'[i] = IF i <= Len(ran) THEN ran[i] ELSE rep[i - Len(ran)]
    BY <2>1, <2>3, <2>5
  <2>7. \A i \in DOMAIN ran' :
          \/ i \in DOMAIN ran /\ ran'[i] = ran[i]
          \/ i - Len(ran) \in 1 .. Len(rep) /\ ran'[i] = rep[i - Len(ran)]
    BY <2>3, <2>5, <2>6
  <2>8. TypeOK'
    <3>1. freed' \in [Arenas -> BOOLEAN]
      BY <2>1 DEF TypeOK
    <3> QED
      BY <1>4, <1>7, <2>1, <2>6, <3>1 DEF TypeOK
  <2>9. \A x \in held' : x \in held /\ x \in Arenas /\ root[x] # r
    BY <1>1, <1>4, <2>2 DEF HandlesOf
  <2>10. NoUseAfterFree'
    <3>1. ASSUME NEW x \in held' PROVE ~freed'[x] /\ \A i \in DOMAIN ran' : ran'[i][1] # x
      <4>1. ~freed'[x]
        BY <1>11, <2>1, <2>9 DEF NoUseAfterFree
      <4>2. \A i \in DOMAIN ran : ran[i][1] # x
        BY <2>9 DEF NoUseAfterFree
      <4> QED
        BY <2>4, <2>7, <2>9, <4>1, <4>2
    <3>2. ASSUME NEW i \in DOMAIN ran', NEW j \in DOMAIN ran', ran'[i][1] = ran'[j][1]
          PROVE  i = j
      <4>1. CASE i \in DOMAIN ran /\ ran'[i] = ran[i] /\ j \in DOMAIN ran /\ ran'[j] = ran[j]
        BY <3>2, <4>1 DEF NoUseAfterFree
      <4>2. CASE /\ i - Len(ran) \in 1 .. Len(rep) /\ ran'[i] = rep[i - Len(ran)]
                 /\ j - Len(ran) \in 1 .. Len(rep) /\ ran'[j] = rep[j - Len(ran)]
        <5>1. i - Len(ran) = j - Len(ran)
          BY <1>11, <2>3, <3>2, <4>2 DEF IsInjective
        <5> QED
          BY <2>3, <2>5, <2>6, <5>1
      <4>3. CASE /\ i \in DOMAIN ran /\ ran'[i] = ran[i]
                 /\ j - Len(ran) \in 1 .. Len(rep) /\ ran'[j] = rep[j - Len(ran)]
        BY <1>12, <2>4, <3>2, <4>3
      <4>4. CASE /\ j \in DOMAIN ran /\ ran'[j] = ran[j]
                 /\ i - Len(ran) \in 1 .. Len(rep) /\ ran'[i] = rep[i - Len(ran)]
        BY <1>12, <2>4, <3>2, <4>4
      <4> QED
        BY <2>7, <4>1, <4>2, <4>3, <4>4
    <3> QED
      BY <3>1, <3>2 DEF NoUseAfterFree
  <2>11. CountsHandles(root)'
    BY <1>7, <1>9, <2>1, <2>2 DEF GroupsBy, CountsHandles
  <2>12. RanWithoutHandles(root)'
    <3> SUFFICES ASSUME NEW i \in DOMAIN ran', NEW x, x = ran'[i][1]
                 PROVE  HandlesOf(root, root[x])' = {}
      BY DEF RanWithoutHandles
    <3>1. CASE i \in DOMAIN ran /\ ran'[i] = ran[i]
      <4>1. root[x] \in Arenas \ {r} /\ HandlesOf(root, root[x]) = {}
        BY <1>12, <3>1 DEF GroupsBy, RanWithoutHandles
      <4> QED
        BY <1>9, <4>1
    <3>2. CASE i - Len(ran) \in 1 .. Len(rep) /\ ran'[i] = rep[i - Len(ran)]
      BY <2>2, <2>4, <3>2
    <3> QED
      BY <2>7, <3>1, <3>2
  <2> QED
    BY <1>6, <1>8, <2>8, <2>10, <2>11, <2>12 DEF GroupsBy
<1> QED
  BY <1>13, <1>14

-----------------------------------------------------------------------------
LEMMA NextPool == PoolInv /\ [Next]_vars => PoolInv'
<1> SUFFICES ASSUME PoolInv, [Next]_vars PROVE PoolInv'
  OBVIOUS
<1>1. TypeOK /\ NoUseAfterFree
  BY DEF PoolInv
<1>2. PICK root, h : GroupsBy(root, h)
  BY DEF PoolInv
<1>3. total \in Nat /\ failAfter \in Nat /\ FirstBytes \in Nat
  BY <1>1, PoolAssumption DEF TypeOK
<1>4. CASE NewArenaInBuffer
  BY <1>1, <1>2, <1>3, <1>4, PushKeeps DEF NewArenaInBuffer, allocVars, PoolInv
<1>5. CASE NewArenaSlow
  <2>1. CASE CanTake(FirstBytes)
    <3>1. /\ PushState(FALSE, FirstBytes) /\ held' = held \cup {size + 1}
          /\ total' = total + FirstBytes /\ failAfter' = failAfter /\ ran' = ran
      BY <1>5, <2>1 DEF NewArenaSlow
    <3>2. total' \in Nat
      BY <1>3, <3>1
    <3> QED
      BY <1>1, <1>2, <1>3, <3>1, <3>2, PushKeeps DEF PoolInv
  <2>2. CASE ~CanTake(FirstBytes)
    <3>1. PushState(FALSE, 0) /\ UNCHANGED <<held, total, failAfter, ran>>
      BY <1>5, <2>2 DEF NewArenaSlow, allocVars
    <3> QED
      BY <1>1, <1>2, <1>3, <3>1, PushKeeps DEF PoolInv
  <2> QED
    BY <2>1, <2>2
<1>6. ASSUME NEW a \in Arenas, NEW bytes \in BlockBytes, TakeBlock(a, bytes) PROVE PoolInv'
  BY <1>1, <1>2, <1>6, TakeBlockKeeps DEF PoolInv
<1>7. ASSUME NEW a \in Arenas, NEW id \in CleanupIds, SetCleanup(a, id) PROVE PoolInv'
  BY <1>1, <1>2, <1>7, SetCleanupKeeps DEF PoolInv
<1>8. ASSUME NEW a \in Arenas, NEW b \in Arenas, Fuse(a, b) PROVE PoolInv'
  <2>1. CASE root[a] = root[b]
    BY <1>1, <1>2, <1>8, <2>1, FuseSameKeeps DEF PoolInv
  <2>2. CASE root[a] # root[b]
    <3>1. PICK top : top = Linked(root, root[a], root[b])
      OBVIOUS
    <3>2. TypeOK' /\ NoUseAfterFree' /\ \E g : GroupsBy(top, g)'
      BY <1>1, <1>2, <1>8, <2>2, <3>1, FuseKeeps
    <3> QED
      BY <3>2 DEF PoolInv
  <2> QED
    BY <2>1, <2>2
<1>9. ASSUME NEW a \in Arenas, Free(a) PROVE PoolInv'
  BY <1>1, <1>2, <1>9, FreeKeeps DEF PoolInv
<1>10. CASE UNCHANGED vars
  <2>1. UNCHANGED <<size, hasInitialBlock, spaceAllocated, cleanup, parent, count, members,
                    freed, total, failAfter, held, ran>>
    BY <1>10 DEF vars, arenaVars, groupVars, allocVars
  <2>2. TypeOK' /\ NoUseAfterFree'
    BY <1>1, <2>1 DEF TypeOK, NoUseAfterFree, Arenas
  <2> QED
    BY <1>2, <2>1, <2>2, GroupsKept DEF PoolInv
<1> QED
  BY <1>4, <1>5, <1>6, <1>7, <1>8, <1>9, <1>10 DEF Next

LEMMA PoolAlwaysInv == Spec => []PoolInv
  BY InitPool, NextPool, PTL DEF Spec

-----------------------------------------------------------------------------
(* The tree of a root, which its list names.                                *)
TreeOf(root, r) == {x \in Arenas : root[x] = r}

LEMMA MembersAreTree ==
  ASSUME TypeOK, NEW root, NEW h, GroupsBy(root, h), NEW r \in Arenas
  PROVE  Members(r) = TreeOf(root, r)
<1>1. members[r] \in Seq(Arenas)
  BY DEF TypeOK
<1>2. Members(r) \subseteq Arenas
  BY <1>1 DEF Members, Range
<1> QED
  BY <1>2 DEF GroupsBy, ListsBelong, TreeOf

(* The parents lead every arena to the root whose list it is in: is_fused,  *)
(* space_allocated and free, which look at either, speak of the same        *)
(* groups, and every arena is in one of them.                               *)
THEOREM ForestAlwaysMatches == Spec => []ForestMatchesLists
<1>1. ASSUME PoolInv PROVE ForestMatchesLists
  <2>1. PICK root, h : GroupsBy(root, h)
    BY <1>1 DEF PoolInv
  <2>2. TypeOK /\ DOMAIN parent = Arenas /\ root \in [Arenas -> Arenas]
    BY <1>1, <2>1 DEF PoolInv, TypeOK, GroupsBy, Forest
  <2>3. \A a \in Arenas : FindRoot(parent, a) = root[a]
    BY <2>1, <2>2, RootFound DEF GroupsBy
  <2>4. \A r \in Arenas : Members(r) = TreeOf(root, r) /\ IsInjective(members[r])
    BY <2>1, <2>2, MembersAreTree DEF GroupsBy, ListsBelong
  <2>5. \A a \in Arenas : a \in Members(FindRoot(parent, a)) /\ IsInjective(members[a])
    BY <2>2, <2>3, <2>4 DEF TreeOf
  <2>6. \A a, b \in Arenas : IsFused(a, b) <=> b \in Members(FindRoot(parent, a))
    BY <2>2, <2>3, <2>4 DEF TreeOf, IsFused
  <2>7. \A r, q \in Arenas : r # q => Members(r) \cap Members(q) = {}
    BY <2>4 DEF TreeOf
  <2> QED
    BY <2>2, <2>5, <2>6, <2>7 DEF ForestMatchesLists
<1> QED
  BY <1>1, PoolAlwaysInv, PTL

(* While a group has a handle, its count is the number of its handles, so   *)
(* the free that takes the last one finds 1; no arena whose handle is left  *)
(* is marked freed or has run its cleanup, and no cleanup runs twice.       *)
THEOREM HeldAlwaysAlive == Spec => []HeldIsAlive
<1>1. ASSUME PoolInv PROVE HeldIsAlive
  <2>1. PICK root, h : GroupsBy(root, h)
    BY <1>1 DEF PoolInv
  <2>2. TypeOK /\ NoUseAfterFree
    BY <1>1 DEF PoolInv
  <2>3. ASSUME NEW r \in Arenas PROVE Members(r) \cap held = HandlesOf(root, r)
    <3>1. Members(r) = TreeOf(root, r) /\ held \subseteq Arenas
      BY <2>1, <2>2, MembersAreTree DEF TypeOK
    <3> QED
      BY <3>1 DEF TreeOf, HandlesOf
  <2>4. CountIsHandles
    BY <2>1, <2>3 DEF CountIsHandles, Roots, GroupsBy, CountsHandles
  <2> QED
    BY <2>2, <2>4 DEF HeldIsAlive
<1> QED
  BY <1>1, PoolAlwaysInv, PTL

-----------------------------------------------------------------------------
(* The lifetimes                                                            *)

(* The trees, over the arenas D, of those in H.                             *)
Trees(D, H, root) == {{x \in D : root[x] = root[a]} : a \in H}

(* The live groups are the trees of the arenas that have handles.           *)
GroupsSeen ==
  \A root, h : TypeOK /\ GroupsBy(root, h) => LiveGroups = Trees(Arenas, held, root)

LEMMA GroupsAreSeen == GroupsSeen
<1> SUFFICES ASSUME NEW root, NEW h, TypeOK, GroupsBy(root, h)
             PROVE  LiveGroups = {TreeOf(root, root[a]) : a \in held}
  BY DEF GroupsSeen, TreeOf, Trees
<1>1. /\ held \subseteq Arenas /\ root \in [Arenas -> Arenas]
      /\ \A a \in Arenas : parent[root[a]] = root[a]
  BY DEF TypeOK, GroupsBy, Forest
<1>2. \A r \in Arenas : Members(r) = TreeOf(root, r)
  BY MembersAreTree
<1>3. ASSUME NEW g \in LiveGroups PROVE \E a \in held : g = TreeOf(root, root[a])
  <2>1. PICK r \in Arenas : g = Members(r) /\ Members(r) \cap held # {}
    BY <1>3 DEF LiveGroups, Roots
  <2>2. PICK a \in held : a \in Members(r)
    BY <2>1
  <2>3. root[a] = r
    BY <1>2, <2>1, <2>2 DEF TreeOf
  <2> QED
    BY <1>2, <2>1, <2>3
<1>4. ASSUME NEW a \in held PROVE TreeOf(root, root[a]) \in LiveGroups
  <2>1. root[a] \in Roots /\ a \in TreeOf(root, root[a])
    BY <1>1 DEF Roots, TreeOf
  <2>2. Members(root[a]) = TreeOf(root, root[a])
    BY <1>1, <1>2
  <2>3. Members(root[a]) \cap held # {}
    BY <2>1, <2>2
  <2> QED
    BY <2>1, <2>2, <2>3 DEF LiveGroups
<1> QED
  BY <1>3, <1>4

LEMMA GroupsAreSeenNext == GroupsSeen'
  BY GroupsAreSeen, PTL

LEMMA SeenNext ==
  ASSUME NEW root, NEW h, TypeOK', GroupsBy(root, h)'
  PROVE  LiveGroups' = Trees(Arenas', held', root)
<1>1. \A r, k : TypeOK' /\ GroupsBy(r, k)' => LiveGroups' = Trees(Arenas', held', r)
  BY GroupsAreSeenNext DEF GroupsSeen
<1> QED
  BY <1>1, Zenon

(* A handle's group.                                                        *)
LEMMA GroupOfHeld ==
  ASSUME TypeOK, NEW root, NEW h, GroupsBy(root, h), NEW a \in held
  PROVE  L!GroupOf(a) = TreeOf(root, root[a]) /\ L!GroupOf(a) \in LiveGroups
<1>1. LiveGroups = {TreeOf(root, root[x]) : x \in held}
  BY GroupsAreSeen DEF GroupsSeen, TreeOf, Trees
<1>2. a \in TreeOf(root, root[a]) /\ TreeOf(root, root[a]) \in LiveGroups
  BY <1>1 DEF TreeOf, TypeOK
<1>3. ASSUME NEW g \in LiveGroups, a \in g PROVE g = TreeOf(root, root[a])
  BY <1>1, <1>3 DEF TreeOf
<1> QED
  BY <1>2, <1>3 DEF L!GroupOf

(* A new slot is a new group if somebody gets its handle, and nothing to    *)
(* see if nobody does.                                                      *)
LEMMA PushSeen ==
  ASSUME TypeOK, NoUseAfterFree, NEW root, NEW h, GroupsBy(root, h),
         NEW initial \in BOOLEAN, NEW bytes \in Nat, PushState(initial, bytes),
         held' \in {held, held \cup {size + 1}}, ran' = ran,
         total' \in Nat, failAfter' = failAfter, NEW n, n = size + 1
  PROVE  /\ n \in 1 .. MaxArenas /\ n \notin held /\ n \notin UNION LiveGroups
         /\ LiveGroups' = LiveGroups \cup {{a} : a \in held' \cap {n}}
         /\ Pinned' = Pinned \cup {a \in {n} : initial}
         /\ Registered' = Registered /\ HaveRun' = HaveRun
<1>1. /\ size \in Nat /\ size < MaxArenas /\ size' = n /\ Arenas' = 1 .. n
      /\ n \notin Arenas /\ n \in 1 .. MaxArenas
      /\ \A x : x \in Arenas' <=> (x \in Arenas \/ x = n)
  BY PoolAssumption DEF TypeOK, PushState, Arenas
<1>2. PICK top, g : top = Append(root, n) /\ GroupsBy(top, g)'
  BY PushKeeps
<1>3. TypeOK' /\ root \in [Arenas -> Arenas] /\ held \subseteq Arenas
  BY PushKeeps DEF GroupsBy, Forest, TypeOK
<1>4. top[n] = n /\ \A a \in Arenas : top[a] = root[a]
  <2>1. root \in [1 .. size -> 1 .. n] /\ n \in 1 .. n
    BY <1>1, <1>3 DEF Arenas
  <2>2. Added(top, root, n, size, 1 .. n)
    BY <1>1, <1>2, <2>1, Appended
  <2> QED
    BY <1>1, <2>2 DEF Added, Arenas
<1>5. LiveGroups = {TreeOf(root, root[a]) : a \in held}
  BY GroupsAreSeen DEF GroupsSeen, TreeOf, Trees
<1>6. LiveGroups' = {{x \in Arenas' : top[x] = top[a]} : a \in held'}
  <2>1. LiveGroups' = Trees(Arenas', held', top)
    BY <1>2, <1>3, SeenNext, Zenon
  <2> QED
    BY <2>1 DEF Trees
<1>7. \A a \in held : {x \in Arenas' : top[x] = top[a]} = TreeOf(root, root[a])
  <2> TAKE a \in held
  <2>1. root[a] \in Arenas /\ top[a] = root[a]
    BY <1>3, <1>4
  <2>2. \A x : (x \in Arenas' /\ top[x] = root[a]) <=> (x \in Arenas /\ root[x] = root[a])
    BY <1>1, <1>4, <2>1
  <2> QED
    BY <2>1, <2>2 DEF TreeOf
<1>8. {x \in Arenas' : top[x] = top[n]} = {n}
  <2>1. \A x : (x \in Arenas' /\ top[x] = n) <=> x = n
    BY <1>1, <1>3, <1>4
  <2> QED
    BY <1>4, <2>1 DEF TreeOf
<1>9. LiveGroups' = LiveGroups \cup {{a} : a \in held' \cap {n}}
  <2>1. CASE held' = held
    <3>1. held' \cap {n} = {}
      BY <1>1, <1>3, <2>1
    <3>2. {{a} : a \in held' \cap {n}} = {}
      BY <3>1
    <3> DEFINE Seen(a) == {x \in Arenas' : top[x] = top[a]}
               Tree(a) == TreeOf(root, root[a])
    <3>3. LiveGroups' = {Seen(a) : a \in held}
      BY <1>6, <2>1
    <3>4. \A a \in held : Seen(a) = Tree(a)
      BY <1>7
    <3>5. LiveGroups = {Tree(a) : a \in held}
      BY <1>5
    <3> HIDE DEF Seen, Tree
    <3>6. {Seen(a) : a \in held} = {Tree(a) : a \in held}
      BY <3>4
    <3> QED
      BY <3>2, <3>3, <3>5, <3>6
  <2>2. CASE held' = held \cup {n}
    <3>1. held' \cap {n} = {n} /\ \A a \in held' : a \in held \/ a = n
      BY <2>2
    <3>2. {{a} : a \in held' \cap {n}} = {{n}}
      BY <3>1
    <3>3. {{x \in Arenas' : top[x] = top[a]} : a \in held'} =
            {TreeOf(root, root[a]) : a \in held} \cup {{n}}
      BY <1>7, <1>8, <2>2, <3>1
    <3> QED
      BY <1>5, <1>6, <3>2, <3>3
  <2> QED
    BY <2>1, <2>2
<1>10. n \notin UNION LiveGroups
  BY <1>1, <1>5 DEF TreeOf
<1>11. Pinned' = Pinned \cup {a \in {n} : initial}
  <2>1. Added(hasInitialBlock', hasInitialBlock, initial, size, BOOLEAN)
    BY <1>1, Appended DEF TypeOK, PushState, Arenas
  <2>2. hasInitialBlock'[n] = initial /\ \A a \in Arenas : hasInitialBlock'[a] = hasInitialBlock[a]
    BY <2>1 DEF Added, Arenas
  <2> QED
    BY <1>1, <2>2 DEF Pinned
<1>12. Registered' = Registered
  <2>1. Added(cleanup', cleanup, {}, size, SUBSET CleanupIds)
    <3>1. cleanup' = Append(cleanup, {}) /\ cleanup \in [1 .. size -> SUBSET CleanupIds]
      BY DEF PushState, NoCleanup, TypeOK, Arenas
    <3> QED
      BY <1>1, <3>1, Appended
  <2>2. cleanup'[n] = {} /\ \A a \in Arenas : cleanup'[a] = cleanup[a]
    BY <2>1 DEF Added, Arenas
  <2> QED
    BY <1>1, <2>2 DEF Registered
<1>13. HaveRun' = HaveRun
  BY DEF HaveRun
<1> QED
  BY <1>1, <1>3, <1>9, <1>10, <1>11, <1>12, <1>13

(* A step that leaves the forest's tops and the handles leaves the groups.  *)
LEMMA SameSeen ==
  ASSUME TypeOK, NEW root, NEW h, GroupsBy(root, h), TypeOK', NEW g, GroupsBy(root, g)',
         UNCHANGED <<size, held>>
  PROVE  LiveGroups' = LiveGroups
<1>1. LiveGroups = Trees(Arenas, held, root)
  BY GroupsAreSeen, Zenon DEF GroupsSeen
<1>2. LiveGroups' = Trees(Arenas', held', root)
  BY SeenNext, Zenon
<1>3. Arenas' = Arenas
  BY DEF Arenas
<1> QED
  BY <1>1, <1>2, <1>3

LEMMA NewSeen ==
  ASSUME TypeOK, NoUseAfterFree, NEW root, NEW h, GroupsBy(root, h),
         NEW initial \in BOOLEAN, NEW bytes \in Nat, PushState(initial, bytes),
         held' \in {held, held \cup {size + 1}}, ran' = ran,
         total' \in Nat, failAfter' = failAfter,
         initial => held' = held \cup {size + 1}
  PROVE  [L!LifeNext]_(L!lifeVars)
<1>1. PICK n : n = size + 1
  OBVIOUS
<1>2. /\ n \in 1 .. MaxArenas /\ n \notin held /\ n \notin UNION LiveGroups
      /\ LiveGroups' = LiveGroups \cup {{a} : a \in held' \cap {n}}
      /\ Pinned' = Pinned \cup {a \in {n} : initial}
      /\ Registered' = Registered /\ HaveRun' = HaveRun
  BY <1>1, PushSeen
<1>3. CASE held' = held \cup {n}
  <2>1. LiveGroups' = LiveGroups \cup {{n}}
    <3>1. held' \cap {n} = {n}
      BY <1>3
    <3> QED
      BY <1>2, <3>1
  <2>2. Pinned' \in {Pinned, Pinned \cup {n}}
    BY <1>2
  <2>3. L!Create(n)
    BY <1>2, <1>3, <2>1, <2>2 DEF L!Create
  <2> QED
    BY <1>2, <2>3 DEF L!LifeNext
<1>4. CASE held' = held /\ ~initial
  <2>1. held' \cap {n} = {}
    BY <1>2, <1>4
  <2>2. LiveGroups' = LiveGroups /\ Pinned' = Pinned
    BY <1>2, <1>4, <2>1
  <2> QED
    BY <1>2, <1>4, <2>2 DEF L!lifeVars
<1> QED
  BY <1>1, <1>3, <1>4

LEMMA TakeBlockSeen ==
  ASSUME TypeOK, NoUseAfterFree, NEW root, NEW h, GroupsBy(root, h),
         NEW a \in Arenas, NEW bytes \in BlockBytes, TakeBlock(a, bytes)
  PROVE  UNCHANGED L!lifeVars
<1>1. UNCHANGED <<size, hasInitialBlock, cleanup, held, ran>>
  BY DEF TakeBlock
<1>2. LiveGroups' = LiveGroups
  BY <1>1, TakeBlockKeeps, SameSeen
<1>3. Arenas' = Arenas
  BY <1>1 DEF Arenas
<1>4. Pinned' = Pinned /\ Registered' = Registered /\ HaveRun' = HaveRun
  BY <1>1, <1>3 DEF Pinned, Registered, HaveRun
<1> QED
  BY <1>1, <1>2, <1>4 DEF L!lifeVars

LEMMA SetCleanupSeen ==
  ASSUME TypeOK, NoUseAfterFree, NEW root, NEW h, GroupsBy(root, h),
         NEW a \in Arenas, NEW id \in CleanupIds, SetCleanup(a, id)
  PROVE  L!LifeNext
<1>1. /\ a \in held /\ cleanup' = [cleanup EXCEPT ![a] = {id}]
      /\ UNCHANGED <<size, hasInitialBlock, held, ran>>
  BY DEF SetCleanup
<1>2. LiveGroups' = LiveGroups
  BY <1>1, SetCleanupKeeps, SameSeen
<1>3. Arenas' = Arenas /\ a \in 1 .. MaxArenas /\ cleanup \in [Arenas -> SUBSET CleanupIds]
  BY <1>1, PoolAssumption DEF Arenas, TypeOK
<1>4. Pinned' = Pinned /\ HaveRun' = HaveRun
  BY <1>1, <1>3 DEF Pinned, HaveRun
<1>5. Registered' = [Registered EXCEPT ![a] = {id}]
  BY <1>1, <1>3 DEF Registered
<1>6. L!Register(a, id)
  BY <1>1, <1>2, <1>4, <1>5 DEF L!Register
<1> QED
  BY <1>3, <1>6 DEF L!LifeNext

(* Fusing joins the groups of a and b.                                      *)
LEMMA FuseSeen ==
  ASSUME TypeOK, NoUseAfterFree, NEW root, NEW h, GroupsBy(root, h),
         NEW a \in Arenas, NEW b \in Arenas, Fuse(a, b)
  PROVE  L!LifeNext
<1>1. /\ a \in held /\ b \in held /\ ~hasInitialBlock[a] /\ ~hasInitialBlock[b]
      /\ UNCHANGED <<size, hasInitialBlock, cleanup, held, ran>>
  BY DEF Fuse, arenaVars
<1>2. Arenas' = Arenas /\ a \in 1 .. MaxArenas /\ b \in 1 .. MaxArenas
  BY <1>1, PoolAssumption DEF Arenas, TypeOK
<1>3. Pinned' = Pinned /\ Registered' = Registered /\ HaveRun' = HaveRun
  BY <1>1, <1>2 DEF Pinned, Registered, HaveRun
<1>4. a \in held \ Pinned /\ b \in held \ Pinned
  BY <1>1 DEF Pinned
<1>5. PICK ga, gb : ga = TreeOf(root, root[a]) /\ gb = TreeOf(root, root[b])
  OBVIOUS
<1>6. L!GroupOf(a) = ga /\ L!GroupOf(b) = gb /\ ga \in LiveGroups /\ gb \in LiveGroups
  BY <1>1, <1>5, GroupOfHeld
<1>7. LiveGroups' = (LiveGroups \ {ga, gb}) \cup {ga \cup gb}
  <2>1. CASE root[a] = root[b]
    <3>1. LiveGroups' = LiveGroups
      BY <1>1, <2>1, FuseSameKeeps, SameSeen
    <3> QED
      BY <1>5, <1>6, <2>1, <3>1
  <2>2. CASE root[a] # root[b]
    <3>1. PICK top : top = Linked(root, root[a], root[b])
      OBVIOUS
    <3>2. LiveGroups' = Trees(Arenas', held', top)
      BY <2>2, <3>1, FuseKeeps, SeenNext
    <3>3. LiveGroups = {TreeOf(root, root[x]) : x \in held}
      BY GroupsAreSeen DEF GroupsSeen, TreeOf, Trees
    <3>4. root \in [Arenas -> Arenas] /\ held \subseteq Arenas
      BY DEF TypeOK, GroupsBy, Forest
    <3>5. \A x \in Arenas : top[x] = IF root[x] = root[b] THEN root[a] ELSE root[x]
      BY <3>1, <3>4 DEF Linked
    <3>6. ASSUME NEW x \in held
          PROVE  {y \in Arenas : top[y] = top[x]} =
                   IF root[x] \in {root[a], root[b]} THEN ga \cup gb
                                                     ELSE TreeOf(root, root[x])
      <4>1. CASE root[x] \in {root[a], root[b]}
        <5>1. \A y \in Arenas : top[y] = top[x] <=> root[y] \in {root[a], root[b]}
          BY <3>4, <3>5, <4>1
        <5> QED
          BY <1>5, <4>1, <5>1 DEF TreeOf
      <4>2. CASE root[x] \notin {root[a], root[b]}
        <5>1. \A y \in Arenas : top[y] = top[x] <=> root[y] = root[x]
          BY <3>4, <3>5, <4>2
        <5> QED
          BY <4>2, <5>1 DEF TreeOf
      <4> QED
        BY <4>1, <4>2
    <3>7. ASSUME NEW x \in held
          PROVE  TreeOf(root, root[x]) \in {ga, gb} <=> root[x] \in {root[a], root[b]}
      <4>1. x \in TreeOf(root, root[x])
        BY <3>4 DEF TreeOf
      <4> QED
        BY <1>5, <4>1 DEF TreeOf
    <3>8. ASSUME NEW g \in LiveGroups' PROVE g \in (LiveGroups \ {ga, gb}) \cup {ga \cup gb}
      <4>1. PICK x \in held : g = {y \in Arenas : top[y] = top[x]}
        BY <1>1, <1>2, <3>2, <3>8 DEF Trees
      <4>2. CASE root[x] \in {root[a], root[b]}
        BY <3>6, <4>1, <4>2
      <4>3. CASE root[x] \notin {root[a], root[b]}
        <5>1. g = TreeOf(root, root[x])
          BY <3>6, <4>1, <4>3
        <5> QED
          BY <3>3, <3>7, <4>3, <5>1
      <4> QED
        BY <4>2, <4>3
    <3>9. ASSUME NEW x \in held PROVE {y \in Arenas : top[y] = top[x]} \in LiveGroups'
      BY <1>1, <1>2, <3>2 DEF Trees
    <3>10. ga \cup gb \in LiveGroups'
      BY <1>1, <3>6, <3>9
    <3>11. ASSUME NEW g \in LiveGroups \ {ga, gb} PROVE g \in LiveGroups'
      <4>1. PICK x \in held : g = TreeOf(root, root[x])
        BY <3>3
      <4>2. root[x] \notin {root[a], root[b]}
        BY <3>7, <4>1
      <4>3. g = {y \in Arenas : top[y] = top[x]}
        BY <3>6, <4>1, <4>2
      <4> QED
        BY <3>9, <4>3
    <3> QED
      BY <3>8, <3>10, <3>11
  <2> QED
    BY <2>1, <2>2
<1>8. L!Join(a, b)
  BY <1>1, <1>3, <1>4, <1>6, <1>7 DEF L!Join
<1> QED
  BY <1>2, <1>8 DEF L!LifeNext

(* A free ends the group when it takes the last handle, and only then, and  *)
(* what its members registered runs.                                        *)
LEMMA FreeSeen ==
  ASSUME TypeOK, NoUseAfterFree, NEW root, NEW h, GroupsBy(root, h),
         NEW a \in Arenas, Free(a)
  PROVE  L!LifeNext
<1>1. PICK r, g : r = root[a] /\ g = TreeOf(root, root[a])
  OBVIOUS
<1>2. /\ a \in held /\ held' = held \ {a} /\ held \subseteq Arenas
      /\ UNCHANGED <<size, hasInitialBlock, cleanup, members>>
  BY DEF Free, arenaVars, TypeOK
<1>3. /\ r \in Arenas /\ root \in [Arenas -> Arenas] /\ FindRoot(parent, a) = r
      /\ a \in HandlesOf(root, r) /\ count[r] = Cardinality(HandlesOf(root, r))
      /\ count[r] \in Nat \ {0}
      /\ ~(count[r] > 1) => HandlesOf(root, r) = {a}
  BY <1>1, <1>2, CountFound
<1>4. /\ count[r] > 1 => ran' = ran
      /\ ~(count[r] > 1) => ran' = ran \o Reported(members[r])
  BY <1>3 DEF Free, RanAfter
<1>5. Arenas' = Arenas /\ a \in 1 .. MaxArenas /\ Arenas \subseteq 1 .. MaxArenas
  BY <1>2, PoolAssumption DEF Arenas, TypeOK
<1>6. Pinned' = Pinned /\ Registered' = Registered
  BY <1>2, <1>5 DEF Pinned, Registered
<1>7. L!GroupOf(a) = g /\ g \in LiveGroups /\ g \cap held = HandlesOf(root, r)
  <2>1. L!GroupOf(a) = g /\ g \in LiveGroups
    BY <1>1, <1>2, GroupOfHeld
  <2>2. g \cap held = HandlesOf(root, r)
    BY <1>1, <1>2 DEF TreeOf, HandlesOf
  <2> QED
    BY <2>1, <2>2
<1>8. /\ LiveGroups = {TreeOf(root, root[x]) : x \in held}
      /\ LiveGroups' = {TreeOf(root, root[x]) : x \in held \ {a}}
  <2>1. LiveGroups = {TreeOf(root, root[x]) : x \in held}
    BY GroupsAreSeen DEF GroupsSeen, TreeOf, Trees
  <2>2. LiveGroups' = Trees(Arenas', held', root)
    BY FreeKeeps, SeenNext
  <2> QED
    BY <1>2, <1>5, <2>1, <2>2 DEF TreeOf, Trees
<1>9. CASE count[r] > 1
  <2>1. HandlesOf(root, r) # {a}
    <3>1. Cardinality({a}) = 1
      BY FS_Singleton
    <3>2. Cardinality(HandlesOf(root, r)) # 1
      BY <1>3, <1>9
    <3> QED
      BY <3>1, <3>2
  <2>2. PICK b \in HandlesOf(root, r) : b # a
    BY <1>3, <2>1
  <2>3. b \in held \ {a} /\ root[b] = root[a]
    BY <1>1, <2>2 DEF HandlesOf
  <2>4. ASSUME NEW x \in held PROVE TreeOf(root, root[x]) \in LiveGroups'
    BY <1>8, <2>3
  <2>5. LiveGroups' = LiveGroups
    BY <1>8, <2>4
  <2>6. HaveRun' = HaveRun
    BY <1>4, <1>9 DEF HaveRun
  <2>7. L!Release(a)
    BY <1>2, <1>6, <1>7, <2>1, <2>5, <2>6 DEF L!Release
  <2> QED
    BY <1>5, <2>7 DEF L!LifeNext
<1>10. CASE ~(count[r] > 1)
  <2>1. g \cap held = {a}
    BY <1>3, <1>7, <1>10
  <2>2. \A x \in held : TreeOf(root, root[x]) = g <=> x = a
    <3> TAKE x \in held
    <3>1. x \in TreeOf(root, root[x])
      BY <1>2, <1>3 DEF TreeOf
    <3> QED
      BY <1>1, <2>1, <3>1
  <2>3. LiveGroups' = LiveGroups \ {g}
    BY <1>8, <2>2
  <2>4. /\ members[r] \in Seq(Arenas) /\ Range(members[r]) = g
    BY <1>1, <1>3, MembersAreTree DEF TypeOK, Members
  <2> DEFINE rep == Reported(members[r])
  <2>5. /\ rep \in Seq(Arenas \X SUBSET CleanupIds) /\ Len(rep) \in Nat
        /\ Len(rep) = Len(members[r])
        /\ \A i \in 1 .. Len(rep) :
             /\ i \in DOMAIN members[r]
             /\ rep[i][1] = members[r][i] /\ rep[i][2] = cleanup[members[r][i]]
    BY <2>4, ReportShape
  <2>6. /\ ran \in Seq(Arenas \X SUBSET CleanupIds) /\ Len(ran) \in Nat
        /\ DOMAIN ran = 1 .. Len(ran)
    BY DEF TypeOK
  <2>7. ran' = ran \o rep
    BY <1>4, <1>10
  <2> HIDE DEF rep
  <2>8. /\ DOMAIN ran' = 1 .. Len(ran) + Len(rep)
        /\ \A i \in DOMAIN ran' :
             ran'[i] = IF i <= Len(ran) THEN ran[i] ELSE rep[i - Len(ran)]
    <3>1. rep \in Seq(Arenas \X SUBSET CleanupIds) /\ Len(rep) \in Nat
      BY <2>5
    <3>2. /\ ran \o rep \in Seq(Arenas \X SUBSET CleanupIds)
          /\ Len(ran \o rep) = Len(ran) + Len(rep)
          /\ \A i \in 1 .. Len(ran) + Len(rep) :
               (ran \o rep)[i] = IF i <= Len(ran) THEN ran[i] ELSE rep[i - Len(ran)]
      BY <2>6, <3>1
    <3>3. DOMAIN ran' = 1 .. Len(ran) + Len(rep)
      BY <2>7, <3>2
    <3> QED
      BY <2>7, <3>2, <3>3
  <2>9. \A i \in DOMAIN ran' :
          \/ i \in DOMAIN ran /\ ran'[i] = ran[i]
          \/ i - Len(ran) \in 1 .. Len(rep) /\ ran'[i] = rep[i - Len(ran)]
    BY <2>5, <2>6, <2>8
  <2>10. /\ \A i \in DOMAIN ran : i \in DOMAIN ran' /\ ran'[i] = ran[i]
         /\ \A j \in 1 .. Len(rep) : \E i \in DOMAIN ran' : ran'[i] = rep[j]
    <3>1. \A i \in DOMAIN ran : i \in DOMAIN ran' /\ ran'[i] = ran[i]
      BY <2>5, <2>6, <2>8
    <3>2. ASSUME NEW j \in 1 .. Len(rep) PROVE \E i \in DOMAIN ran' : ran'[i] = rep[j]
      <4>1. /\ Len(ran) + j \in 1 .. Len(ran) + Len(rep) /\ ~(Len(ran) + j <= Len(ran))
            /\ (Len(ran) + j) - Len(ran) = j
        BY <2>5, <2>6
      <4> QED
        BY <2>8, <4>1
    <3> QED
      BY <3>1, <3>2
  <2>11. \A x \in g : \E j \in 1 .. Len(rep) : rep[j][1] = x /\ rep[j][2] = cleanup[x]
    <3> TAKE x \in g
    <3>1. PICK j \in DOMAIN members[r] : members[r][j] = x
      BY <2>4 DEF Range
    <3>2. j \in 1 .. Len(rep)
      BY <2>4, <2>5, <3>1
    <3> QED
      BY <2>5, <3>1, <3>2
  <2>12. \A j \in 1 .. Len(rep) : rep[j][1] \in g /\ rep[j][2] = cleanup[rep[j][1]]
    BY <2>4, <2>5 DEF Range
  <2>13. g \subseteq Arenas /\ \A x \in g : Registered[x] = cleanup[x]
    BY <1>1, <1>5 DEF TreeOf, Registered
  <2> DEFINE Gone == {e \in g \X CleanupIds : e[2] \in Registered[e[1]]}
  <2>14. ASSUME NEW e \in HaveRun' PROVE e \in HaveRun \cup Gone
    <3>1. PICK x, y : e = <<x, y>> /\ x \in 1 .. MaxArenas /\ y \in CleanupIds
                      /\ e[1] = x /\ e[2] = y
      BY <2>14 DEF HaveRun
    <3>2. PICK i \in DOMAIN ran' : x = ran'[i][1] /\ y \in ran'[i][2]
      BY <2>14, <3>1 DEF HaveRun
    <3>3. CASE i \in DOMAIN ran /\ ran'[i] = ran[i]
      BY <3>1, <3>2, <3>3 DEF HaveRun
    <3>4. CASE i - Len(ran) \in 1 .. Len(rep) /\ ran'[i] = rep[i - Len(ran)]
      <4>1. x \in g /\ y \in Registered[x]
        BY <2>12, <2>13, <3>2, <3>4
      <4> QED
        BY <3>1, <4>1
    <3> QED
      BY <2>9, <3>3, <3>4
  <2>15. ASSUME NEW e \in HaveRun PROVE e \in HaveRun'
    <3>1. e \in (1 .. MaxArenas) \X CleanupIds
          /\ \E i \in DOMAIN ran' : e[1] = ran'[i][1] /\ e[2] \in ran'[i][2]
      BY <2>10, <2>15 DEF HaveRun
    <3> QED
      BY <3>1 DEF HaveRun
  <2>16. ASSUME NEW e \in Gone PROVE e \in HaveRun'
    <3>1. PICK x, y : e = <<x, y>> /\ x \in g /\ y \in CleanupIds /\ y \in cleanup[x]
                      /\ e[1] = x /\ e[2] = y
      BY <2>13
    <3>2. \E i \in DOMAIN ran' : x = ran'[i][1] /\ y \in ran'[i][2]
      BY <2>10, <2>11, <3>1
    <3>3. e \in (1 .. MaxArenas) \X CleanupIds
      BY <1>5, <2>13, <3>1
    <3> QED
      BY <3>1, <3>2, <3>3 DEF HaveRun
  <2>17. HaveRun' = HaveRun \cup Gone
    BY <2>14, <2>15, <2>16
  <2>18. L!Release(a)
    BY <1>2, <1>6, <1>7, <2>1, <2>3, <2>17 DEF L!Release
  <2> QED
    BY <1>5, <2>18 DEF L!LifeNext
<1> QED
  BY <1>9, <1>10

LEMMA PoolStepIsLife == PoolInv /\ [Next]_vars => [L!LifeNext]_(L!lifeVars)
<1> SUFFICES ASSUME PoolInv, [Next]_vars PROVE [L!LifeNext]_(L!lifeVars)
  OBVIOUS
<1>1. TypeOK /\ NoUseAfterFree
  BY DEF PoolInv
<1>2. PICK root, h : GroupsBy(root, h)
  BY DEF PoolInv
<1>3. total \in Nat /\ failAfter \in Nat /\ FirstBytes \in Nat
  BY <1>1, PoolAssumption DEF TypeOK
<1>4. CASE NewArenaInBuffer
  BY <1>1, <1>2, <1>3, <1>4, NewSeen DEF NewArenaInBuffer, allocVars
<1>5. CASE NewArenaSlow
  <2>1. CASE CanTake(FirstBytes)
    <3>1. /\ PushState(FALSE, FirstBytes) /\ held' = held \cup {size + 1}
          /\ total' = total + FirstBytes /\ failAfter' = failAfter /\ ran' = ran
      BY <1>5, <2>1 DEF NewArenaSlow
    <3>2. total' \in Nat
      BY <1>3, <3>1
    <3> QED
      BY <1>1, <1>2, <1>3, <3>1, <3>2, NewSeen
  <2>2. CASE ~CanTake(FirstBytes)
    <3>1. PushState(FALSE, 0) /\ UNCHANGED <<held, total, failAfter, ran>>
      BY <1>5, <2>2 DEF NewArenaSlow, allocVars
    <3> QED
      BY <1>1, <1>2, <1>3, <3>1, NewSeen
  <2> QED
    BY <2>1, <2>2
<1>6. ASSUME NEW a \in Arenas, NEW bytes \in BlockBytes, TakeBlock(a, bytes)
      PROVE  UNCHANGED L!lifeVars
  BY <1>1, <1>2, <1>6, TakeBlockSeen
<1>7. ASSUME NEW a \in Arenas, NEW id \in CleanupIds, SetCleanup(a, id) PROVE L!LifeNext
  BY <1>1, <1>2, <1>7, SetCleanupSeen
<1>8. ASSUME NEW a \in Arenas, NEW b \in Arenas, Fuse(a, b) PROVE L!LifeNext
  BY <1>1, <1>2, <1>8, FuseSeen
<1>9. ASSUME NEW a \in Arenas, Free(a) PROVE L!LifeNext
  BY <1>1, <1>2, <1>9, FreeSeen
<1>10. CASE UNCHANGED vars
  <2>1. UNCHANGED <<size, hasInitialBlock, cleanup, parent, members, held, ran>>
    BY <1>10 DEF vars, arenaVars, groupVars
  <2>2. Arenas' = Arenas /\ Roots' = Roots /\ \A r : Members(r)' = Members(r)
    BY <2>1 DEF Arenas, Roots, Members
  <2> QED
    BY <2>1, <2>2 DEF L!lifeVars, LiveGroups, Pinned, Registered, HaveRun
<1> QED
  BY <1>4, <1>5, <1>6, <1>7, <1>8, <1>9, <1>10 DEF Next

LEMMA InitIsLife == Init => L!LifeInit
<1> SUFFICES ASSUME Init PROVE L!LifeInit
  OBVIOUS
<1>1. Arenas = {} /\ held = {} /\ ran = << >>
  BY DEF Init, Arenas
<1> QED
  BY <1>1 DEF L!LifeInit, LiveGroups, Roots, Pinned, Registered, HaveRun

(* Whatever the order of calls, the pool is groups of arenas that only      *)
(* grow: fuse merges two and touches no other, and free ends a group, all   *)
(* its cleanups run, exactly when its last handle goes.                     *)
THEOREM PoolIsLifetimes == Spec => ImplementsLifetimes
<1>1. PoolInv /\ [Next]_vars => [L!LifeNext]_(L!lifeVars)
  BY PoolStepIsLife
<1> QED
  BY <1>1, InitIsLife, PoolAlwaysInv, PTL DEF Spec, ImplementsLifetimes, L!LifeSpec

-----------------------------------------------------------------------------
(* The bytes taken from the allocator                                       *)

(* What the arenas of a list have taken, and what each list has, in a pool  *)
(* of n arenas.                                                             *)
Entries(m, space) == [i \in 1 .. Len(m) |-> space[m[i]]]
ListSpaces(n, lists, space) == [r \in 1 .. n |-> SumOf(Entries(lists[r], space))]

SpaceInv ==
  /\ SumOf(ListSpaces(size, members, spaceAllocated)) = total
  /\ failAfter # 0 => total <= failAfter

(* The lists and the spaces of a pool of n arenas.                          *)
ListsIn(n, lists) == lists \in [1 .. n -> Seq(1 .. n)]
SpacesIn(n, space) == space \in [1 .. n -> Nat]

LEMMA ListElements ==
  ASSUME NEW S, NEW m \in Seq(S)
  PROVE  Len(m) \in Nat /\ DOMAIN m = 1 .. Len(m) /\ \A i \in 1 .. Len(m) : m[i] \in S
  OBVIOUS

LEMMA Beside ==
  ASSUME NEW S, NEW p \in Seq(S), NEW q \in Seq(S)
  PROVE  /\ p \o q \in Seq(S) /\ Len(p) \in Nat /\ Len(q) \in Nat
         /\ Len(p \o q) = Len(p) + Len(q)
         /\ \A i \in 1 .. Len(p) : i \in 1 .. Len(p) + Len(q) /\ (p \o q)[i] = p[i]
         /\ \A i \in 1 .. Len(q) : /\ Len(p) + i \in 1 .. Len(p) + Len(q)
                                 /\ (p \o q)[Len(p) + i] = q[i]
<1>1. /\ p \o q \in Seq(S) /\ Len(p) \in Nat /\ Len(q) \in Nat
      /\ Len(p \o q) = Len(p) + Len(q)
      /\ \A i \in 1 .. Len(p) + Len(q) :
           (p \o q)[i] = IF i <= Len(p) THEN p[i] ELSE q[i - Len(p)]
  OBVIOUS
<1>2. \A i \in 1 .. Len(p) : i \in 1 .. Len(p) + Len(q) /\ (p \o q)[i] = p[i]
  BY <1>1
<1>3. ASSUME NEW i \in 1 .. Len(q)
      PROVE  Len(p) + i \in 1 .. Len(p) + Len(q) /\ (p \o q)[Len(p) + i] = q[i]
  <2>1. /\ Len(p) + i \in 1 .. Len(p) + Len(q) /\ ~(Len(p) + i <= Len(p))
        /\ (Len(p) + i) - Len(p) = i
    BY <1>1
  <2> QED
    BY <1>1, <2>1
<1> QED
  BY <1>1, <1>2, <1>3

LEMMA EntriesShape ==
  ASSUME NEW n \in Nat, NEW m \in Seq(1 .. n), NEW space \in [1 .. n -> Nat]
  PROVE  /\ Len(m) \in Nat /\ Entries(m, space) \in [1 .. Len(m) -> Nat]
         /\ \A i \in 1 .. Len(m) : m[i] \in 1 .. n /\ Entries(m, space)[i] = space[m[i]]
<1>1. Len(m) \in Nat /\ \A i \in 1 .. Len(m) : m[i] \in 1 .. n
  OBVIOUS
<1>2. \A i \in 1 .. Len(m) : space[m[i]] \in Nat
  BY <1>1
<1> QED
  BY <1>1, <1>2 DEF Entries

LEMMA ListSpacesShape ==
  ASSUME NEW n \in Nat, NEW lists, ListsIn(n, lists), NEW space, SpacesIn(n, space)
  PROVE  /\ ListSpaces(n, lists, space) \in [1 .. n -> Nat]
         /\ \A r \in 1 .. n :
              ListSpaces(n, lists, space)[r] = SumOf(Entries(lists[r], space))
<1>1. ASSUME NEW r \in 1 .. n PROVE SumOf(Entries(lists[r], space)) \in Nat
  <2>1. lists[r] \in Seq(1 .. n) /\ space \in [1 .. n -> Nat]
    BY DEF ListsIn, SpacesIn
  <2>2. Len(lists[r]) \in Nat /\ Entries(lists[r], space) \in [1 .. Len(lists[r]) -> Nat]
    BY <2>1, EntriesShape
  <2> QED
    BY <2>2, SumIsNat
<1> QED
  BY <1>1 DEF ListSpaces

(* Arena k is new, in a list of its own, and has taken v.                   *)
WithNew(k, v, n, lists2, space2, lists, space) ==
  /\ ListsIn(k, lists2) /\ SpacesIn(k, space2)
  /\ lists2[k] = <<k>> /\ space2[k] = v
  /\ \A i \in 1 .. n : lists2[i] = lists[i] /\ space2[i] = space[i]

(* A new arena adds what it has taken.                                      *)
LEMMA SpaceGrown ==
  ASSUME NEW n \in Nat, NEW lists, ListsIn(n, lists), NEW space, SpacesIn(n, space),
         NEW v \in Nat, NEW lists2, NEW space2, NEW k, k = n + 1,
         WithNew(k, v, n, lists2, space2, lists, space)
  PROVE  SumOf(ListSpaces(k, lists2, space2)) = SumOf(ListSpaces(n, lists, space)) + v
<1>1. /\ k \in Nat /\ k \in 1 .. k /\ ListsIn(k, lists2) /\ SpacesIn(k, space2)
      /\ lists2[k] = <<k>> /\ space2[k] = v
      /\ \A i \in 1 .. n : lists2[i] = lists[i] /\ space2[i] = space[i] /\ i \in 1 .. k
  BY DEF WithNew
<1> DEFINE S == ListSpaces(n, lists, space)
           T == ListSpaces(k, lists2, space2)
<1>2. S \in [1 .. n -> Nat] /\ T \in [1 .. k -> Nat]
  BY <1>1, ListSpacesShape
<1>3. ASSUME NEW r \in 1 .. n PROVE T[r] = S[r]
  <2>a. PICK m : m = lists[r]
    OBVIOUS
  <2>b. m \in Seq(1 .. n)
    BY <2>a DEF ListsIn
  <2>1. lists2[r] = m /\ \A i \in 1 .. Len(m) : m[i] \in 1 .. n
    BY <1>1, <2>a, <2>b, ListElements
  <2>2. Entries(m, space2) = Entries(m, space)
    BY <1>1, <2>1 DEF Entries
  <2>3. T[r] = SumOf(Entries(lists2[r], space2)) /\ S[r] = SumOf(Entries(lists[r], space))
    BY <1>1, ListSpacesShape
  <2> QED
    BY <2>a, <2>1, <2>2, <2>3
<1>4. T[k] = v
  <2>1. Entries(lists2[k], space2) \in [1 .. 1 -> Nat] /\ Entries(lists2[k], space2)[1] = v
    BY <1>1 DEF Entries
  <2>2. SumOf(Entries(lists2[k], space2)) = v
    BY <2>1, SumOfOne
  <2>3. T[k] = SumOf(Entries(lists2[k], space2))
    BY <1>1 DEF ListSpaces
  <2> QED
    BY <2>2, <2>3
<1> HIDE DEF S, T
<1>5. Added(T, S, v, n, Nat)
  BY <1>1, <1>2, <1>3, <1>4 DEF Added
<1>6. SumOf(T) = SumOf(S) + v
  BY <1>2, <1>5, SumGrown
<1> QED
  BY <1>6 DEF S, T

(* Arena a is in the list of r once, and in no other.                       *)
OnlyIn(a, r, n, lists) ==
  \A q \in 1 .. n : IsInjective(lists[q]) /\ (a \in Range(lists[q]) <=> q = r)

(* An arena that takes d more bytes adds them to the list it is in.         *)
LEMMA SpaceTaken ==
  ASSUME NEW n \in Nat, NEW lists, ListsIn(n, lists), NEW space, SpacesIn(n, space),
         NEW a \in 1 .. n, NEW d \in Nat, NEW r \in 1 .. n,
         OnlyIn(a, r, n, lists)
  PROVE  SumOf(ListSpaces(n, lists, [space EXCEPT ![a] = @ + d])) =
           SumOf(ListSpaces(n, lists, space)) + d
<1>1. PICK space2 : space2 = [space EXCEPT ![a] = @ + d]
  OBVIOUS
<1>2. /\ SpacesIn(n, space2) /\ space2[a] = space[a] + d
      /\ \A x \in 1 .. n : x # a => space2[x] = space[x]
  BY <1>1 DEF SpacesIn
<1> DEFINE S == ListSpaces(n, lists, space)
           T == ListSpaces(n, lists, space2)
<1>3. S \in [1 .. n -> Nat] /\ T \in [1 .. n -> Nat]
  BY <1>2, ListSpacesShape
<1>4. \A q \in 1 .. n : /\ T[q] = SumOf(Entries(lists[q], space2))
                        /\ S[q] = SumOf(Entries(lists[q], space))
  BY <1>2, ListSpacesShape
<1>5. ASSUME NEW q \in 1 .. n, q # r PROVE T[q] = S[q]
  <2>1. PICK m : m = lists[q]
    OBVIOUS
  <2>2. m \in Seq(1 .. n) /\ a \notin Range(m)
    BY <1>5, <2>1 DEF ListsIn, OnlyIn
  <2>3. Len(m) \in Nat /\ DOMAIN m = 1 .. Len(m) /\ \A i \in 1 .. Len(m) : m[i] \in 1 .. n
    BY <2>2, ListElements
  <2>4. \A i \in 1 .. Len(m) : m[i] # a
    BY <2>2, <2>3 DEF Range
  <2>5. Entries(m, space2) = Entries(m, space)
    BY <1>2, <2>3, <2>4 DEF Entries
  <2> QED
    BY <1>4, <2>1, <2>5
<1>6. T[r] = S[r] + d
  <2>1. PICK m : m = lists[r]
    OBVIOUS
  <2>0. m \in Seq(1 .. n) /\ IsInjective(m) /\ a \in Range(m)
    BY <2>1 DEF ListsIn, OnlyIn
  <2>2. Len(m) \in Nat /\ DOMAIN m = 1 .. Len(m) /\ \A i \in 1 .. Len(m) : m[i] \in 1 .. n
    BY <2>0, ListElements
  <2>3. PICK k \in 1 .. Len(m) : m[k] = a
    BY <2>0, <2>2 DEF Range
  <2>a. \A i \in 1 .. Len(m) : m[i] \in 1 .. n
    BY <2>2
  <2>b. \A i \in 1 .. Len(m) : i # k => m[i] # a
    BY <2>0, <2>2, <2>3 DEF IsInjective
  <2>4. \A i \in 1 .. Len(m) : m[i] \in 1 .. n /\ (i # k => m[i] # a)
    BY <2>a, <2>b
  <2> DEFINE E == Entries(m, space)
             E2 == Entries(m, space2)
  <2>5. /\ E \in [1 .. Len(m) -> Nat] /\ E2 \in [1 .. Len(m) -> Nat]
        /\ \A i \in 1 .. Len(m) : E[i] = space[m[i]] /\ E2[i] = space2[m[i]]
    BY <1>2, <2>0, EntriesShape DEF SpacesIn
  <2> HIDE DEF E, E2
  <2>c. E2[k] = E[k] + d
    BY <1>2, <2>3, <2>5
  <2>d. \A i \in 1 .. Len(m) : i # k => E2[i] = E[i]
    BY <1>2, <2>4, <2>5
  <2>e. PICK l : l = Len(m)
    OBVIOUS
  <2>f. l \in Nat /\ k \in 1 .. l /\ E \in [1 .. l -> Nat]
    BY <2>2, <2>5, <2>e
  <2>6. Bumped(E2, E, k, d, l)
    BY <2>5, <2>c, <2>d, <2>e DEF Bumped
  <2>7. SumOf(E2) = SumOf(E) + d
    BY <2>f, <2>6, SumBumped
  <2> QED
    BY <1>4, <2>1, <2>7 DEF E, E2
<1> HIDE DEF S, T
<1>7. Bumped(T, S, r, d, n)
  BY <1>3, <1>5, <1>6 DEF Bumped
<1>8. SumOf(T) = SumOf(S) + d
  <2>1. n \in Nat /\ S \in [1 .. n -> Nat] /\ r \in 1 .. n /\ d \in Nat
    BY <1>3
  <2> QED
    BY <1>7, <2>1, SumBumped, SMTT(30)
<1> QED
  BY <1>1, <1>8 DEF S, T

(* Moving one list behind another moves what its arenas have taken.         *)
Moved(lists2, lists, ra, rb) ==
  lists2 = [lists EXCEPT ![ra] = @ \o lists[rb], ![rb] = << >>]

LEMMA SpaceMoved ==
  ASSUME NEW n \in Nat, NEW lists, ListsIn(n, lists), NEW space, SpacesIn(n, space),
         NEW ra \in 1 .. n, NEW rb \in 1 .. n, ra # rb,
         NEW lists2, Moved(lists2, lists, ra, rb)
  PROVE  SumOf(ListSpaces(n, lists2, space)) = SumOf(ListSpaces(n, lists, space))
<1>1. PICK p, q : p = lists[ra] /\ q = lists[rb]
  OBVIOUS
<1>a. p \in Seq(1 .. n) /\ q \in Seq(1 .. n) /\ << >> \in Seq(1 .. n)
  BY <1>1 DEF ListsIn
<1>2. /\ p \in Seq(1 .. n) /\ q \in Seq(1 .. n) /\ p \o q \in Seq(1 .. n)
      /\ Len(p) \in Nat /\ Len(q) \in Nat /\ Len(p \o q) = Len(p) + Len(q)
      /\ \A i \in 1 .. Len(p) : i \in 1 .. Len(p) + Len(q) /\ (p \o q)[i] = p[i]
      /\ \A i \in 1 .. Len(q) : /\ Len(p) + i \in 1 .. Len(p) + Len(q)
                              /\ (p \o q)[Len(p) + i] = q[i]
  BY <1>a, Beside
<1>3. /\ ListsIn(n, lists2) /\ lists2[ra] = p \o q /\ lists2[rb] = << >>
      /\ \A r \in 1 .. n : r # ra /\ r # rb => lists2[r] = lists[r]
  BY <1>1, <1>a, <1>2 DEF ListsIn, Moved
<1> DEFINE S == ListSpaces(n, lists, space)
           T == ListSpaces(n, lists2, space)
           U == [S EXCEPT ![rb] = 0]
<1>4. /\ S \in [1 .. n -> Nat] /\ T \in [1 .. n -> Nat]
      /\ \A r \in 1 .. n : /\ S[r] = SumOf(Entries(lists[r], space))
                           /\ T[r] = SumOf(Entries(lists2[r], space))
  BY <1>3, ListSpacesShape
<1>5. T[rb] = 0
  <2> DEFINE F == [i \in 0 .. 0 |-> 0]
             E == Entries(<< >>, space)
  <2>1. E \in [1 .. 0 -> Nat]
    BY DEF Entries
  <2> HIDE DEF E
  <2>2. SumsOf(F, E, 0) /\ F[0] = 0
    BY DEF SumsOf
  <2> HIDE DEF F
  <2>3. SumOf(E) = 0
    BY <2>1, <2>2, SumIs
  <2> QED
    BY <1>3, <1>4, <2>3 DEF E
<1>6. T[ra] = S[ra] + S[rb]
  <2> DEFINE P == Entries(p, space)
             Q == Entries(q, space)
             PQ == Entries(p \o q, space)
  <2>1. P \in [1 .. Len(p) -> Nat] /\ Q \in [1 .. Len(q) -> Nat]
        /\ PQ \in [1 .. Len(p) + Len(q) -> Nat]
    BY <1>2, EntriesShape DEF SpacesIn
  <2>2. \A i \in 1 .. Len(p) : PQ[i] = P[i]
    BY <1>2 DEF Entries
  <2>3. \A i \in 1 .. Len(q) : PQ[Len(p) + i] = Q[i]
    BY <1>2 DEF Entries
  <2> HIDE DEF P, Q, PQ
  <2>4. SumOf(PQ) = SumOf(P) + SumOf(Q)
    BY <1>2, <2>1, <2>2, <2>3, SumJoined
  <2> QED
    BY <1>1, <1>3, <1>4, <2>4 DEF P, Q, PQ
<1>7. \A r \in 1 .. n : r # ra /\ r # rb => T[r] = S[r]
  BY <1>3, <1>4
<1> HIDE DEF S, T
<1>8. PICK d \in Nat : d = S[rb]
  BY <1>4
<1>9. U \in [1 .. n -> Nat] /\ U[rb] = 0 /\ \A r \in 1 .. n : r # rb => U[r] = S[r]
  BY <1>4
<1> HIDE DEF U
<1>10. Bumped(S, U, rb, d, n)
  <2>1. S[rb] = U[rb] + d
    BY <1>8, <1>9
  <2> QED
    BY <1>4, <1>9, <2>1 DEF Bumped
<1>11. Bumped(T, U, ra, d, n)
  BY <1>4, <1>5, <1>6, <1>7, <1>8, <1>9 DEF Bumped
<1>12. SumOf(S) = SumOf(U) + d /\ SumOf(T) = SumOf(U) + d
  BY <1>9, <1>10, <1>11, SumBumped
<1> QED
  BY <1>12 DEF S, T

LEMMA PoolShape ==
  ASSUME TypeOK
  PROVE  /\ size \in Nat /\ Arenas = 1 .. size /\ total \in Nat /\ failAfter \in Nat
         /\ ListsIn(size, members) /\ SpacesIn(size, spaceAllocated)
<1>1. size \in Nat
  <2>1. size \in 0 .. MaxArenas /\ MaxArenas \in Nat
    BY PoolAssumption DEF TypeOK
  <2> QED
    BY <2>1
<1>2. /\ Arenas = 1 .. size /\ total \in Nat /\ failAfter \in Nat
      /\ members \in [Arenas -> Seq(Arenas)] /\ spaceAllocated \in [Arenas -> Nat]
  BY DEF TypeOK, Arenas
<1> QED
  BY <1>1, <1>2, Zenon DEF ListsIn, SpacesIn

LEMMA RootShape ==
  ASSUME TypeOK, NEW root, NEW h, GroupsBy(root, h), NEW a \in Arenas
  PROVE  /\ root[a] \in Arenas /\ FindRoot(parent, a) = root[a]
         /\ parent[a] = a => root[a] = a
         /\ \A q \in Arenas : IsInjective(members[q]) /\ (a \in Range(members[q]) <=> q = root[a])
<1>1. DOMAIN parent = Arenas /\ Forest(parent, root, h) /\ ListsBelong(root)
  BY DEF TypeOK, GroupsBy
<1>2. root[a] \in Arenas /\ (parent[a] = a => root[a] = a)
  BY <1>1 DEF Forest
<1>3. FindRoot(parent, a) = root[a]
  BY <1>1, RootFound
<1>4. \A q \in Arenas : IsInjective(members[q]) /\ (a \in Range(members[q]) <=> q = root[a])
  BY <1>1 DEF ListsBelong, Members
<1> QED
  BY <1>2, <1>3, <1>4

LEMMA TotalKept ==
  ASSUME SpaceInv, UNCHANGED <<size, members, spaceAllocated, total, failAfter>>
  PROVE  SpaceInv'
  BY DEF SpaceInv

LEMMA PushSpace ==
  ASSUME TypeOK, TypeOK', SpaceInv, NEW initial \in BOOLEAN, NEW bytes \in Nat,
         PushState(initial, bytes), total' = total + bytes, failAfter' = failAfter,
         failAfter # 0 => total' <= failAfter
  PROVE  SpaceInv'
<1>1. PICK k : k = size + 1
  OBVIOUS
<1>2. size \in Nat /\ size' = k /\ ListsIn(size, members) /\ SpacesIn(size, spaceAllocated)
  BY <1>1, PoolShape DEF PushState
<1>3. /\ members' = Append(members, <<k>>) /\ spaceAllocated' = Append(spaceAllocated, bytes)
  BY <1>1 DEF PushState
<1>4. ListsIn(k, members') /\ SpacesIn(k, spaceAllocated')
  <2>1. /\ Arenas' = 1 .. k /\ members' \in [Arenas' -> Seq(Arenas')]
        /\ spaceAllocated' \in [Arenas' -> Nat]
    BY <1>2 DEF TypeOK, Arenas
  <2> QED
    BY <2>1, Zenon DEF ListsIn, SpacesIn
<1>5. /\ Added(spaceAllocated', spaceAllocated, bytes, size, Nat)
  BY <1>2, <1>3, Appended DEF SpacesIn
<1>6. Added(members', members, <<k>>, size, Seq(1 .. k))
  <2>1. members \in [1 .. size -> Seq(1 .. k)] /\ <<k>> \in Seq(1 .. k)
    <3>1. k \in 1 .. k /\ 1 .. size \subseteq 1 .. k
      BY <1>1, <1>2
    <3>2. \A s \in Seq(1 .. size) : s \in Seq(1 .. k)
      BY <3>1, SeqMonotone
    <3> QED
      BY <1>2, <3>1, <3>2 DEF ListsIn
  <2> QED
    BY <1>2, <1>3, <2>1, Appended
<1>7. WithNew(k, bytes, size, members', spaceAllocated', members, spaceAllocated)
  <2>1. spaceAllocated'[k] = bytes /\ \A i \in 1 .. size : spaceAllocated'[i] = spaceAllocated[i]
    BY <1>1, <1>5 DEF Added
  <2>2. members'[k] = <<k>> /\ \A i \in 1 .. size : members'[i] = members[i]
    BY <1>1, <1>6 DEF Added
  <2> QED
    BY <1>4, <2>1, <2>2 DEF WithNew
<1>8. SumOf(ListSpaces(k, members', spaceAllocated')) =
        SumOf(ListSpaces(size, members, spaceAllocated)) + bytes
  BY <1>1, <1>2, <1>7, SpaceGrown
<1> QED
  BY <1>2, <1>8 DEF SpaceInv

LEMMA TakeBlockSpace ==
  ASSUME TypeOK, NEW root, NEW h, GroupsBy(root, h), SpaceInv,
         NEW a \in Arenas, NEW bytes \in BlockBytes, TakeBlock(a, bytes)
  PROVE  SpaceInv'
<1>1. /\ bytes \in Nat /\ size \in Nat /\ Arenas = 1 .. size
      /\ ListsIn(size, members) /\ SpacesIn(size, spaceAllocated)
  BY PoolShape, PoolAssumption
<1>2. /\ total' = total + bytes
      /\ spaceAllocated' = [spaceAllocated EXCEPT ![a] = @ + bytes]
      /\ UNCHANGED <<size, members, failAfter>> /\ (failAfter # 0 => total' <= failAfter)
  BY DEF TakeBlock, groupVars, CanTake
<1>3. PICK r : r = root[a]
  OBVIOUS
<1>4. r \in 1 .. size /\ OnlyIn(a, r, size, members)
  BY <1>1, <1>3, RootShape DEF OnlyIn
<1>5. SumOf(ListSpaces(size, members, [spaceAllocated EXCEPT ![a] = @ + bytes])) =
        SumOf(ListSpaces(size, members, spaceAllocated)) + bytes
  BY <1>1, <1>4, SpaceTaken
<1> QED
  BY <1>2, <1>5 DEF SpaceInv

LEMMA FuseSpace ==
  ASSUME TypeOK, NoUseAfterFree, NEW root, NEW h, GroupsBy(root, h), SpaceInv,
         NEW a \in Arenas, NEW b \in Arenas, Fuse(a, b)
  PROVE  SpaceInv'
<1>1. UNCHANGED <<size, spaceAllocated, total, failAfter>>
  BY DEF Fuse, arenaVars, allocVars
<1>2. CASE root[a] = root[b]
  BY <1>1, <1>2, FuseSameKeeps, TotalKept
<1>3. CASE root[a] # root[b]
  <2>1. PICK ra, rb : ra = root[a] /\ rb = root[b]
    OBVIOUS
  <2>2. ra \in 1 .. size /\ rb \in 1 .. size /\ ra # rb /\ Arenas = 1 .. size /\ size \in Nat
    BY <1>3, <2>1, PoolShape, RootShape
  <2>3. Moved(members', members, ra, rb)
    <3>1. members' = [members EXCEPT ![root[a]] = @ \o members[root[b]],
                                     ![root[b]] = << >>]
      BY <1>3, FuseKeeps
    <3> QED
      BY <2>1, <3>1 DEF Moved
  <2>4. ListsIn(size, members) /\ SpacesIn(size, spaceAllocated)
    BY PoolShape
  <2>5. SumOf(ListSpaces(size, members', spaceAllocated)) =
          SumOf(ListSpaces(size, members, spaceAllocated))
    BY <2>2, <2>3, <2>4, SpaceMoved
  <2> QED
    BY <1>1, <2>5 DEF SpaceInv
<1> QED
  BY <1>2, <1>3

LEMMA NextSpace == PoolInv /\ PoolInv' /\ SpaceInv /\ [Next]_vars => SpaceInv'
<1> SUFFICES ASSUME PoolInv, PoolInv', SpaceInv, [Next]_vars PROVE SpaceInv'
  OBVIOUS
<1>1. TypeOK /\ NoUseAfterFree /\ TypeOK'
  BY DEF PoolInv
<1>2. PICK root, h : GroupsBy(root, h)
  BY DEF PoolInv
<1>3. /\ total \in Nat /\ failAfter \in Nat /\ FirstBytes \in Nat
      /\ failAfter # 0 => total <= failAfter
  BY <1>1, PoolAssumption DEF TypeOK, SpaceInv
<1>4. CASE NewArenaInBuffer
  <2>1. PushState(TRUE, 0) /\ total' = total /\ failAfter' = failAfter
    BY <1>4 DEF NewArenaInBuffer, allocVars
  <2>2. total' = total + 0
    BY <1>3, <2>1
  <2> QED
    BY <1>1, <1>3, <2>1, <2>2, PushSpace
<1>5. CASE NewArenaSlow
  <2>1. CASE CanTake(FirstBytes)
    <3>1. PushState(FALSE, FirstBytes) /\ total' = total + FirstBytes /\ failAfter' = failAfter
      BY <1>5, <2>1 DEF NewArenaSlow
    <3>2. failAfter # 0 => total' <= failAfter
      BY <2>1, <3>1 DEF CanTake
    <3> QED
      BY <1>1, <1>3, <3>1, <3>2, PushSpace
  <2>2. CASE ~CanTake(FirstBytes)
    <3>1. PushState(FALSE, 0) /\ total' = total /\ failAfter' = failAfter
      BY <1>5, <2>2 DEF NewArenaSlow, allocVars
    <3>2. total' = total + 0
      BY <1>3, <3>1
    <3> QED
      BY <1>1, <1>3, <3>1, <3>2, PushSpace
  <2> QED
    BY <2>1, <2>2
<1>6. ASSUME NEW a \in Arenas, NEW bytes \in BlockBytes, TakeBlock(a, bytes) PROVE SpaceInv'
  BY <1>1, <1>2, <1>6, TakeBlockSpace
<1>7. ASSUME NEW a \in Arenas, NEW id \in CleanupIds, SetCleanup(a, id) PROVE SpaceInv'
  BY <1>7, TotalKept DEF SetCleanup, groupVars, allocVars
<1>8. ASSUME NEW a \in Arenas, NEW b \in Arenas, Fuse(a, b) PROVE SpaceInv'
  BY <1>1, <1>2, <1>8, FuseSpace
<1>9. ASSUME NEW a \in Arenas, Free(a) PROVE SpaceInv'
  BY <1>9, TotalKept DEF Free, arenaVars, allocVars
<1>10. CASE UNCHANGED vars
  BY <1>10, TotalKept DEF vars, arenaVars, groupVars, allocVars
<1> QED
  BY <1>4, <1>5, <1>6, <1>7, <1>8, <1>9, <1>10 DEF Next

LEMMA InitSpace == Init => SpaceInv
<1> SUFFICES ASSUME Init PROVE SpaceInv
  OBVIOUS
<1>1. size = 0 /\ total = 0
  BY DEF Init
<1> DEFINE S == ListSpaces(0, members, spaceAllocated)
           F == [i \in 0 .. 0 |-> 0]
<1>2. S \in [1 .. 0 -> Nat]
  BY DEF ListSpaces
<1>3. SumsOf(F, S, 0) /\ F[0] = 0
  <2> HIDE DEF S
  <2> QED
    BY DEF SumsOf
<1> HIDE DEF S, F
<1>4. SumOf(S) = 0
  BY <1>2, <1>3, SumIs
<1>5. failAfter \in Nat
  BY PoolAssumption DEF Init
<1> QED
  BY <1>1, <1>4, <1>5 DEF SpaceInv, S

(* The sum over the roots of what space_allocated reports is what the       *)
(* allocator gave out, arenas whose creation failed and groups that ended   *)
(* included; and the injected limit is never passed.                        *)
THEOREM SpaceAlwaysReported == Spec => []SpaceIsReported
<1>1. Spec => []SpaceInv
  BY InitSpace, NextSpace, PoolAlwaysInv, PTL DEF Spec
<1>2. ASSUME PoolInv, SpaceInv PROVE SpaceIsReported
  <2>1. PICK root, h : GroupsBy(root, h)
    BY <1>2 DEF PoolInv
  <2>2. TypeOK /\ DOMAIN parent = Arenas /\ Arenas = 1 .. size /\ size \in Nat
    BY <1>2, PoolShape DEF PoolInv, TypeOK
  <2>3. ASSUME NEW r \in Arenas
        PROVE  (IF r \in Roots THEN GroupSpace(r) ELSE 0) =
                 SumOf(Entries(members[r], spaceAllocated))
    <3>1. CASE r \in Roots
      <4>1. root[r] = r /\ FindRoot(parent, r) = root[r]
        BY <2>1, <2>2, <3>1, RootShape DEF Roots
      <4>2. GroupSpace(r) = SumOf(Entries(members[r], spaceAllocated))
        BY <4>1 DEF GroupSpace, Entries
      <4> QED
        BY <3>1, <4>2
    <3>2. CASE r \notin Roots
      <4>1. \A x \in Arenas : root[x] # r
        BY <2>1, <2>2, <3>2 DEF Roots, GroupsBy, Forest
      <4>2. members[r] \in Seq(Arenas) /\ Range(members[r]) = {}
        <5>1. Members(r) = TreeOf(root, r)
          BY <2>1, <2>2, MembersAreTree
        <5> QED
          BY <2>2, <4>1, <5>1 DEF Members, TreeOf, TypeOK
      <4>3. Len(members[r]) = 0
        <5>1. /\ Len(members[r]) \in Nat /\ DOMAIN members[r] = 1 .. Len(members[r])
          BY <4>2, ListElements
        <5>2. \A i \in DOMAIN members[r] : members[r][i] \in Range(members[r])
          BY DEF Range
        <5>3. ~(1 \in 1 .. Len(members[r]))
          BY <4>2, <5>1, <5>2
        <5> QED
          BY <5>1, <5>3
      <4> DEFINE E == Entries(members[r], spaceAllocated)
                 F == [i \in 0 .. 0 |-> 0]
      <4>4. E \in [1 .. 0 -> Nat]
        BY <4>3 DEF Entries
      <4>5. SumsOf(F, E, 0) /\ F[0] = 0
        <5> HIDE DEF E
        <5> QED
          BY DEF SumsOf
      <4> HIDE DEF E, F
      <4>6. SumOf(E) = 0
        BY <4>4, <4>5, SumIs
      <4> QED
        BY <3>2, <4>6 DEF E
    <3> QED
      BY <3>1, <3>2
  <2>4. [r \in Arenas |-> IF r \in Roots THEN GroupSpace(r) ELSE 0] =
          ListSpaces(size, members, spaceAllocated)
    BY <2>2, <2>3 DEF ListSpaces
  <2> QED
    BY <1>2, <2>4 DEF SpaceInv, SpaceIsReported
<1> QED
  BY <1>1, <1>2, PoolAlwaysInv, PTL
=============================================================================
