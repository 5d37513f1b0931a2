------------------------------ MODULE ArenaFuse ------------------------------
(***************************************************************************)
(* The pool of arenas of crates/upb-rs-core/src/arena.rs: creation, the    *)
(* shared allocator, fusing of lifetimes (a union-find forest with a       *)
(* handle count and a member list at each root), cleanups and freeing.     *)
(*                                                                         *)
(* What an arena does with its blocks is in Arena; here it only takes      *)
(* bytes from the pool's allocator.  Arena i + 1 is arenas[i] of the code. *)
(***************************************************************************)
EXTENDS Naturals, Sequences, FiniteSets, Functions, Numbers

CONSTANTS
  MaxArenas,    \* bound on the number of new_arena calls that push a slot
  FirstBytes,   \* what init_slow asks for: first block and its header
  BlockBytes,   \* what slow_malloc may ask for
  CleanupIds,   \* the ids the user registers
  FailAfters    \* ControlledAllocator thresholds, 0 = never fails

ASSUME PoolAssumption ==
  /\ MaxArenas \in Nat /\ FirstBytes \in Nat /\ BlockBytes \subseteq Nat
  /\ FailAfters \subseteq Nat

VARIABLES
  size,       \* arenas.len()
  hasInitialBlock, spaceAllocated, cleanup, parent, count, members, freed,
  total, failAfter,
  held,       \* the arenas whose handle the user has and has not freed
  ran         \* what free() has reported, arena by arena

arenaVars == <<hasInitialBlock, spaceAllocated, cleanup>>
groupVars == <<parent, count, members, freed>>
allocVars == <<total, failAfter>>
vars == <<size, arenaVars, groupVars, allocVars, held, ran>>

Arenas == 1 .. size

(* Cleanup of an arena: the set of the id registered for it, if any.       *)
NoCleanup == {}

CanTake(bytes) == failAfter = 0 \/ total + bytes <= failAfter

Init ==
  /\ size = 0
  /\ hasInitialBlock = << >> /\ spaceAllocated = << >> /\ cleanup = << >>
  /\ parent = << >> /\ count = << >> /\ members = << >> /\ freed = << >>
  /\ total = 0 /\ failAfter \in FailAfters
  /\ held = {} /\ ran = << >>

-----------------------------------------------------------------------------
(* Creation *)

(* push_state *)
PushState(initial, bytes) ==
  /\ size < MaxArenas
  /\ size' = size + 1
  /\ hasInitialBlock' = Append(hasInitialBlock, initial)
  /\ spaceAllocated' = Append(spaceAllocated, bytes)
  /\ cleanup' = Append(cleanup, NoCleanup)
  /\ parent' = Append(parent, size + 1)
  /\ count' = Append(count, 1)
  /\ members' = Append(members, <<size + 1>>)
  /\ freed' = Append(freed, FALSE)

NewArenaInBuffer ==
  /\ PushState(TRUE, 0)
  /\ held' = held \cup {size + 1}
  /\ UNCHANGED <<allocVars, ran>>

(* init_slow pushes the arena's state before it asks for the block: when   *)
(* the allocator fails, the slot stays in the pool and nobody has it.      *)
NewArenaSlow ==
  IF CanTake(FirstBytes)
    THEN /\ PushState(FALSE, FirstBytes)
         /\ held' = held \cup {size + 1}
         /\ total' = total + FirstBytes
         /\ UNCHANGED <<failAfter, ran>>
    ELSE /\ PushState(FALSE, 0)
         /\ UNCHANGED <<held, allocVars, ran>>

(* slow_malloc, as far as the pool is concerned *)
TakeBlock(a, bytes) ==
  /\ a \in held /\ CanTake(bytes)
  /\ total' = total + bytes
  /\ spaceAllocated' = [spaceAllocated EXCEPT ![a] = @ + bytes]
  /\ UNCHANGED <<size, hasInitialBlock, cleanup, groupVars, failAfter, held, ran>>

SetCleanup(a, id) ==
  /\ a \in held
  /\ cleanup' = [cleanup EXCEPT ![a] = {id}]
  /\ UNCHANGED <<size, hasInitialBlock, spaceAllocated, groupVars, allocVars,
                 held, ran>>

-----------------------------------------------------------------------------
(* Groups *)

Closed(par, S) == \A x \in S : par[x] \in S

(* The arenas met on the way up from a: the least set that holds a and the *)
(* parents of its members.                                                 *)
Ancestors(par, a) ==
  {x \in DOMAIN par :
     \A S \in SUBSET (DOMAIN par) : a \in S /\ Closed(par, S) => x \in S}

(* find_root_immut *)
FindRoot(par, a) == CHOOSE r \in Ancestors(par, a) : par[r] = r

(* find_root also makes every arena on the way a child of the root.        *)
Compressed(par, a) ==
  [x \in DOMAIN par |-> IF x \in Ancestors(par, a) THEN FindRoot(par, a) ELSE par[x]]

IsFused(a, b) == FindRoot(parent, a) = FindRoot(parent, b)

(* Variant: the absorbed root counts for one handle.                        *)
MergedCountByOne(ra, rb) == [count EXCEPT ![ra] = @ + 1]
MergedCount(ra, rb) == [count EXCEPT ![ra] = @ + count[rb]]

(* Variants: the absorbed list stays, or is emptied before it is appended.  *)
MergedMembersKept(ra, rb) == [members EXCEPT ![ra] = @ \o members[rb]]
MergedMembersLost(ra, rb) == [members EXCEPT ![rb] = << >>]
MergedMembers(ra, rb) ==
  [members EXCEPT ![ra] = @ \o members[rb], ![rb] = << >>]

(* fuse *)
Fuse(a, b) ==
  LET par1 == Compressed(parent, a)
      par2 == Compressed(par1, b)
      ra   == FindRoot(parent, a)
      rb   == FindRoot(par1, b)
  IN /\ a \in held /\ b \in held
     /\ ~hasInitialBlock[a] /\ ~hasInitialBlock[b]
     /\ IF ra = rb
          THEN parent' = par2 /\ UNCHANGED <<count, members>>
          ELSE /\ parent' = [par2 EXCEPT ![rb] = ra]
               /\ count' = MergedCount(ra, rb)
               /\ members' = MergedMembers(ra, rb)
     /\ UNCHANGED <<size, arenaVars, freed, allocVars, held, ran>>

(* space_allocated adds up along the list of the group *)
GroupSpace(a) ==
  LET m == members[FindRoot(parent, a)] IN SumOf([i \in 1 .. Len(m) |-> spaceAllocated[m[i]]])

(* the cleanups of a destroyed group, in member order: of each the id it    *)
(* registered, or nothing                                                   *)
Reported(m) == [i \in 1 .. Len(m) |-> <<m[i], cleanup[m[i]]>>]

(* Variant: every free reports, not only the last one of the group.         *)
RanAfterEarly(r) == ran \o Reported(members[r])
RanAfter(r) == IF count[r] > 1 THEN ran ELSE ran \o Reported(members[r])

(* free: one handle less, or the end of the group *)
Free(a) ==
  LET r == FindRoot(parent, a) IN
  /\ a \in held
  /\ parent' = Compressed(parent, a)
  /\ held' = held \ {a}
  /\ IF count[r] > 1
       THEN /\ count' = [count EXCEPT ![r] = @ - 1]
            /\ freed' = [freed EXCEPT ![a] = TRUE]
       ELSE /\ freed' = [x \in Arenas |-> freed[x] \/ x \in Range(members[r])]
            /\ UNCHANGED count
  /\ ran' = RanAfter(r)
  /\ UNCHANGED <<size, arenaVars, members, allocVars>>

(* The calls a trace makes of a pool of arenas, in any order *)
Next ==
  \/ NewArenaInBuffer \/ NewArenaSlow
  \/ \E a \in Arenas :
       \/ \E bytes \in BlockBytes : TakeBlock(a, bytes)
       \/ \E id \in CleanupIds : SetCleanup(a, id)
       \/ \E b \in Arenas : Fuse(a, b)
       \/ Free(a)

Spec == Init /\ [][Next]_vars

-----------------------------------------------------------------------------
(* Correctness *)

(* The shape of the pool's arrays.                                          *)
TypeOK ==
  /\ size \in 0 .. MaxArenas
  /\ hasInitialBlock \in [Arenas -> BOOLEAN] /\ freed \in [Arenas -> BOOLEAN]
  /\ spaceAllocated \in [Arenas -> Nat] /\ total \in Nat /\ failAfter \in Nat
  /\ cleanup \in [Arenas -> SUBSET CleanupIds]
  /\ parent \in [Arenas -> Arenas] /\ count \in [Arenas -> Nat]
  /\ members \in [Arenas -> Seq(Arenas)]
  /\ held \subseteq Arenas
  /\ ran \in Seq(Arenas \X SUBSET CleanupIds)

Members(r) == Range(members[r])
Roots == {r \in Arenas : parent[r] = r}

(* The forest and the lists tell the same groups: every arena finds the     *)
(* root whose list it is in, no list names an arena twice, and a root that  *)
(* was absorbed keeps nothing.                                              *)
ForestMatchesLists ==
  /\ TypeOK
  /\ \A a \in Arenas : /\ a \in Members(FindRoot(parent, a))
                       /\ IsInjective(members[a])
  /\ \A a, b \in Arenas : IsFused(a, b) <=> b \in Members(FindRoot(parent, a))
  /\ \A r, q \in Arenas : r # q => Members(r) \cap Members(q) = {}

(* The count of a root whose group is alive is the number of its handles    *)
(* that have not been freed, whatever was fused and freed in which order.   *)
CountIsHandles ==
  \A r \in Roots : Members(r) \cap held # {} =>
    count[r] = Cardinality(Members(r) \cap held)

(* A handle the user still has is never marked freed and its cleanup has    *)
(* not run, even when its root's own handle was freed long ago; and what    *)
(* has run never runs again.                                                *)
NoUseAfterFree ==
  /\ \A a \in held : ~freed[a] /\ \A i \in DOMAIN ran : ran[i][1] # a
  /\ \A i, j \in DOMAIN ran : ran[i][1] = ran[j][1] => i = j

(* Groups live exactly as long as they have handles: the count says so and  *)
(* nothing of a group is gone before.                                       *)
HeldIsAlive == CountIsHandles /\ NoUseAfterFree

(* Every byte taken from the allocator is reported by space_allocated for   *)
(* exactly one group, dead slots included, and the injected limit holds.    *)
SpaceIsReported ==
  /\ SumOf([r \in Arenas |-> IF r \in Roots THEN GroupSpace(r) ELSE 0]) = total
  /\ failAfter # 0 => total <= failAfter

(* What a user of the pool sees: the groups with a handle left, the arenas   *)
(* that cannot be fused, the cleanups registered and those that ran.        *)
LiveGroups == {Members(r) : r \in {q \in Roots : Members(q) \cap held # {}}}
Pinned == {a \in Arenas : hasInitialBlock[a]}
Registered == [a \in 1 .. MaxArenas |-> IF a \in Arenas THEN cleanup[a] ELSE {}]
HaveRun == {e \in (1 .. MaxArenas) \X CleanupIds :
              \E i \in DOMAIN ran : e[1] = ran[i][1] /\ e[2] \in ran[i][2]}

L == INSTANCE Lifetimes WITH
       Ids      <- 1 .. MaxArenas,
       groups   <- LiveGroups,
       pinned   <- Pinned,
       cleanups <- Registered,
       ran      <- HaveRun

(* fuse merges two groups and nothing else, free ends a group exactly when  *)
(* its last handle goes, and every registered cleanup of it runs then.      *)
ImplementsLifetimes == L!LifeSpec
=============================================================================
