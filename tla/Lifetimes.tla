------------------------------ MODULE Lifetimes ------------------------------
(***************************************************************************)
(* What fusing arenas promises: arenas live in groups that only grow, and  *)
(* a group is destroyed, every cleanup of its members run once, exactly    *)
(* when the last of its handles is freed.                                  *)
(***************************************************************************)
EXTENDS Naturals

CONSTANTS Ids, CleanupIds

VARIABLES
  groups,    \* a set of disjoint sets of arenas, the live groups
  held,      \* the arenas whose handle the user has
  pinned,    \* arenas over a user's buffer: they are never fused
  cleanups,  \* arena -> the set of its cleanup, at most one
  ran        \* the cleanups that ran: a set of <<arena, cleanup>>

lifeVars == <<groups, held, pinned, cleanups, ran>>

GroupOf(a) == CHOOSE g \in groups : a \in g

LifeInit ==
  groups = {} /\ held = {} /\ pinned = {} /\ ran = {}
  /\ cleanups = [a \in Ids |-> {}]

Create(a) ==
  /\ a \notin UNION groups
  /\ groups' = groups \cup {{a}} /\ held' = held \cup {a}
  /\ pinned' \in {pinned, pinned \cup {a}}
  /\ UNCHANGED <<cleanups, ran>>

Register(a, id) ==
  /\ a \in held /\ cleanups' = [cleanups EXCEPT ![a] = {id}]
  /\ UNCHANGED <<groups, held, pinned, ran>>

Join(a, b) ==
  /\ a \in held \ pinned /\ b \in held \ pinned
  /\ groups' = (groups \ {GroupOf(a), GroupOf(b)}) \cup {GroupOf(a) \cup GroupOf(b)}
  /\ UNCHANGED <<held, pinned, cleanups, ran>>

Release(a) ==
  LET g == GroupOf(a) IN
  /\ a \in held /\ held' = held \ {a}
  /\ IF g \cap held = {a}
       THEN /\ groups' = groups \ {g}
            /\ ran' = ran \cup {e \in g \X CleanupIds : e[2] \in cleanups[e[1]]}
       ELSE UNCHANGED <<groups, ran>>
  /\ UNCHANGED <<pinned, cleanups>>

LifeNext ==
  \E a \in Ids :
    \/ Create(a) \/ Release(a)
    \/ \E id \in CleanupIds : Register(a, id)
    \/ \E b \in Ids : Join(a, b)

LifeSpec == LifeInit /\ [][LifeNext]_lifeVars
=============================================================================
