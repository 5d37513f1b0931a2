------------------------------- MODULE UpbMap -------------------------------
(***************************************************************************)
(* The map of crates/upb-rs-core/src/map.rs: entries in insertion order    *)
(* and a hash table from keys to their positions, which a deletion has to  *)
(* shift.  Position i + 1 is entries[i] of the code.                       *)
(***************************************************************************)
EXTENDS Naturals, Sequences

CONSTANTS Keys, Values, None

ASSUME NoneAssumption == None \notin Values \cup {"Inserted", "Replaced"}

VARIABLES
  entries,  \* the sequence of [key, value]
  index,    \* key -> position in entries
  reply     \* what the last call returned

mapVars == <<entries, index, reply>>

Entry == [key : Keys, value : Values]

MapInit == entries = << >> /\ index = << >> /\ reply = None

Insert(k, v) ==
  IF k \in DOMAIN index
    THEN /\ entries' = [entries EXCEPT ![index[k]] = [key |-> k, value |-> v]]
         /\ reply' = "Replaced"
         /\ UNCHANGED index
    ELSE /\ index' = [x \in DOMAIN index \cup {k} |->
                        IF x = k THEN Len(entries) + 1 ELSE index[x]]
         /\ entries' = Append(entries, [key |-> k, value |-> v])
         /\ reply' = "Inserted"

Get(k) ==
  /\ reply' = IF k \in DOMAIN index THEN entries[index[k]].value ELSE None
  /\ UNCHANGED <<entries, index>>

Without(s, i) ==
  [j \in 1 .. Len(s) - 1 |-> IF j < i THEN s[j] ELSE s[j + 1]]

(* Variant: the shift also moves the equal position.                        *)
ShiftedBelow(i, p) == IF p >= i - 1 /\ p > 1 THEN p - 1 ELSE p

(* the index fix-up of delete *)
Shifted(i, p) == IF p > i THEN p - 1 ELSE p

Delete(k) ==
  IF k \in DOMAIN index
    THEN LET i == index[k] IN
         /\ entries' = Without(entries, i)
         /\ index' = [x \in DOMAIN index \ {k} |-> Shifted(i, index[x])]
         /\ reply' = entries[i].value
    ELSE /\ reply' = None
         /\ UNCHANGED <<entries, index>>

MapNext ==
  \E k \in Keys : Get(k) \/ Delete(k) \/ \E v \in Values : Insert(k, v)

MapSpec == MapInit /\ [][MapNext]_mapVars

-----------------------------------------------------------------------------
(* Correctness *)

(* Entries and positions have their shape. *)
MapTypeOK ==
  /\ entries \in Seq(Entry)
  /\ DOMAIN index \subseteq Keys
  /\ index \in [DOMAIN index -> 1 .. Len(entries)]

(* The index and the entries are each other's inverse: every key is found   *)
(* at its entry, and every entry is found by its key, so none is lost or    *)
(* shadowed after any sequence of insertions and deletions.                 *)
IndexInverse ==
  /\ \A k \in DOMAIN index : entries[index[k]].key = k
  /\ \A i \in 1 .. Len(entries) :
       entries[i].key \in DOMAIN index /\ index[entries[i].key] = i

D == INSTANCE Dictionary WITH
       dict <- [k \in DOMAIN index |-> entries[index[k]].value]

(* Every reply is what a dictionary with last-wins insertion would say.     *)
ImplementsDictionary == D!DictSpec
=============================================================================
