----------------------------- MODULE Collections -----------------------------
(***************************************************************************)
(* A script of courts/collections/src/main.rs: it makes one collection, an *)
(* array or a map, and calls it.  The interpreter checks what the          *)
(* collection does not: that the collection exists (its type had a size    *)
(* and the arena had room), and that an element has the array's width.     *)
(* A key or value of the wrong width for its map ends the court.           *)
(***************************************************************************)
EXTENDS UpbMap

CONSTANTS
  Elements, Zero, Requests, WordBits, Lg2, LargestGrant  \* see UpbArray

ASSUME WordAssumption == WordBits \in Nat /\ Lg2 \in 0 .. WordBits
ASSUME ElementAssumption ==
  Zero \in Elements /\ None \notin Elements \cup BOOLEAN

VARIABLES
  made,                     \* "nothing", the collection's kind, or its lack
  size, capacity, content,  \* see UpbArray
  shown                     \* what the last call on the array returned

arrayVars == <<size, capacity, content, shown>>
colVars == <<made, arrayVars, mapVars>>

A == INSTANCE UpbArray WITH reply <- shown

ASSUME RequestAssumption ==
  LargestGrant \in Nat /\ Requests \subseteq 0 .. A!PowerOf2(WordBits) - 1

ColInit == made = "nothing" /\ A!Init /\ MapInit

(* `new` fails for a type without a size, and for want of room. *)
NewArray ==
  /\ made = "nothing" /\ made' \in {"array", "no array"}
  /\ UNCHANGED arrayVars

NewMap ==
  /\ made = "nothing" /\ made' \in {"map", "no map"}
  /\ UNCHANGED arrayVars

(* append and set of an element that has not the array's width *)
WrongWidth == shown' = FALSE /\ UNCHANGED <<size, capacity, content>>

ArrayCall == made = "array" /\ UNCHANGED made /\ (A!Next \/ WrongWidth)

(* Any call on an array that was not made answers false; its size shows as  *)
(* zero and its data as empty.                                              *)
NoArrayCall ==
  /\ made = "no array" /\ shown' = FALSE
  /\ UNCHANGED <<made, size, capacity, content>>

MapCall == made = "map" /\ UNCHANGED made /\ MapNext

(* get finds nothing; insert and delete answer false *)
NoMapCall ==
  /\ made = "no map" /\ reply' = None
  /\ UNCHANGED <<made, entries, index>>

ColNext ==
  \/ (NewArray \/ ArrayCall \/ NoArrayCall) /\ UNCHANGED mapVars
  \/ NewMap /\ UNCHANGED mapVars
  \/ (MapCall \/ NoMapCall) /\ UNCHANGED arrayVars

ColSpec == ColInit /\ [][ColNext]_colVars

-----------------------------------------------------------------------------
(* Correctness, beside IndexInverse and ImplementsDictionary *)

(* Both collections are well typed, and the array's `capacity` is what its  *)
(* comment says, the allocated storage measured in elements: a growth that  *)
(* is granted is granted in full.  That holds of requests whose byte count  *)
(* fits a usize or overflows it in elements already; between the two,       *)
(* array.rs:114 shifts high bits away and it fails.                         *)
CapacityBacked == MapTypeOK /\ A!TypeOK /\ A!CapacityBacked

(* The array's calls are those of a list, replies included, whichever of    *)
(* them the arena or the interpreter refuses.                               *)
ImplementsList == A!ImplementsList
=============================================================================
