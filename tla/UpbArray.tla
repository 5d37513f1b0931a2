------------------------------ MODULE UpbArray ------------------------------
(***************************************************************************)
(* The repeated-field array of crates/upb-rs-core/src/array.rs: a size, a  *)
(* capacity that doubles, and the element storage that the arena grants.   *)
(*                                                                         *)
(* One array, with elements of 2^Lg2 bytes, on a machine whose usize has   *)
(* WordBits bits.  Storage is counted in elements: capacity << lg2 loses   *)
(* its top Lg2 bits without being noticed (checked_shl only looks at the   *)
(* shift), which Backing models.  The arena grants or refuses any growth   *)
(* up to LargestGrant elements; data that needs no more room than it has   *)
(* is always resized in place.                                             *)
(***************************************************************************)
EXTENDS Numbers

CONSTANTS
  Elements, Zero,   \* the element values, and the all-zero one
  Requests,         \* the sizes and the positions the user asks for
  WordBits, Lg2,
  LargestGrant,     \* the most elements the arena ever has room for
  None              \* Collections assumes what these are

VARIABLES
  size,      \* the number of elements
  capacity,  \* what the array believes it has room for
  content,   \* the storage, one element at a time
  reply      \* what the last call returned

vars == <<size, capacity, content, reply>>

DefaultInitialCapacity == 4

Greater(x, y) == IF x >= y THEN x ELSE y

(* array_new *)
Init ==
  /\ size = 0 /\ capacity = DefaultInitialCapacity
  /\ content = [i \in 1 .. DefaultInitialCapacity |-> Zero]
  /\ reply = None

(* capacity << lg2, in elements *)
Backing(c) == c % PowerOf2(WordBits - Lg2)

(* capacity doubled until it is at least m, or overflows *)
Doubled(m) ==
  LET after[k \in 0 .. WordBits] ==
        IF k = 0 THEN capacity
        ELSE LET c == after[k - 1] IN IF c >= m THEN c ELSE 2 * c
  IN after[WordBits]

(* Variant: what the storage held is lost when it grows.                    *)
StorageAfresh(m) ==
  IF m <= capacity THEN content ELSE [i \in 1 .. Backing(Doubled(m)) |-> Zero]
(* Variant: the storage only follows the request, not the doubling.         *)
StorageTight(m) ==
  IF m <= capacity THEN content
  ELSE [i \in 1 .. m |-> IF i <= Len(content) THEN content[i] ELSE Zero]

(* The capacity and the storage once array_reserve(m) has succeeded:        *)
(* content.resize(new_bytes, 0) keeps a prefix and adds zeros.              *)
Room(m) == IF m <= capacity THEN capacity ELSE Doubled(m)
Storage(m) ==
  IF m <= capacity THEN content
  ELSE [i \in 1 .. Backing(Doubled(m)) |->
          IF i <= Len(content) THEN content[i] ELSE Zero]

(* array_reserve may return true: the doubling does not reach usize::MAX    *)
(* and realloc returns Some, which is certain when the data shrinks.        *)
MayReserve(m) ==
  \/ m <= capacity
  \/ /\ Doubled(m) < PowerOf2(WordBits)
     /\ Backing(Doubled(m)) <= Greater(Len(content), LargestGrant)

(* array_reserve may return false: overflow, or an arena without room *)
MayRefuse(m) ==
  /\ m > capacity
  /\ Doubled(m) < PowerOf2(WordBits) => Backing(Doubled(m)) > Len(content)

Refuse(m) ==
  MayRefuse(m) /\ reply' = FALSE /\ UNCHANGED <<size, capacity, content>>

Grant(m) == MayReserve(m) /\ capacity' = Room(m) /\ reply' = TRUE

Reserve(m) ==
  \/ Grant(m) /\ content' = Storage(m) /\ UNCHANGED size
  \/ Refuse(m)

Resize(n) ==
  \/ Grant(n) /\ content' = Storage(n) /\ size' = n
  \/ Refuse(n)

(* Writing or reading an element the storage lacks is a panic, which ends   *)
(* the program: the step does not exist.                                    *)
AppendElement(x) ==
  \/ /\ Grant(size + 1) /\ size < Len(Storage(size + 1))
     /\ content' = [Storage(size + 1) EXCEPT ![size + 1] = x]
     /\ size' = size + 1
  \/ Refuse(size + 1)

(* array_set, which lets the user write between size and capacity *)
Set(i, x) ==
  \/ /\ i < capacity /\ i < Len(content)
     /\ content' = [content EXCEPT ![i + 1] = x] /\ reply' = TRUE
     /\ UNCHANGED <<size, capacity>>
  \/ /\ i >= capacity /\ reply' = FALSE
     /\ UNCHANGED <<size, capacity, content>>

Get(i) ==
  /\ i < size => i < Len(content)
  /\ reply' = IF i < size THEN content[i + 1] ELSE None
  /\ UNCHANGED <<size, capacity, content>>

Next ==
  \/ \E x \in Elements : AppendElement(x)
  \/ \E n \in Requests :
       \/ Reserve(n) \/ Resize(n) \/ Get(n)
       \/ \E x \in Elements : Set(n, x)

Spec == Init /\ [][Next]_vars

-----------------------------------------------------------------------------
(* Correctness *)

(* The variables have their shape, and the size never passes the capacity.  *)
TypeOK ==
  /\ size \in Nat /\ capacity \in Nat /\ size <= capacity
  /\ content \in Seq(Elements)
  /\ reply \in Elements \cup BOOLEAN \cup {None}

(* `capacity` is what its comment says, the allocated storage measured in   *)
(* elements: a growth that is granted is granted in full.                   *)
CapacityBacked == Len(content) = capacity

L == INSTANCE List WITH items <- SubSeq(content, 1, size)

(* The calls are those of a list: growth, in place or not, keeps every      *)
(* element, a refused call changes nothing, and a write between the size    *)
(* and the capacity is seen by no reader before the array grows over it.    *)
ImplementsList == L!ListSpec
=============================================================================
