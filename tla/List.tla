-------------------------------- MODULE List --------------------------------
(* What a repeated-field array promises: a list whose calls either do what  *)
(* they say or are refused and change nothing.  Elements added by a resize  *)
(* have some value; Element i of the caller is items[i + 1].                *)
EXTENDS Naturals, Sequences

CONSTANTS Elements, Requests, None

VARIABLES items, reply

listVars == <<items, reply>>

ListInit == items = << >> /\ reply = None

Refuse == reply' = FALSE /\ UNCHANGED items

Push(x) == items' = Append(items, x) /\ reply' = TRUE

Put(i, x) ==
  /\ items' = IF i < Len(items) THEN [items EXCEPT ![i + 1] = x] ELSE items
  /\ reply' = TRUE

Look(i) ==
  /\ reply' = IF i < Len(items) THEN items[i + 1] ELSE None
  /\ UNCHANGED items

SetLength(n) ==
  /\ items' \in Seq(Elements) /\ Len(items') = n
  /\ \A i \in 1 .. n : i <= Len(items) => items'[i] = items[i]
  /\ reply' = TRUE

Keep == reply' = TRUE /\ UNCHANGED items

ListNext ==
  \/ Refuse \/ Keep
  \/ \E x \in Elements : Push(x)
  \/ \E i \in Requests : Look(i) \/ SetLength(i) \/ \E x \in Elements : Put(i, x)

ListSpec == ListInit /\ [][ListNext]_listVars
=============================================================================
