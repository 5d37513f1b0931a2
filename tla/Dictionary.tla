----------------------------- MODULE Dictionary -----------------------------
(* What a map promises: the last value inserted for a key, until the key is *)
(* deleted, and the truth about it in every reply.                          *)

CONSTANTS Keys, Values, None

VARIABLES dict, reply

dictVars == <<dict, reply>>

DictInit == dict = << >> /\ reply = None

Store(k, v) ==
  /\ dict' = [x \in DOMAIN dict \cup {k} |-> IF x = k THEN v ELSE dict[x]]
  /\ reply' = IF k \in DOMAIN dict THEN "Replaced" ELSE "Inserted"

Lookup(k) ==
  /\ reply' = IF k \in DOMAIN dict THEN dict[k] ELSE None
  /\ UNCHANGED dict

Remove(k) ==
  /\ dict' = [x \in DOMAIN dict \ {k} |-> dict[x]]
  /\ reply' = IF k \in DOMAIN dict THEN dict[k] ELSE None

DictNext ==
  \E k \in Keys : Lookup(k) \/ Remove(k) \/ \E v \in Values : Store(k, v)

DictSpec == DictInit /\ [][DictNext]_dictVars
=============================================================================
