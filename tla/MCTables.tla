------------------------------ MODULE MCTables ------------------------------
(* TableSet with pools of up to three descriptors, and an enum of up to     *)
(* four values around the bounds of the mask: its words, MaskOnly, the end  *)
(* of the word MaskOnly falls in, and the end of the number range.          *)
EXTENDS TableSet

Field(n, type, mods) == [number |-> n, type |-> type, mods |-> mods]
Message(mods, fields, oneofs) ==
  [map |-> FALSE, mods |-> mods, fields |-> fields, oneofs |-> oneofs]
OfTypes(types) ==
  Message(0, [i \in 1 .. Len(types) |-> Field(i, types[i], 0)], <<>>)
Entry(type) == [OfTypes(<<7, type>>) EXCEPT !.map = TRUE]

\* 7 is a uint32, 16 a group, 17 a message, and 18 a closed enum.
MCMainMessages == {OfTypes(<<18>>), OfTypes(<<17, 7, 18>>)}
MCMessages ==
  {OfTypes(<<7, 16>>), OfTypes(<<17>>), Entry(18), Entry(17)}

(* Two fields with gaps of one, two and three digits, the modifiers their   *)
(* types admit, and the oneofs of two fields; 15 is a string, 20 a repeated *)
(* double.                                                                  *)
Numbers == {<<m, n>> \in {1, 2, 3, 33, 63, 64, 70, 2050} \X {2, 3, 33, 34, 70, 2050} :
              m < n}
Kinds == {<<0, 0>>, <<0, 2>>, <<0, 18>>, <<15, 4>>, <<15, 8>>, <<20, 0>>, <<20, 1>>}
MCLoneMessages ==
  {Message(0, <<>>, <<>>)}
  \cup {Message(mods, <<Field(ns[1], k[1], k[2]), Field(ns[2], l[1], l[2])>>, <<>>) :
          mods \in {0, 2, 16}, ns \in Numbers, k \in Kinds, l \in Kinds}
  \cup UNION {{Message(mods, <<Field(ns[1], 0, 0), Field(ns[2], 0, 0)>>, <<o>>) :
                o \in {<<ns[1]>>, <<ns[2]>>, <<ns[1], ns[2]>>, <<ns[2], ns[1]>>}} :
              mods \in {0, 2, 16}, ns \in Numbers}

MCValues == {0, 4, 5, 63, 64, 512, 513, 543, 544, 1000, Word - 1}
MCProbes == MCValues \cup {1, 511, 545}
MCEnumValues == {SetToSortSeq(s, LAMBDA a, b : a < b) :
                   s \in {v \in SUBSET MCValues : Cardinality(v) <= 4}}

MCSmallEnums == {<<0>>, <<5>>}

(* A character outside the alphabet sets a whole mask; skips may wrap; a   *)
(* run of skip characters may be overlong.                                 *)
MCRawEnums == {<<Mask({0, 1, 2, 3, 4})>>,
               <<SkipBy(Word - 2), Mask({0, 1, 2}), SkipBy(8), Mask({0})>>,
               <<[kind |-> "skip", digits |-> <<1, 1, 1, 1, 1>>]>>}
=============================================================================
