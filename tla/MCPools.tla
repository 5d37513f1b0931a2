------------------------------- MODULE MCPools -------------------------------
(* Pools of tables, side by side, each with its main table first, and the   *)
(* units the inputs of a main table are made of.                            *)
EXTENDS Encoder

Field(num, type, mode, presence, sub) ==
  [num |-> num, type |-> type, mode |-> mode, presence |-> presence, sub |-> sub,
   valid |-> {0, 3}, packed |-> mode = "array"]

MCTables == <<
  \* 1: a oneof of a message and a scalar, and a table that holds itself
  << Field(1, "message", "scalar", -1, 2), Field(2, "uint32", "scalar", -1, 0),
     Field(3, "message", "scalar", 1, 1) >>,
  \* 2: a scalar with a hasbit and one without
  << Field(1, "int32", "scalar", 1, 0), Field(2, "sint32", "scalar", 0, 0) >>,
  \* 3: maps to a closed enum and to a message, a repeated closed enum
  << Field(1, "message", "map", 0, 4), Field(2, "enum", "array", 0, 0),
     Field(3, "message", "map", 0, 5) >>,
  << Field(1, "int32", "scalar", 1, 0), Field(2, "enum", "scalar", 2, 0) >>,
  << Field(1, "string", "scalar", 1, 0), Field(2, "message", "scalar", 2, 2) >>,
  \* 6: groups of itself, one and many, many messages, a string
  << Field(1, "group", "scalar", 0, 6), Field(2, "group", "array", 0, 6),
     Field(3, "bool", "scalar", 0, 0), Field(4, "message", "array", 0, 6),
     Field(5, "string", "array", 0, 0), Field(6, "fixed32", "array", 0, 0) >>,
  \* 7: a map from a singular field, which has a hasbit, at any depth
  << Field(1, "message", "map", 1, 4), Field(2, "message", "scalar", 2, 7) >>,
  \* 8: no fields at all
  << >>,
  \* 9: a map from strings to messages
  << Field(3, "message", "map", 0, 5) >>
>>

(* The inputs of MCDecoder. *)
MCUnits ==
  (1 :> {Header(1, 1, << >>), Header(1, 2, << >>), Header(3, 1, << >>),
         Header(3, 2, << >>), Varint(1, 7), Varint(2, 2), Varint(2, 1)}) @@
  (3 :> {Header(1, 1, << >>), Header(1, 2, << >>),
         Varint(1, 1), Varint(2, 3), Varint(2, 1),
         Header(2, 2, <<7, 1>>), Header(2, 0, << >>), Header(3, 2, << >>)}) @@
  (6 :> {StartGroup(1), EndGroup(1), StartGroup(2), EndGroup(2), StartGroup(9), EndGroup(9),
         Varint(3, 2), Header(4, 2, << >>),
         Header(9, 1, << >>), Header(5, 1, <<1>>), Header(5, 1, <<2>>),
         Unit("fixed32", 6, 2, 0, << >>), Header(6, 2, <<1, 3>>)}) @@
  (8 :> {StartGroup(1), EndGroup(1), StartGroup(2), EndGroup(2), Varint(1, 1),
         Header(1, 2, << >>)})

(* The inputs of MCMsgOps. *)
MCOpUnits ==
  (1 :> {Header(1, 1, << >>), Varint(1, 7), Varint(2, 2), Header(3, 2, << >>),
         Varint(9, 1)}) @@
  (3 :> {Header(1, 1, << >>), Varint(1, 1), Varint(2, 3), Varint(2, 1),
         Header(2, 2, <<7, 1>>)}) @@
  (6 :> {StartGroup(1), EndGroup(1), Varint(3, 2), Header(4, 1, << >>),
         Header(6, 1, <<3>>)}) @@
  (7 :> {Header(1, 1, << >>), Varint(1, 1), Header(2, 2, << >>)}) @@
  (9 :> {Header(3, 2, << >>), Header(3, 1, << >>), Header(1, 1, <<1>>),
         Header(1, 1, <<3>>), Header(1, 0, << >>)})
=============================================================================
