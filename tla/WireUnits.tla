------------------------------- MODULE WireUnits -------------------------------
(***************************************************************************)
(* The units an input or output of crates/upb-rs-wire/src/message_known.rs *)
(* is made of.                                                             *)
(*                                                                         *)
(* A unit of the wire is a field with a scalar, the header of a delimited  *)
(* field, one unit of its payload, or the start or end of a group:         *)
(*   [wt, num, val, size, bytes]                                           *)
(* A header of a string or packed field carries its payload in bytes; that *)
(* of a message is followed by the units of the message.                   *)
(***************************************************************************)
EXTENDS Messages

Unit(wt, num, val, size, bytes) ==
  [wt |-> wt, num |-> num, val |-> val, size |-> size, bytes |-> bytes]

Varint(num, v) == Unit("varint", num, v, 0, << >>)
Header(num, size, bytes) == Unit("delimited", num, 0, size, bytes)
Payload == Unit("payload", 0, 0, 0, << >>)
StartGroup(num) == Unit("start", num, 0, 0, << >>)
EndGroup(num) == Unit("end", num, 0, 0, << >>)
Payloads(n) == [i \in 1 .. n |-> Payload]

Bytes(num, bytes) == <<Header(num, Len(bytes), bytes)>> \o Payloads(Len(bytes))
Delimited(num, units) == <<Header(num, Len(units), << >>)>> \o units
Group(num, units) == <<StartGroup(num)>> \o units \o <<EndGroup(num)>>
=============================================================================
