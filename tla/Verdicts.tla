------------------------------ MODULE Verdicts ------------------------------
(***************************************************************************)
(* How the courts compare upb with the Rust code on a case,                *)
(* courts/*/src/main.rs.                                                   *)
(*                                                                         *)
(* A message is one of two, as `dump` renders it; its encodings differ in  *)
(* the order of map entries, and some bytes encode no message.  The result *)
(* of a primitive, an inspected table and a trace are such a dump, too.    *)
(***************************************************************************)
EXTENDS Naturals

Dumps == {"m", "n"}
Encodings == [dump : Dumps \cup {"unreadable"}, order : {1, 2}]

DecodeCodes == {"malformed", "bad_utf8", "max_depth_exceeded"}
SchemaCodes == {"minitable_build_failed", "enum_build_failed", "link_failed"}
RequestCodes == {"bad_hex", "bad_links", "bad_request"}
TraceCodes == {"init_failed"}   \* an arena that cannot be made

(* What upb's oracle may answer, and what the Rust code may do. *)
Accepted(encodings) == [status : {"ok"}, dump : Dumps, bytes : encodings]
Refused(codes) == [status : {"error"}, code : codes]
Eof == [status |-> "eof"]

Upb == Accepted(Encodings) \cup {Eof}
       \cup Refused(DecodeCodes \cup SchemaCodes \cup RequestCodes \cup {"oom"})

(* What Rust writes, it can read: an encoding of the message it has. *)
RustBytes(m) == [dump : {m}, order : {1, 2}]
RustAccepted == UNION {[status : {"ok"}, dump : {m}, bytes : RustBytes(m)] : m \in Dumps}
Rust == RustAccepted \cup {Eof} \cup Refused(DecodeCodes \cup {"unsupported"})

(* The same of the traces that the raw courts replay. *)
UpbTraces == Accepted(Encodings) \cup Refused(TraceCodes \cup RequestCodes)
RustTraces == RustAccepted \cup Refused(TraceCodes)

(* A refused schema is one thing to Rust, several to upb.  Variant: it is   *)
(* taken for any error.                                                    *)
SameCodeLoose(upb, rust) == rust.code = "unsupported" \/ upb.code = rust.code
SameCode(upb, rust) ==
  IF rust.code = "unsupported" THEN upb.code \in SchemaCodes \cup {"oom"}
  ELSE upb.code = rust.code

BothOk(upb, rust) == upb.status = "ok" /\ rust.status = "ok"
BothError(upb, rust) == upb.status = "error" /\ rust.status = "error"

(* Bytes that differ are read again, by the Rust decoder, unless they are   *)
(* deterministic.                                                          *)
SameBytes(upb, rust, deterministic) ==
  \/ upb.bytes = rust.bytes
  \/ /\ ~deterministic
     /\ upb.bytes.dump # "unreadable" /\ upb.bytes.dump = rust.bytes.dump

(* One court each; all of a court's cases are compared the same way.        *)
WirePrimitives(upb, rust) ==
  \/ upb = Eof /\ rust = Eof
  \/ BothError(upb, rust)
  \/ BothOk(upb, rust) /\ upb.dump = rust.dump

DecodeEmpty(upb, rust) ==
  \/ BothOk(upb, rust) /\ upb.bytes = rust.bytes
  \/ BothError(upb, rust) /\ upb.code = rust.code

DecodeKnown(upb, rust) ==
  \/ BothOk(upb, rust) /\ upb.dump = rust.dump
  \/ BothError(upb, rust) /\ upb.code = rust.code

DecodeSubmsg(upb, rust) ==
  \/ BothOk(upb, rust) /\ upb.dump = rust.dump
  \/ BothError(upb, rust) /\ SameCode(upb, rust)

Encode(upb, rust, deterministic) ==
  \/ BothOk(upb, rust) /\ SameBytes(upb, rust, deterministic)
  \/ BothError(upb, rust) /\ SameCode(upb, rust)

(* The dump is not looked at again when the bytes are. *)
MsgOp(upb, rust, deterministic) ==
  \/ /\ BothOk(upb, rust)
     /\ \/ upb.dump = rust.dump /\ upb.bytes = rust.bytes
        \/ ~deterministic /\ SameBytes(upb, rust, deterministic)
  \/ BothError(upb, rust) /\ SameCode(upb, rust)

(* Why a table was not built is said in words; these stand for the code.   *)
MiniTableInspect(upb, rust) ==
  \/ BothOk(upb, rust) /\ upb.dump = rust.dump
  \/ BothError(upb, rust) /\ upb.code = rust.code

(* The raw courts compare all of a response but its id and its status: what *)
(* is left of an error is its code, and never what is left of a trace.      *)
RawEqual(upb, rust) ==
  \/ BothOk(upb, rust) /\ upb.dump = rust.dump
  \/ BothError(upb, rust) /\ upb.code = rust.code

-----------------------------------------------------------------------------
(* What a verdict of "equal" is to mean: both accept, and make the same     *)
(* message of the case, or write bytes for the same message; or both        *)
(* refuse, both the schema or both, for one reason, the input; and the      *)
(* oracle has understood the request.                                       *)
SameMessage(upb, rust) ==
  \/ upb.dump = rust.dump
  \/ upb.bytes.dump = rust.bytes.dump

Agree(upb, rust) ==
  /\ upb.status = rust.status
  /\ BothOk(upb, rust) => SameMessage(upb, rust)
  /\ BothError(upb, rust) =>
       /\ upb.code \notin RequestCodes
       /\ upb.code \in DecodeCodes \/ rust.code \in DecodeCodes =>
            upb.code = rust.code

(* The verdicts there can be: whether a court says "equal", and whether it  *)
(* is.  The court of wire primitives tells no errors apart, so that it says *)
(* "equal" of a request the oracle did not understand.                      *)
Verdict(equal, agree) == [equal |-> equal, agree |-> agree]
CorpusVerdicts ==
  UNION {
    {Verdict(DecodeEmpty(u, d), Agree(u, d)),
     Verdict(DecodeKnown(u, d), Agree(u, d)),
     Verdict(DecodeSubmsg(u, d), Agree(u, d)),
     Verdict(MiniTableInspect(u, d), Agree(u, d)),
     Verdict(WirePrimitives(u, d), Agree(u, d) \/ BothError(u, d))}
    \cup UNION {
      {Verdict(Encode(u, d, deterministic), Agree(u, d)),
       Verdict(MsgOp(u, d, deterministic), Agree(u, d))} :
      deterministic \in BOOLEAN} :
    u \in Upb, d \in Rust}
RawVerdicts ==
  {Verdict(RawEqual(u, d), Agree(u, d)) : u \in UpbTraces, d \in RustTraces}
=============================================================================
