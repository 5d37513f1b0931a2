---------------------------- MODULE EpsCopyStream ----------------------------
(***************************************************************************)
(* The input stream of crates/upb-rs-wire/src/stream.rs under the loop of  *)
(* decode_message: the input is read through a window, in place while at   *)
(* least Slop bytes follow, then from a zero-padded patch buffer, so that  *)
(* a field can be read without a bounds check per byte.  Limits are kept   *)
(* relative to the window's end.                                           *)
(*                                                                         *)
(* A byte is the input position it came from: the window is a sequence of  *)
(* positions, Zero where it is padding.                                    *)
(***************************************************************************)
EXTENDS Integers, Sequences, SequencesExt

CONSTANTS
  Slop,      \* EPS_COPY_SLOP_BYTES (16)
  Lens,      \* lengths of the inputs
  Reads,     \* bytes a tag and the scalar or size after it take (1..15)
  Payloads,  \* sizes declared by delimited fields
  MaxDepth   \* bound on nested payloads

ASSUME StreamAssumption ==
  /\ Slop \in Nat \ {0} /\ Lens \subseteq Nat /\ Payloads \subseteq Nat
  /\ Reads \subseteq 1 .. Slop - 1 /\ MaxDepth \in Nat

Zero == -1

VARIABLES
  len,     \* input.len()
  window, end, limit, base, error,
  ptr,     \* the decoder's position in the window
  deltas,  \* the saved deltas of the push_limit calls in progress
  phase    \* boundary: is_done is next, field: it said no, end: it said yes,
           \* ok and failed: the decode has returned

streamVars == <<window, end, limit, base, error>>
vars == <<len, streamVars, ptr, deltas, phase>>

(* The patch buffer, of which the code has two: s and zeros up to twice     *)
(* Slop.  Variant: zeros up to Slop.                                        *)
PatchSingle(s) == s \o [i \in 1 .. Slop - Len(s) |-> Zero]
Patch(s) == s \o [i \in 1 .. 2 * Slop - Len(s) |-> Zero]

(* init *)
Init ==
  /\ len \in Lens
  /\ LET input == [i \in 1 .. len |-> i - 1] IN
       IF len <= Slop
         THEN window = Patch(input) /\ end = len /\ limit = 0
         ELSE window = input /\ end = len - Slop /\ limit = Slop
  /\ base = 0 /\ error = FALSE /\ ptr = 0 /\ deltas = << >>
  /\ phase = "boundary"

LimitPtr == end + (IF limit < 0 THEN limit ELSE 0)
Overrun  == ptr - end
Absolute(p) == base + p

-----------------------------------------------------------------------------
(* is_done, and what the decode loop does with its answer *)

(* Variant: running past the limit counts as reaching it.                   *)
AtOrPast == Overrun >= limit
Exactly == Overrun = limit

(* Variant: the overrun into the patch is forgotten.                        *)
NextBaseAtPtr == base + ptr
NextBase == base + (ptr - Overrun)

NotDone ==
  /\ phase = "boundary" /\ ptr < LimitPtr
  /\ phase' = "field"
  /\ UNCHANGED <<len, streamVars, ptr, deltas>>

AtLimit ==
  /\ phase = "boundary" /\ ptr >= LimitPtr /\ Exactly
  /\ phase' = IF error THEN "failed" ELSE "end"
  /\ UNCHANGED <<len, streamVars, ptr, deltas>>

(* The rest of the window moves to the front of a patch buffer. *)
Fallback ==
  /\ phase = "boundary" /\ ptr >= LimitPtr /\ Overrun < limit
  /\ window' = Patch(SubSeq(window, end + 1, end + Slop))
  /\ base' = NextBase
  /\ ptr' = Overrun
  /\ end' = Slop
  /\ limit' = limit - Slop
  /\ phase' = "field"
  /\ UNCHANGED <<len, error, deltas>>

PastLimit ==
  /\ phase = "boundary" /\ ptr >= LimitPtr /\ Overrun > limit
  /\ error' = TRUE /\ phase' = "failed"
  /\ UNCHANGED <<len, window, end, limit, base, ptr, deltas>>

-----------------------------------------------------------------------------
(* One field.  The bytes of its tag and scalar are taken from the window;   *)
(* a tag in the padding is field number 0, which no field has.              *)

Readable(n) ==
  /\ ptr + n <= Len(window)
  /\ window[ptr + 1] # Zero

(* A declared size is more than 0 only if its first byte is real, too.      *)
Declared(n, size) ==
  Readable(n) /\ (size > 0 => n > 1 /\ window[ptr + 2] # Zero)

(* a varint, a fixed value or a skipped scalar *)
ReadScalar(n) ==
  /\ phase = "field" /\ Readable(n)
  /\ ptr' = ptr + n /\ phase' = "boundary"
  /\ UNCHANGED <<len, streamVars, deltas>>

(* check_size *)
CheckSize(p, size) == size <= limit - (p - end)

(* skip_value: a delimited field must fit the current limit *)
SkipDelimited(n, size) ==
  /\ phase = "field" /\ Declared(n, size)
  /\ IF CheckSize(ptr + n, size)
       THEN ptr' = ptr + n + size /\ phase' = "boundary" /\ UNCHANGED error
       ELSE phase' = "failed" /\ error' = TRUE /\ UNCHANGED ptr
  /\ UNCHANGED <<len, window, end, limit, base, deltas>>

(* A string, a packed field or an unknown payload is taken from the input   *)
(* itself and only has to fit that.                                         *)
TakePayload(n, size) ==
  /\ phase = "field" /\ Declared(n, size)
  /\ IF size <= len - Absolute(ptr + n)
       THEN ptr' = ptr + n + size /\ phase' = "boundary"
       ELSE phase' = "failed" /\ UNCHANGED ptr
  /\ UNCHANGED <<len, streamVars, deltas>>

(* Variant: nothing spoils.                                                 *)
SpoilsNever(delta) == FALSE
Spoils(delta) == delta < 0

(* push_limit, for the payload of a submessage or map entry *)
PushLimit(n, size) ==
  LET p     == ptr + n
      new   == size + (p - end)
      delta == limit - new
  IN /\ phase = "field" /\ Declared(n, size) /\ Len(deltas) < MaxDepth
     /\ ptr' = p /\ limit' = new
     /\ error' = (error \/ Spoils(delta))
     /\ deltas' = Append(deltas, delta)
     /\ phase' = "boundary"
     /\ UNCHANGED <<len, window, end, base>>

(* a tag or value that is malformed, or runs past the window *)
Malformed ==
  /\ phase = "field" /\ phase' = "failed"
  /\ UNCHANGED <<len, streamVars, ptr, deltas>>

-----------------------------------------------------------------------------
(* The end of a payload or of the input *)

Outer == Front(deltas)

PopLimit ==
  /\ phase = "end" /\ deltas # << >>
  /\ limit' = limit + Last(deltas)
  /\ deltas' = Outer
  /\ phase' = "boundary"
  /\ UNCHANGED <<len, window, end, base, error, ptr>>

Return ==
  /\ phase = "end" /\ deltas = << >>
  /\ phase' = "ok"
  /\ UNCHANGED <<len, streamVars, ptr, deltas>>

(* The payload or the input ends within a group. *)
Unterminated ==
  /\ phase = "end" /\ phase' = "failed"
  /\ UNCHANGED <<len, streamVars, ptr, deltas>>

IsDone == NotDone \/ AtLimit \/ Fallback \/ PastLimit

Next ==
  \/ IsDone \/ PopLimit \/ Return \/ Unterminated \/ Malformed
  \/ \E n \in Reads :
       \/ ReadScalar(n)
       \/ \E size \in Payloads :
            SkipDelimited(n, size) \/ TakePayload(n, size) \/ PushLimit(n, size)

(* The decoder is one thread that keeps running until it returns. *)
Spec == Init /\ [][Next]_vars /\ WF_vars(Next)

-----------------------------------------------------------------------------
(* Correctness *)

(* The shape of the stream's state. *)
TypeOK ==
  /\ len \in Lens /\ end \in Nat /\ limit \in Int /\ base \in Nat /\ ptr \in Nat
  /\ window \in Seq({Zero} \cup 0 .. len) /\ error \in BOOLEAN
  /\ deltas \in Seq(Int)
  /\ phase \in {"boundary", "field", "end", "ok", "failed"}

(* Whatever the window, it shows the input: the byte at a window position   *)
(* is the input's byte at its absolute position, and padding is shown only  *)
(* beyond the end of the input.                                             *)
WindowIsInput ==
  /\ TypeOK
  /\ \A i \in 1 .. Len(window) :
       window[i] = IF base + (i - 1) < len THEN base + (i - 1) ELSE Zero

(* The absolute ends of the payloads in progress, the input's first. *)
EndsOf(saved, top) ==
  LET e[k \in 1 .. Len(saved) + 1] ==
        IF k = Len(saved) + 1 THEN top ELSE e[k + 1] + saved[k]
  IN e
Ends == EndsOf(deltas, base + end + limit)

(* As long as no error is set, every payload lies within the one around it  *)
(* and the outermost within the input.                                      *)
EndsNested ==
  /\ Ends[1] = len
  /\ ~error => \A k \in 1 .. Len(deltas) : Ends[k + 1] <= Ends[k]

(* The debug assertions on the position, on the path that copies the patch. *)
FallbackAsserts ==
  phase = "boundary" /\ ptr >= LimitPtr /\ Overrun < limit =>
    Overrun < Slop /\ Overrun < Slop + (IF limit < Slop THEN limit - Slop ELSE 0)

(* The guarantee the stream exists for: when is_done says there is more,    *)
(* Slop bytes can be read from the window without looking at its length.    *)
(* To keep it, is_done copies a patch, which never leaves the window, even  *)
(* after an error (a slice out of range would panic), and without one the   *)
(* position lands in the patch where the debug assertions want it.          *)
SlopIsReadable ==
  /\ phase = "field" /\ ~error => ptr + Slop <= Len(window)
  /\ end + Slop <= Len(window) /\ (~error => FallbackAsserts)

C == INSTANCE Cursor WITH pos <- Absolute(ptr), ends <- Ends, spoiled <- error

(* The stream is a plain cursor over the input, whichever window it uses.   *)
ImplementsCursor == C!CursorSpec
=============================================================================
