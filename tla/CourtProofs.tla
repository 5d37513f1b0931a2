----------------------------- MODULE CourtProofs -----------------------------
(* The verdicts of a court are about the answers to its requests, and a     *)
(* verdict of "equal" is right, for any number of runs and cases.           *)
EXTENDS Court, NumberProofs, FiniteSetTheorems

(* A line that is the second half of a long request has no request's id.    *)
GoodLine == {l \in Line : l.part = "tail" => l.id = 0}

(* The variables are functions of the run.                                  *)
Shape ==
  /\ oracle \in [Runs -> {"none", "up", "down"}] /\ nextId \in [Runs -> Nat]
  /\ toOracle \in [Runs -> Seq(GoodLine)] /\ fromOracle \in [Runs -> Seq(GoodLine)]
  /\ phase \in [Runs -> {"new", "asking", "waiting", "receipt", "summary",
                         "residuals", "manifest", "casefiles"} \cup Ended]
  /\ judged = [r \in Runs |-> judged[r]]
  /\ equalCount \in [Runs -> Nat] /\ residuals \in [Runs -> SUBSET Nat]
  /\ filed \in [Runs -> Nat]
  /\ folder \in [Runs -> BOOLEAN \X Seconds \cup {None}]

(* How many cases a run has compared, as its requests tell: the preamble    *)
(* counts below zero.                                                       *)
Compared(r) ==
  CASE phase[r] \in {"new"} \cup Ended -> 0
    [] phase[r] = "asking" -> nextId[r] - 1 - Preamble(r)
    [] phase[r] = "waiting" -> nextId[r] - 2 - Preamble(r)
    [] OTHER -> Cases[r]

(* What it remembers of n compared cases.                                   *)
Answered(r, n) ==
  /\ judged[r].case = n
  /\ judged[r].answer.id = n + Preamble(r)
  /\ judged[r].answer.part \in {"whole", "head"}
  /\ r \in Raw => judged[r].answer.part = "whole"
  /\ judged[r].verdict.equal => judged[r].verdict.agree

Tally(r, n) ==
  /\ n <= 0 => judged[r] = None /\ equalCount[r] = 0 /\ residuals[r] = {}
  /\ n > 0 => Answered(r, n) /\ residuals[r] \subseteq 1 .. n
  /\ IsFiniteSet(residuals[r]) /\ filed[r] <= Cardinality(residuals[r])
  /\ n >= 0 => equalCount[r] + Cardinality(residuals[r]) = n

(* Its requests are numbered from 1.                                        *)
Numbered(r) ==
  /\ phase[r] = "new" => nextId[r] = 1
  /\ phase[r] = "asking" =>
       nextId[r] >= 1 /\ nextId[r] - 1 < Preamble(r) + Cases[r]
  /\ phase[r] = "waiting" =>
       nextId[r] >= 2 /\ nextId[r] - 1 <= Preamble(r) + Cases[r]

(* A raw run never has more than one line in its pipes: that of the request *)
(* it waits for, or what is left of its answer.                             *)
OneLine(r) ==
  LET whole == [id |-> nextId[r] - 1, part |-> "whole"]
      torn  == [id |-> nextId[r] - 1, part |-> "torn"]
  IN /\ phase[r] \in {"new", "asking"} => toOracle[r] = << >> /\ fromOracle[r] = << >>
     /\ phase[r] = "waiting" =>
          \/ toOracle[r] = <<whole>> /\ fromOracle[r] = << >>
          \/ toOracle[r] = << >> /\ fromOracle[r] \in {<< >>, <<whole>>, <<torn>>}

RunInv(r) == Numbered(r) /\ Tally(r, Compared(r)) /\ (r \in Raw => OneLine(r))

CourtInv == Shape /\ \A r \in Runs : RunInv(r)

-----------------------------------------------------------------------------
(* Every court's comparison is sound.                                       *)
LEMMA RustCodes ==
  \A d \in Rust : d.status = "error" => d.code \in DecodeCodes \cup {"unsupported"}
<1> SUFFICES ASSUME NEW d \in Rust, d.status = "error"
             PROVE  d.code \in DecodeCodes \cup {"unsupported"}
  OBVIOUS
<1>1. CASE d \in Refused(DecodeCodes \cup {"unsupported"})
  BY <1>1 DEF Refused
<1>2. CASE d = Eof
  BY <1>2 DEF Eof
<1>3. CASE \E m \in Dumps : d \in [status : {"ok"}, dump : {m}, bytes : RustBytes(m)]
  BY <1>3
<1> QED
  <2>1. \/ \E X \in {[status : {"ok"}, dump : {m}, bytes : RustBytes(m)] : m \in Dumps} :
             d \in X
        \/ d \in {Eof} \/ d \in Refused(DecodeCodes \cup {"unsupported"})
    BY DEF Rust, RustAccepted
  <2> QED
    BY <1>1, <1>2, <1>3, <2>1

LEMMA TraceErrors ==
  \A d \in RustTraces : d.status = "error" => d.code \in TraceCodes
<1> SUFFICES ASSUME NEW d \in RustTraces, d.status = "error"
             PROVE  d.code \in TraceCodes
  OBVIOUS
<1>1. CASE d \in Refused(TraceCodes)
  BY <1>1 DEF Refused
<1>2. CASE \E m \in Dumps : d \in [status : {"ok"}, dump : {m}, bytes : RustBytes(m)]
  BY <1>2
<1> QED
  <2>1. \/ \E X \in {[status : {"ok"}, dump : {m}, bytes : RustBytes(m)] : m \in Dumps} :
             d \in X
        \/ d \in Refused(TraceCodes)
    BY DEF RustTraces, RustAccepted
  <2> QED
    BY <1>1, <1>2, <2>1

LEMMA EqualIsAgreed ==
  \A v \in CorpusVerdicts \cup RawVerdicts : v.equal => v.agree
<1>1. ASSUME NEW u \in Upb, NEW d \in Rust, NEW deterministic \in BOOLEAN
      PROVE  /\ DecodeEmpty(u, d) => Agree(u, d)
             /\ DecodeKnown(u, d) => Agree(u, d)
             /\ DecodeSubmsg(u, d) => Agree(u, d)
             /\ MiniTableInspect(u, d) => Agree(u, d)
             /\ WirePrimitives(u, d) => Agree(u, d) \/ BothError(u, d)
             /\ Encode(u, d, deterministic) => Agree(u, d)
             /\ MsgOp(u, d, deterministic) => Agree(u, d)
  <2>1. BothOk(u, d) /\ SameMessage(u, d) => Agree(u, d)
    BY DEF BothOk, BothError, Agree
  <2>2. BothError(u, d) => d.code \in DecodeCodes \cup {"unsupported"}
    BY RustCodes DEF BothError
  <2>3. BothError(u, d) /\ u.code = d.code => Agree(u, d)
    BY <2>2 DEF BothOk, BothError, Agree, DecodeCodes, RequestCodes
  <2>4. BothError(u, d) /\ SameCode(u, d) => Agree(u, d)
    BY <2>2, <2>3 DEF BothOk, BothError, Agree, SameCode, DecodeCodes,
                      SchemaCodes, RequestCodes
  <2>5. u.bytes = d.bytes \/ u.dump = d.dump \/ SameBytes(u, d, deterministic)
          => SameMessage(u, d)
    BY DEF SameMessage, SameBytes
  <2>6. u = Eof /\ d = Eof => Agree(u, d)
    BY DEF Eof, Agree, BothOk, BothError
  <2> QED
    BY <2>1, <2>3, <2>4, <2>5, <2>6
    DEF DecodeEmpty, DecodeKnown, DecodeSubmsg, MiniTableInspect, WirePrimitives,
        Encode, MsgOp
<1>2. ASSUME NEW v \in RawVerdicts PROVE v.equal => v.agree
  <2>1. PICK u \in UpbTraces, d \in RustTraces :
          v = Verdict(RawEqual(u, d), Agree(u, d))
    BY <1>2 DEF RawVerdicts
  <2>2. v.equal = RawEqual(u, d) /\ v.agree = Agree(u, d)
    BY <2>1 DEF Verdict
  <2>3. CASE BothOk(u, d) /\ u.dump = d.dump
    BY <2>2, <2>3 DEF BothOk, BothError, Agree, SameMessage
  <2>4. CASE BothError(u, d) /\ u.code = d.code
    <3>1. d.code \in TraceCodes
      BY <2>4, TraceErrors DEF BothError
    <3> QED
      BY <2>2, <2>4, <3>1
      DEF BothOk, BothError, Agree, TraceCodes, DecodeCodes, RequestCodes
  <2> QED
    BY <2>2, <2>3, <2>4 DEF RawEqual
<1>3. ASSUME NEW v \in CorpusVerdicts PROVE v.equal => v.agree
  <2>1. PICK u \in Upb, d \in Rust, deterministic \in BOOLEAN :
          \/ v = Verdict(DecodeEmpty(u, d), Agree(u, d))
          \/ v = Verdict(DecodeKnown(u, d), Agree(u, d))
          \/ v = Verdict(DecodeSubmsg(u, d), Agree(u, d))
          \/ v = Verdict(MiniTableInspect(u, d), Agree(u, d))
          \/ v = Verdict(WirePrimitives(u, d), Agree(u, d) \/ BothError(u, d))
          \/ v = Verdict(Encode(u, d, deterministic), Agree(u, d))
          \/ v = Verdict(MsgOp(u, d, deterministic), Agree(u, d))
    <3>1. PICK u \in Upb, d \in Rust :
            \/ v = Verdict(DecodeEmpty(u, d), Agree(u, d))
            \/ v = Verdict(DecodeKnown(u, d), Agree(u, d))
            \/ v = Verdict(DecodeSubmsg(u, d), Agree(u, d))
            \/ v = Verdict(MiniTableInspect(u, d), Agree(u, d))
            \/ v = Verdict(WirePrimitives(u, d), Agree(u, d) \/ BothError(u, d))
            \/ \E deterministic \in BOOLEAN :
                 \/ v = Verdict(Encode(u, d, deterministic), Agree(u, d))
                 \/ v = Verdict(MsgOp(u, d, deterministic), Agree(u, d))
      BY <1>3, SMT DEF CorpusVerdicts
    <3> QED
      BY <3>1, Zenon
  <2>2. \/ v.equal = DecodeEmpty(u, d) /\ v.agree = Agree(u, d)
        \/ v.equal = DecodeKnown(u, d) /\ v.agree = Agree(u, d)
        \/ v.equal = DecodeSubmsg(u, d) /\ v.agree = Agree(u, d)
        \/ v.equal = MiniTableInspect(u, d) /\ v.agree = Agree(u, d)
        \/ v.equal = WirePrimitives(u, d) /\ v.agree = (Agree(u, d) \/ BothError(u, d))
        \/ v.equal = Encode(u, d, deterministic) /\ v.agree = Agree(u, d)
        \/ v.equal = MsgOp(u, d, deterministic) /\ v.agree = Agree(u, d)
    BY <2>1 DEF Verdict
  <2> QED
    BY <1>1, <2>2
<1> QED
  BY <1>2, <1>3

-----------------------------------------------------------------------------
LEMMA RunFacts ==
  ASSUME NEW r \in Runs
  PROVE  Preamble(r) \in {1, 2} /\ Cases[r] \in Nat \ {0}
BY CourtAssumption DEF Preamble

LEMMA InvTypes == CourtInv => VerdictsAnswered
<1> SUFFICES ASSUME CourtInv PROVE VerdictsAnswered
  OBVIOUS
<1>1. \A r \in Runs : Compared(r) \in Int /\ Compared(r) <= Cases[r]
  <2> SUFFICES ASSUME NEW r \in Runs PROVE Compared(r) \in Int /\ Compared(r) <= Cases[r]
    OBVIOUS
  <2>1. nextId[r] \in Nat /\ Numbered(r)
    BY DEF CourtInv, Shape, RunInv
  <2> QED
    BY <2>1, RunFacts DEF Compared, Numbered
<1>2. ASSUME NEW r \in Runs
      PROVE  /\ residuals[r] \subseteq 1 .. Cases[r] /\ equalCount[r] \in 0 .. Cases[r]
             /\ filed[r] <= Cardinality(residuals[r])
             /\ judged[r] # None =>
                  /\ Answered(r, Compared(r))
                  /\ equalCount[r] + Cardinality(residuals[r]) = judged[r].case
  <2>1. Tally(r, Compared(r)) /\ equalCount[r] \in Nat
    BY DEF CourtInv, Shape, RunInv
  <2>2. Cardinality(residuals[r]) \in Nat
    BY <2>1, FS_CardinalityType DEF Tally
  <2>3. CASE Compared(r) <= 0
    BY <1>1, <2>1, <2>2, <2>3, RunFacts DEF Tally
  <2>4. CASE Compared(r) > 0
    <3>1. /\ Answered(r, Compared(r)) /\ residuals[r] \subseteq 1 .. Compared(r)
          /\ equalCount[r] + Cardinality(residuals[r]) = Compared(r)
      BY <1>1, <2>1, <2>4 DEF Tally
    <3>2. judged[r].case = Compared(r)
      BY <3>1 DEF Answered
    <3>3. 1 .. Compared(r) \subseteq 1 .. Cases[r]
      BY <1>1, <2>4, RunFacts
    <3> QED
      BY <1>1, <2>1, <2>2, <3>1, <3>2, <3>3, RunFacts DEF Tally
  <2> QED
    BY <1>1, <2>3, <2>4
<1>3. GoodLine \subseteq Line
  BY DEF GoodLine
<1>4. \A r \in Runs : toOracle[r] \in Seq(Line) /\ fromOracle[r] \in Seq(Line)
  <2>1. ASSUME NEW s \in Seq(GoodLine) PROVE s \in Seq(Line)
    <3>1. \A i \in 1 .. Len(s) : s[i] \in Line
      BY <1>3
    <3> QED
      BY <3>1
  <2> QED
    BY <2>1 DEF CourtInv, Shape
<1>5. LinkTypeOK
  BY <1>4 DEF LinkTypeOK, CourtInv, Shape
<1>6. TypeOK
  BY <1>2, <1>5 DEF TypeOK, CourtInv, Shape
<1>7. ASSUME NEW r \in Runs, judged[r] # None
      PROVE  /\ judged[r].answer.id = judged[r].case + Preamble(r)
             /\ judged[r].answer.part \in {"whole", "head"}
             /\ r \in Raw => judged[r].answer.part = "whole"
             /\ judged[r].verdict.equal => judged[r].verdict.agree
             /\ equalCount[r] + Cardinality(residuals[r]) = judged[r].case
  BY <1>2, <1>7 DEF Answered
<1> QED
  BY <1>6, <1>7 DEF VerdictsAnswered

LEMMA InitCourt == Init => CourtInv
<1> SUFFICES ASSUME Init PROVE CourtInv
  OBVIOUS
<1>1. << >> \in Seq(GoodLine)
  OBVIOUS
<1>2. Shape
  BY <1>1 DEF Init, LinkInit, Shape, Ended
<1>3. ASSUME NEW r \in Runs PROVE RunInv(r)
  <2>1. /\ phase[r] = "new" /\ nextId[r] = 1
        /\ toOracle[r] = << >> /\ fromOracle[r] = << >>
        /\ judged[r] = None /\ equalCount[r] = 0 /\ residuals[r] = {} /\ filed[r] = 0
    BY DEF Init, LinkInit
  <2>2. Compared(r) = 0
    BY <2>1 DEF Compared
  <2>3. Tally(r, 0)
    BY <2>1, FS_EmptySet DEF Tally
  <2> QED
    BY <2>1, <2>2, <2>3 DEF RunInv, Numbered, OneLine
<1> QED
  BY <1>2, <1>3 DEF CourtInv

(* Whatever a run does, the others keep what they have.                     *)
LEMMA OthersKeep ==
  ASSUME NEW o \in Runs, RunInv(o),
         oracle'[o] = oracle[o], nextId'[o] = nextId[o],
         toOracle'[o] = toOracle[o], fromOracle'[o] = fromOracle[o],
         phase'[o] = phase[o], judged'[o] = judged[o],
         equalCount'[o] = equalCount[o], residuals'[o] = residuals[o],
         filed'[o] = filed[o]
  PROVE  RunInv(o)'
<1>1. Preamble(o)' = Preamble(o)
  BY DEF Preamble
<1>2. Compared(o)' = Compared(o)
  BY <1>1 DEF Compared
<1>3. Numbered(o)'
  BY <1>1 DEF RunInv, Numbered
<1>4. Tally(o, Compared(o))'
  BY <1>1, <1>2 DEF RunInv, Tally, Answered
<1>5. o \in Raw => OneLine(o)'
  BY DEF RunInv, OneLine
<1> QED
  BY <1>3, <1>4, <1>5 DEF RunInv

LEMMA StepOf ==
  ASSUME NEW r \in Runs, CourtInv, Shape', RunInv(r)',
         \A o \in Runs \ {r} :
           /\ oracle'[o] = oracle[o] /\ nextId'[o] = nextId[o]
           /\ toOracle'[o] = toOracle[o] /\ fromOracle'[o] = fromOracle[o]
           /\ phase'[o] = phase[o] /\ judged'[o] = judged[o]
           /\ equalCount'[o] = equalCount[o] /\ residuals'[o] = residuals[o]
           /\ filed'[o] = filed[o]
  PROVE  CourtInv'
<1>1. ASSUME NEW o \in Runs \ {r} PROVE RunInv(o)'
  BY <1>1, OthersKeep DEF CourtInv
<1> QED
  BY <1>1 DEF CourtInv

-----------------------------------------------------------------------------
(* The exchange                                                             *)

LEMMA SpawnKeeps == ASSUME CourtInv, NEW r \in Runs, Spawn(r) PROVE CourtInv'
<1>1. /\ phase[r] = "new"
      /\ \/ phase' = [phase EXCEPT ![r] = "asking"]
            /\ oracle' = [oracle EXCEPT ![r] = "up"]
         \/ phase' = [phase EXCEPT ![r] = "panicked"] /\ oracle' = oracle
      /\ UNCHANGED <<nextId, toOracle, fromOracle, judged, equalCount, residuals,
                     filed, folder>>
  BY DEF Spawn, Go, SpawnOracle, linkVars, memory
<1>2. Shape /\ RunInv(r)
  BY DEF CourtInv
<1>3. Shape'
  BY <1>1, <1>2 DEF Shape, Ended
<1>4. nextId'[r] = 1 /\ phase'[r] \in {"asking", "panicked"}
  BY <1>1, <1>2 DEF Shape, RunInv, Numbered
<1>5. Compared(r) = 0 /\ Compared(r)' \in Int /\ Compared(r)' <= 0
  BY <1>1, <1>4, RunFacts DEF Compared, Ended, Preamble
<1>6. Tally(r, Compared(r))'
  BY <1>1, <1>2, <1>5 DEF RunInv, Tally
<1>7. Numbered(r)' /\ (r \in Raw => OneLine(r)')
  BY <1>1, <1>2, <1>4, RunFacts DEF RunInv, Numbered, OneLine, Preamble
<1>8. RunInv(r)'
  BY <1>6, <1>7 DEF RunInv
<1> QED
  BY <1>1, <1>2, <1>3, <1>8, StepOf DEF Shape

LEMMA AskKeeps == ASSUME CourtInv, NEW r \in Runs, Ask(r) PROVE CourtInv'
<1>1. /\ phase[r] = "asking" /\ phase' = [phase EXCEPT ![r] = "waiting"]
      /\ nextId' = [nextId EXCEPT ![r] = @ + 1]
      /\ UNCHANGED <<oracle, fromOracle, judged, equalCount, residuals, filed, folder>>
  BY DEF Ask, Go, Write, memory
<1>2. PICK fits \in BOOLEAN :
        /\ r \in Raw => fits
        /\ toOracle' = [toOracle EXCEPT ![r] = @ \o Lines(nextId[r], fits)]
  BY DEF Ask, Write
<1>3. Shape /\ RunInv(r)
  BY DEF CourtInv
<1>4. Lines(nextId[r], fits) \in Seq(GoodLine)
  <2>1. nextId[r] \in Nat
    BY <1>3 DEF Shape
  <2>2. /\ [id |-> nextId[r], part |-> "whole"] \in GoodLine
        /\ [id |-> nextId[r], part |-> "head"] \in GoodLine
        /\ [id |-> 0, part |-> "tail"] \in GoodLine
    BY <2>1 DEF GoodLine, Line
  <2>3. \A a, b \in GoodLine : <<a>> \in Seq(GoodLine) /\ <<a, b>> \in Seq(GoodLine)
    OBVIOUS
  <2> QED
    BY <2>2, <2>3 DEF Lines
<1>5. Shape'
  <2>1. toOracle[r] \o Lines(nextId[r], fits) \in Seq(GoodLine)
    BY <1>3, <1>4 DEF Shape
  <2> QED
    BY <1>1, <1>2, <1>3, <2>1 DEF Shape
<1>6. nextId'[r] = nextId[r] + 1 /\ phase'[r] = "waiting" /\ nextId[r] \in Nat
  BY <1>1, <1>3 DEF Shape
<1>7. Compared(r)' = Compared(r)
  BY <1>1, <1>6, RunFacts DEF Compared, Ended, Preamble
<1>8. Tally(r, Compared(r))'
  BY <1>1, <1>3, <1>7 DEF RunInv, Tally, Answered, Preamble
<1>9. Numbered(r)'
  BY <1>1, <1>3, <1>6, RunFacts DEF RunInv, Numbered, Preamble
<1>10. ASSUME r \in Raw PROVE OneLine(r)'
  <2>1. toOracle[r] = << >> /\ fromOracle[r] = << >>
    BY <1>1, <1>3, <1>10 DEF RunInv, OneLine
  <2>2. toOracle'[r] = <<[id |-> nextId[r], part |-> "whole"]>>
    BY <1>2, <1>3, <1>10, <2>1 DEF Lines, Shape
  <2> QED
    BY <1>1, <1>6, <2>1, <2>2 DEF OneLine
<1>11. RunInv(r)'
  BY <1>8, <1>9, <1>10 DEF RunInv
<1> QED
  BY <1>1, <1>2, <1>3, <1>5, <1>11, StepOf DEF Shape

(* A case is compared with the answer to its own request.                   *)
LEMMA JudgeAnswers ==
  ASSUME CourtInv, NEW r \in Runs, phase[r] = "waiting", fromOracle[r] # << >>,
         Accepts(r, Head(fromOracle[r])), Judge(r),
         NEW n \in Nat \ {0}, Compared(r) = n - 1
  PROVE  /\ Tally(r, n)'
         /\ judged' = [o \in Runs |-> judged'[o]]
         /\ equalCount' \in [Runs -> Nat] /\ residuals' \in [Runs -> SUBSET Nat]
         /\ filed' = filed
         /\ \A o \in Runs \ {r} :
              /\ judged'[o] = judged[o] /\ equalCount'[o] = equalCount[o]
              /\ residuals'[o] = residuals[o]
<1> DEFINE answer == Head(fromOracle[r])
<1>1. Shape /\ RunInv(r)
  BY DEF CourtInv
<1>2. nextId[r] \in Nat /\ nextId[r] >= 2 /\ n = nextId[r] - 1 - Preamble(r)
  <2>1. nextId[r] \in Nat /\ nextId[r] >= 2
    BY <1>1 DEF RunInv, Numbered, Shape
  <2>2. Compared(r) = nextId[r] - 2 - Preamble(r)
    BY DEF Compared, Ended
  <2>3. Compared(r) = n - 1 /\ Preamble(r) \in {1, 2}
    BY RunFacts
  <2> QED
    BY <2>1, <2>2, <2>3
<1>3. PICK verdict \in CorpusVerdicts \cup RawVerdicts :
        /\ judged' = [judged EXCEPT ![r] =
             [case |-> n, answer |-> answer, verdict |-> verdict]]
        /\ \/ /\ equalCount' = [equalCount EXCEPT ![r] = @ + 1]
              /\ residuals' = residuals
           \/ /\ residuals' = [residuals EXCEPT ![r] = @ \cup {n}]
              /\ equalCount' = equalCount
        /\ filed' = filed
  BY <1>2 DEF Judge, Asked
<1>4. answer \in GoodLine
  BY <1>1 DEF Shape
<1>5. answer.id = nextId[r] - 1 /\ answer.part \in {"whole", "head"}
      /\ (r \in Raw => answer.part = "whole")
  <2>1. CASE r \in Raw
    <3>1. answer.part # "torn"
      BY <2>1 DEF Accepts, Parses
    <3>2. fromOracle[r] \in {<<[id |-> nextId[r] - 1, part |-> "whole"]>>,
                             <<[id |-> nextId[r] - 1, part |-> "torn"]>>}
      BY <1>1, <2>1 DEF RunInv, OneLine
    <3> QED
      BY <3>1, <3>2
  <2>2. CASE r \notin Raw
    <3>1. answer.part # "torn" /\ answer.id = nextId[r] - 1
      BY <2>2 DEF Accepts, Paired, Parses, Asked
    <3>2. answer.part # "tail"
      BY <1>2, <1>4, <3>1 DEF GoodLine
    <3> QED
      BY <1>4, <2>2, <3>1, <3>2 DEF GoodLine, Line
  <2> QED
    BY <2>1, <2>2
<1> HIDE DEF answer
<1>6. judged'[r] = [case |-> n, answer |-> answer, verdict |-> verdict]
  BY <1>1, <1>3 DEF Shape
<1>7. nextId[r] - 1 = n + Preamble(r)
  BY <1>2, RunFacts
<1>8. judged'[r].verdict.equal => judged'[r].verdict.agree
  BY <1>6, EqualIsAgreed
<1>9. Answered(r, n)'
  BY <1>5, <1>6, <1>7, <1>8 DEF Answered, Preamble
<1>10. /\ residuals[r] \subseteq 1 .. n - 1 /\ IsFiniteSet(residuals[r])
       /\ Cardinality(residuals[r]) \in Nat /\ filed[r] <= Cardinality(residuals[r])
       /\ equalCount[r] + Cardinality(residuals[r]) = n - 1
       /\ equalCount[r] \in Nat /\ filed[r] \in Nat
  BY <1>1, FS_CardinalityType DEF RunInv, Tally, Shape
<1>11. /\ IsFiniteSet(residuals[r] \cup {n})
       /\ Cardinality(residuals[r] \cup {n}) = Cardinality(residuals[r]) + 1
  <2>1. n \notin residuals[r]
    BY <1>2, <1>10
  <2> QED
    BY <1>10, <2>1, FS_AddElement
<1>12. /\ residuals'[r] \subseteq 1 .. n /\ IsFiniteSet(residuals'[r])
       /\ filed[r] <= Cardinality(residuals'[r])
       /\ equalCount'[r] + Cardinality(residuals'[r]) = n
  <2>1. \/ equalCount'[r] = equalCount[r] + 1 /\ residuals'[r] = residuals[r]
        \/ residuals'[r] = residuals[r] \cup {n} /\ equalCount'[r] = equalCount[r]
    BY <1>1, <1>3 DEF Shape
  <2>2. 1 .. n - 1 \subseteq 1 .. n /\ n \in 1 .. n
    BY <1>2
  <2>3. CASE equalCount'[r] = equalCount[r] + 1 /\ residuals'[r] = residuals[r]
    BY <1>10, <2>2, <2>3
  <2>4. CASE residuals'[r] = residuals[r] \cup {n} /\ equalCount'[r] = equalCount[r]
    BY <1>10, <1>11, <2>2, <2>4
  <2> QED
    BY <2>1, <2>3, <2>4
<1>13. Tally(r, n)'
  BY <1>3, <1>2, <1>9, <1>12 DEF Tally
<1>14. equalCount' \in [Runs -> Nat] /\ residuals' \in [Runs -> SUBSET Nat]
  <2>1. equalCount[r] + 1 \in Nat /\ residuals[r] \cup {n} \in SUBSET Nat
    BY <1>1 DEF Shape
  <2> QED
    BY <1>1, <1>3, <2>1 DEF Shape
<1>15. judged' = [o \in Runs |-> judged'[o]]
  BY <1>1, <1>3 DEF Shape
<1> QED
  BY <1>1, <1>3, <1>13, <1>14, <1>15 DEF Shape

LEMMA ReadKeeps == ASSUME CourtInv, NEW r \in Runs, Read(r) PROVE CourtInv'
<1> DEFINE next == IF nextId[r] - 1 = Preamble(r) + Cases[r] THEN "receipt" ELSE "asking"
<1>1. Shape /\ RunInv(r)
  BY DEF CourtInv
<1>2. /\ phase[r] = "waiting" /\ fromOracle[r] # << >>
      /\ Accepts(r, Head(fromOracle[r]))
      /\ fromOracle' = [fromOracle EXCEPT ![r] = Tail(@)]
      /\ phase' = [phase EXCEPT ![r] = next]
      /\ UNCHANGED <<oracle, toOracle, nextId, folder>>
      /\ IF nextId[r] - 1 > Preamble(r) THEN Judge(r) ELSE UNCHANGED memory
  BY DEF Read, ReadLine, Go, Asked
<1>3. /\ nextId[r] \in Nat /\ nextId[r] >= 2 /\ nextId[r] - 1 <= Preamble(r) + Cases[r]
      /\ Tally(r, Compared(r)) /\ Compared(r) = nextId[r] - 2 - Preamble(r)
  BY <1>1, <1>2 DEF Shape, RunInv, Numbered, Compared, Ended
<1>4. phase'[r] = next /\ next \in {"receipt", "asking"}
  BY <1>1, <1>2 DEF Shape
<1>5. Compared(r)' = nextId[r] - 1 - Preamble(r)
  BY <1>2, <1>3, <1>4, RunFacts DEF Compared, Preamble, Ended
<1>6. Numbered(r)'
  BY <1>2, <1>3, <1>4, RunFacts DEF Numbered, Preamble
<1>7. ASSUME r \in Raw PROVE OneLine(r)'
  <2>1. toOracle[r] = << >> /\ \E line : fromOracle[r] = <<line>>
    BY <1>1, <1>2, <1>7 DEF RunInv, OneLine
  <2>2. Tail(fromOracle[r]) = << >>
    BY <2>1
  <2> QED
    BY <1>1, <1>2, <1>4, <2>1, <2>2 DEF OneLine, Shape
<1>8. /\ fromOracle' \in [Runs -> Seq(GoodLine)]
      /\ phase' \in [Runs -> {"new", "asking", "waiting", "receipt", "summary",
                              "residuals", "manifest", "casefiles"} \cup Ended]
  <2>1. Tail(fromOracle[r]) \in Seq(GoodLine)
    BY <1>1, <1>2 DEF Shape
  <2> QED
    BY <1>1, <1>2, <1>4, <2>1 DEF Shape
<1>9. CASE nextId[r] - 1 > Preamble(r)
  <2>1. PICK n \in Nat \ {0} : n = nextId[r] - 1 - Preamble(r) /\ Compared(r) = n - 1
    BY <1>3, <1>9, RunFacts
  <2>2. Judge(r)
    BY <1>2, <1>9
  <2>3. /\ Tally(r, n)'
        /\ judged' = [o \in Runs |-> judged'[o]]
        /\ equalCount' \in [Runs -> Nat] /\ residuals' \in [Runs -> SUBSET Nat]
        /\ filed' = filed
        /\ \A o \in Runs \ {r} :
             /\ judged'[o] = judged[o] /\ equalCount'[o] = equalCount[o]
             /\ residuals'[o] = residuals[o]
    BY <1>2, <2>1, <2>2, JudgeAnswers
  <2>4. Tally(r, Compared(r))'
    BY <1>5, <2>1, <2>3 DEF Tally, Answered
  <2>5. Shape'
    BY <1>1, <1>2, <1>8, <2>3 DEF Shape
  <2>6. RunInv(r)'
    BY <1>6, <1>7, <2>4 DEF RunInv
  <2> QED
    BY <1>1, <1>2, <2>3, <2>5, <2>6, StepOf DEF Shape
<1>10. CASE ~(nextId[r] - 1 > Preamble(r))
  <2>1. UNCHANGED <<judged, equalCount, residuals, filed>>
    BY <1>2, <1>10 DEF memory
  <2>2. /\ Compared(r) \in Int /\ Compared(r) < 0
        /\ Compared(r)' \in Int /\ Compared(r)' <= 0
    BY <1>3, <1>5, <1>10, RunFacts
  <2>3. judged[r] = None /\ equalCount[r] = 0 /\ residuals[r] = {} /\ filed[r] <= 0
    BY <1>3, <2>2, FS_EmptySet DEF Tally
  <2>4. Tally(r, Compared(r))'
    BY <2>1, <2>2, <2>3, FS_EmptySet DEF Tally
  <2>5. Shape'
    BY <1>1, <1>2, <1>8, <2>1 DEF Shape
  <2>6. RunInv(r)'
    BY <1>6, <1>7, <2>4 DEF RunInv
  <2> QED
    BY <1>1, <1>2, <2>1, <2>5, <2>6, StepOf DEF Shape
<1> QED
  BY <1>9, <1>10

-----------------------------------------------------------------------------
(* A run that ends forgets, whether or not it drops its client.             *)
LEMMA EndKeeps ==
  ASSUME CourtInv, NEW r \in Runs, NEW p \in Ended, Go(r, p), Forget(r),
         DropClient(r) \/ CloseClient(r), UNCHANGED folder
  PROVE  CourtInv'
<1>1. Shape /\ RunInv(r)
  BY DEF CourtInv
<1>2. /\ phase' = [phase EXCEPT ![r] = p]
      /\ judged' = [judged EXCEPT ![r] = None]
      /\ equalCount' = [equalCount EXCEPT ![r] = 0]
      /\ residuals' = [residuals EXCEPT ![r] = {}]
      /\ filed' = [filed EXCEPT ![r] = 0]
      /\ nextId' = [nextId EXCEPT ![r] = 1]
      /\ fromOracle' = [fromOracle EXCEPT ![r] = << >>]
      /\ \/ oracle' = [oracle EXCEPT ![r] = "down"]
            /\ toOracle' = [toOracle EXCEPT ![r] = << >>]
         \/ UNCHANGED <<oracle, toOracle>>
  BY DEF Go, Forget, DropClient, CloseClient
<1>3. << >> \in Seq(GoodLine)
  OBVIOUS
<1>4. Shape'
  BY <1>1, <1>2, <1>3 DEF Shape
<1>5. /\ phase'[r] \in Ended /\ judged'[r] = None /\ equalCount'[r] = 0
      /\ residuals'[r] = {} /\ filed'[r] = 0
  BY <1>1, <1>2 DEF Shape
<1>6. Compared(r)' = 0
  BY <1>5 DEF Compared, Ended
<1>7. Numbered(r)' /\ OneLine(r)'
  BY <1>5 DEF Numbered, OneLine, Ended
<1>8. Tally(r, Compared(r))'
  BY <1>5, <1>6, FS_EmptySet DEF Tally
<1>9. RunInv(r)'
  BY <1>7, <1>8 DEF RunInv
<1> QED
  BY <1>1, <1>2, <1>4, <1>9, StepOf DEF Shape

(* Once a run compares no more, writing its receipt changes nothing here.   *)
Writing == {"receipt", "summary", "residuals", "manifest", "casefiles"}

LEMMA WriteKeeps ==
  ASSUME CourtInv, NEW r \in Runs, phase[r] \in Writing,
         NEW p \in Writing, phase' = [phase EXCEPT ![r] = p],
         UNCHANGED <<linkVars, judged, equalCount, residuals>>,
         filed' \in [Runs -> Nat], filed'[r] <= Cardinality(residuals[r]),
         \A o \in Runs \ {r} : filed'[o] = filed[o],
         folder' \in [Runs -> BOOLEAN \X Seconds \cup {None}]
  PROVE  CourtInv'
<1>1. Shape /\ RunInv(r)
  BY DEF CourtInv
<1>2. UNCHANGED <<oracle, toOracle, fromOracle, nextId>>
  BY DEF linkVars
<1>3. Shape'
  BY <1>1, <1>2 DEF Shape, Writing
<1>4. phase'[r] \in Writing
  BY <1>1 DEF Shape
<1>5. Compared(r) = Cases[r] /\ Compared(r)' = Cases[r]
  BY <1>4 DEF Compared, Ended, Writing
<1>6. Tally(r, Compared(r))'
  BY <1>1, <1>5 DEF RunInv, Tally, Answered, Preamble
<1>7. Numbered(r)' /\ OneLine(r)'
  BY <1>4 DEF Numbered, OneLine, Writing
<1>8. RunInv(r)'
  BY <1>6, <1>7 DEF RunInv
<1> QED
  BY <1>1, <1>2, <1>3, <1>8, StepOf DEF Shape

LEMMA WriteCasefileKeeps ==
  ASSUME CourtInv, NEW r \in Runs, WriteCasefile(r) PROVE CourtInv'
<1>1. Shape /\ RunInv(r)
  BY DEF CourtInv
<1>2. /\ phase[r] = "casefiles" /\ Unfiled(r) # {}
      /\ filed' = [filed EXCEPT ![r] = @ + 1]
      /\ UNCHANGED <<linkVars, phase, judged, equalCount, residuals, folder>>
  BY DEF WriteCasefile
<1>3. IsFiniteSet(residuals[r]) /\ residuals[r] \subseteq Nat /\ filed[r] \in Nat
  BY <1>1 DEF RunInv, Tally, Shape
<1>4. PICK v \in residuals[r] : Cardinality({u \in residuals[r] : u < v}) >= filed[r]
  BY <1>2 DEF Unfiled
<1> DEFINE before == {u \in residuals[r] : u < v}
           others == residuals[r] \ {v}
<1>5. before \in SUBSET others
  BY <1>3, <1>4
<1>6. IsFiniteSet(others) /\ Cardinality(others) = Cardinality(residuals[r]) - 1
  BY <1>3, <1>4, FS_RemoveElement
<1>7. Cardinality(before) <= Cardinality(others) /\ IsFiniteSet(before)
  BY <1>5, <1>6, FS_Subset
<1>8. Cardinality(before) \in Nat /\ Cardinality(residuals[r]) \in Nat
  BY <1>3, <1>7, FS_CardinalityType
<1>9. filed[r] + 1 <= Cardinality(residuals[r])
  BY <1>3, <1>4, <1>6, <1>7, <1>8
<1>10. phase' = [phase EXCEPT ![r] = "casefiles"]
  BY <1>1, <1>2 DEF Shape
<1>11. /\ filed' \in [Runs -> Nat] /\ filed'[r] <= Cardinality(residuals[r])
       /\ \A o \in Runs \ {r} : filed'[o] = filed[o]
  BY <1>1, <1>2, <1>3, <1>9 DEF Shape
<1>12. phase[r] \in Writing /\ "casefiles" \in Writing
  BY <1>2 DEF Writing
<1>13. folder' \in [Runs -> BOOLEAN \X Seconds \cup {None}]
  BY <1>1, <1>2 DEF Shape
<1> QED
  BY <1>2, <1>10, <1>11, <1>12, <1>13, WriteKeeps

LEMMA WriteReceiptKeeps ==
  ASSUME CourtInv, NEW r \in Runs, CreateFolder(r) \/ WriteReceipt(r) PROVE CourtInv'
<1>1. Shape /\ RunInv(r)
  BY DEF CourtInv
<1>2. PICK p \in Writing :
        /\ phase[r] \in Writing /\ phase' = [phase EXCEPT ![r] = p]
        /\ UNCHANGED <<linkVars, memory>>
        /\ \/ UNCHANGED folder
           \/ \E s \in Seconds : folder' = [folder EXCEPT ![r] = <<r \in Raw, s>>]
  BY DEF CreateFolder, WriteReceipt, WriteFile, Go, Writing
<1>3. UNCHANGED <<judged, equalCount, residuals, filed>>
  BY <1>2 DEF memory
<1>4. filed[r] <= Cardinality(residuals[r])
  BY <1>1 DEF RunInv, Tally
<1>5. folder' \in [Runs -> BOOLEAN \X Seconds \cup {None}]
  <2>1. ASSUME NEW s \in Seconds PROVE <<r \in Raw, s>> \in BOOLEAN \X Seconds
    <3>1. (r \in Raw) = TRUE \/ (r \in Raw) = FALSE
      OBVIOUS
    <3> QED
      BY <3>1
  <2>2. \/ folder' = folder
        \/ \E f \in BOOLEAN \X Seconds : folder' = [folder EXCEPT ![r] = f]
    BY <1>2, <2>1, Zenon
  <2> QED
    BY <1>1, <2>2 DEF Shape
<1> QED
  BY <1>1, <1>2, <1>3, <1>4, <1>5, WriteKeeps DEF Shape

-----------------------------------------------------------------------------
(* The oracle                                                               *)

(* Only the two pipes and the oracle's state change.                        *)
LEMMA OracleMoves ==
  ASSUME CourtInv, NEW r \in Runs, UNCHANGED <<nextId, phase, memory, folder>>,
         oracle' = oracle \/ oracle' = [oracle EXCEPT ![r] = "down"],
         NEW to \in Seq(GoodLine), NEW from \in Seq(GoodLine),
         toOracle' = [toOracle EXCEPT ![r] = to],
         fromOracle' = [fromOracle EXCEPT ![r] = from],
         r \in Raw => OneLine(r)'
  PROVE  CourtInv'
<1>1. Shape /\ RunInv(r)
  BY DEF CourtInv
<1>2. UNCHANGED <<judged, equalCount, residuals, filed>>
  BY DEF memory
<1>3. Shape'
  BY <1>1, <1>2 DEF Shape
<1>4. Numbered(r)'
  BY <1>1 DEF RunInv, Numbered, Preamble
<1>5. Compared(r)' = Compared(r)
  BY DEF Compared, Preamble
<1>6. Tally(r, Compared(r))'
  BY <1>1, <1>2, <1>5 DEF RunInv, Tally, Answered, Preamble
<1>7. RunInv(r)'
  BY <1>4, <1>6 DEF RunInv
<1> QED
  BY <1>1, <1>2, <1>3, <1>7, StepOf DEF Shape

LEMMA AnswerKeeps ==
  ASSUME CourtInv, NEW r \in Runs, Answer(r, Running(r)),
         UNCHANGED <<phase, memory, folder>>
  PROVE  CourtInv'
<1> DEFINE line == Head(toOracle[r])
           to == Tail(toOracle[r])
           from == IF Running(r) THEN Append(fromOracle[r], line) ELSE fromOracle[r]
<1>1. Shape /\ RunInv(r)
  BY DEF CourtInv
<1>2. /\ toOracle[r] # << >> /\ nextId' = nextId
      /\ toOracle' = [toOracle EXCEPT ![r] = to]
      /\ oracle' = oracle \/ oracle' = [oracle EXCEPT ![r] = "down"]
  BY DEF Answer
<1>3. fromOracle' = [fromOracle EXCEPT ![r] = from]
  BY <1>1 DEF Answer, Shape
<1>4. to \in Seq(GoodLine) /\ line \in GoodLine /\ from \in Seq(GoodLine)
  BY <1>1, <1>2 DEF Shape
<1>5. ASSUME r \in Raw PROVE OneLine(r)'
  <2>1. OneLine(r) /\ phase' = phase
    BY <1>1, <1>5 DEF RunInv
  <2>2. toOracle'[r] = to /\ fromOracle'[r] = from
    BY <1>1, <1>2, <1>3 DEF Shape
  <2>3. CASE phase[r] = "waiting"
    <3>1. Running(r)
      BY <2>3 DEF Running, Ended
    <3>2. /\ toOracle[r] = <<[id |-> nextId[r] - 1, part |-> "whole"]>>
          /\ fromOracle[r] = << >>
      BY <1>2, <2>1, <2>3 DEF OneLine
    <3>3. to = << >> /\ from = <<[id |-> nextId[r] - 1, part |-> "whole"]>>
      BY <3>1, <3>2
    <3> QED
      BY <1>2, <2>1, <2>2, <2>3, <3>3 DEF OneLine
  <2>4. CASE phase[r] # "waiting"
    BY <1>2, <2>1, <2>4 DEF OneLine
  <2> QED
    BY <2>3, <2>4
<1> QED
  BY <1>2, <1>3, <1>4, <1>5, OracleMoves

LEMMA ExitAtEofKeeps ==
  ASSUME CourtInv, NEW r \in Runs, ExitAtEof(r, Running(r)),
         UNCHANGED <<phase, memory, folder>>
  PROVE  CourtInv'
<1>1. Shape /\ RunInv(r)
  BY DEF CourtInv
<1>2. /\ oracle' = [oracle EXCEPT ![r] = "down"]
      /\ UNCHANGED <<toOracle, fromOracle, nextId>>
  BY DEF ExitAtEof
<1>3. /\ toOracle' = [toOracle EXCEPT ![r] = toOracle[r]]
      /\ fromOracle' = [fromOracle EXCEPT ![r] = fromOracle[r]]
      /\ toOracle[r] \in Seq(GoodLine) /\ fromOracle[r] \in Seq(GoodLine)
  BY <1>1, <1>2 DEF Shape
<1>4. r \in Raw => OneLine(r)'
  BY <1>1, <1>2 DEF RunInv, OneLine
<1> QED
  BY <1>2, <1>3, <1>4, OracleMoves

LEMMA CrashKeeps ==
  ASSUME CourtInv, NEW r \in Runs, CrashOracle(r) PROVE CourtInv'
<1> DEFINE torn == [id |-> Head(toOracle[r]).id, part |-> "torn"]
<1>1. Shape /\ RunInv(r)
  BY DEF CourtInv
<1>2. /\ oracle' = [oracle EXCEPT ![r] = "down"]
      /\ toOracle' = [toOracle EXCEPT ![r] = << >>]
      /\ UNCHANGED <<nextId, phase, memory, folder>>
      /\ \/ fromOracle' = fromOracle
         \/ /\ Running(r) /\ toOracle[r] # << >>
            /\ fromOracle' = [fromOracle EXCEPT ![r] = Append(@, torn)]
  BY DEF CrashOracle, Crash
<1>3. << >> \in Seq(GoodLine) /\ fromOracle[r] \in Seq(GoodLine)
  BY <1>1 DEF Shape
<1>4. CASE fromOracle' = fromOracle
  <2>1. fromOracle' = [fromOracle EXCEPT ![r] = fromOracle[r]]
    BY <1>1, <1>4 DEF Shape
  <2>2. toOracle'[r] = << >>
    BY <1>1, <1>2 DEF Shape
  <2>3. r \in Raw => OneLine(r)'
    BY <1>1, <1>2, <1>4, <2>2 DEF RunInv, OneLine
  <2> QED
    BY <1>2, <1>3, <2>1, <2>3, OracleMoves
<1>5. CASE /\ Running(r) /\ toOracle[r] # << >>
           /\ fromOracle' = [fromOracle EXCEPT ![r] = Append(@, torn)]
  <2>1. torn \in GoodLine
    <3>1. Head(toOracle[r]) \in GoodLine
      BY <1>1, <1>5 DEF Shape
    <3> QED
      BY <3>1 DEF GoodLine, Line
  <2>2. Append(fromOracle[r], torn) \in Seq(GoodLine)
    BY <1>3, <2>1
  <2>3. fromOracle' = [fromOracle EXCEPT ![r] = Append(fromOracle[r], torn)]
    BY <1>1, <1>5 DEF Shape
  <2>4. toOracle'[r] = << >> /\ fromOracle'[r] = Append(fromOracle[r], torn)
    BY <1>1, <1>2, <2>3 DEF Shape
  <2>5. ASSUME r \in Raw PROVE OneLine(r)'
    <3>1. OneLine(r) /\ phase' = phase /\ nextId' = nextId
      BY <1>1, <1>2, <2>5 DEF RunInv
    <3>2. CASE phase[r] = "waiting"
      <4>1. /\ toOracle[r] = <<[id |-> nextId[r] - 1, part |-> "whole"]>>
            /\ fromOracle[r] = << >>
        BY <1>5, <3>1, <3>2 DEF OneLine
      <4>2. /\ torn = [id |-> nextId[r] - 1, part |-> "torn"]
            /\ Append(fromOracle[r], torn) = <<torn>>
        BY <4>1
      <4> QED
        BY <2>4, <3>1, <3>2, <4>2 DEF OneLine
    <3>3. CASE phase[r] # "waiting"
      BY <1>5, <3>1, <3>3 DEF OneLine
    <3> QED
      BY <3>2, <3>3
  <2> QED
    BY <1>2, <1>3, <2>2, <2>3, <2>5, OracleMoves
<1> QED
  BY <1>2, <1>4, <1>5

-----------------------------------------------------------------------------
LEMMA StepKeeps == CourtInv /\ [Next]_vars => CourtInv'
<1> SUFFICES ASSUME CourtInv, [Next]_vars PROVE CourtInv'
  OBVIOUS
<1>1. ASSUME NEW r \in Runs, CourtStep(r) PROVE CourtInv'
  <2>1. CASE Ask(r) \/ Read(r)
    BY <2>1, AskKeeps, ReadKeeps
  <2>2. CASE Panic(r)
    BY <2>2, EndKeeps DEF Panic, Ended
  <2>3. CASE Exit(r)
    BY <2>3, EndKeeps DEF Exit, Ended
  <2>4. CASE CreateFolder(r) \/ WriteReceipt(r)
    BY <2>4, WriteReceiptKeeps
  <2>5. CASE WriteCasefile(r)
    BY <2>5, WriteCasefileKeeps
  <2> QED
    BY <1>1, <2>1, <2>2, <2>3, <2>4, <2>5 DEF CourtStep
<1>2. ASSUME NEW r \in Runs, Kill(r) PROVE CourtInv'
  BY <1>2, EndKeeps DEF Kill, Ended
<1>3. ASSUME NEW r \in Runs, OracleStep(r) PROVE CourtInv'
  BY <1>3, AnswerKeeps, ExitAtEofKeeps DEF OracleStep
<1>4. CASE UNCHANGED vars
  <2>1. UNCHANGED <<oracle, nextId, toOracle, fromOracle, phase, judged,
                    equalCount, residuals, filed, folder>>
    BY <1>4 DEF vars, linkVars, memory
  <2>2. Shape'
    BY <2>1 DEF CourtInv, Shape
  <2>3. \A o \in Runs : RunInv(o)'
    BY <2>1, OthersKeep DEF CourtInv
  <2> QED
    BY <2>2, <2>3 DEF CourtInv
<1> QED
  BY <1>1, <1>2, <1>3, <1>4, SpawnKeeps, CrashKeeps DEF Next

(* Every verdict of every run compares the Rust code with the oracle's      *)
(* answer to the request of that case, whatever crashed and however long    *)
(* the requests were, and "equal" is only said where the two agree.         *)
THEOREM VerdictsAlwaysAnswered == Spec => []VerdictsAnswered
<1>1. Init => CourtInv
  BY InitCourt
<1>2. CourtInv /\ [Next]_vars => CourtInv'
  BY StepKeeps
<1>3. CourtInv => VerdictsAnswered
  BY InvTypes
<1> QED
  BY <1>1, <1>2, <1>3, PTL DEF Spec

-----------------------------------------------------------------------------
(* The casefiles come in the order of their cases                           *)

(* The cases of S that come after k others.                                 *)
Before(S, v) == {u \in S : u < v}
LeftOf(S, k) == {v \in S : Cardinality(Before(S, v)) >= k}

LEMMA BeforeFinite ==
  ASSUME NEW S, IsFiniteSet(S), NEW v
  PROVE  IsFiniteSet(Before(S, v)) /\ Cardinality(Before(S, v)) \in Nat
<1>1. Before(S, v) \in SUBSET S
  BY DEF Before
<1> QED
  BY <1>1, FS_Subset, FS_CardinalityType

(* The first of those left comes after exactly k others.                    *)
LEMMA FirstLeft ==
  ASSUME NEW S, IsFiniteSet(S), S \subseteq Nat, NEW k \in Nat,
         NEW m \in LeftOf(S, k), \A w \in LeftOf(S, k) : m <= w
  PROVE  Cardinality(Before(S, m)) = k
<1>1. /\ m \in S /\ m \in Nat /\ Cardinality(Before(S, m)) >= k
      /\ Cardinality(Before(S, m)) \in Nat
  BY BeforeFinite DEF LeftOf
<1>2. CASE Before(S, m) = {}
  BY <1>1, <1>2, FS_EmptySet
<1>3. CASE Before(S, m) # {}
  <2> DEFINE T == {n \in Nat : \A u \in Before(S, m) : u <= n}
  <2>1. T \in SUBSET Nat /\ m \in T
    BY <1>1 DEF Before
  <2>2. PICK n \in T : \A y \in T : n <= y
    BY <2>1, LeastNat
  <2>3. n \in Nat /\ \A u \in Before(S, m) : u <= n /\ u \in Nat
    BY <2>2 DEF Before
  <2>4. n \in Before(S, m)
    <3> SUFFICES ASSUME n \notin Before(S, m) PROVE FALSE
      OBVIOUS
    <3>1. \A u \in Before(S, m) : u < n
      BY <2>3
    <3>2. n # 0
      BY <1>3, <2>3, <3>1
    <3>3. n - 1 \in T
      BY <2>3, <3>1, <3>2
    <3> QED
      BY <2>2, <2>3, <3>3
  <2>5. n \in S /\ n < m /\ n \notin LeftOf(S, k)
    BY <1>1, <2>3, <2>4 DEF Before
  <2>6. Cardinality(Before(S, n)) < k /\ Cardinality(Before(S, n)) \in Nat
        /\ IsFiniteSet(Before(S, n))
    BY <2>5, BeforeFinite DEF LeftOf
  <2>7. Before(S, m) = Before(S, n) \cup {n} /\ n \notin Before(S, n)
    <3>1. ASSUME NEW u \in S PROVE u < m <=> (u < n \/ u = n)
      <4>1. u \in Nat /\ n < m /\ m \in Nat /\ n \in Nat
        BY <1>1, <2>3, <2>5
      <4>2. u < m => u <= n
        BY <2>3, <4>1 DEF Before
      <4> QED
        BY <4>1, <4>2
    <3>2. ~(n < n)
      BY <2>3
    <3> QED
      BY <2>5, <3>1, <3>2 DEF Before
  <2>8. Cardinality(Before(S, m)) = Cardinality(Before(S, n)) + 1
    BY <2>6, <2>7, FS_AddElement
  <2> QED
    BY <1>1, <2>6, <2>8
<1> QED
  BY <1>2, <1>3

LEMMA NextLeft ==
  ASSUME NEW S, IsFiniteSet(S), S \subseteq Nat, NEW k \in Nat,
         NEW m \in LeftOf(S, k), \A w \in LeftOf(S, k) : m <= w
  PROVE  LeftOf(S, k + 1) = LeftOf(S, k) \ {m}
<1>1. Cardinality(Before(S, m)) = k /\ m \in Nat /\ m \in S
  BY FirstLeft DEF LeftOf
<1>2. ASSUME NEW w \in LeftOf(S, k), w # m PROVE w \in LeftOf(S, k + 1)
  <2>1. w \in S /\ w \in Nat /\ m < w
    BY <1>1, <1>2 DEF LeftOf
  <2>2. IsFiniteSet(Before(S, m)) /\ IsFiniteSet(Before(S, w))
        /\ Cardinality(Before(S, w)) \in Nat
    BY BeforeFinite
  <2>3. m \notin Before(S, m) /\ Before(S, m) \cup {m} \in SUBSET Before(S, w)
    <3>1. ~(m < m)
      BY <1>1
    <3>2. ASSUME NEW u \in S, u < m PROVE u < w
      BY <1>1, <2>1, <3>2
    <3> QED
      BY <1>1, <2>1, <3>1, <3>2 DEF Before
  <2>4. Cardinality(Before(S, m) \cup {m}) = k + 1
    BY <1>1, <2>2, <2>3, FS_AddElement
  <2>5. Cardinality(Before(S, m) \cup {m}) <= Cardinality(Before(S, w))
    BY <2>2, <2>3, FS_Subset
  <2> QED
    BY <2>1, <2>2, <2>4, <2>5 DEF LeftOf
<1>3. ASSUME NEW w \in LeftOf(S, k + 1) PROVE w \in LeftOf(S, k) /\ w # m
  <2>1. w \in S /\ Cardinality(Before(S, w)) >= k + 1 /\ Cardinality(Before(S, w)) \in Nat
    BY BeforeFinite DEF LeftOf
  <2>2. Cardinality(Before(S, w)) >= k /\ Cardinality(Before(S, w)) # k
    BY <2>1
  <2> QED
    BY <1>1, <2>1, <2>2 DEF LeftOf
<1> QED
  BY <1>2, <1>3

-----------------------------------------------------------------------------
(* The receipt of a run that has its directory for itself                   *)

Files == {"summary", "residuals", "manifest", "casefiles"}

(* The files speak of one and the same run of all the cases.                *)
Accounts(r, receipt) ==
  receipt.manifest.run = r =>
    /\ receipt.manifest.summary = receipt.summary
    /\ receipt.residuals.run = r
    /\ Cardinality(receipt.residuals.cases) = receipt.summary.residuals
    /\ receipt.summary.equal + receipt.summary.residuals = Cases[r]

CasefilesOf(r, S) == {[run |-> r, case |-> v] : v \in S}

(* What is there, at each phase of its writing.                             *)
Stage(r, receipt) ==
  /\ phase[r] \in {"summary", "residuals", "manifest"} =>
       receipt.manifest.run # r /\ receipt.casefiles = {}
  /\ phase[r] \in {"residuals", "manifest", "casefiles"} => receipt.summary = Summary(r)
  /\ phase[r] \in {"manifest", "casefiles"} =>
       receipt.residuals = [run |-> r, cases |-> residuals[r]]
  /\ phase[r] = "casefiles" =>
       /\ receipt.manifest = [run |-> r, summary |-> Summary(r)]
       /\ receipt.casefiles = CasefilesOf(r, residuals[r] \ LeftOf(residuals[r], filed[r]))
  /\ phase[r] \in {"passed", "rejected"} =>
       /\ receipt.manifest.run = r
       /\ receipt.casefiles = CasefilesOf(r, receipt.residuals.cases)
  /\ Accounts(r, receipt)

FolderInv(r) ==
  /\ phase[r] \in {"new", "asking", "waiting", "receipt"} => folder[r] = None
  /\ phase[r] # "casefiles" => filed[r] = 0
  /\ phase[r] \in {"summary", "residuals", "manifest", "casefiles"} => folder[r] # None
  /\ folder[r] # None /\ Alone(r) => Stage(r, receipts[folder[r]])

(* A directory that nobody has made holds nothing.                          *)
ReceiptsInv ==
  /\ DOMAIN receipts = BOOLEAN \X Seconds
  /\ \A f \in BOOLEAN \X Seconds :
       /\ DOMAIN receipts[f] = Files
       /\ (\A o \in Runs : folder[o] # f) => receipts[f] = EmptyReceipt
  /\ \A r \in Runs : FolderInv(r)

LEMMA RunsReceipt ==
  ASSUME ReceiptsInv, NEW r \in Runs
  PROVE  FolderInv(r)
BY DEF ReceiptsInv

(* A run another one does not touch.                                        *)
LEMMA FolderKept ==
  ASSUME NEW r, FolderInv(r),
         phase'[r] = phase[r], equalCount'[r] = equalCount[r],
         residuals'[r] = residuals[r], filed'[r] = filed[r], folder'[r] = folder[r],
         folder[r] # None /\ Alone(r)' =>
           Alone(r) /\ receipts'[folder[r]] = receipts[folder[r]]
  PROVE  FolderInv(r)'
<1>1. Summary(r)' = Summary(r)
  BY DEF Summary
<1>2. \A R : Stage(r, R) => Stage(r, R)'
  BY <1>1 DEF Stage, Accounts, CasefilesOf, LeftOf, Before
<1>3. folder'[r] # None /\ Alone(r)' => Stage(r, receipts[folder[r]])'
  BY <1>2 DEF FolderInv
<1> QED
  BY <1>3 DEF FolderInv

LEMMA InitReceipts == Init => ReceiptsInv
<1> SUFFICES ASSUME Init PROVE ReceiptsInv
  OBVIOUS
<1>1. /\ receipts = [f \in BOOLEAN \X Seconds |-> EmptyReceipt]
      /\ \A r \in Runs : phase[r] = "new" /\ filed[r] = 0 /\ folder[r] = None
  BY DEF Init
<1>2. DOMAIN EmptyReceipt = Files
  BY DEF EmptyReceipt, Files
<1> QED
  BY <1>1, <1>2 DEF ReceiptsInv, FolderInv

(* A step of a run that leaves the directories alone.                       *)
LEMMA NoFile ==
  ASSUME ReceiptsInv, NEW r \in Runs, UNCHANGED <<folder, receipts>>, FolderInv(r)',
         \A o \in Runs \ {r} :
           /\ phase'[o] = phase[o] /\ equalCount'[o] = equalCount[o]
           /\ residuals'[o] = residuals[o] /\ filed'[o] = filed[o]
  PROVE  ReceiptsInv'
<1>1. \A o : Alone(o)' = Alone(o)
  BY DEF Alone
<1>2. ASSUME NEW o \in Runs \ {r} PROVE FolderInv(o)'
  BY <1>1, <1>2, FolderKept, RunsReceipt
<1>3. \A o \in Runs : FolderInv(o)'
  BY <1>2
<1> QED
  BY <1>3 DEF ReceiptsInv

(* Until it compares no more, a run has no directory.                       *)
Early == {"new", "asking", "waiting", "receipt"}

LEMMA EarlyKeeps ==
  ASSUME CourtInv, ReceiptsInv, NEW r \in Runs, phase[r] \in Early,
         NEW p \in Early \cup {"panicked"}, phase' = [phase EXCEPT ![r] = p],
         UNCHANGED <<folder, receipts, filed>>,
         \A o \in Runs \ {r} : equalCount'[o] = equalCount[o] /\ residuals'[o] = residuals[o]
  PROVE  ReceiptsInv'
<1>1. folder[r] = None /\ filed[r] = 0
  BY RunsReceipt DEF FolderInv, Early
<1>2. phase'[r] = p /\ \A o \in Runs \ {r} : phase'[o] = phase[o]
  BY DEF CourtInv, Shape
<1>3. FolderInv(r)'
  BY <1>1, <1>2 DEF FolderInv, Early
<1> QED
  BY <1>2, <1>3, NoFile

LEMMA ExchangeKeeps ==
  ASSUME CourtInv, ReceiptsInv, NEW r \in Runs, Spawn(r) \/ Ask(r) \/ Read(r)
  PROVE  ReceiptsInv'
<1>1. Shape
  BY DEF CourtInv
<1>2. CASE Spawn(r)
  <2>1. /\ phase[r] \in Early /\ UNCHANGED <<folder, receipts, filed, equalCount, residuals>>
        /\ \E p \in Early \cup {"panicked"} : phase' = [phase EXCEPT ![r] = p]
    BY <1>2 DEF Spawn, Go, memory, Early
  <2> QED
    BY <2>1, EarlyKeeps
<1>3. CASE Ask(r)
  <2>1. /\ phase[r] \in Early /\ UNCHANGED <<folder, receipts, filed, equalCount, residuals>>
        /\ \E p \in Early \cup {"panicked"} : phase' = [phase EXCEPT ![r] = p]
    BY <1>3 DEF Ask, Go, memory, Early
  <2> QED
    BY <2>1, EarlyKeeps
<1>4. CASE Read(r)
  <2>1. /\ phase[r] \in Early /\ UNCHANGED <<folder, receipts>>
        /\ \E p \in Early : phase' = [phase EXCEPT ![r] = p]
        /\ Judge(r) \/ UNCHANGED memory
    BY <1>4, Zenon DEF Read, Go, Early
  <2>2. /\ filed' = filed
        /\ \A o \in Runs \ {r} : equalCount'[o] = equalCount[o] /\ residuals'[o] = residuals[o]
    <3>1. CASE UNCHANGED memory
      BY <3>1 DEF memory
    <3>2. CASE Judge(r)
      <4>1. PICK n : /\ \/ equalCount' = [equalCount EXCEPT ![r] = @ + 1] /\ residuals' = residuals
                        \/ residuals' = [residuals EXCEPT ![r] = @ \cup {n}]
                           /\ equalCount' = equalCount
                     /\ filed' = filed
        BY <3>2 DEF Judge
      <4> QED
        BY <1>1, <4>1 DEF Shape
    <3> QED
      BY <2>1, <3>1, <3>2
  <2> QED
    BY <2>1, <2>2, EarlyKeeps
<1> QED
  BY <1>2, <1>3, <1>4

(* A run that stops leaves what it has written.                             *)
LEMMA StopKeeps ==
  ASSUME CourtInv, ReceiptsInv, NEW r \in Runs, NEW p \in {"panicked", "killed"},
         Go(r, p), Forget(r), UNCHANGED <<folder, receipts>>
  PROVE  ReceiptsInv'
<1>1. /\ phase'[r] = p /\ filed'[r] = 0
      /\ \A o \in Runs \ {r} :
           /\ phase'[o] = phase[o] /\ equalCount'[o] = equalCount[o]
           /\ residuals'[o] = residuals[o] /\ filed'[o] = filed[o]
  BY DEF CourtInv, Shape, Go, Forget
<1>2. ASSUME folder'[r] # None, Alone(r)' PROVE Stage(r, receipts[folder[r]])'
  <2>1. Accounts(r, receipts[folder[r]])
    BY <1>2, RunsReceipt DEF FolderInv, Stage, Alone
  <2> QED
    BY <1>1, <2>1 DEF Stage, Accounts
<1>3. FolderInv(r)'
  BY <1>1, <1>2 DEF FolderInv
<1> QED
  BY <1>1, <1>3, NoFile

(* The counts of a run that compares no more add up.                        *)
LEMMA CountsAddUp ==
  ASSUME CourtInv, NEW r \in Runs, phase[r] \in Writing
  PROVE  /\ equalCount[r] + Cardinality(residuals[r]) = Cases[r]
         /\ IsFiniteSet(residuals[r]) /\ residuals[r] \subseteq Nat /\ filed[r] \in Nat
<1>1. RunInv(r) /\ filed[r] \in Nat
  BY DEF CourtInv, Shape
<1>2. Compared(r) = Cases[r]
  BY DEF Compared, Writing, Ended
<1>3. Tally(r, Cases[r]) /\ Cases[r] \in Nat \ {0}
  BY <1>1, <1>2, RunFacts DEF RunInv
<1>4. residuals[r] \subseteq Nat
  BY <1>3 DEF Tally
<1> QED
  BY <1>1, <1>3, <1>4 DEF Tally

(* main ends: the casefiles are all there.                                  *)
LEMMA ExitKeeps ==
  ASSUME CourtInv, ReceiptsInv, NEW r \in Runs, Exit(r)
  PROVE  ReceiptsInv'
<1>1. /\ phase[r] = "casefiles" /\ Unfiled(r) = {} /\ phase'[r] \in {"passed", "rejected"}
      /\ UNCHANGED <<folder, receipts>> /\ filed'[r] = 0
      /\ \A o \in Runs \ {r} :
           /\ phase'[o] = phase[o] /\ equalCount'[o] = equalCount[o]
           /\ residuals'[o] = residuals[o] /\ filed'[o] = filed[o]
  BY DEF CourtInv, Shape, Go, Forget, Exit
<1>2. ASSUME folder'[r] # None, Alone(r)' PROVE Stage(r, receipts[folder[r]])'
  <2>1. PICK R : R = receipts[folder[r]]
    OBVIOUS
  <2>2. Stage(r, R)
    BY <1>1, <1>2, <2>1, RunsReceipt DEF FolderInv, Alone
  <2>3. LeftOf(residuals[r], filed[r]) = {}
    BY <1>1 DEF Unfiled, LeftOf, Before
  <2>4. /\ R.residuals.cases = residuals[r] /\ R.manifest.run = r
        /\ R.casefiles = CasefilesOf(r, residuals[r]) /\ Accounts(r, R)
    BY <1>1, <2>2, <2>3 DEF Stage
  <2> QED
    BY <1>1, <2>1, <2>4 DEF Stage, Accounts, CasefilesOf
<1>3. FolderInv(r)'
  BY <1>1, <1>2 DEF FolderInv
<1> QED
  BY <1>1, <1>3, NoFile

LEMMA CreateFolderKeeps ==
  ASSUME CourtInv, ReceiptsInv, NEW r \in Runs, CreateFolder(r)
  PROVE  ReceiptsInv'
<1>1. PICK f : /\ \E s \in Seconds : f = <<r \in Raw, s>>
               /\ folder' = [folder EXCEPT ![r] = f]
  BY DEF CreateFolder
<1>2. /\ phase[r] = "receipt" /\ phase' = [phase EXCEPT ![r] = "summary"]
      /\ UNCHANGED <<equalCount, residuals, filed, receipts>>
  BY DEF CreateFolder, Go, memory
<1>3. f \in BOOLEAN \X Seconds /\ f # None
  <2>1. PICK s \in Seconds, b \in BOOLEAN : f = <<b, s>>
    <3>1. (r \in Raw) = TRUE \/ (r \in Raw) = FALSE
      OBVIOUS
    <3> QED
      BY <1>1, <3>1
  <2> QED
    BY <2>1, CourtAssumption
<1>4. /\ folder'[r] = f /\ folder[r] = None /\ phase'[r] = "summary" /\ filed'[r] = 0
      /\ \A o \in Runs \ {r} : folder'[o] = folder[o] /\ phase'[o] = phase[o]
  BY <1>1, <1>2, RunsReceipt DEF CourtInv, Shape, FolderInv
<1>5. FolderInv(r)'
  <2>1. ASSUME Alone(r)' PROVE Stage(r, receipts[folder[r]])'
    <3>1. \A o \in Runs : folder[o] # f
      BY <1>3, <1>4, <2>1 DEF Alone
    <3>2. receipts[f] = EmptyReceipt
      BY <1>3, <3>1 DEF ReceiptsInv
    <3>3. EmptyReceipt.manifest.run # r /\ EmptyReceipt.casefiles = {}
      BY CourtAssumption DEF EmptyReceipt
    <3> QED
      BY <1>2, <1>4, <3>2, <3>3 DEF Stage, Accounts
  <2> QED
    BY <1>3, <1>4, <2>1 DEF FolderInv
<1>6. ASSUME NEW o \in Runs \ {r} PROVE FolderInv(o)'
  <2>1. folder[o] # None /\ Alone(o)' => Alone(o)
    BY <1>4 DEF Alone
  <2> QED
    BY <1>2, <1>4, <2>1, FolderKept, RunsReceipt
<1>7. \A g \in BOOLEAN \X Seconds : (\A o \in Runs : folder'[o] # g) => receipts[g] = EmptyReceipt
  <2> SUFFICES ASSUME NEW g \in BOOLEAN \X Seconds, \A o \in Runs : folder'[o] # g
               PROVE  receipts[g] = EmptyReceipt
    OBVIOUS
  <2>1. \A o \in Runs : folder[o] # g
    BY <1>4, CourtAssumption
  <2> QED
    BY <2>1 DEF ReceiptsInv
<1> QED
  BY <1>2, <1>5, <1>6, <1>7 DEF ReceiptsInv

(* A file goes where only the runs with that directory look.                *)
LEMMA OneFile ==
  ASSUME ReceiptsInv, NEW r \in Runs, UNCHANGED folder, folder[r] \in BOOLEAN \X Seconds,
         NEW file \in Files, NEW content,
         receipts' = [receipts EXCEPT ![folder[r]] = [@ EXCEPT ![file] = content]],
         Alone(r) /\ Stage(r, receipts[folder[r]]) => Stage(r, receipts[folder[r]])',
         phase'[r] \in {"residuals", "manifest", "casefiles"},
         phase'[r] # "casefiles" => filed'[r] = 0,
         \A o \in Runs \ {r} :
           /\ phase'[o] = phase[o] /\ equalCount'[o] = equalCount[o]
           /\ residuals'[o] = residuals[o] /\ filed'[o] = filed[o]
  PROVE  ReceiptsInv'
<1>1. PICK f : f = folder[r]
  OBVIOUS
<1>2. /\ DOMAIN receipts' = BOOLEAN \X Seconds /\ f \in BOOLEAN \X Seconds
      /\ DOMAIN receipts'[f] = Files
      /\ \A g \in BOOLEAN \X Seconds : g # f => receipts'[g] = receipts[g]
  BY <1>1 DEF ReceiptsInv
<1>3. \A o : Alone(o)' = Alone(o)
  BY DEF Alone
<1>4. FolderInv(r)'
  <2>1. f # None
    BY <1>2, CourtAssumption
  <2>2. Alone(r)' => Stage(r, receipts[folder[r]])'
    <3>1. Alone(r) => Stage(r, receipts[f])
      BY <1>1, <2>1, RunsReceipt DEF FolderInv
    <3> QED
      BY <1>1, <1>3, <3>1
  <2> QED
    BY <1>1, <2>1, <2>2 DEF FolderInv
<1>5. ASSUME NEW o \in Runs \ {r} PROVE FolderInv(o)'
  <2>1. folder[o] # None /\ Alone(o)' =>
          Alone(o) /\ receipts'[folder[o]] = receipts[folder[o]]
    <3> SUFFICES ASSUME folder[o] # None, Alone(o)'
                 PROVE  Alone(o) /\ receipts'[folder[o]] = receipts[folder[o]]
      OBVIOUS
    <3>1. Alone(o) /\ folder[o] # f
      BY <1>1, <1>3 DEF Alone
    <3>2. receipts'[folder[o]] = receipts[folder[o]]
      BY <1>1, <3>1
    <3> QED
      BY <3>1, <3>2
  <2> QED
    BY <2>1, FolderKept, RunsReceipt
<1>6. \A g \in BOOLEAN \X Seconds :
        /\ DOMAIN receipts'[g] = Files
        /\ (\A o \in Runs : folder'[o] # g) => receipts'[g] = EmptyReceipt
  BY <1>1, <1>2 DEF ReceiptsInv
<1> QED
  BY <1>2, <1>4, <1>5, <1>6 DEF ReceiptsInv

LEMMA SummaryKeeps ==
  ASSUME CourtInv, ReceiptsInv, NEW r \in Runs,
         WriteFile(r, "summary", Summary(r), "residuals")
  PROVE  ReceiptsInv'
<1>1. /\ phase[r] = "summary" /\ phase'[r] = "residuals"
      /\ UNCHANGED <<folder, equalCount, residuals, filed>>
      /\ \A o \in Runs \ {r} : phase'[o] = phase[o]
      /\ receipts' = [receipts EXCEPT ![folder[r]] = [@ EXCEPT !["summary"] = Summary(r)]]
  BY DEF CourtInv, Shape, Go, WriteFile, memory
<1>2. folder[r] \in BOOLEAN \X Seconds /\ filed[r] = 0
  BY <1>1, RunsReceipt DEF CourtInv, Shape, FolderInv
<1>3. ASSUME Stage(r, receipts[folder[r]]) PROVE Stage(r, receipts[folder[r]])'
  <2>1. PICK R : R = receipts[folder[r]]
    OBVIOUS
  <2>2. R.manifest.run # r /\ R.casefiles = {} /\ DOMAIN R = Files
    BY <1>1, <1>2, <1>3, <2>1 DEF Stage, ReceiptsInv
  <2>3. PICK Q : Q = receipts'[folder[r]]
    OBVIOUS
  <2>4. Q = [R EXCEPT !["summary"] = Summary(r)]
    BY <1>1, <1>2, <2>1, <2>3 DEF ReceiptsInv
  <2>5. Q.manifest.run # r /\ Q.casefiles = {} /\ Q.summary = Summary(r)
    BY <2>2, <2>4 DEF Files
  <2>6. Summary(r)' = Summary(r)
    BY <1>1 DEF Summary
  <2>7. Stage(r, Q)'
    BY <1>1, <2>5, <2>6 DEF Stage, Accounts
  <2> QED
    BY <1>1, <2>3, <2>7
<1> QED
  BY <1>1, <1>2, <1>3, OneFile DEF Files

LEMMA ResidualsKeeps ==
  ASSUME CourtInv, ReceiptsInv, NEW r \in Runs,
         WriteFile(r, "residuals", [run |-> r, cases |-> residuals[r]], "manifest")
  PROVE  ReceiptsInv'
<1> DEFINE content == [run |-> r, cases |-> residuals[r]]
<1>1. /\ phase[r] = "residuals" /\ phase'[r] = "manifest"
      /\ UNCHANGED <<folder, equalCount, residuals, filed>>
      /\ \A o \in Runs \ {r} : phase'[o] = phase[o]
      /\ receipts' = [receipts EXCEPT ![folder[r]] = [@ EXCEPT !["residuals"] = content]]
  BY DEF CourtInv, Shape, Go, WriteFile, memory
<1>2. folder[r] \in BOOLEAN \X Seconds /\ filed[r] = 0
  BY <1>1, RunsReceipt DEF CourtInv, Shape, FolderInv
<1>3. ASSUME Stage(r, receipts[folder[r]]) PROVE Stage(r, receipts[folder[r]])'
  <2>1. PICK R : R = receipts[folder[r]]
    OBVIOUS
  <2>2. R.manifest.run # r /\ R.casefiles = {} /\ R.summary = Summary(r) /\ DOMAIN R = Files
    BY <1>1, <1>2, <1>3, <2>1 DEF Stage, ReceiptsInv
  <2>3. PICK Q : Q = receipts'[folder[r]]
    OBVIOUS
  <2>4. Q = [R EXCEPT !["residuals"] = content]
    BY <1>1, <1>2, <2>1, <2>3 DEF ReceiptsInv
  <2>5. /\ Q.manifest.run # r /\ Q.casefiles = {} /\ Q.summary = Summary(r)
        /\ Q.residuals = content
    BY <2>2, <2>4 DEF Files
  <2>6. Summary(r)' = Summary(r)
    BY <1>1 DEF Summary
  <2>7. Stage(r, Q)'
    BY <1>1, <2>5, <2>6 DEF Stage, Accounts
  <2> QED
    BY <1>1, <2>3, <2>7
<1> QED
  BY <1>1, <1>2, <1>3, OneFile DEF Files

LEMMA ManifestKeeps ==
  ASSUME CourtInv, ReceiptsInv, NEW r \in Runs,
         WriteFile(r, "manifest", [run |-> r, summary |-> Summary(r)], "casefiles")
  PROVE  ReceiptsInv'
<1> DEFINE content == [run |-> r, summary |-> Summary(r)]
<1>1. /\ phase[r] = "manifest" /\ phase'[r] = "casefiles"
      /\ UNCHANGED <<folder, equalCount, residuals, filed>>
      /\ \A o \in Runs \ {r} : phase'[o] = phase[o]
      /\ receipts' = [receipts EXCEPT ![folder[r]] = [@ EXCEPT !["manifest"] = content]]
  BY DEF CourtInv, Shape, Go, WriteFile, memory
<1>2. folder[r] \in BOOLEAN \X Seconds /\ filed[r] = 0
  BY <1>1, RunsReceipt DEF CourtInv, Shape, FolderInv
<1>3. /\ equalCount[r] + Cardinality(residuals[r]) = Cases[r]
      /\ IsFiniteSet(residuals[r]) /\ residuals[r] \subseteq Nat
  BY <1>1, CountsAddUp DEF Writing
<1>4. CasefilesOf(r, residuals[r] \ LeftOf(residuals[r], 0)) = {}
  <2>1. \A v : Cardinality(Before(residuals[r], v)) >= 0
    BY <1>3, BeforeFinite
  <2> QED
    BY <2>1 DEF CasefilesOf, LeftOf
<1>5. ASSUME Stage(r, receipts[folder[r]]) PROVE Stage(r, receipts[folder[r]])'
  <2>1. PICK R : R = receipts[folder[r]]
    OBVIOUS
  <2>2. /\ R.casefiles = {} /\ R.summary = Summary(r) /\ DOMAIN R = Files
        /\ R.residuals = [run |-> r, cases |-> residuals[r]]
    BY <1>1, <1>2, <1>5, <2>1 DEF Stage, ReceiptsInv
  <2>3. PICK Q : Q = receipts'[folder[r]]
    OBVIOUS
  <2>4. Q = [R EXCEPT !["manifest"] = content]
    BY <1>1, <1>2, <2>1, <2>3 DEF ReceiptsInv
  <2>5. /\ Q.manifest = content /\ Q.casefiles = {} /\ Q.summary = Summary(r)
        /\ Q.residuals = [run |-> r, cases |-> residuals[r]]
    BY <2>2, <2>4 DEF Files
  <2>6. Summary(r)' = Summary(r)
    BY <1>1 DEF Summary
  <2>7. Accounts(r, Q)
    <3>1. /\ Q.manifest.summary = Q.summary /\ Q.residuals.run = r
          /\ Q.residuals.cases = residuals[r]
          /\ Q.summary.equal = equalCount[r]
          /\ Q.summary.residuals = Cardinality(residuals[r])
      BY <2>5 DEF Summary
    <3> QED
      BY <1>3, <3>1 DEF Accounts
  <2>8. Accounts(r, Q)'
    BY <2>7 DEF Accounts
  <2>9. (CasefilesOf(r, residuals[r] \ LeftOf(residuals[r], filed[r])))' = {}
    BY <1>1, <1>2, <1>4 DEF CasefilesOf, LeftOf, Before
  <2>10. Stage(r, Q)'
    BY <1>1, <2>5, <2>6, <2>8, <2>9 DEF Stage
  <2> QED
    BY <1>1, <2>3, <2>10
<1> QED
  BY <1>1, <1>2, <1>5, OneFile DEF Files

(* The next casefile is that of the first case left.                        *)
LEMMA CasefileKeeps ==
  ASSUME CourtInv, ReceiptsInv, NEW r \in Runs, WriteCasefile(r)
  PROVE  ReceiptsInv'
<1>1. /\ equalCount[r] + Cardinality(residuals[r]) = Cases[r]
      /\ IsFiniteSet(residuals[r]) /\ residuals[r] \subseteq Nat /\ filed[r] \in Nat
  BY CountsAddUp DEF WriteCasefile, Writing
<1>2. Unfiled(r) = LeftOf(residuals[r], filed[r])
  BY DEF Unfiled, LeftOf, Before
<1>3. PICK v : v = CHOOSE u \in Unfiled(r) : \A w \in Unfiled(r) : u <= w
  OBVIOUS
<1>4. v \in Unfiled(r) /\ \A w \in Unfiled(r) : v <= w
  <2>1. Unfiled(r) \in SUBSET Nat /\ Unfiled(r) # {}
    BY <1>1 DEF WriteCasefile, Unfiled
  <2>2. \E u \in Unfiled(r) : \A w \in Unfiled(r) : u <= w
    BY <2>1, LeastNat
  <2> QED
    BY <1>3, <2>2
<1>5. PICK left : left = LeftOf(residuals[r], filed[r])
  OBVIOUS
<1>6. LeftOf(residuals[r], filed[r] + 1) = left \ {v} /\ v \in left /\ v \in residuals[r]
  BY <1>1, <1>2, <1>4, <1>5, NextLeft DEF LeftOf
<1>7. /\ phase[r] = "casefiles" /\ UNCHANGED <<phase, folder, equalCount, residuals>>
      /\ filed' = [filed EXCEPT ![r] = @ + 1]
      /\ receipts' = [receipts EXCEPT ![folder[r]].casefiles =
           {f \in @ : f.case # v} \cup {[run |-> r, case |-> v]}]
  BY <1>3 DEF WriteCasefile
<1>8. PICK R : R = receipts[folder[r]]
  OBVIOUS
<1>9. PICK content : content = {f \in R.casefiles : f.case # v} \cup {[run |-> r, case |-> v]}
  OBVIOUS
<1>10. folder[r] \in BOOLEAN \X Seconds
  BY <1>7, RunsReceipt DEF CourtInv, Shape, FolderInv
<1>11. /\ receipts' = [receipts EXCEPT ![folder[r]] = [@ EXCEPT !["casefiles"] = content]]
       /\ filed'[r] = filed[r] + 1 /\ \A o \in Runs \ {r} : filed'[o] = filed[o]
  BY <1>7, <1>8, <1>9, <1>10 DEF CourtInv, Shape, ReceiptsInv
<1>12. ASSUME Stage(r, receipts[folder[r]]) PROVE Stage(r, receipts[folder[r]])'
  <2>1. /\ R.casefiles = CasefilesOf(r, residuals[r] \ left) /\ DOMAIN R = Files
        /\ R.manifest = [run |-> r, summary |-> Summary(r)] /\ R.summary = Summary(r)
        /\ R.residuals = [run |-> r, cases |-> residuals[r]] /\ Accounts(r, R)
    BY <1>5, <1>7, <1>8, <1>10, <1>12 DEF Stage, ReceiptsInv
  <2>2. PICK Q : Q = receipts'[folder[r]]
    OBVIOUS
  <2>3. Q = [R EXCEPT !["casefiles"] = content]
    BY <1>8, <1>10, <1>11, <2>2 DEF ReceiptsInv
  <2>4. /\ Q.manifest = R.manifest /\ Q.summary = R.summary
        /\ Q.residuals = R.residuals /\ Q.casefiles = content
    BY <2>1, <2>3 DEF Files
  <2>5. content = CasefilesOf(r, residuals[r] \ (left \ {v}))
    <3>1. \A f \in R.casefiles : f.case # v
      BY <1>6, <2>1 DEF CasefilesOf
    <3>2. content = R.casefiles \cup {[run |-> r, case |-> v]}
      BY <1>9, <3>1
    <3>3. residuals[r] \ (left \ {v}) = (residuals[r] \ left) \cup {v}
      BY <1>6
    <3> QED
      BY <2>1, <3>2, <3>3 DEF CasefilesOf
  <2>6. Summary(r)' = Summary(r)
    BY <1>7 DEF Summary
  <2>7. Accounts(r, Q)'
    BY <2>1, <2>4 DEF Accounts
  <2>8. (CasefilesOf(r, residuals[r] \ LeftOf(residuals[r], filed[r])))' = content
    <3>1. residuals'[r] = residuals[r] /\ filed'[r] = filed[r] + 1
      BY <1>7, <1>11
    <3>2. LeftOf(residuals'[r], filed'[r]) = left \ {v}
      BY <1>6, <3>1
    <3>3. (residuals[r] \ LeftOf(residuals[r], filed[r]))' = residuals[r] \ (left \ {v})
      BY <3>1, <3>2 DEF LeftOf, Before
    <3> QED
      BY <2>5, <3>3 DEF CasefilesOf
  <2>9. Stage(r, Q)'
    BY <1>7, <2>1, <2>4, <2>6, <2>7, <2>8 DEF Stage
  <2> QED
    BY <1>7, <2>2, <2>9
<1> QED
  BY <1>7, <1>10, <1>11, <1>12, OneFile DEF Files

LEMMA NextReceipts == CourtInv /\ ReceiptsInv /\ [Next]_vars => ReceiptsInv'
<1> SUFFICES ASSUME CourtInv, ReceiptsInv, [Next]_vars PROVE ReceiptsInv'
  OBVIOUS
<1>1. CASE UNCHANGED <<phase, memory, folder, receipts>>
  <2>1. UNCHANGED <<phase, equalCount, residuals, filed, folder, receipts>>
    BY <1>1 DEF memory
  <2>2. \A o : Alone(o)' = Alone(o)
    BY <2>1 DEF Alone
  <2>3. ASSUME NEW o \in Runs PROVE FolderInv(o)'
    BY <2>1, <2>2, <2>3, FolderKept, RunsReceipt
  <2> QED
    BY <2>1, <2>3 DEF ReceiptsInv
<1>2. ASSUME NEW r \in Runs,
             Spawn(r) \/ CourtStep(r) \/ OracleStep(r) \/ CrashOracle(r) \/ Kill(r)
      PROVE  ReceiptsInv'
  <2>1. CASE Spawn(r) \/ Ask(r) \/ Read(r)
    BY <2>1, ExchangeKeeps
  <2>2. CASE Panic(r)
    <3>1. Go(r, "panicked") /\ Forget(r) /\ UNCHANGED <<folder, receipts>>
      BY <2>2 DEF Panic
    <3> QED
      BY <3>1, StopKeeps
  <2>3. CASE CreateFolder(r)
    BY <2>3, CreateFolderKeeps
  <2>4. CASE WriteReceipt(r)
    BY <2>4, SummaryKeeps, ResidualsKeeps, ManifestKeeps DEF WriteReceipt
  <2>5. CASE WriteCasefile(r)
    BY <2>5, CasefileKeeps
  <2>6. CASE Exit(r)
    BY <2>6, ExitKeeps
  <2>7. CASE OracleStep(r) \/ CrashOracle(r)
    BY <1>1, <2>7 DEF OracleStep, CrashOracle
  <2>8. CASE Kill(r)
    <3>1. Go(r, "killed") /\ Forget(r) /\ UNCHANGED <<folder, receipts>>
      BY <2>8 DEF Kill
    <3> QED
      BY <3>1, StopKeeps
  <2> QED
    BY <1>2, <2>1, <2>2, <2>3, <2>4, <2>5, <2>6, <2>7, <2>8 DEF CourtStep
<1> QED
  BY <1>1, <1>2 DEF Next, vars

(* A manifest comes with the summary and the residuals it speaks of, even   *)
(* after a crash between two files, and a run that ended of itself left a   *)
(* casefile for each residual: whatever the runs and the sizes of their     *)
(* corpora, for the runs that share their directory with no other.          *)
THEOREM ReceiptAlwaysComplete == Spec => []ReceiptComplete
<1>1. ASSUME ReceiptsInv PROVE ReceiptComplete
  <2>1. ASSUME NEW r \in Runs, folder[r] # None, Alone(r)
        PROVE  /\ Accounts(r, receipts[folder[r]])
               /\ phase[r] \in {"passed", "rejected"} =>
                    /\ receipts[folder[r]].manifest.run = r
                    /\ receipts[folder[r]].casefiles =
                         CasefilesOf(r, receipts[folder[r]].residuals.cases)
    BY <1>1, <2>1, RunsReceipt DEF FolderInv, Stage
  <2> QED
    BY <2>1 DEF ReceiptComplete, Accounts, CasefilesOf
<1> QED
  BY <1>1, InitCourt, InitReceipts, StepKeeps, NextReceipts, PTL DEF Spec
=============================================================================
