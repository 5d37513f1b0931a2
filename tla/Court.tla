------------------------------- MODULE Court -------------------------------
(***************************************************************************)
(* A court, courts/*/src/main.rs: it spawns an oracle, asks it about every *)
(* case of a corpus, compares the answers with those of the Rust code, and *)
(* writes a receipt: a directory named for the court and the second, with  *)
(* a summary, the residuals, a manifest and a casefile for each residual.  *)
(*                                                                         *)
(* Two kinds of court: those that read a corpus, whose cases may have any  *)
(* length, and the raw ones, arena and collections, which generate short   *)
(* cases, first ask for the build constants, and take responses as raw     *)
(* values, without a look at their ids.  A panic drops the client; exit(2) *)
(* and a kill do not.                                                      *)
(***************************************************************************)
EXTENDS OracleClient, Verdicts, FiniteSets

CONSTANTS
  Cases,     \* the number of cases of each run's corpus
  Raw,       \* the runs of a raw court
  Seconds,   \* the times at which receipts are made
  None

ASSUME CourtAssumption ==
  /\ Cases \in [Runs -> Nat \ {0}] /\ Raw \subseteq Runs
  /\ None \notin Runs /\ None \notin BOOLEAN \X Seconds

VARIABLES
  phase,       \* of each run
  judged,      \* the last case compared, the line it was compared with, and
               \* the verdict
  equalCount,
  residuals,   \* the cases that differ
  filed,       \* the number of casefiles written
  folder,      \* the receipt's directory
  receipts     \* by directory: the files, with who wrote them

memory == <<judged, equalCount, residuals, filed>>
vars == <<linkVars, phase, memory, folder, receipts>>

Ended == {"passed", "rejected", "panicked", "killed"}
EmptyReceipt ==
  [summary |-> [run |-> None], residuals |-> [run |-> None],
   manifest |-> [run |-> None], casefiles |-> {}]

Init ==
  /\ LinkInit
  /\ phase = [r \in Runs |-> "new"]
  /\ judged = [r \in Runs |-> None] /\ equalCount = [r \in Runs |-> 0]
  /\ residuals = [r \in Runs |-> {}] /\ filed = [r \in Runs |-> 0]
  /\ folder = [r \in Runs |-> None]
  /\ receipts = [f \in BOOLEAN \X Seconds |-> EmptyReceipt]

Running(r) == phase[r] \notin {"new"} \cup Ended

Go(r, p) == phase' = [phase EXCEPT ![r] = p]

(* The memory of a run goes with it. *)
Forget(r) ==
  /\ judged' = [judged EXCEPT ![r] = None]
  /\ equalCount' = [equalCount EXCEPT ![r] = 0]
  /\ residuals' = [residuals EXCEPT ![r] = {}]
  /\ filed' = [filed EXCEPT ![r] = 0]

-----------------------------------------------------------------------------
(* The exchange *)

(* The requests before the first case: ping, and arena_info. *)
Preamble(r) == IF r \in Raw THEN 2 ELSE 1

Spawn(r) ==
  /\ phase[r] = "new"
  /\ \/ Go(r, "asking") /\ SpawnOracle(r)
     \/ Go(r, "panicked") /\ UNCHANGED linkVars
  /\ UNCHANGED <<memory, folder, receipts>>

(* Only a corpus has requests that do not fit in a line. *)
Ask(r) ==
  /\ phase[r] = "asking" /\ Go(r, "waiting")
  /\ \E fits \in BOOLEAN :
       /\ ~ fits => r \notin Raw /\ nextId[r] > Preamble(r)
       /\ Write(r, fits)
  /\ UNCHANGED <<memory, folder, receipts>>

Accepts(r, line) == IF r \in Raw THEN Parses(line) ELSE Paired(r, line)

(* A case's answer is compared with the Rust code's.  A run is of one court; *)
(* which one, of its kind, makes no difference but here.                    *)
Judge(r) ==
  \E verdict \in IF r \in Raw THEN RawVerdicts ELSE CorpusVerdicts :
    /\ judged' = [judged EXCEPT ![r] =
         [case |-> Asked(r) - Preamble(r), answer |-> Head(fromOracle[r]),
          verdict |-> verdict]]
    /\ IF verdict.equal
         THEN /\ equalCount' = [equalCount EXCEPT ![r] = @ + 1]
              /\ UNCHANGED residuals
         ELSE /\ residuals' = [residuals EXCEPT ![r] = @ \cup {Asked(r) - Preamble(r)}]
              /\ UNCHANGED equalCount
    /\ UNCHANGED filed

Read(r) ==
  /\ phase[r] = "waiting" /\ ReadLine(r)
  /\ Accepts(r, Head(fromOracle[r]))
  /\ Go(r, IF Asked(r) = Preamble(r) + Cases[r] THEN "receipt" ELSE "asking")
  /\ IF Asked(r) > Preamble(r) THEN Judge(r) ELSE UNCHANGED memory
  /\ UNCHANGED <<folder, receipts>>

(* A failure of the client is a panic, and so is one of the file system.    *)
Panic(r) ==
  /\ Running(r)
  /\ \/ phase[r] = "asking" /\ WriteFails(r)
     \/ phase[r] = "waiting" /\ ReadFails(r)
     \/ /\ phase[r] = "waiting" /\ fromOracle[r] # << >>
        /\ ~ Accepts(r, Head(fromOracle[r]))
     \/ phase[r] \notin {"asking", "waiting"}
  /\ Go(r, "panicked") /\ DropClient(r) /\ Forget(r)
  /\ UNCHANGED <<folder, receipts>>

-----------------------------------------------------------------------------
(* The receipt *)

Summary(r) ==
  [run |-> r, total |-> Cases[r], equal |-> equalCount[r],
   residuals |-> Cardinality(residuals[r])]

(* create_dir_all accepts a directory that is there already *)
CreateFolder(r) ==
  /\ phase[r] = "receipt" /\ Go(r, "summary")
  /\ \E s \in Seconds : folder' = [folder EXCEPT ![r] = <<r \in Raw, s>>]
  /\ UNCHANGED <<linkVars, memory, receipts>>

(* A file of the receipt, its content, and the phase after it. *)
WriteFile(r, file, content, next) ==
  /\ phase[r] = file /\ Go(r, next)
  /\ receipts' = [receipts EXCEPT ![folder[r]][file] = content]
  /\ UNCHANGED <<linkVars, memory, folder>>

(* Variant: the manifest is written before the residuals.                   *)
WriteReceiptHasty(r) ==
  \/ WriteFile(r, "summary", Summary(r), "manifest")
  \/ WriteFile(r, "manifest", [run |-> r, summary |-> Summary(r)], "residuals")
  \/ WriteFile(r, "residuals", [run |-> r, cases |-> residuals[r]], "casefiles")

WriteReceipt(r) ==
  \/ WriteFile(r, "summary", Summary(r), "residuals")
  \/ WriteFile(r, "residuals", [run |-> r, cases |-> residuals[r]], "manifest")
  \/ WriteFile(r, "manifest", [run |-> r, summary |-> Summary(r)], "casefiles")

(* The residuals without a casefile yet; they get theirs in order. *)
Unfiled(r) ==
  {v \in residuals[r] : Cardinality({u \in residuals[r] : u < v}) >= filed[r]}

(* A casefile's directory is named for its case; another run's is replaced. *)
WriteCasefile(r) ==
  /\ phase[r] = "casefiles" /\ Unfiled(r) # {}
  /\ LET v == CHOOSE u \in Unfiled(r) : \A w \in Unfiled(r) : u <= w IN
       receipts' = [receipts EXCEPT ![folder[r]].casefiles =
         {f \in @ : f.case # v} \cup {[run |-> r, case |-> v]}]
  /\ filed' = [filed EXCEPT ![r] = @ + 1]
  /\ UNCHANGED <<linkVars, phase, judged, equalCount, residuals, folder>>

(* The end of main drops the client; exit(2), which --fail-on-residuals     *)
(* chooses when there are some, does not.                                   *)
Exit(r) ==
  /\ phase[r] = "casefiles" /\ Unfiled(r) = {}
  /\ Forget(r)
  /\ \/ Go(r, "passed") /\ DropClient(r)
     \/ residuals[r] # {} /\ Go(r, "rejected") /\ CloseClient(r)
  /\ UNCHANGED <<folder, receipts>>

-----------------------------------------------------------------------------
(* The environment *)

Kill(r) ==
  /\ Running(r) /\ Go(r, "killed") /\ CloseClient(r) /\ Forget(r)
  /\ UNCHANGED <<folder, receipts>>

OracleStep(r) ==
  /\ Answer(r, Running(r)) \/ ExitAtEof(r, Running(r))
  /\ UNCHANGED <<phase, memory, folder, receipts>>

CrashOracle(r) ==
  Crash(r, Running(r)) /\ UNCHANGED <<phase, memory, folder, receipts>>

CourtStep(r) ==
  Ask(r) \/ Read(r) \/ Panic(r) \/ CreateFolder(r) \/ WriteReceipt(r)
    \/ WriteCasefile(r) \/ Exit(r)

Next ==
  \E r \in Runs :
    Spawn(r) \/ CourtStep(r) \/ OracleStep(r) \/ CrashOracle(r) \/ Kill(r)

(* The operating system schedules both processes of a run.  Nothing else is *)
(* assumed: an oracle need not crash, nor a run be started or killed.       *)
Fairness == \A r \in Runs : WF_vars(CourtStep(r)) /\ WF_vars(OracleStep(r))

Spec == Init /\ [][Next]_vars /\ Fairness

-----------------------------------------------------------------------------
(* Correctness *)

TypeOK ==
  /\ LinkTypeOK
  /\ phase \in [Runs -> {"new", "asking", "waiting", "receipt", "summary",
                         "residuals", "manifest", "casefiles"} \cup Ended]
  /\ \A r \in Runs :
       /\ residuals[r] \subseteq 1 .. Cases[r] /\ equalCount[r] \in 0 .. Cases[r]
       /\ filed[r] <= Cardinality(residuals[r])
       /\ folder[r] \in BOOLEAN \X Seconds \cup {None}

(* A verdict compares the Rust code with the oracle's answer to the request *)
(* of that very case, whole or at least its head, and never with one left   *)
(* over from a request that the oracle took for two; and when it says       *)
(* "equal", the two agree (Agree).  Raw courts ignore the id, and are right *)
(* because all their requests fit.  (And the variables have their types.)   *)
VerdictsAnswered ==
  /\ TypeOK
  /\ \A r \in Runs : judged[r] # None =>
       /\ judged[r].answer.id = judged[r].case + Preamble(r)
       /\ judged[r].answer.part \in {"whole", "head"}
       /\ r \in Raw => judged[r].answer.part = "whole"
       /\ judged[r].verdict.equal => judged[r].verdict.agree
       /\ equalCount[r] + Cardinality(residuals[r]) = judged[r].case

Alone(r) == \A o \in Runs \ {r} : folder[o] # folder[r]

(* A manifest comes with the summary and the residuals it speaks of, after  *)
(* a crash at any point too, they account for every case of the corpus, and *)
(* a run that ended of itself left a casefile for each residual.  Two runs  *)
(* of one court and one second share a directory and mix their files in it: *)
(* only runs that do not are spoken of here.                                *)
ReceiptComplete ==
  \A r \in Runs : folder[r] # None /\ Alone(r) =>
    LET receipt == receipts[folder[r]] IN
    /\ receipt.manifest.run = r =>
         /\ receipt.manifest.summary = receipt.summary
         /\ receipt.residuals.run = r
         /\ Cardinality(receipt.residuals.cases) = receipt.summary.residuals
         /\ receipt.summary.equal + receipt.summary.residuals = Cases[r]
    /\ phase[r] \in {"passed", "rejected"} =>
         /\ receipt.manifest.run = r
         /\ receipt.casefiles =
              {[run |-> r, case |-> v] : v \in receipt.residuals.cases}

(* A court that was started ends, wherever its oracle dies and whatever it   *)
(* answers, and leaves no oracle behind, however it ended.  An oracle that   *)
(* lives and neither answers nor ends would be waited for: the client has no *)
(* timeout, and the fairness of the oracle's steps is what excludes it.      *)
CourtsEnd ==
  \A r \in Runs :
    phase[r] # "new" ~> phase[r] \in Ended /\ oracle[r] # "up"
=============================================================================
