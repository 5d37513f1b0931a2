---------------------------- MODULE OracleClient ----------------------------
(***************************************************************************)
(* The oracle client of crates/upb-rs-oracle/src/client.rs with the oracle *)
(* process it spawns, tools/oracle/src/oracle.c: a pipe each way, a line a *)
(* request, a line a response.                                             *)
(*                                                                         *)
(* A line holds the id of its request and how much of it is there.  The    *)
(* oracle reads lines of at most MAX_LINE bytes, so that it takes a longer *)
(* one for two: a head, which has the id but whose payload is cut and read *)
(* as empty, and a tail, which it answers with id 0.  It writes a response *)
(* piece by piece, and may die at any time, which may leave a torn one.    *)
(***************************************************************************)
EXTENDS Naturals, Sequences

CONSTANT Runs  \* the processes that hold a client, each with its oracle

VARIABLES
  oracle,      \* "none", "up" or "down"
  toOracle,    \* the lines in the oracle's stdin
  fromOracle,  \* the lines in its stdout
  nextId

linkVars == <<oracle, toOracle, fromOracle, nextId>>

Line == [id : Nat, part : {"whole", "head", "tail", "torn"}]

LinkTypeOK ==
  /\ oracle \in [Runs -> {"none", "up", "down"}] /\ nextId \in [Runs -> Nat]
  /\ \A r \in Runs :
       toOracle[r] \in Seq(Line) /\ fromOracle[r] \in Seq(Line)

LinkInit ==
  /\ oracle = [r \in Runs |-> "none"] /\ nextId = [r \in Runs |-> 1]
  /\ toOracle = [r \in Runs |-> << >>] /\ fromOracle = [r \in Runs |-> << >>]

SpawnOracle(r) ==
  /\ oracle' = [oracle EXCEPT ![r] = "up"]
  /\ UNCHANGED <<toOracle, fromOracle, nextId>>

(* What the oracle will read of one request. *)
Lines(id, fits) ==
  IF fits THEN <<[id |-> id, part |-> "whole"]>>
  ELSE <<[id |-> id, part |-> "head"], [id |-> 0, part |-> "tail"]>>

(* Every operation of the client draws an id, and writes its request.       *)
Write(r, fits) ==
  /\ oracle[r] = "up"
  /\ nextId' = [nextId EXCEPT ![r] = @ + 1]
  /\ toOracle' = [toOracle EXCEPT ![r] = @ \o Lines(nextId[r], fits)]
  /\ UNCHANGED <<oracle, fromOracle>>

WriteFails(r) == oracle[r] # "up"

(* The id of the request whose response is awaited *)
Asked(r) == nextId[r] - 1

(* request_value takes any line that parses as a response *)
Parses(line) == line.part # "torn"

(* Variant: request forgets to compare the id of the response.              *)
PairedAny(r, line) == Parses(line)

(* request wants the response to have the id of the request *)
Paired(r, line) == Parses(line) /\ line.id = Asked(r)

ReadLine(r) ==
  /\ fromOracle[r] # << >>
  /\ fromOracle' = [fromOracle EXCEPT ![r] = Tail(@)]
  /\ UNCHANGED <<oracle, toOracle, nextId>>

(* Variant: an end of file is taken for a line yet to come.                 *)
ReadFailsNever(r) == FALSE

(* read_line returns 0: the oracle has closed its stdout *)
ReadFails(r) == fromOracle[r] = << >> /\ oracle[r] # "up"

(* The client is dropped, which kills the oracle and waits for it.          *)
DropClient(r) ==
  /\ oracle' = [oracle EXCEPT ![r] = "down"]
  /\ toOracle' = [toOracle EXCEPT ![r] = << >>]
  /\ fromOracle' = [fromOracle EXCEPT ![r] = << >>]
  /\ nextId' = [nextId EXCEPT ![r] = 1]

(* The process ends without that: its ends of the pipes are closed.         *)
CloseClient(r) ==
  /\ fromOracle' = [fromOracle EXCEPT ![r] = << >>]
  /\ nextId' = [nextId EXCEPT ![r] = 1]
  /\ UNCHANGED <<oracle, toOracle>>

-----------------------------------------------------------------------------
(* The oracle process; open says whether the other ends of its pipes are    *)

Answer(r, open) ==
  /\ oracle[r] = "up" /\ toOracle[r] # << >>
  /\ toOracle' = [toOracle EXCEPT ![r] = Tail(@)]
  /\ IF open
       THEN /\ fromOracle' = [fromOracle EXCEPT ![r] = Append(@, Head(toOracle[r]))]
            /\ UNCHANGED oracle
       ELSE /\ oracle' = [oracle EXCEPT ![r] = "down"]  \* a broken pipe
            /\ UNCHANGED fromOracle
  /\ UNCHANGED nextId

(* fgets finds the end of the file *)
ExitAtEof(r, open) ==
  /\ oracle[r] = "up" /\ toOracle[r] = << >> /\ ~open
  /\ oracle' = [oracle EXCEPT ![r] = "down"]
  /\ UNCHANGED <<toOracle, fromOracle, nextId>>

(* The oracle crashes, maybe within a response.  What it wrote can be read. *)
Crash(r, open) ==
  /\ oracle[r] = "up"
  /\ oracle' = [oracle EXCEPT ![r] = "down"]
  /\ toOracle' = [toOracle EXCEPT ![r] = << >>]
  /\ \/ UNCHANGED fromOracle
     \/ /\ open /\ toOracle[r] # << >>
        /\ fromOracle' = [fromOracle EXCEPT
             ![r] = Append(@, [id |-> Head(toOracle[r]).id, part |-> "torn"])]
  /\ UNCHANGED nextId
=============================================================================
