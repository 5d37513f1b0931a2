------------------------------ MODULE Numbers ------------------------------
(* Sums and powers of two, as recursive functions: of these the prover can  *)
(* say what they are.                                                       *)
EXTENDS Integers, Sequences

(* what a walk along a list adds up to *)
SumOf(s) ==
  LET sum[i \in 0 .. Len(s)] == IF i = 0 THEN 0 ELSE sum[i - 1] + s[i]
  IN sum[Len(s)]

(* 1 << n, in as many bits as it takes *)
PowerOf2(n) ==
  LET power[i \in 0 .. n] == IF i = 0 THEN 1 ELSE 2 * power[i - 1]
  IN power[n]
=============================================================================
