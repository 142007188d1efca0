----------------------------- MODULE PowersOfTwo -----------------------------
(***************************************************************************)
(* Powers of two, as the code shifts them: a recursive function, of which  *)
(* DataLemmas proves what it needs by induction.                           *)
(***************************************************************************)
EXTENDS Integers

\* 1 << n
TwoTo[n \in Nat] == IF n = 0 THEN 1 ELSE 2 * TwoTo[n - 1]
=============================================================================
