------------------------------- MODULE Absent -------------------------------
(***************************************************************************)
(* What the evaluation modules share: None, the value of what is not       *)
(* there, and the case under evaluation.  The evaluation of a run          *)
(* (ocr_bench/metrics, normalize, confidence) is a set of functions of     *)
(* their inputs: a behaviour picks one input, and the invariants say what  *)
(* the functions make of it.                                               *)
(***************************************************************************)
EXTENDS Integers, Sequences, SequencesExt, FiniteSetsExt

CONSTANT None
VARIABLE case

(* The first value that a sequence holds. *)
FirstOf(values) ==
  LET there == {k \in 1..Len(values) : values[k] # None}
  IN IF there = {} THEN None ELSE values[Min(there)]

Abs(x) == IF x < 0 THEN -x ELSE x

Is(kind) == case.kind = kind

=============================================================================
