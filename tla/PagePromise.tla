---------------------------- MODULE PagePromise ----------------------------
(***************************************************************************)
(* What inference promises about pages, without files, tasks or models     *)
(* that take turns: a page is out at a model at most once at a time and    *)
(* only while it lacks a good answer, no more than Concurrency pages are   *)
(* out, and a good answer, once given, is kept.  The promise ends with a   *)
(* tear: a kill in the middle of a write.                                  *)
(***************************************************************************)
EXTENDS FiniteSets, Naturals

CONSTANTS
  Keys,          \* a page as asked of a model
  Concurrency    \* pages that may be out at once

VARIABLES
  answered,   \* keys with a good answer
  out,        \* keys being asked
  torn        \* a write was torn

vars == <<answered, out, torn>>

Init ==
  /\ answered = {}
  /\ out = {}
  /\ torn = FALSE

Ask(k) ==
  /\ k \notin answered \cup out
  /\ Cardinality(out) < Concurrency
  /\ out' = out \cup {k}
  /\ UNCHANGED answered

(* The answer is good, or it is an error and the page stays unanswered. *)
Answer(k) ==
  /\ k \in out
  /\ out' = out \ {k}
  /\ answered' \in {answered, answered \cup {k}}

(* An interrupt loses the pages that are out, and nothing else. *)
Interrupt ==
  /\ out' = {}
  /\ UNCHANGED answered

Keep == Interrupt \/ \E k \in Keys : Ask(k) \/ Answer(k)

(* After a tear anything goes. *)
Next ==
  \/ ~torn' /\ Keep
  \/ torn'

Spec == Init /\ [][Next]_vars
=============================================================================
