----------------------------- MODULE MCInferRun -----------------------------
(* Values for checking InferRun with TLC. *)
EXTENDS InferRun

CONSTANTS a, b, p1, p2, p3, old, new

ThreePages    == <<p1, p2, p3>>
TwoPages      == <<p1, p2>>
TwoModels     == {a, b}
OneModel      == {a}
BothOrB       == {<<a, b>>, <<b>>}
JustA         == {<<a>>}
OneSetting    == {old}
TwoSettings   == {old, new}
=============================================================================
