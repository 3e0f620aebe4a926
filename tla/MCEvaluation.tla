---------------------------- MODULE MCEvaluation ----------------------------
(***************************************************************************)
(* The evaluation of a run on bounded inputs: one step picks an input of   *)
(* one of its functions, and the invariants say what becomes of it.        *)
(***************************************************************************)
EXTENDS StatementCases, HeaderCases, CalibrationCases, DuplicateCases, DispatchCases, TextCases,
        ImageCases, RegistryCases

MCMoves == {-1, 2}
MCConfidences == {0, 49, 50, 90, 100}
MCTargets == {50, 90, 100}
MCBanks == <<"KBANK", "SCB", "TTB">>
MCThresholds == {60, 70, 80, 90}

-----------------------------------------------------------------------------
Idle == case.kind = "none"

Init == case = [kind |-> "none"]

ReadLedger == Idle /\ \E c \in LedgerCases : PlausibleLedger(c) /\ case' = c
ReadPage == Idle /\ \E c \in PageCases : PlausiblePage(c) /\ case' = c
ReadHeader == Idle /\ \E c \in HeaderCases : case' = c
ReviewPages == Idle /\ \E c \in ReviewCases : case' = c
FindThreshold == Idle /\ \E c \in ThresholdCases : case' = c
FindSpan == Idle /\ \E c \in SpanCases : case' = c
MakeFeatures == Idle /\ \E c \in FeatureCases : case' = c
CompareModels == Idle /\ \E c \in AgreeCases : case' = c
DrawDupset == Idle /\ \E c \in DupsetCases : case' = c
ScoreDupset == Idle /\ \E c \in AnswerCases : case' = c
LoadClasses == Idle /\ \E c \in ClassCases : case' = c
ScorePage == Idle /\ \E c \in SampleCases : case' = c
ResizePage == Idle /\ \E c \in SizeCases : case' = c
CropBlocks == Idle /\ \E c \in CropCases : case' = c
ReadTable == Idle /\ \E c \in TableCases : IsTiling(c) /\ case' = c
ReadRepeats == Idle /\ \E c \in RepeatCases : case' = c
ReadLayout == Idle /\ \E c \in LayoutCases : PlausibleLayout(c) /\ case' = c
ReadLines == Idle /\ \E c \in LineCases : case' = c
ReadBlocks == Idle /\ \E c \in BlockCases : case' = c
ReadFields == Idle /\ \E c \in FieldCases : case' = c
Next == ReadLedger \/ ReadPage \/ ReadHeader \/ ReviewPages \/ FindThreshold \/ FindSpan
        \/ MakeFeatures \/ CompareModels \/ DrawDupset \/ ScoreDupset \/ ScorePage \/ LoadClasses \/ ResizePage \/ CropBlocks
        \/ ReadTable \/ ReadRepeats \/ ReadLayout \/ ReadLines \/ ReadBlocks \/ ReadFields
Spec == Init /\ [][Next]_case
-----------------------------------------------------------------------------
(* map_statement_page, parse_text_layer, extract_header_fields: a          *)
(* statement is read as it was printed, its rows and its header box.       *)
StatementsAreRead == PerfectAnswerIsPerfect /\ HeaderFieldsAreTheirs

(* build_dupset, evaluate, aggregate: what is compared is measured on the  *)
(* same set: the duplicate set is even over the banks and pairs and scored *)
(* by what was read of it, every model is scored on every page.            *)
ScoresAreComparable == DupsetIsBalanced /\ DuplicatesAreTold /\ AveragesAreOfTheSamePages

(* smart_resize and the layout parsers: a page is sent as the model takes  *)
(* it, so boxes are in pixels of the image sent, what of a reply is whole  *)
(* is on the page and in its place, and the parse client shows what the    *)
(* harness scores.                                                         *)
RepliesFitTheirPages == PagesFitTheModel /\ WholeBlocksAreKept /\ BlocksKeepTheirText /\ ClientReadsAsHarness

(* otsl_to_html, clean_truncated_repeats, salvage_json_pairs, locate_span: *)
(* a repaired table, text or record loses nothing that was said, and a     *)
(* value is found where it was said.                                       *)
WhatIsSaidIsKept == TableKeepsItsShape /\ OnlyRepeatsAreCut /\ FieldsAreSaid /\ SpanIsLastSaid

(* field_features: what a field's confidence is fitted on tells of its     *)
(* value and of no other part of the completion, and of the pair's reading *)
(* of it and of no third model's.                                          *)
FeaturesAreOfTheField == LogprobsAreOfTheValue /\ AgreementIsOfThePair
=============================================================================
