--------------------------- MODULE MCIssueRunner ---------------------------
(* Values for checking IssueRunner with TLC. *)
EXTENDS IssueRunner

CONSTANTS i1, i2

TwoIssues == <<i1, i2>>
OneIssue  == <<i1>>
OneRound  == {1}
=============================================================================
