--------------------------- MODULE MCQualityHistory ---------------------------
(* Small instances of QualityHistory: two or three processes, and payloads *)
(* that need not differ (two processes may append for one commit).         *)
EXTENDS QualityHistory
CONSTANTS w1, w2, w3
=============================================================================
