------------------------------ MODULE HistoryLog ------------------------------
(***************************************************************************)
(* What src/saqa/history.py promises: an append-only log of payloads.      *)
(***************************************************************************)
EXTENDS Sequences

CONSTANT Payloads
VARIABLE log

Init == log = <<>>
Next == \E p \in Payloads : log' = Append(log, p)
Spec == Init /\ [][Next]_log
=============================================================================
