--------------------------- MODULE MCLabelTrigger ---------------------------
(* Small instances of LabelTrigger for TLC.                                *)
EXTENDS LabelTrigger

\* Pull request 1 gets labels; 2, where there is one, only crowds the list.
Once  == [p \in PR |-> IF p = 1 THEN 1 ELSE 0]
Twice == [p \in PR |-> IF p = 1 THEN 2 ELSE 0]
=============================================================================
