----------------------------- MODULE MCHistory ------------------------------
(* Instances of History for TLC.                                           *)
EXTENDS History

Ids == 1 .. 3
short == [size |-> 1, score |-> 2, valid |-> TRUE]
half == [size |-> 2, score |-> 1, valid |-> TRUE]
long == [size |-> 4, score |-> 0, valid |-> TRUE]
broken == [size |-> 1, score |-> 2, valid |-> FALSE]
AllTexts == {short, half, long, broken}
=============================================================================
