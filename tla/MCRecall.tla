------------------------------ MODULE MCRecall ------------------------------
EXTENDS Recall, TLC

\* One fact and one text are longer than the others.
MCLength ==
    LET long == {1, CHOOSE text \in Texts : TRUE} IN
    [x \in Facts \cup Texts |-> IF x \in long THEN 2 ELSE 1]
=============================================================================
