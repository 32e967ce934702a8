------------------------------- MODULE MCOvnis -------------------------------
EXTENDS Ovnis
\* A position the code ignores (x = 0) and one in the second cell.
ThePositions == {<<0, 1>>, <<3, 1>>}
=============================================================================
