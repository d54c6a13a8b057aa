------------------------------ MODULE MCReplay ------------------------------
EXTENDS SourceHealth, TLC

\* The window's two ends and two readings in between.
ReplayReadings == {0, 1, 3, Span}

OperatorSymmetry == Permutations(Operators)
=============================================================================
