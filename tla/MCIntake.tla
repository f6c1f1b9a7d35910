------------------------------ MODULE MCIntake ------------------------------
\* Intake for TLC.
EXTENDS Intake, TLC
=============================================================================
