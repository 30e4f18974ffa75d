-------------------------- MODULE MCFinanceLedger --------------------------
EXTENDS FinanceLedger
CONSTANT b1
=============================================================================
