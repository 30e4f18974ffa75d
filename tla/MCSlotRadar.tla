----------------------------- MODULE MCSlotRadar -----------------------------
EXTENDS SlotRadar, TLC

CONSTANTS s1, s2, p1, p2
=============================================================================
