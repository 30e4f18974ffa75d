------------------------ MODULE MCSubscriptionGate ------------------------
EXTENDS SubscriptionGate, TLC
CONSTANTS b1, b2, r1, r2
===========================================================================
