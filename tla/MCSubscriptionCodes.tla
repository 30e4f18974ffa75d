------------------------ MODULE MCSubscriptionCodes ------------------------
EXTENDS SubscriptionCodes, TLC
CONSTANTS u1, u2, c1, c2, w1, w2
MCDurations == {[days |-> 1, unlimited |-> FALSE], [days |-> 2, unlimited |-> FALSE],
                [days |-> 0, unlimited |-> TRUE]}
MCSymmetry == Permutations({u1, u2}) \cup Permutations({c1, c2})
============================================================================
