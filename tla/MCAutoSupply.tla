----------------------------- MODULE MCAutoSupply -----------------------------
EXTENDS AutoSupply

Good(lack, stock) == [sold |-> lack + 1, active |-> 1, stock |-> stock, priced |-> TRUE,
                      blocked |-> FALSE]

MCGoods == {Good(1, 3), Good(2, 2), Good(3, 5), Good(5, 7), Good(7, 6),
            [Good(3, 3) EXCEPT !.priced = FALSE], [Good(2, 3) EXCEPT !.active = 4]}

MCRules == {[units |-> u, skus |-> s, min |-> m] : u \in {4}, s \in {1, 2}, m \in {1, 2, 3}}
=============================================================================
