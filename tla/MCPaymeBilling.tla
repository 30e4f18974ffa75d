-------------------------- MODULE MCPaymeBilling --------------------------
EXTENDS PaymeBilling, TLC
CONSTANTS o1, o2, t1, t2, t3, w1
MCOrderOf == (t1 :> o1 @@ t2 :> o2 @@ t3 :> o1)
MCDays == (o1 :> 1 @@ o2 :> 2)
============================================================================
