--------------------------- MODULE MCBookingLoop ---------------------------
EXTENDS BookingLoop, TLC
CONSTANTS i1, i2, a1, a2
MCVolume == (i1 :> 2 @@ i2 :> 1)
MCVolume1 == i1 :> 2
MCSymmetry == Permutations({a1, a2})
MCAnyDay == {[min |-> 0, max |-> d] : d \in Day}
=============================================================================
