------------------------ MODULE MCAutoslotAllocator ------------------------
EXTENDS AutoslotAllocator, TLC
CONSTANTS i1, i2
MCVolume == (i1 :> 2 @@ i2 :> 1)
\* Slots of the first day are never asked for.
MCSecondDay == {[min |-> 2, max |-> 2]}
MCAnyDay == {[min |-> 0, max |-> d] : d \in Day}
=============================================================================
