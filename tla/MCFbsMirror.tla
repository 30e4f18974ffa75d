----------------------------- MODULE MCFbsMirror ------------------------------
(* Instances of FbsMirror for TLC.                                         *)
EXTENDS FbsMirror, TLC

CONSTANTS o1, o2

MCSweeps == {{"CREATED", "PACKING", Invoiced}, {"DELIVERING", "CANCELED"}}
MCNewAndLeaving == {o1 :> "CREATED" @@ o2 :> "DELIVERING"}
MCInvoiced == {o1 :> Invoiced @@ o2 :> Invoiced}
=============================================================================
