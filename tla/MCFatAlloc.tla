----------------------------- MODULE MCFatAlloc -----------------------------
(* Two filesystems with different numbers of clusters, open in one process  *)
(* and sharing the cursor of the scan.                                      *)
EXTENDS FatAlloc

CONSTANTS a, b

OtherSize == [f \in Fs |-> IF f = a THEN 6 ELSE 4]
=============================================================================
