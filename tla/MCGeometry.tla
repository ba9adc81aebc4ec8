----------------------------- MODULE MCGeometry -----------------------------
(* Instances of Geometry for TLC: partitions of about as many clusters as   *)
(* fill the last page of a FAT, or make its entries wider.                  *)
EXTENDS Geometry

(* The partitions of n clusters of b bytes, and those near them. *)
Around(n, b) == {n * b - 512, n * b, n * b + 100, n * b + 512, n * b + b \div 2 + 4096}

Counts == {1, 2, 3, 5, 1023, 2047, 2048, 4095, 65518, 65519, 65520, 65530}

Boundaries == UNION {Around(n, b) : n \in Counts, b \in {512, 4096, 16384}}
=============================================================================
