----------------------------- MODULE MCRustFile -----------------------------
(* Instances of RustFile for TLC: files in clusters of two bytes. *)
EXTENDS RustFile

Whole(chain, size) == [chain |-> chain, size |-> size, image |-> [i \in 1 .. Len(chain) |-> 2]]

(* One that ends in its last cluster, one that fills it, an empty one, one   *)
(* with fewer clusters than its size, and one cut off with the image.        *)
Ends == Whole(<<4, 2, 5>>, 5)
Fills == Whole(<<3, 6>>, 4)
Empty == Whole(<<7>>, 0)
Short == Whole(<<4, 2>>, 6)
Truncated == [Whole(<<2, 3, 8>>, 5) EXCEPT !.image[2] = 1, !.image[3] = 0]

AllFiles == {Ends, Fills, Empty, Short, Truncated}
SoundFiles == {Ends, Fills, Empty}

SomeOffsets == {-3, -1, 0, 2, 4, 7}
=============================================================================
