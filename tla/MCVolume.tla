------------------------------ MODULE MCVolume ------------------------------
(* Instances of Volume for TLC: the paths, sizes and writes in use. *)
EXTENDS Volume

(* Files and directories of the root. *)
Flat == {<<n>> : n \in Name}

(* And a file, the same name in each, in the directories of the root. *)
Nest == Flat \cup {<<n, "a">> : n \in Name}

ASSUME PathsInUse == Path \in {Flat, Nest} => PathsClosed

(* One unit or none. *)
SmallSize == {0, 1}

SmallWrite == {<<0, 1>>}

(* Clusters of three units, of which a volume of four has too few: sizes    *)
(* and writes within one cluster, into a second, over a whole one, past the end. *)
CrossingSize == {0, 1, 4, 7}

CrossingWrite == {<<0, 1>>, <<2, 2>>, <<2, 5>>, <<7, 1>>}

=============================================================================
