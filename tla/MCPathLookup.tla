---------------------------- MODULE MCPathLookup ----------------------------
(* An instance of PathLookup for TLC: volumes of three levels, in which one *)
(* name begins another. *)
EXTENDS PathLookup, TLC

Short == <<"a">>

Long == <<"a", "b">>

Two == {Short, Long}

Slot(kind, name, id) == [kind |-> kind, name |-> name, id |-> id]

(* The root: directories 2 and 3 in either order, one of them deleted or    *)
(* missing, a file in front of them.                                        *)
RootSlots ==
  {<<Slot("dir", Short, 2), Slot("dir", Long, 3)>>,
   <<Slot("dir", Long, 3), Slot("dir", Short, 2)>>,
   <<Slot("deleted", Short, 2), Slot("dir", Long, 3)>>,
   <<Slot("file", Long, 9), Slot("dir", Short, 2)>>,
   <<Slot("dir", Short, 2)>>}

(* What directory 2 or 3 holds: the directory d, a file of its name, both   *)
(* names, or nothing.                                                       *)
MiddleSlots(d, f) ==
  {<<Slot("dir", Short, d)>>,
   <<Slot("file", Short, f)>>,
   <<Slot("deleted", Short, f), Slot("dir", Short, d)>>,
   <<Slot("dir", Long, d), Slot("file", Short, f)>>,
   <<>>}

Leaf(f) == <<Slot("file", Short, f)>>

Dir(slots, ended) == [slots |-> slots, ended |-> ended \/ slots = <<>>]

Volumes ==
  {1 :> Dir(root, e1) @@ 2 :> Dir(m2, e2) @@ 3 :> Dir(m3, e2) @@
   4 :> Dir(Leaf(12), TRUE) @@ 5 :> Dir(<<>>, TRUE) :
     root \in RootSlots, m2 \in MiddleSlots(4, 10), m3 \in MiddleSlots(5, 11),
     e1 \in BOOLEAN, e2 \in BOOLEAN}

Asked ==
  {<<>>} \cup {<<n>> : n \in {Short, Long}} \cup {<<m, n>> : m, n \in {Short, Long}} \cup
  {<<m, n, Short>> : m, n \in {Short, Long}}
=============================================================================
