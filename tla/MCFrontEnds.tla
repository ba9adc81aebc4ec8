---------------------------- MODULE MCFrontEnds ----------------------------
(* An instance of FrontEnds for TLC: command lines and disks. *)
EXTENDS FrontEnds

Mounts ==
  [tool : {"fatxfs", "fatx-fuse", "pyfatx"}, drive : {None, "e", "f"},
   name : {None, "compat"}, variant : {"auto", "x360"},
   offset : {NotGiven, 1024}, size : {NotGiven, 1536000},
   format : {None}, confirm : {FALSE}, sector : {512}, clusters : {128}]

(* Confirmed and not, with the cluster size of drive f or without. *)
Formattings ==
  [tool : {"fatxfs"}, drive : {None}, name : {None},
   variant : {"auto"}, offset : {NotGiven}, size : {NotGiven},
   format : {"retail", "f-takes-all"}, confirm : BOOLEAN,
   sector : {512, 4096}, clusters : {FromSuperblock, 64}]

Usual ==
  [NoRequest EXCEPT !.tool = "fatxfs", !.format = "f-takes-all", !.confirm = TRUE, !.clusters = 128]

(* What the programs refuse, at once or on the way. *)
Odd ==
  {[Usual EXCEPT !.sector = 0], [Usual EXCEPT !.sector = 1024], [Usual EXCEPT !.clusters = 3],
   [Usual EXCEPT !.format = None], [Usual EXCEPT !.drive = "q"]}

(* pyfatx asks for no confirmation, and gives the library its own sizes. *)
Python ==
  {[Usual EXCEPT !.tool = "pyfatx", !.sector = 4096, !.confirm = FALSE],
   [Usual EXCEPT !.tool = "pyfatx", !.name = "cache"]}

CommandLines == Mounts \cup Formattings \cup Odd \cup Python

(* Before drive f begins, where it begins, one cluster later. *)
DiskEnds == {9000000, 15633072, 15633072 + 64}

Blank == [d \in Drives |-> NoSuperblock]

Used(f) ==
  [d \in Drives |-> IF d = "f" THEN f ELSE Superblock("xbox", 32, 512)]

Disks == {Blank, Used(Superblock("x360", 64, 512))}
=============================================================================
