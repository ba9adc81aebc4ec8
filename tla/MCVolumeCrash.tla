---------------------------- MODULE MCVolumeCrash ----------------------------
(* An instance of VolumeCrash for TLC: the volumes a life begins with, and *)
(* what is done to them. *)
EXTENDS VolumeCrash, MCVolume

Crossing == {<<"a">>, <<"b">>, <<"a", "a">>}

(* Two files; a file and an empty directory; and with a file in it. *)
File(v, p) == Write(Mknod(v, p).v, p, 0, 1, "x").v

TwoFiles == File(File(Formatted, <<"a">>), <<"b">>)

FileAndDir == Mkdir(File(Formatted, <<"b">>), <<"a">>).v

Volumes == {TwoFiles, FileAndDir, File(FileAndDir, <<"a", "a">>)}

(* Clusters of three units: a file that loses or gains its second cluster,  *)
(* and a write that fills the first.                                        *)
CrashSize == {0}

CrashWrite == {<<0, 6>>}

=============================================================================
