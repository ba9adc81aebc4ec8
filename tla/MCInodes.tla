------------------------------ MODULE MCInodes ------------------------------
(* An instance of Inodes for TLC: a directory with a file in it, a file and *)
(* a volume label in the root, another of the directory's name below it.    *)
EXTENDS Inodes, TLC

Tree == <<>> :> <<"b", "l", "a">> @@ <<"a">> :> <<"b", "a">> @@ <<"a", "a">> :> <<>>

Label == {<<"l">>}
=============================================================================
