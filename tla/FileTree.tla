------------------------------ MODULE FileTree ------------------------------
(***************************************************************************)
(* What a mounted volume promises the programs that use it, with no FAT,   *)
(* no clusters and no directory entries: a tree of files and directories,  *)
(* where a call changes what it names and nothing else, and a call that    *)
(* fails changes nothing, or, for a write on a full volume, only the file. *)
(***************************************************************************)
EXTENDS Integers, Sequences

CONSTANTS
  Path,         (* the paths in use                                         *)
  Value,        (* what users write, a unit at a time                       *)
  Unit(_),      (* the unit of data that holds a value                      *)
  Sizes,        (* bound: the sizes files are truncated to                  *)
  Writes,       (* bound: the offsets and lengths of writes                 *)
  Filler        (* units that may fill a gap: zeros, or what the file held  *)

Mode == {"replace", "exchange", "no_replace"}

VARIABLES
  tree,         (* for each path, the node there                            *)
  res           (* the last call: [op, path, arg, st]                       *)

vars == <<tree, res>>

Nothing == [kind |-> "nothing"]

Folder == [kind |-> "dir"]

File(data) == [kind |-> "file", data |-> data]

Init ==
  /\ tree = [p \in Path |-> Nothing]
  /\ res = [op |-> "mount", path |-> <<>>, arg |-> <<>>, st |-> "ok"]

Call(op, path, arg, st) == res' = [op |-> op, path |-> path, arg |-> arg, st |-> st]

Node(p) == IF p \in Path THEN tree[p] ELSE Nothing

Parent(p) == SubSeq(p, 1, Len(p) - 1)

Below(p) == {q \in Path : Parent(q) = p}

Empty(p) == \A q \in Below(p) : tree[q] = Nothing

CanHold(p) == Parent(p) # <<>> => Node(Parent(p)) = Folder

(* The data with n units of x from offset on, in a file of that many units. *)
Overlay(data, offset, n, x) ==
  [i \in 1 .. (IF n > 0 /\ offset + n > Len(data) THEN offset + n ELSE Len(data)) |->
     IF offset < i /\ i <= offset + n THEN Unit(x) ELSE data[i]]

Gap(data, length) == [1 .. (IF length > Len(data) THEN length - Len(data) ELSE 0) -> Filler]

-----------------------------------------------------------------------------
Make(op, p, node) ==
  /\ Call(op, p, <<>>, "ok")
  /\ tree[p] = Nothing /\ CanHold(p)
  /\ tree' = [tree EXCEPT ![p] = node]

Unlink(p) ==
  /\ Call("unlink", p, <<>>, "ok")
  /\ tree[p].kind = "file"
  /\ tree' = [tree EXCEPT ![p] = Nothing]

Rmdir(p) ==
  /\ Call("rmdir", p, <<>>, "ok")
  /\ tree[p] = Folder /\ Empty(p)
  /\ tree' = [tree EXCEPT ![p] = Nothing]

Write(p, offset, n, x) ==
  /\ Call("write", p, <<offset, n, x>>, "ok")
  /\ tree[p].kind = "file"
  /\ \E gap \in Gap(tree[p].data, offset) :
       tree' = [tree EXCEPT ![p].data = Overlay(@ \o gap, offset, n, x)]

(* Part of the data may be there, and the file may reach one unit past the  *)
(* offset it could not be written at.                                       *)
WriteFails(p, offset, n, x) ==
  /\ Call("write", p, <<offset, n, x>>, "failed")
  /\ tree[p].kind = "file"
  /\ \E length \in {Len(tree[p].data), offset + 1}, written \in 0 .. n - 1 :
       /\ length >= Len(tree[p].data)
       /\ written > 0 => length >= offset
       /\ \E gap \in Gap(tree[p].data, length) :
            tree' = [tree EXCEPT ![p].data =
                       SubSeq(Overlay(@ \o gap, offset, written, x), 1, length)]

Truncate(p, n) ==
  /\ Call("truncate", p, <<n>>, "ok")
  /\ tree[p].kind = "file"
  /\ \E gap \in Gap(tree[p].data, n) :
       tree' = [tree EXCEPT ![p].data = SubSeq(@ \o gap, 1, n)]

Within(path, p) == Len(path) >= Len(p) /\ SubSeq(path, 1, Len(p)) = p

(* What is at a path at or below q once what was at p has moved to q. *)
Moved(path, p, q) == Node(p \o SubSeq(path, Len(q) + 1, Len(path)))

(* What was at the target, a file or a whole directory, is gone. *)
Rename(from, to, mode) ==
  /\ Call("rename", from, <<to, mode>>, "ok")
  /\ tree[from] # Nothing /\ CanHold(to)
  /\ ~Within(from, to) /\ ~Within(to, from)
  /\ mode = "exchange" => tree[to] # Nothing
  /\ mode = "no_replace" => tree[to] = Nothing
  /\ tree' = [q \in Path |->
                CASE Within(q, to) -> Moved(q, from, to)
                  [] Within(q, from) ->
                       IF mode = "exchange" THEN Moved(q, to, from) ELSE Nothing
                  [] OTHER -> tree[q]]

(* Any call but a write may fail, and then leaves the tree as it was. *)
Fail(op, p, arg) ==
  /\ Call(op, p, arg, "failed")
  /\ UNCHANGED tree

Next ==
  \E p \in Path :
    \/ Make("mknod", p, File(<<>>))
    \/ Make("mkdir", p, Folder)
    \/ Unlink(p)
    \/ Rmdir(p)
    \/ \E op \in {"mknod", "mkdir", "unlink", "rmdir"} : Fail(op, p, <<>>)
    \/ \E w \in Writes, x \in Value :
         Write(p, w[1], w[2], x) \/ WriteFails(p, w[1], w[2], x)
    \/ \E n \in Sizes : Truncate(p, n) \/ Fail("truncate", p, <<n>>)
    \/ \E to \in Path, mode \in Mode :
         Rename(p, to, mode) \/ Fail("rename", p, <<to, mode>>)

Spec == Init /\ [][Next]_vars
=============================================================================
