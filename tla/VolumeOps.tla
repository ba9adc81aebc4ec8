----------------------------- MODULE VolumeOps -----------------------------
(***************************************************************************)
(* The operations of libfatx on a mounted volume, as operators from a      *)
(* volume (and arguments) to a result: what the call returns and the       *)
(* volume it leaves.  fatx_fat.c, fatx_dir.c, fatx_attr.c, fatx_file.c.    *)
(*                                                                         *)
(* A volume v has                                                          *)
(*   v.fat[c]      the FAT entry of cluster c, through the FAT cache,      *)
(*                 which FatCache shows to be an array of entries;         *)
(*   v.slot[c][e]  what is at the e-th directory-entry-sized block of      *)
(*                 cluster c, whoever owns c;                              *)
(*   v.cursor      where fatx_alloc_cluster resumes its scan;              *)
(*   v.log         the writes of the call so far, in order: to the cached  *)
(*                 FAT, or through to the device.                          *)
(*                                                                         *)
(* A cluster has N blocks.  One block is one directory entry or one unit   *)
(* of file data: sizes and offsets count units.  The block after the last  *)
(* of a cluster is the first of the next one on the device: v.slot has one *)
(* cluster more than the data area, for what follows it.                   *)
(*                                                                         *)
(* Paths are sequences of one or two names: the root holds files and       *)
(* directories, which hold files.  The device does not fail here.          *)
(***************************************************************************)
EXTENDS Naturals, Sequences, FiniteSetsExt, Functions

CONSTANTS
  D,            (* clusters of the data area: num_clusters - 1              *)
  N,            (* bytes_per_cluster, in directory entries                  *)
  Stale         (* the unit of data free clusters hold from an earlier life *)

ASSUME OpsAssumption ==
  /\ D \in Nat \ {0}
  /\ N \in Nat \ {0, 1}

Cluster == 1 .. D

Root == 1                       (* fs->root_cluster *)

Basename(path) == path[Len(path)]

Dirname(path) == SubSeq(path, 1, Len(path) - 1)

-----------------------------------------------------------------------------
(* FAT entries: AVAILABLE, END, or DATA, the number of the next cluster. *)
Available == 0

End == D + 1

Entry == Cluster \cup {Available, End}

(* Blocks: the markers of filename_len, a live directory entry, or a unit   *)
(* of file data, which when read as an entry has a name no path has.        *)
Blank == [kind |-> "blank"]            (* 0x00, FATX_END_OF_DIR_MARKER2 *)

EndMark == [kind |-> "end"]            (* 0xff, FATX_END_OF_DIR_MARKER  *)

DeletedMark == [kind |-> "deleted"]    (* 0xe5, FATX_DELETED_FILE_MARKER *)

Unit(x) == [kind |-> "data", val |-> x]

Garbage == [e \in 0 .. N - 1 |-> Unit(Stale)]

Dirent(name, isDir, first, size) ==
  [kind |-> "live", name |-> name, isDir |-> isDir, first |-> first, size |-> size]

Place(c, e) == [cluster |-> c, entry |-> e]

Places == [cluster : Cluster, entry : 0 .. N - 1]

(* fatx_dev_seek_cluster(cluster, entry): the entry may be past the cluster. *)
At(v, p) == v.slot[p.cluster + (p.entry \div N)][p.entry % N]

(* fatx_write_fat leaves an entry in the cache; fatx_dev_write goes to the  *)
(* device.                                                                  *)
FatWrite(c, e) == [to |-> "fat", cluster |-> c, entry |-> e]

DevWrite(c, blocks) == [to |-> "device", cluster |-> c, blocks |-> blocks]

Applied(v, w) ==
  IF w.to = "fat" THEN [v EXCEPT !.fat[w.cluster] = w.entry]
  ELSE [v EXCEPT !.slot[w.cluster] = w.blocks]

Do(v, w) == [Applied(v, w) EXCEPT !.log = Append(@, w)]

(* fatx_write_dir and fatx_mark_dir_entry *)
Put(v, p, block) ==
  LET c == p.cluster + (p.entry \div N)
  IN  Do(v, DevWrite(c, [v.slot[c] EXCEPT ![p.entry % N] = block]))

-----------------------------------------------------------------------------
(* fatx_get_next_cluster: 0 for its error, the entry is not DATA. *)
NextCluster(v, c) == IF v.fat[c] \in Cluster THEN v.fat[c] ELSE 0

(* The clusters of the chain that starts at c, in order, up to the first    *)
(* one whose entry is not DATA (or, were there a cycle, D of them).         *)
Chain(v, c) ==
  LET from[x \in Cluster \X (1 .. D)] ==
        LET next == NextCluster(v, x[1])
        IN  <<x[1]>> \o (IF next # 0 /\ x[2] > 1 THEN from[<<next, x[2] - 1>>] ELSE <<>>)
  IN  from[<<c, D>>]

ChainSet(v, c) == Range(Chain(v, c))

(* fatx_free_cluster_chain: the clusters keep what they hold. *)
FreeChain(v, c) ==
  LET chain == Chain(v, c)
  IN  [v EXCEPT !.fat = [d \in Cluster |-> IF d \in Range(chain) THEN Available ELSE @[d]],
                !.log = @ \o [i \in DOMAIN chain |-> FatWrite(chain[i], Available)]]

(* Mutant: the last cluster kept still names the first one freed. *)
MarkNoEnd(v, c) == v

(* fatx_mark_cluster_end *)
MarkEnd(v, c) == Do(v, FatWrite(c, End))

(* Mutant: the scan resumes after the cluster that was taken. *)
TakeAndMoveOn(v, c) == [MarkEnd(v, c) EXCEPT !.cursor = c + 1]

Take(v, c) == [MarkEnd(v, c) EXCEPT !.cursor = c]

(* Mutant: the cluster is not cleared. *)
ClearNothing(v, c) == v

Clear(v, c) == Do(v, DevWrite(c, [e \in 0 .. N - 1 |-> Blank]))

(* The scan of fatx_alloc_cluster: from the cursor round to it (FatAlloc). *)
NextFree(cursor, free) ==
  Min(IF \E c \in free : c >= cursor THEN {c \in free : c >= cursor} ELSE free)

(* fatx_alloc_cluster *)
AllocCluster(v, zero) ==
  LET free == {c \in 2 .. D : v.fat[c] = Available}
      c    == NextFree(v.cursor, free)
  IN  IF free = {} THEN [st |-> "error", v |-> v, cluster |-> 0]
      ELSE [st |-> "ok", cluster |-> c,
            v |-> IF zero THEN Clear(Take(v, c), c) ELSE Take(v, c)]

(* Mutant: the tail is not linked to the new cluster. *)
AttachNothing(v, tail, c) == [st |-> "ok", v |-> v, cluster |-> c]

(* fatx_attach_cluster *)
AttachCluster(v, tail, c) ==
  IF v.fat[tail] # End THEN [st |-> "error", v |-> v, cluster |-> c]
  ELSE [st |-> "ok", v |-> MarkEnd(Do(v, FatWrite(tail, c)), c), cluster |-> c]

(* Allocate a cluster and attach it to the tail of a chain. *)
Extend(v, tail, zero) ==
  LET a == AllocCluster(v, zero)
  IN  IF a.st # "ok" THEN a ELSE AttachCluster(a.v, tail, a.cluster)

(* One step down a chain, or past its end into a new cluster: the loops of  *)
(* fatx_find_cluster_for_file_offset_alloc, which insists that the tail is  *)
(* marked END, and of fatx_truncate, which does not look.                   *)
Onward(p, checked) ==
  IF p.st # "ok" THEN p
  ELSE IF NextCluster(p.v, p.cluster) # 0
       THEN [p EXCEPT !.cluster = NextCluster(p.v, p.cluster)]
  ELSE IF checked /\ p.v.fat[p.cluster] # End THEN [p EXCEPT !.st = "error"]
  ELSE Extend(p.v, p.cluster, TRUE)

(* The cluster k steps down the chain from c. *)
Follow(v, c, k, checked) ==
  LET step[i \in 0 .. k] ==
        IF i = 0 THEN [st |-> "ok", v |-> v, cluster |-> c] ELSE Onward(step[i - 1], checked)
  IN  step[k]

-----------------------------------------------------------------------------
(* fatx_next_dir_entry: an error leaves the place past its cluster. *)
NextDirEntry(v, p) ==
  IF p.entry + 1 < N THEN [st |-> "ok", at |-> Place(p.cluster, p.entry + 1)]
  ELSE IF NextCluster(v, p.cluster) # 0
       THEN [st |-> "ok", at |-> Place(NextCluster(v, p.cluster), 0)]
  ELSE [st |-> "error", at |-> Place(p.cluster, p.entry + 1)]

(* The status fatx_read_dir returns for a block. *)
ReadDir(block) ==
  CASE block.kind \in {"end", "blank"} -> "end_of_dir"
    [] block.kind = "deleted" -> "file_deleted"
    [] OTHER -> "ok"

Named(v, name) == {q \in Places : At(v, q).kind = "live" /\ At(v, q).name = name}

(* What a scan has come to: "on" at the next place; or at one that is      *)
(* wanted ("ok"), at the end of the directory ("not_found"), or past the    *)
(* end of a chain with no end marker ("error").                             *)
Onto(next) == IF next.st = "ok" THEN [next EXCEPT !.st = "on"] ELSE next

Look(v, q, wanted) ==
  IF q \in wanted THEN [st |-> "ok", at |-> q]
  ELSE IF ReadDir(At(v, q)) = "end_of_dir" THEN [st |-> "not_found", at |-> q]
  ELSE Onto(NextDirEntry(v, q))

Looks ==
  [st : {"on", "ok", "not_found", "error"}, at : [cluster : Cluster, entry : Nat]]

(* The scan every lookup makes: from p on, over occupied and deleted        *)
(* entries.  No directory has more entries than the volume, so it is over   *)
(* by then, unless its chain is a cycle.                                    *)
Scan(v, p, wanted) ==
  LET from[x \in Looks \X (0 .. D * N)] ==
        IF x[1].st = "on" /\ x[2] > 0 THEN from[<<Look(v, x[1].at, wanted), x[2] - 1>>]
        ELSE x[1]
  IN  from[<<[st |-> "on", at |-> p], D * N>>]

(* The component is found; or the scan ran off a root without end marker,   *)
(* and the loop is left as if it had been, at the place where it stopped.   *)
Enter(v, s) ==
  CASE s.st = "ok" -> [st |-> "ok", at |-> Place(At(v, s.at).first, 0)]
    [] s.st = "not_found" -> s
    [] s.st = "error" -> [s EXCEPT !.st = "ok"]

(* fatx_open_dir: the root, or a directory in the root. *)
OpenDir(v, path) ==
  IF path = <<>> THEN [st |-> "ok", at |-> Place(Root, 0)]
  ELSE Enter(v, Scan(v, Place(Root, 0), {q \in Named(v, path[1]) : At(v, q).isDir}))

(* fatx_open_dir of the directory part, then the loop of fatx_get_attr_dir  *)
(* (fatx_unlink has its own copy of it): where the entry of a path is.      *)
Locate(v, path) ==
  LET d == OpenDir(v, Dirname(path))
  IN  IF d.st # "ok" THEN d ELSE Scan(v, d.at, Named(v, Basename(path)))

(* fatx_get_attr *)
GetAttr(v, path) ==
  LET l == Locate(v, path)
  IN  IF l.st = "ok" THEN [st |-> "ok", attr |-> At(v, l.at)] ELSE [st |-> l.st]

(* fatx_set_attr *)
SetAttr(v, path, attr) ==
  LET l == Locate(v, path)
  IN  IF l.st = "ok" THEN [st |-> "ok", v |-> Put(v, l.at, attr)] ELSE [st |-> l.st, v |-> v]

-----------------------------------------------------------------------------
(* Mutant: deleted entries are not used again. *)
AllocDirEntryAtEnd(v, p) ==
  LET s == Scan(v, Place(p.cluster, 0), {})
  IN  IF s.st = "error" THEN [st |-> "error", v |-> v, at |-> s.at]
      ELSE [st |-> "ok", v |-> Put(v, Place(s.at.cluster, s.at.entry + 1), EndMark), at |-> s.at]

(* A chain with no end marker is extended by a cluster, and the entry       *)
(* handed out is the one past the end of the old one.                       *)
GrowDir(x, at) ==
  IF x.st # "ok" THEN [st |-> x.st, v |-> x.v, at |-> at]
  ELSE [st |-> "ok", v |-> Put(x.v, Place(x.cluster, 0), EndMark), at |-> at]

(* A deleted entry is used again; the end marker is moved one entry on, out *)
(* of the cluster when it was in its last entry.                            *)
TakeDirEntry(v, s) ==
  CASE s.st = "ok" -> [st |-> "ok", v |-> v, at |-> s.at]
    [] s.st = "not_found" ->
         [st |-> "ok", v |-> Put(v, Place(s.at.cluster, s.at.entry + 1), EndMark), at |-> s.at]
    [] s.st = "error" -> GrowDir(Extend(v, s.at.cluster, TRUE), s.at)

(* fatx_alloc_dir_entry *)
AllocDirEntry(v, p) ==
  TakeDirEntry(v, Scan(v, Place(p.cluster, 0), {q \in Places : At(v, q).kind = "deleted"}))

(* fatx_create_dirent: when no entry is left, the cluster is given back. *)
FillDirEntry(e, name, isDir, c) ==
  IF e.st # "ok" THEN [st |-> e.st, v |-> FreeChain(e.v, c)]
  ELSE [st |-> "ok", v |-> Put(e.v, e.at, Dirent(name, isDir, c, 0))]

CreateDirent(v, path, dir, isDir) ==
  LET a == AllocCluster(v, TRUE)
  IN  IF a.st # "ok" THEN [st |-> a.st, v |-> v]
      ELSE FillDirEntry(AllocDirEntry(a.v, dir), Basename(path), isDir, a.cluster)

(* The node that fatx_mknod and fatx_mkdir create. *)
Create(v, path, isDir) ==
  LET d == OpenDir(v, Dirname(path))
  IN  IF GetAttr(v, path).st = "ok" THEN [st |-> "error", v |-> v]
      ELSE IF d.st # "ok" THEN [st |-> d.st, v |-> v]
      ELSE CreateDirent(v, path, d.at, isDir)

(* fatx_mknod *)
Mknod(v, path) == Create(v, path, FALSE)

(* fatx_mkdir: the new directory is opened by its path and marked empty. *)
MarkEmpty(v, d) ==
  IF d.st # "ok" THEN [st |-> d.st, v |-> v] ELSE [st |-> "ok", v |-> Put(v, d.at, EndMark)]

Mkdir(v, path) ==
  LET c == Create(v, path, TRUE)
  IN  IF c.st # "ok" THEN c ELSE MarkEmpty(c.v, OpenDir(c.v, path))

(* Mutant: the chain is kept. *)
UnlinkKeepsChain(v, path) ==
  LET l == Locate(v, path)
  IN  IF l.st # "ok" THEN [st |-> l.st, v |-> v]
      ELSE [st |-> "ok", v |-> Put(v, l.at, DeletedMark)]

(* fatx_unlink: whatever the entry is, its chain is freed. *)
Unlink(v, path) ==
  LET l == Locate(v, path)
  IN  IF l.st # "ok" THEN [st |-> l.st, v |-> v]
      ELSE [st |-> "ok", v |-> Put(FreeChain(v, At(v, l.at).first), l.at, DeletedMark)]

(* Mutant: a deleted entry counts as something in the directory. *)
RmdirNeverUsed(v, path) ==
  LET d == OpenDir(v, path)
  IN  IF d.st # "ok" THEN [st |-> d.st, v |-> v]
      ELSE IF ReadDir(At(v, d.at)) # "end_of_dir" THEN [st |-> "end_of_dir", v |-> v]
      ELSE Unlink(v, path)

(* fatx_rmdir: the directory must have nothing but deleted entries before   *)
(* an end marker; one with no end marker cannot be removed.                 *)
Rmdir(v, path) ==
  LET d == OpenDir(v, path)
      s == Scan(v, d.at, {q \in Places : ReadDir(At(v, q)) = "ok"})
  IN  IF d.st # "ok" THEN [st |-> d.st, v |-> v]
      ELSE CASE s.st = "ok" -> [st |-> "end_of_dir", v |-> v]
             [] s.st = "error" -> [st |-> "error", v |-> v]
             [] s.st = "not_found" -> Unlink(v, path)

-----------------------------------------------------------------------------
(* fatx_read of the whole file: the units of its chain, up to its size. *)
Read(v, attr) ==
  LET chain == Chain(v, attr.first)
  IN  [i \in 1 .. Min({attr.size, N * Len(chain)}) |->
         v.slot[chain[((i - 1) \div N) + 1]][(i - 1) % N]]

(* The chain ends at f.cluster; what followed is freed. *)
CutChain(f) ==
  LET rest == NextCluster(f.v, f.cluster)
  IN  MarkEnd(IF rest # 0 THEN FreeChain(f.v, rest) ELSE f.v, f.cluster)

Resize(f, path, attr, n) ==
  IF f.st # "ok" THEN [st |-> f.st, v |-> f.v]
  ELSE SetAttr(CutChain(f), path, [attr EXCEPT !.size = n])

(* fatx_truncate to n units: at least one cluster is kept. *)
Truncate(v, path, n) ==
  LET a == GetAttr(v, path)
      k == IF n = 0 THEN 0 ELSE (n - 1) \div N
  IN  IF a.st # "ok" THEN [st |-> a.st, v |-> v]
      ELSE Resize(Follow(v, a.attr.first, k, FALSE), path, a.attr, n)

(* Mutant: the first unit is left out. *)
PutUnitsLate(v, c, from, to, x) ==
  Do(v, DevWrite(c, [e \in 0 .. N - 1 |->
                       IF from < e /\ e < to THEN Unit(x) ELSE v.slot[c][e]]))

(* One block of the data a write puts into cluster c: units from..to-1. *)
PutUnits(v, c, from, to, x) ==
  Do(v, DevWrite(c, [e \in 0 .. N - 1 |->
                       IF from <= e /\ e < to THEN Unit(x) ELSE v.slot[c][e]]))

(* The next cluster of the chain, or a new one, cleared only if the `left'  *)
(* units still to be written do not fill it.                                *)
NextToWrite(p, left) ==
  IF NextCluster(p.v, p.cluster) # 0
  THEN [p EXCEPT !.cluster = NextCluster(p.v, p.cluster)]
  ELSE Extend(p.v, p.cluster, left < N)

Filled(p, from, to, x) ==
  IF p.st # "ok" THEN p ELSE [p EXCEPT !.v = PutUnits(p.v, p.cluster, from, to, x)]

WriteNext(p, to, x) ==
  IF p.st # "ok" THEN p ELSE Filled(NextToWrite(p, to), 0, Min({N, to}), x)

(* The loop of fatx_write over the clusters that units from..to-1, counted  *)
(* from the start of the cluster `first', lie in.                           *)
WriteUnits(v, first, from, to, x) ==
  LET step[i \in 0 .. (to - 1) \div N] ==
        IF i = 0 THEN Filled([st |-> "ok", v |-> v, cluster |-> first], from, Min({N, to}), x)
        ELSE WriteNext(step[i - 1], to - i * N, x)
  IN  step[(to - 1) \div N]

(* The size is updated when all the data is written. *)
GrowSize(w, path, attr, size) ==
  IF w.st # "ok" THEN [st |-> w.st, v |-> w.v]
  ELSE IF size > attr.size THEN SetAttr(w.v, path, [attr EXCEPT !.size = size])
  ELSE [st |-> "ok", v |-> w.v]

(* A cluster that cannot be found for the offset: 0 units are written. *)
WriteAt(f, path, attr, offset, n, x) ==
  IF f.st # "ok" THEN [st |-> "nothing_written", v |-> f.v]
  ELSE GrowSize(WriteUnits(f.v, f.cluster, offset % N, (offset % N) + n, x),
                path, attr, offset + n)

WriteInto(t, path, a, offset, n, x) ==
  IF t.st # "ok" THEN t
  ELSE IF a.st # "ok" THEN [st |-> a.st, v |-> t.v]
  ELSE WriteAt(Follow(t.v, a.attr.first, offset \div N, TRUE), path, a.attr, offset, n, x)

Written(t, path, offset, n, x) == WriteInto(t, path, GetAttr(t.v, path), offset, n, x)

(* fatx_write: an offset past the end first extends the file. *)
Write(v, path, offset, n, x) ==
  LET a == GetAttr(v, path)
  IN  IF a.st # "ok" THEN [st |-> a.st, v |-> v]
      ELSE IF offset > a.attr.size THEN Written(Truncate(v, path, offset + 1), path, offset, n, x)
      ELSE Written([st |-> "ok", v |-> v], path, offset, n, x)

-----------------------------------------------------------------------------
(* Mutant: only the second entry is written. *)
AtomicSwapHalf(v, from, to) ==
  LET l1 == Locate(v, from)
      l2 == Locate(v, to)
  IN  IF l1.st # "ok" THEN [st |-> l1.st, v |-> v]
      ELSE IF l2.st # "ok" THEN [st |-> l2.st, v |-> v]
      ELSE [st |-> "ok", v |-> Put(v, l2.at, [At(v, l1.at) EXCEPT !.name = Basename(to)])]

(* Mutant: the first place first. *)
SwapAtFirst(v, p, q, from, to) ==
  Put(Put(v, p, [At(v, q) EXCEPT !.name = Basename(from)]),
      q, [At(v, p) EXCEPT !.name = Basename(to)])

(* Each entry is overwritten with the other's attributes under its own      *)
(* name, the second place first.                                            *)
SwapAt(v, p, q, from, to) ==
  Put(Put(v, q, [At(v, p) EXCEPT !.name = Basename(to)]),
      p, [At(v, q) EXCEPT !.name = Basename(from)])

(* fatx_attr_atomic_swap *)
AtomicSwap(v, from, to) ==
  LET l1 == Locate(v, from)
      l2 == Locate(v, to)
  IN  IF l1.st # "ok" THEN [st |-> l1.st, v |-> v]
      ELSE IF l2.st # "ok" THEN [st |-> l2.st, v |-> v]
      ELSE [st |-> "ok", v |-> SwapAt(v, l1.at, l2.at, from, to)]

(* Across directories: the entries are swapped, then the one left at the    *)
(* old path is unlinked.                                                    *)
SwapAndUnlink(v, from, to) ==
  LET s == AtomicSwap(v, from, to)
  IN  IF s.st # "ok" THEN s ELSE Unlink(s.v, from)

(* Within a directory the entry changes its name. *)
SetName(r, path, attr, name) ==
  IF r.st # "ok" THEN r ELSE SetAttr(r.v, path, [attr EXCEPT !.name = name])

(* Nothing is at the target: across directories a placeholder is made. *)
Move(v, m, from, to, attr) ==
  IF Dirname(from) = Dirname(to)
  THEN SetName([st |-> "ok", v |-> v], from, attr, Basename(to))
  ELSE IF m.st # "ok" THEN m
  ELSE SwapAndUnlink(m.v, from, to)

(* Mutant: the entry is renamed before the one it replaces is removed. *)
ReplaceRenamesFirst(v, from, to, attr) ==
  IF Dirname(from) = Dirname(to)
  THEN LET l == Locate(v, to)
       IN  [st |-> "ok",
            v |-> Put(FreeChain(SetName([st |-> "ok", v |-> v], from, attr, Basename(to)).v,
                                At(v, l.at).first), l.at, DeletedMark)]
  ELSE SwapAndUnlink(v, from, to)

(* Something is at the target. *)
Replace(v, from, to, attr) ==
  IF Dirname(from) = Dirname(to) THEN SetName(Unlink(v, to), from, attr, Basename(to))
  ELSE SwapAndUnlink(v, from, to)

(* fatx_rename; mode is "replace", "exchange" or "no_replace". *)
Rename(v, from, to, mode) ==
  LET a == GetAttr(v, from)
      b == GetAttr(v, to)
      refused == [st |-> "error", v |-> v]
  IN  IF a.st # "ok" THEN [st |-> a.st, v |-> v]
      ELSE CASE b.st = "not_found" ->
                  IF mode = "exchange" THEN refused ELSE Move(v, Mknod(v, to), from, to, a.attr)
             [] b.st = "ok" ->
                  IF mode = "no_replace" THEN refused
                  ELSE IF mode = "exchange" THEN AtomicSwap(v, from, to)
                  ELSE Replace(v, from, to, a.attr)
             [] b.st = "error" -> refused
=============================================================================
