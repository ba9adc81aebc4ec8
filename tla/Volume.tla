------------------------------- MODULE Volume -------------------------------
(***************************************************************************)
(* A mounted FATX volume under the calls its users make: each step is one  *)
(* call of the library, which runs to completion (fatxfs is                *)
(* single-threaded), on a volume formatted by this library.                *)
(***************************************************************************)
EXTENDS VolumeOps

CONSTANTS
  Name,         (* the file names in use                                    *)
  Path,         (* the paths in use                                         *)
  Value,        (* units of file data a user may write                      *)
  Sizes,        (* bound: the sizes files are truncated to                  *)
  Writes,       (* bound: the offsets and lengths of writes                 *)
  Kernel        (* do callers look before they call, as the kernel does?    *)

ASSUME VolumeAssumption ==
  /\ Path \subseteq {<<n>> : n \in Name} \cup {<<m, n>> : m, n \in Name}
  /\ Sizes \subseteq Nat
  /\ Writes \subseteq Nat \X (Nat \ {0})
  /\ Stale \notin Value
  /\ Kernel \in BOOLEAN

(* The directory of a path in use is at a path in use, and what has a name  *)
(* in use below one directory has it below every other.                     *)
PathsClosed ==
  \A m, n \in Name :
    <<m, n>> \in Path => <<m>> \in Path /\ \A d \in Name : <<d>> \in Path => <<d, n>> \in Path

VARIABLES
  vol,          (* the volume: fat, slot and cursor (VolumeOps)       *)
  res           (* the last call: [op, path, arg, st]                 *)

vars == <<vol, res>>

(* fatx_disk_format_partition: the FAT is cleared and the root filled with  *)
(* 0xff; the other clusters keep what they held.                            *)
Formatted ==
  [fat |-> [c \in Cluster |-> IF c = Root THEN End ELSE Available],
   slot |-> [c \in 1 .. D + 1 |->
               IF c = Root THEN [e \in 0 .. N - 1 |-> EndMark] ELSE Garbage],
   cursor |-> 2,
   log |-> <<>>]

Init ==
  /\ vol = Formatted
  /\ res = [op |-> "mount", path |-> <<>>, arg |-> <<>>, st |-> "ok"]

(* What a free cluster holds is forgotten, and called Stale.  *)
Forget(v) ==
  [v EXCEPT !.slot = [c \in DOMAIN @ |->
                        IF c \in Cluster /\ v.fat[c] = Available THEN Garbage ELSE @[c]],
            !.log = <<>>]

(* A call that runs to its end, with its arguments and what it came to.     *)
(* Callers see a status other than success as a failure.                    *)
Call(op, path, arg, r) ==
  /\ vol' = Forget(r.v)
  /\ res' = [op |-> op, path |-> path, arg |-> arg,
             st |-> IF r.st = "ok" THEN "ok" ELSE "failed"]

-----------------------------------------------------------------------------
(* What the kernel has looked up with getattr before it passes a call on.   *)
(* fatxfs reports a missing file only when fatx_get_attr does.              *)
IsFile(p) == GetAttr(vol, p).st = "ok" /\ ~GetAttr(vol, p).attr.isDir

IsDir(p) == GetAttr(vol, p).st = "ok" /\ GetAttr(vol, p).attr.isDir

Missing(p) == GetAttr(vol, p).st = "not_found"

Exists(p) == GetAttr(vol, p).st = "ok"

ParentIsDir(p) == Len(p) = 2 => IsDir(Dirname(p))

(* One path is the other, or is inside it. *)
Nested(p, q) == Dirname(p) = q \/ Dirname(q) = p \/ p = q

MayCreate(path) == Kernel => Missing(path) /\ ParentIsDir(path)

MayMakeDir(path) == Len(path) = 1 /\ (Kernel => Missing(path))

MayChange(path) == Kernel => IsFile(path) /\ ParentIsDir(path)

MayRemoveDir(path) == Len(path) = 1 /\ (Kernel => IsDir(path))

(* Bound: a directory stays in the root. *)
MayRename(from, to, mode) ==
  /\ IsDir(from) => Len(to) = 1
  /\ IsDir(to) => Len(from) = 1
  /\ Kernel =>
       /\ ~Nested(from, to)
       /\ ParentIsDir(from) /\ ParentIsDir(to)
       /\ Exists(from)
       /\ CASE mode = "replace" -> ~Missing(to) => Exists(to) /\ (IsDir(to) <=> IsDir(from))
            [] mode = "no_replace" -> Missing(to)
            [] mode = "exchange" -> Exists(to)

Modes == {"replace", "exchange", "no_replace"}

-----------------------------------------------------------------------------
CreateNode(path) == MayCreate(path) /\ Call("mknod", path, <<>>, Mknod(vol, path))

MakeDir(path) == MayMakeDir(path) /\ Call("mkdir", path, <<>>, Mkdir(vol, path))

RemoveFile(path) == MayChange(path) /\ Call("unlink", path, <<>>, Unlink(vol, path))

RemoveDir(path) == MayRemoveDir(path) /\ Call("rmdir", path, <<>>, Rmdir(vol, path))

WriteFile(path, offset, n, x) ==
  MayChange(path) /\ Call("write", path, <<offset, n, x>>, Write(vol, path, offset, n, x))

TruncateFile(path, n) ==
  MayChange(path) /\ Call("truncate", path, <<n>>, Truncate(vol, path, n))

RenameNode(from, to, mode) ==
  MayRename(from, to, mode) /\ Call("rename", from, <<to, mode>>, Rename(vol, from, to, mode))

Next ==
  \/ \E path \in Path :
       \/ CreateNode(path) \/ MakeDir(path) \/ RemoveFile(path) \/ RemoveDir(path)
       \/ \E n \in Sizes : TruncateFile(path, n)
       \/ \E w \in Writes, x \in Value : WriteFile(path, w[1], w[2], x)
  \/ \E from, to \in Path, mode \in Modes : RenameNode(from, to, mode)

Spec == Init /\ [][Next]_vars

(* Invariants speak of vol and action properties of vol, vol' and res', so  *)
(* states that differ in res alone are one state to a run.                  *)
View == vol

-----------------------------------------------------------------------------
(* The sizes a file may come to: those asked for, and, when data cannot be  *)
(* written past its end, one unit more than the offset.                     *)
FileSize ==
  {0} \cup Sizes \cup {w[1] + w[2] : w \in Writes} \cup {w[1] + 1 : w \in Writes}

Block ==
  {Blank, EndMark, DeletedMark}
    \cup [kind : {"data"}, val : Value \cup {Stale}]
    \cup [kind : {"live"}, name : Name, isDir : BOOLEAN, first : Cluster \ {Root}, size : FileSize]

(* The volume is well formed: FAT entries stay in range, an entry of a      *)
(* directory names a cluster of the data area other than the root, sizes    *)
(* are those asked for, and the scan cursor stays on the volume (2, where   *)
(* that has nothing but a root).                                            *)
TypeOK ==
  /\ vol.fat \in [Cluster -> Entry]
  /\ vol.slot \in [1 .. D + 1 -> [0 .. N - 1 -> Block]]
  /\ vol.cursor \in {2} \cup (Cluster \ {Root})

-----------------------------------------------------------------------------
(* The entries of the directory that starts at cluster c: the live ones     *)
(* before the first end marker of its chain.                                *)
Spot(chain, i) == Place(chain[(i \div N) + 1], i % N)

Listing(v, c) ==
  LET chain == Chain(v, c)
      spots == 0 .. N * Len(chain) - 1
      ends  == {i \in spots : ReadDir(At(v, Spot(chain, i))) = "end_of_dir"}
      last  == IF ends = {} THEN N * Len(chain) ELSE Min(ends)
  IN  {Spot(chain, i) : i \in {j \in spots : j < last /\ At(v, Spot(chain, j)).kind = "live"}}

(* The first clusters of the directories of the volume. *)
Directories(v) ==
  {Root} \cup {At(v, p).first : p \in {q \in Listing(v, Root) : At(v, q).isDir}}

(* Every entry a user can reach. *)
Nodes(v) == UNION {Listing(v, c) : c \in Directories(v)}

FilesOf(v) == {p \in Nodes(v) : ~At(v, p).isDir}

ChainOf(v, p) == ChainSet(v, At(v, p).first)

FreeClusters(v) == {c \in Cluster : v.fat[c] = Available}

LostClusters(v) ==
  Cluster \ (FreeClusters(v) \cup ChainSet(v, Root) \cup UNION {ChainOf(v, p) : p \in Nodes(v)})

(* No cluster belongs to two entries, or to an entry and the root, and      *)
(* every chain is allocated to its last cluster, marked END: what           *)
(* fatx_unlink and fatx_truncate free is no one else's.                     *)
ChainsAreSound ==
  /\ \A p \in Nodes(vol) : Root \notin ChainOf(vol, p)
  /\ \A p, q \in Nodes(vol) : p # q => ChainOf(vol, p) \cap ChainOf(vol, q) = {}
  /\ \A p \in Nodes(vol) : \E c \in ChainOf(vol, p) : vol.fat[c] = End

(* A file has a cluster for each of its units, whatever writes, truncations *)
(* and full volumes it has been through: fatx_read never misses one.        *)
SizesFitChains ==
  \A p \in FilesOf(vol) : At(vol, p).size <= N * Len(Chain(vol, At(vol, p).first))

HasEnd(v, c) ==
  \E d \in ChainSet(v, c), e \in 0 .. N - 1 : ReadDir(At(v, Place(d, e))) = "end_of_dir"

(* No directory has two entries of one name, although fatx_create_dirent    *)
(* reuses deleted entries and fatx_rename overwrites names in place, and    *)
(* each keeps an end marker inside its own clusters, where the scans of     *)
(* fatx_get_attr_dir, fatx_unlink and fatx_rmdir stop.                      *)
DirectoriesAreSound ==
  \A c \in Directories(vol) :
    /\ \A p, q \in Listing(vol, c) : p # q => At(vol, p).name # At(vol, q).name
    /\ HasEnd(vol, c)

(* A user never reads what a cluster held in an earlier life, although      *)
(* fatx_write leaves clusters it is about to fill uncleared.                *)
NoStaleData ==
  \A p \in FilesOf(vol) : \A i \in DOMAIN Read(vol, At(vol, p)) :
    Read(vol, At(vol, p))[i] \in {Blank} \cup {Unit(x) : x \in Value}

(* A call that leaves a cluster allocated to no one is a rename that        *)
(* replaced a directory with something in it: fatx_unlink frees the         *)
(* directory's own chain and not those of its files.                        *)
ReplacesFullDir ==
  /\ res'.op = "rename"
  /\ \E p \in Listing(vol, Root) :
       /\ <<At(vol, p).name>> = res'.arg[1]
       /\ At(vol, p).isDir
       /\ Listing(vol, At(vol, p).first) # {}

ClustersAreNotLost ==
  [][LostClusters(vol') \subseteq LostClusters(vol) \/ ReplacesFullDir]_vars

(* A caller that looked first is refused only for want of room, or because  *)
(* the directory to remove holds something.                                 *)
FailuresMeanFull ==
  [][res'.st = "failed" =>
       \/ FreeClusters(vol') = {}
       \/ /\ res'.op = "rmdir"
          /\ \E p \in Listing(vol, Root) :
               <<At(vol, p).name>> = res'.path /\ Listing(vol, At(vol, p).first) # {}]_vars

(* Making a node leaves the files there are as they are: "pre-existing data *)
(* must be untouched".                                                      *)
NewNodesLeaveFilesAlone ==
  [][res'.op \in {"mknod", "mkdir"} =>
       \A p \in FilesOf(vol) :
         At(vol', p) = At(vol, p) /\ Read(vol', At(vol', p)) = Read(vol, At(vol, p))]_vars

(* What users see at a path. *)
NodeAt(p) ==
  LET g == GetAttr(vol, p)
  IN  IF g.st # "ok" THEN [kind |-> "nothing"]
      ELSE IF g.attr.isDir THEN [kind |-> "dir"]
      ELSE [kind |-> "file", data |-> Read(vol, g.attr)]

Tree == INSTANCE FileTree WITH
  tree <- [p \in Path |-> NodeAt(p)],
  Filler <- {Blank} \cup {Unit(x) : x \in Value},
  Unit <- Unit

(* The volume is a tree of files and directories in which each call does    *)
(* what it is asked, to what it names and to nothing else.                  *)
ImplementsFileTree == Tree!Spec
=============================================================================
