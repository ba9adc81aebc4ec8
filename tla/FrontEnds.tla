----------------------------- MODULE FrontEnds -----------------------------
(***************************************************************************)
(* The three programs that open or format a disk: fatxfs (C), fatx-fuse    *)
(* (Rust, mounts only) and pyfatx's command line (Python).  Each turns its *)
(* options into a region of the disk to open; fatxfs and pyfatx can also   *)
(* format the disk, partition after partition, write after write.          *)
(*                                                                         *)
(* Positions and sizes are sectors of 512 bytes.  Of a partition's FAT and *)
(* root directory the model keeps how far the present process has come     *)
(* with them: "old" is anything that was there when it started.  Any open, *)
(* read or write may fail, and the process may die between two of them.    *)
(* Bounds: the command lines in Requests, and MaxRuns processes.           *)
(***************************************************************************)
EXTENDS Integers, Sequences

CONSTANTS
  Requests,     (* the command lines given                                  *)
  Ends,         (* where the disk may end                                   *)
  Contents,     (* the superblocks it may start with, per drive             *)
  MaxRuns       (* how many processes are started                           *)

VARIABLES
  end,          (* of the disk                                              *)
  disk,         (* per drive: its superblock, FAT and root directory        *)
  request,      (* the command line of the process that ran last            *)
  phase,        (* what it is about to do; "none" once it is gone           *)
  at,           (* the partition it is formatting, counted from 1           *)
  dirty,        (* has the FAT cache something to write back?               *)
  retval,       (* what fatx_disk_format_partition is going to return       *)
  region,       (* what the process has open, when it has                   *)
  status,       (* how the last process ended                               *)
  runs,         (* how many there have been                                 *)
  before,       (* ghost: the disk it found                                 *)
  lost          (* ghost: drives whose FAT it closed without writing it     *)

vars == <<end, disk, request, phase, at, dirty, retval, region, status, runs, before, lost>>

None == "none"

NotGiven == -1  (* an offset or a size *)

Rest == -1      (* the size of a partition that runs to the end of the disk *)

Place(offset, size) == [offset |-> offset, size |-> size]

Refused == Place(0, 0)

(* fatx_partition_map *)
XboxMap ==
  [x |-> Place(1024, 1536000), y |-> Place(1537024, 1536000), z |-> Place(3073024, 1536000),
   c |-> Place(4609024, 1024000), e |-> Place(5633024, 10000048), f |-> Place(15633072, Rest)]

(* fatx_x360_partition_map *)
X360Map ==
  [sysext |-> Place(8782848, 422272), sysext2 |-> Place(9205120, 262144),
   compat |-> Place(9467264, 524288), data |-> Place(9991552, Rest)]

Drives == DOMAIN XboxMap

Retail == <<"x", "y", "z", "c", "e">>   (* the first FATX_RETAIL_PARTITION_COUNT *)

RetailClusterSize == 16384

ValidClusters == {1, 2, 4, 8, 16, 32, 64, 128, 256, 512, 1024}

FromSuperblock == 0             (* FATX_READ_FROM_SUPERBLOCK *)

NoRequest ==
  [tool |-> None, drive |-> None, name |-> None, variant |-> "auto", offset |-> NotGiven,
   size |-> NotGiven, format |-> None, confirm |-> FALSE, sector |-> 512, clusters |-> 0]

Superblocks == [variant : {None, "xbox", "x360"}, clusters : Nat, bytes : Nat]

NoSuperblock == [variant |-> None, clusters |-> 0, bytes |-> 0]

(* A superblock keeps the sectors of a cluster; the bytes it was meant to   *)
(* have are the model's. *)
Superblock(variant, clusters, sector) ==
  [variant |-> variant, clusters |-> clusters, bytes |-> clusters * sector]

ASSUME FrontEndsAssumption ==
  /\ Ends \subseteq Nat
  /\ MaxRuns \in Nat
  /\ \A r \in Requests :
       /\ r.tool \in {"fatxfs", "fatx-fuse", "pyfatx"}
       /\ r.format \in {None, "retail", "f-takes-all"}
       /\ r.confirm \in BOOLEAN
       /\ r.sector \in Nat /\ r.clusters \in Nat
  /\ Contents \subseteq [Drives -> Superblocks]
  /\ \A c \in Contents : \A d \in Drives :
       c[d].variant = None \/ c[d].bytes = RetailClusterSize \/ d = "f"

-----------------------------------------------------------------------------
LookUp(map, name) == IF name \in DOMAIN map THEN map[name] ELSE Refused

Drive(r, default) == IF r.drive = None THEN default ELSE r.drive

Manual(r) == r.offset # NotGiven \/ r.size # NotGiven

Complete(r) == r.offset # NotGiven /\ r.size # NotGiven

(* Mutant: an Xbox 360 disk is given a drive letter. *)
NameAsGiven(r) == r.name

(* "An Xbox 360 disk has no drive letters, so default it to the user        *)
(* content partition rather than to the original Xbox's 'c'."               *)
NameOrData(r) ==
  IF r.variant = "x360" /\ r.drive = None /\ r.name = None /\ ~Manual(r) THEN "data"
  ELSE r.name

(* main of fatxfs: which region its options name, if it takes them. *)
FatxfsRegion(r) ==
  CASE r.drive # None /\ r.name # None -> Refused
    [] Manual(r) -> IF r.drive = None /\ r.name = None /\ Complete(r)
                    THEN Place(r.offset, r.size) ELSE Refused
    [] ~Manual(r) /\ r.drive = None /\ NameOrData(r) # None -> LookUp(X360Map, NameOrData(r))
    [] OTHER -> LookUp(XboxMap, Drive(r, "c"))

(* main of fatx-fuse, where "data" takes the place of a drive letter too. *)
RustName(r) == IF r.name = None /\ r.variant = "x360" THEN "data" ELSE r.name

RustRegion(r) ==
  CASE Manual(r) -> IF Complete(r) THEN Place(r.offset, r.size) ELSE Refused
    [] ~Manual(r) /\ RustName(r) # None -> LookUp(X360Map, RustName(r))
    [] OTHER -> LookUp(XboxMap, Drive(r, "c"))

(* main of pyfatx and Fatx.__init__, whose map has no drive f, and which    *)
(* takes no notice of a size without an offset.                             *)
PythonName(r) ==
  IF r.name = None /\ r.variant = "x360" /\ r.offset = NotGiven THEN "data" ELSE r.name

PythonRegion(r) ==
  CASE r.name \notin {None} \cup DOMAIN X360Map -> Refused
    [] r.offset # NotGiven -> IF r.size # NotGiven THEN Place(r.offset, r.size) ELSE Refused
    [] r.offset = NotGiven /\ PythonName(r) # None -> LookUp(X360Map, PythonName(r))
    [] OTHER -> IF Drive(r, "c") = "f" THEN Refused ELSE LookUp(XboxMap, Drive(r, "c"))

Region(tool, r) ==
  CASE tool = "fatxfs" -> FatxfsRegion(r)
    [] tool = "fatx-fuse" -> RustRegion(r)
    [] tool = "pyfatx" -> PythonRegion(r)

(* What each program checks before it touches the disk. *)
Accepts(r) ==
  CASE r.tool = "fatxfs" -> FatxfsRegion(r) # Refused /\ (r.confirm <=> r.format # None)
    [] r.tool = "fatx-fuse" -> RustRegion(r) # Refused
    [] r.tool = "pyfatx" -> r.name \in {None} \cup DOMAIN X360Map

(* Fatx.format: a retail format, in sectors of 512 bytes. *)
Extended(r) == r.tool = "fatxfs" /\ r.format = "f-takes-all"

FormatSector == IF request.tool = "pyfatx" THEN 512 ELSE request.sector

(* The drives a format goes through, in its order. *)
Queue == IF Extended(request) THEN Append(Retail, "f") ELSE Retail

Here == Queue[at]

(* Mutant: the user's cluster size goes to every partition. *)
ClustersAsAsked(p) == request.clusters

(* "it is imperative that we do not let users configure the cluster size on *)
(* retail partitions"                                                       *)
ClustersOf(p) ==
  IF p = "f" THEN request.clusters ELSE RetailClusterSize \div FormatSector

(* fatx_init_superblock *)
NewSuperblock(p, old) ==
  IF ClustersOf(p) = FromSuperblock
  THEN Superblock(old.variant, old.clusters, FormatSector)
  ELSE Superblock("xbox", ClustersOf(p), FormatSector)

(* fatx_disk_size_remaining, rounded down to sectors. *)
Sized(rg, sector) ==
  IF rg.size = Rest
  THEN (end - rg.offset) - ((end - rg.offset) % (sector \div 512))
  ELSE rg.size

(* What fatx_open_device_ex asks of a region and its superblock; Geometry   *)
(* has the layout.                                                          *)
Sound(rg, sector, sb) ==
  /\ sector \in {512, 4096}
  /\ rg.offset % (sector \div 512) = 0
  /\ rg.size = Rest => rg.offset <= end
  /\ Sized(rg, sector) % (sector \div 512) = 0
  /\ sb.variant # None
  /\ sb.clusters \in ValidClusters
  /\ Sized(rg, sector) >= sb.clusters * (sector \div 512)

(* Is there a filesystem at the region, as far as the drives are known?     *)
Readable(rg, sector) ==
  \A d \in Drives : XboxMap[d].offset = rg.offset =>
    /\ Sound(rg, sector, disk[d].super)
    /\ request.variant \in {"auto", disk[d].super.variant}

-----------------------------------------------------------------------------
Untouched(super) == [super |-> super, fat |-> "old", root |-> "old"]

Init ==
  /\ end \in Ends
  /\ \E c \in Contents : disk = [d \in Drives |-> Untouched(c[d])]
  /\ request = NoRequest
  /\ phase = "none"
  /\ at = 1
  /\ dirty = FALSE
  /\ retval = "ok"
  /\ region = Refused
  /\ status = "boot"
  /\ runs = 0
  /\ before = disk
  /\ lost = {}

Goto(p) == phase' = p /\ UNCHANGED status

Exit(s) == phase' = "none" /\ status' = s

Same(fixed) == UNCHANGED <<end, request, runs, before, fixed>>

(* A process starts: refused, or on its way to format or to mount. *)
Start(r) ==
  /\ phase = "none" /\ runs < MaxRuns
  /\ request' = r
  /\ runs' = runs + 1
  /\ disk' = [d \in Drives |-> Untouched(disk[d].super)]
  /\ before' = disk'
  /\ at' = 1 /\ dirty' = FALSE /\ retval' = "ok" /\ region' = Refused /\ lost' = {}
  /\ \/ ~Accepts(r) /\ Exit("error")
     \/ /\ Accepts(r)
        /\ phase' = IF r.format = None \/ r.tool = "fatx-fuse" THEN "mount" ELSE "refurb"
        /\ status' = "running"
  /\ UNCHANGED end

(* fatx_disk_write_refurb_info: outside of every partition. *)
WriteRefurb ==
  /\ phase = "refurb"
  /\ Goto("open") \/ Exit("error")
  /\ Same(<<disk, at, dirty, retval, region, lost>>)

(* The size of a retail cluster is divided by the sector size as given. *)
DivideByZero ==
  /\ phase = "open" /\ FormatSector = 0
  /\ Exit("signal")
  /\ Same(<<disk, at, dirty, retval, region, lost>>)

OpenPartition ==
  /\ phase = "open" /\ FormatSector # 0
  /\ Sound(XboxMap[Here], FormatSector, NewSuperblock(Here, disk[Here].super))
  /\ Goto("superblock")
  /\ dirty' = FALSE
  /\ retval' = "ok"
  /\ Same(<<disk, at, region, lost>>)

(* A check of fatx_open_device_ex, or the device, fails. *)
OpenFails ==
  /\ phase = "open" /\ FormatSector # 0
  /\ Exit("error")
  /\ Same(<<disk, at, dirty, retval, region, lost>>)

WriteSuperblock ==
  /\ phase = "superblock"
  /\ disk' = [disk EXCEPT ![Here].super = NewSuperblock(Here, disk[Here].super)]
  /\ Goto("fat")
  /\ Same(<<at, dirty, retval, region, lost>>)

(* fatx_init_fat: the FAT is cleared chunk by chunk. *)
ClearFat ==
  /\ \/ /\ phase = "fat"
        /\ disk' = [disk EXCEPT ![Here].fat = "torn"]
        /\ Goto("chunks")
     \/ /\ phase = "chunks"
        /\ disk' = [disk EXCEPT ![Here].fat = "clear"]
        /\ Goto("entries")
  /\ Same(<<at, dirty, retval, region, lost>>)

(* fatx_init_root: the media descriptor and the root's end mark go to the   *)
(* cache, then the root directory is cleared on the disk.                   *)
WriteEntries ==
  /\ phase = "entries"
  /\ dirty' = TRUE
  /\ Goto("root")
  /\ Same(<<disk, at, retval, region, lost>>)

ClearRoot ==
  /\ phase = "root"
  /\ disk' = [disk EXCEPT ![Here].root = "empty"]
  /\ Goto("close")
  /\ Same(<<at, dirty, retval, region, lost>>)

(* Mutant: the status of the three initialisations is not looked at. *)
StepFailsUnseen ==
  /\ phase \in {"superblock", "fat", "chunks", "entries", "root"}
  /\ Goto("close")
  /\ Same(<<disk, at, dirty, retval, region, lost>>)

(* One of them fails, and the partition is closed all the same. *)
StepFails ==
  /\ phase \in {"superblock", "fat", "chunks", "entries", "root"}
  /\ retval' = "error"
  /\ Goto("close")
  /\ Same(<<disk, at, dirty, region, lost>>)

(* fatx_close_device writes the FAT's entries back; fatx_disk_format_partition *)
(* does not look at whether it could.                                       *)
Flush ==
  \/ ~dirty /\ UNCHANGED <<disk, lost>>
  \/ dirty /\ disk' = [disk EXCEPT ![Here].fat = "ready"] /\ UNCHANGED lost
  \/ dirty /\ lost' = lost \cup {Here} /\ UNCHANGED disk

(* Mutant: a partition that fails is passed over. *)
ReturnWhatever ==
  /\ at' = at + 1
  /\ \/ at < Len(Queue) /\ Goto("open")
     \/ at = Len(Queue) /\ IF request.tool = "pyfatx" THEN Goto("mount") ELSE Exit("ok")

(* On to the next partition; after the last one pyfatx mounts. *)
Return ==
  \/ retval = "error" /\ Exit("error") /\ UNCHANGED at
  \/ /\ retval = "ok"
     /\ at' = at + 1
     /\ \/ at < Len(Queue) /\ Goto("open")
        \/ at = Len(Queue) /\ IF request.tool = "pyfatx" THEN Goto("mount") ELSE Exit("ok")

ClosePartition ==
  /\ phase = "close"
  /\ Flush
  /\ Return
  /\ Same(<<dirty, retval, region>>)

(* The reader in Rust takes every sector for 512 bytes. *)
MountSector == IF request.tool = "fatx-fuse" THEN 512 ELSE request.sector

Mount ==
  /\ phase = "mount"
  /\ LET rg == Region(request.tool, request)
     IN  /\ rg # Refused
         /\ Readable(rg, MountSector)
         /\ region' = rg
  /\ Goto("mounted")
  /\ Same(<<disk, at, dirty, retval, lost>>)

MountFails ==
  /\ phase = "mount"
  /\ Exit("error")
  /\ Same(<<disk, at, dirty, retval, region, lost>>)

Unmount ==
  /\ phase = "mounted"
  /\ region' = Refused
  /\ Exit("ok")
  /\ Same(<<disk, at, dirty, retval, lost>>)

(* The process is killed, or the machine stops. *)
Die ==
  /\ phase # "none"
  /\ region' = Refused
  /\ Exit("crash")
  /\ Same(<<disk, at, dirty, retval, lost>>)

Next ==
  \/ \E r \in Requests : Start(r)
  \/ WriteRefurb
  \/ DivideByZero \/ OpenPartition \/ OpenFails
  \/ WriteSuperblock \/ ClearFat \/ WriteEntries \/ ClearRoot \/ StepFails
  \/ ClosePartition
  \/ Mount \/ MountFails \/ Unmount
  \/ Die

Spec == Init /\ [][Next]_vars

-----------------------------------------------------------------------------
Writing == {"open", "superblock", "fat", "chunks", "entries", "root", "close"}

Phases == Writing \cup {"none", "refurb", "mount", "mounted"}

(* The type invariant. *)
TypeOK ==
  /\ end \in Ends
  /\ request \in Requests \cup {NoRequest}
  /\ phase \in Phases
  /\ at \in 1 .. Len(Queue) + 1
  /\ phase \in Writing => at <= Len(Queue)
  /\ dirty \in BOOLEAN
  /\ retval \in {"ok", "error"}
  /\ status \in {"boot", "running", "ok", "error", "signal", "crash"}
  /\ runs \in 0 .. MaxRuns
  /\ lost \subseteq Drives
  /\ disk \in [Drives -> [super : Superblocks, fat : {"old", "torn", "clear", "ready"},
                        root : {"old", "empty"}]]

Formats(r) == r.format # None /\ r.tool # "fatx-fuse" /\ Accepts(r)

(* The drive has the superblock asked for, a clear FAT with the entries of  *)
(* an empty root directory (unless closing could not write them) and an     *)
(* empty root directory.                                                    *)
Formatted(d) ==
  /\ disk[d].super = NewSuperblock(d, before[d].super)
  /\ disk[d].fat = IF d \in lost THEN "clear" ELSE "ready"
  /\ disk[d].root = "empty"

InQueue(d) == \E i \in 1 .. Len(Queue) : Queue[i] = d

(* A format that reports success has formatted every drive it was asked to, *)
(* whatever an earlier one, failed or killed, had left; the one failure     *)
(* fatx_disk_format does not report is that of the last write of a drive.   *)
SuccessMeansFormatted ==
  Formats(request) /\ (status = "ok" \/ phase \in {"mount", "mounted"}) =>
    \A d \in Drives : InQueue(d) => Formatted(d)

(* However a format ends, the drives before the one it was at are formatted,*)
(* and those after it, and those it was not asked to format, are untouched; *)
(* and a process writes to none unless it was asked to format, and fatxfs   *)
(* told that the data may go (--destroy-all-existing-data,                  *)
(* fatxfs_fuse.c:740).                                                      *)
FormatGoesInOrder ==
  /\ disk # before =>
       Formats(request) /\ (request.tool = "fatxfs" => request.confirm)
  /\ Formats(request) =>
       /\ \A i \in 1 .. Len(Queue) :
            /\ i < at => Formatted(Queue[i])
            /\ i > at => disk[Queue[i]] = before[Queue[i]]
       /\ \A d \in Drives : ~InQueue(d) => disk[d] = before[d]

(* "Xapi initialization validates that the cluster size of retail           *)
(* partitions is 16kb when a game begins loading" (fatx_disk.c:190): no     *)
(* options, in no series of formats, give one of them another.              *)
RetailClustersAre16K ==
  \A i \in 1 .. Len(Retail) :
    LET sb == disk[Retail[i]].super
    IN  sb.variant # None => sb.bytes = RetailClusterSize

(* The same options name the same region to every program that takes them,  *)
(* but for a drive letter on an Xbox 360 disk: fatxfs opens the drive, the  *)
(* others open "data".                                                      *)
FrontEndsAgree ==
  phase = "mounted" =>
    \A tool \in {"fatxfs", "fatx-fuse", "pyfatx"} :
      \/ Region(tool, request) \in {Refused, region}
      \/ request.variant = "x360" /\ request.drive # None
=============================================================================
