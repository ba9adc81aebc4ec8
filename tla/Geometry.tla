------------------------------ MODULE Geometry ------------------------------
(***************************************************************************)
(* The layout of a partition: superblock, FAT, clusters.  What the library *)
(* computes when it formats or opens a partition (fatx.c, fatx_disk.c,     *)
(* fatx_partition.c), and what the Rust reader computes when it opens it   *)
(* (rust/fatx/src/fs.rs, fat.rs).                                          *)
(*                                                                         *)
(* Sizes and positions are bytes from the start of the partition, with the *)
(* widths and limits of the code.  num_clusters is an unsigned 32-bit      *)
(* number: a negative one stands for itself plus 2^32, which is what the   *)
(* unsigned subtraction leaves of a partition too small for its FAT.       *)
(* A disk does not fail, and does not grow: what is written beyond the end *)
(* of the rest of a disk is an error.  A partition of a given size is on a *)
(* disk with room behind it.                                               *)
(***************************************************************************)
EXTENDS Integers

CONSTANTS
  Sizes,        (* the sizes of partition in play                           *)
  SectorSizes,  (* the sector sizes the library is told                     *)
  Clusters,     (* sectors_per_cluster: what a superblock or a user says    *)
  Roots         (* root_cluster: what a superblock says                     *)

ASSUME GeometryAssumption ==
  /\ Sizes \subseteq Nat
  /\ SectorSizes \subseteq {512, 4096}
  /\ Clusters \subseteq Nat
  /\ Roots \subseteq Nat

VARIABLES
  asked,        (* the size asked for: a number, or the rest of the disk    *)
  sector,       (* the sector size given to the library                     *)
  super,        (* the superblock on the disk                               *)
  made,         (* the layout its last format used, when there was one      *)
  lib,          (* the filesystem open in the library                       *)
  rust,         (* the filesystem open in the Rust reader                   *)
  status        (* of the last call                                         *)

vars == <<asked, sector, super, made, lib, rust, status>>

FatOffset == 4096               (* FATX_FAT_OFFSET *)

Reserved == 1                   (* FATX_FAT_RESERVED_ENTRIES_COUNT *)

FromSuperblock == 0             (* FATX_READ_FROM_SUPERBLOCK *)

ValidClusters == {1, 2, 4, 8, 16, 32, 64, 128, 256, 512, 1024}

NoSuperblock == [variant |-> "none", clusters |-> 0, root |-> 0]

Superblocks == [variant : {"xbox", "x360"}, clusters : Clusters, root : Roots]

Nowhere == [open |-> FALSE]

-----------------------------------------------------------------------------
(* The rest of the disk is rounded down to whole sectors. *)
Resolved(sectorSize) ==
  IF asked.rest THEN asked.bytes - (asked.bytes % sectorSize)
  ELSE asked.bytes

(* "Round FAT size up to nearest 4k boundary" *)
RoundedUp(n) == ((n + 4095) \div 4096) * 4096

(* Mutant: the limit is one bit too wide. *)
EntryWidthTooNarrow(entries) == IF entries <= 65536 THEN 2 ELSE 4

(* "this *MUST* be kept below the Cluster Reserved marker for FAT16" *)
EntryWidth(entries) == IF entries < 65520 THEN 2 ELSE 4

(* Mutant: the superblock's page is not set aside. *)
LayoutWithoutSuperblock(size, bytesPerCluster, entries) ==
  LET fatSize == RoundedUp(entries * EntryWidth(entries))
  IN  [bytesPerCluster |-> bytesPerCluster,
       width |-> EntryWidth(entries),
       fatSize |-> fatSize,
       clusterOffset |-> FatOffset + fatSize,
       numClusters |-> (size - fatSize) \div bytesPerCluster + Reserved]

(* A FAT of that many entries, and clusters in what is left. *)
Layout(size, bytesPerCluster, entries) ==
  LET fatSize == RoundedUp(entries * EntryWidth(entries))
  IN  [bytesPerCluster |-> bytesPerCluster,
       width |-> EntryWidth(entries),
       fatSize |-> fatSize,
       clusterOffset |-> FatOffset + fatSize,
       numClusters |-> (size - fatSize - FatOffset) \div bytesPerCluster + Reserved]

(* Mutant: the FAT has no entry for the media descriptor, entry 0. *)
FatEntriesOfClusters(size, bytesPerCluster) == size \div bytesPerCluster

FatEntries(size, bytesPerCluster) == size \div bytesPerCluster + Reserved

LibraryLayout(size, bytesPerCluster) ==
  Layout(size, bytesPerCluster, FatEntries(size, bytesPerCluster))

(* fatx_cluster_valid: num_clusters + 1 is unsigned too. *)
ClusterValid(layout, cluster) ==
  layout.numClusters < 0 - Reserved \/ cluster < layout.numClusters + Reserved

(* fatx_init_superblock: read from the disk, or new, for the original Xbox. *)
Superblock(clusters) ==
  IF clusters = FromSuperblock THEN super
  ELSE [variant |-> "xbox", clusters |-> clusters, root |-> 1]

(* "so a successful check leaves fs->variant resolved" *)
VariantIs(sb, variant) ==
  sb.variant # "none" /\ variant \in {"auto", sb.variant}

(* The checks of fatx_open_device_ex, in its order. *)
LibraryOpens(sb, variant) ==
  /\ Resolved(sector) % sector = 0
  /\ VariantIs(sb, variant)
  /\ sb.clusters \in ValidClusters
  /\ sb.root < FatEntries(Resolved(sector), sb.clusters * sector)

(* Mutant: the reader counts one entry fewer still. *)
RustFatEntriesShort(size, bytesPerCluster) == size \div bytesPerCluster - 1

RustFatEntries(size, bytesPerCluster) == size \div bytesPerCluster

RustLayout(size, bytesPerCluster) ==
  Layout(size, bytesPerCluster, RustFatEntries(size, bytesPerCluster))

(* The rest of a disk ends where it ends. *)
OnTheDisk(end) == asked.rest => end <= asked.bytes

(* The checks of FatxFs::open_device, which takes every sector for 512      *)
(* bytes, and reads the whole FAT. *)
RustOpens(variant) ==
  /\ Resolved(512) % 512 = 0
  /\ asked.rest => asked.bytes > 0
  /\ VariantIs(super, variant)
  /\ super.clusters \in ValidClusters
  /\ super.root < RustFatEntries(Resolved(512), super.clusters * 512)
  /\ OnTheDisk(RustLayout(Resolved(512), super.clusters * 512).clusterOffset)

(* A debug build panics where the size of the data area would be negative. *)
RustPanics(variant) ==
  /\ RustOpens(variant)
  /\ RustLayout(Resolved(512), super.clusters * 512).clusterOffset > Resolved(512)

-----------------------------------------------------------------------------
Init ==
  /\ asked \in [bytes : Sizes, rest : BOOLEAN]
  /\ OnTheDisk(FatOffset)
  /\ sector \in SectorSizes
  /\ super \in {NoSuperblock} \cup Superblocks
  /\ made = Nowhere
  /\ lib = Nowhere
  /\ rust = Nowhere
  /\ status = "ok"

(* Mutant: the superblock counts sectors of 512 bytes. *)
WrittenIn512(sb) == [sb EXCEPT !.clusters = (@ * sector) \div 512]

(* fatx_write_superblock *)
WrittenSuperblock(sb) == sb

(* fatx_init_fat and fatx_init_root have somewhere to write: the FAT's      *)
(* entry of the root must be valid, its cluster may be outside.             *)
Clears(sb, layout) ==
  /\ ClusterValid(layout, sb.root)
  /\ OnTheDisk(layout.clusterOffset + layout.bytesPerCluster)

(* fatx_disk_format_partition: opens the device with the geometry asked     *)
(* for, writes the superblock, clears the FAT and the root, and closes it.  *)
(* When a later write fails the superblock has been written.                *)
Format(clusters) ==
  LET sb == Superblock(clusters)
      layout == LibraryLayout(Resolved(sector), sb.clusters * sector)
  IN  /\ lib = Nowhere /\ rust = Nowhere
      /\ LibraryOpens(sb, "auto")
      /\ super' = WrittenSuperblock(sb)
      /\ \/ /\ Clears(sb, layout)
            /\ made' = [open |-> TRUE, layout |-> layout]
            /\ status' = "ok"
         \/ /\ ~Clears(sb, layout)
            /\ made' = Nowhere
            /\ status' = "error"
      /\ UNCHANGED <<asked, sector, lib, rust>>

FormatRefused(clusters) ==
  /\ lib = Nowhere /\ rust = Nowhere
  /\ ~LibraryOpens(Superblock(clusters), "auto")
  /\ status' = "error"
  /\ UNCHANGED <<asked, sector, super, made, lib, rust>>

(* fatx_open_device_ex of a formatted partition. *)
OpenLibrary(variant) ==
  /\ lib = Nowhere
  /\ LibraryOpens(super, variant)
  /\ lib' = [open |-> TRUE, variant |-> super.variant, root |-> super.root,
             layout |-> LibraryLayout(Resolved(sector), super.clusters * sector)]
  /\ status' = "ok"
  /\ UNCHANGED <<asked, sector, super, made, rust>>

LibraryRefuses(variant) ==
  /\ lib = Nowhere
  /\ ~LibraryOpens(super, variant)
  /\ status' = "error"
  /\ UNCHANGED <<asked, sector, super, made, lib, rust>>

(* FatxFs::open_device *)
OpenRust(variant) ==
  /\ rust = Nowhere
  /\ RustOpens(variant)
  /\ rust' = [open |-> TRUE, variant |-> super.variant, root |-> super.root,
              layout |-> RustLayout(Resolved(512), super.clusters * 512)]
  /\ status' = "ok"
  /\ UNCHANGED <<asked, sector, super, made, lib>>

RustRefuses(variant) ==
  /\ rust = Nowhere
  /\ ~RustOpens(variant) \/ RustPanics(variant)
  /\ status' = "error"
  /\ UNCHANGED <<asked, sector, super, made, lib, rust>>

(* fatx_close_device, and the end of the reader. *)
Close ==
  /\ lib # Nowhere \/ rust # Nowhere
  /\ lib' = Nowhere
  /\ rust' = Nowhere
  /\ status' = "ok"
  /\ UNCHANGED <<asked, sector, super, made>>

Next ==
  \/ \E clusters \in Clusters \cup {FromSuperblock} :
       Format(clusters) \/ FormatRefused(clusters)
  \/ \E variant \in {"auto", "xbox", "x360"} :
       \/ OpenLibrary(variant) \/ LibraryRefuses(variant)
       \/ OpenRust(variant) \/ RustRefuses(variant)
  \/ Close

Spec == Init /\ [][Next]_vars

-----------------------------------------------------------------------------
Layouts == [bytesPerCluster : Nat, width : {2, 4}, fatSize : Nat,
            clusterOffset : Nat, numClusters : Int]

Handles == [open : {TRUE}, variant : {"xbox", "x360"}, root : Roots \cup {1}, layout : Layouts]

(* The type invariant: what is on the disk and what is open. *)
TypeOK ==
  /\ asked \in [bytes : Sizes, rest : BOOLEAN]
  /\ sector \in SectorSizes
  /\ super \in {NoSuperblock} \cup
        [variant : {"xbox", "x360"}, clusters : Clusters, root : Roots \cup {1}]
  /\ made \in {Nowhere} \cup [open : {TRUE}, layout : Layouts]
  /\ lib \in {Nowhere} \cup Handles
  /\ rust \in {Nowhere} \cup Handles
  /\ status \in {"ok", "error"}

Size == Resolved(sector)

(* Is there room for the superblock and the FAT?  Nothing checks it. *)
Roomy(fs) == fs.layout.clusterOffset <= Size

EntriesInTheFat(fs) == fs.layout.fatSize \div fs.layout.width

(* fatx_cluster_number_to_byte_offset *)
ByteOffset(fs, cluster) ==
  fs.layout.clusterOffset + (cluster - Reserved) * fs.layout.bytesPerCluster

(* Every cluster the allocator can hand out has an entry in the FAT: with   *)
(* clusters larger than what the superblock and the FAT take, the data area *)
(* can have as many clusters as the partition has cluster sizes.            *)
EveryClusterHasAnEntry ==
  lib.open /\ Roomy(lib) => lib.layout.numClusters - 1 < EntriesInTheFat(lib)

(* The last cluster the allocator can hand out ends inside the partition,   *)
(* and the one after it would not: no space is lost but a part of a cluster.*)
ClustersFillThePartition ==
  lib.open /\ Roomy(lib) =>
    /\ ByteOffset(lib, lib.layout.numClusters) <= Size
    /\ ByteOffset(lib, lib.layout.numClusters + 1) > Size

(* No cluster of a FAT of 16-bit entries has a number that its entries      *)
(* would take for a marker.                                                 *)
NumbersAreNotMarkers ==
  lib.open /\ Roomy(lib) /\ lib.layout.width = 2 => lib.layout.numClusters - 1 < 65520

(* A partition is opened with the layout of its last format, whatever       *)
(* cluster size that was given, and formats refused or failed since.        *)
OpenFindsTheFormat == lib.open /\ made.open => lib.layout = made.layout

(* The library and the Rust reader, which counts one FAT entry fewer, put   *)
(* the data area in the same place unless that entry begins a page of the   *)
(* FAT or makes its entries wider.                                          *)
ReadersAgreeInsidePages ==
  lib.open /\ rust.open /\ sector = 512 =>
    LET entries == FatEntries(Size, lib.layout.bytesPerCluster)
    IN  \/ rust.layout = lib.layout
        \/ ((entries - 1) * lib.layout.width) % 4096 = 0
        \/ entries = 65520
=============================================================================
