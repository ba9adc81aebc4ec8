---------------------------- MODULE FormatProofs ----------------------------
(***************************************************************************)
(* The numbers of the on-disk format: the layout of a partition, for every *)
(* size of it, and what becomes of a timestamp that is read, written, or   *)
(* read and written.                                                       *)
(***************************************************************************)
EXTENDS Geometry, Timestamps, TLAPS

-----------------------------------------------------------------------------
(* Geometry. *)

(* Rounding up reaches the bytes asked for, in whole pages, less than a page *)
(* beyond them. *)
LEMMA RoundedUpSpec ==
  ASSUME NEW n \in Nat
  PROVE  /\ RoundedUp(n) \in Nat
         /\ RoundedUp(n) >= n
         /\ RoundedUp(n) < n + 4096
BY DEF RoundedUp

LEMMA WidthSpec ==
  ASSUME NEW n \in Nat
  PROVE  EntryWidth(n) \in {2, 4}
BY DEF EntryWidth

(* The division of the code, bounded: what TLA+ says of \div. *)
LEMMA Quotients ==
  ASSUME NEW a \in Int, NEW b \in Nat \ {0}
  PROVE  /\ a \div b \in Int
         /\ b * (a \div b) <= a
         /\ a < b * (a \div b + 1)
OBVIOUS

(* Less is left after taking some away. *)
LEMMA QuotientsGrow ==
  ASSUME NEW a \in Int, NEW c \in Int, NEW b \in Nat \ {0}, a <= c
  PROVE  a \div b <= c \div b
<1> DEFINE p == a \div b
           q == c \div b
<1>1. p \in Int /\ q \in Int
  BY Quotients
<1>2. b * p <= a /\ c < b * (q + 1)
  BY Quotients
<1>3. b * p < b * (q + 1)
  BY <1>1, <1>2
<1> HIDE DEF p, q
<1>4. p < q + 1
  <2>1. SUFFICES ASSUME p >= q + 1 PROVE FALSE
    BY <1>1
  <2>2. PICK d \in Nat : p = q + 1 + d
    BY <1>1, <2>1
  <2>3. b * p = b * (q + 1) + b * d
    BY <1>1, <2>2
  <2>4. b * d >= 0
    BY <2>2
  <2> QED
    BY <1>1, <1>3, <2>3, <2>4
<1> QED
  BY <1>1, <1>4 DEF p, q

-----------------------------------------------------------------------------
(* What LibraryLayout promises, of any partition and cluster size.          *)

(* A layout's parts are numbers. *)
LEMMA LayoutType ==
  ASSUME NEW size \in Nat, NEW b \in Nat \ {0}, NEW entries \in Nat
  PROVE  Layout(size, b, entries) \in Layouts
<1> DEFINE w == EntryWidth(entries)
           f == RoundedUp(entries * w)
<1>1. w \in {2, 4}
  BY WidthSpec
<1>2. entries * w \in Nat
  BY <1>1
<1>3. f \in Nat
  BY <1>2, RoundedUpSpec
<1> HIDE DEF w, f
<1>4. (size - f - FatOffset) \div b \in Int
  BY <1>3, Quotients DEF FatOffset
<1> QED
  BY <1>1, <1>3, <1>4 DEF Layout, Layouts, FatOffset, Reserved, w, f

(* The FAT holds the entries it was sized for. *)
LEMMA FatHoldsItsEntries ==
  ASSUME NEW entries \in Nat, NEW size \in Nat, NEW b \in Nat \ {0}
  PROVE  LET layout == Layout(size, b, entries)
         IN  entries <= layout.fatSize \div layout.width
<1> DEFINE w == EntryWidth(entries)
           f == RoundedUp(entries * w)
<1>1. w \in {2, 4}
  BY WidthSpec
<1>2. f \in Nat /\ f >= entries * w
  BY <1>1, RoundedUpSpec
<1> HIDE DEF w, f
<1>3. entries <= f \div w
  <2>1. CASE w = 2
    BY <1>2, <2>1
  <2>2. CASE w = 4
    BY <1>2, <2>2
  <2> QED
    BY <1>1, <2>1, <2>2
<1> QED
  BY <1>3 DEF Layout, w, f

(* There are fewer clusters than entries, and one more index than clusters. *)
LEMMA ClustersAreFewerThanEntries ==
  ASSUME NEW size \in Nat, NEW b \in Nat \ {0}
  PROVE  LibraryLayout(size, b).numClusters - 1 < FatEntries(size, b)
<1> DEFINE n == FatEntries(size, b)
           f == RoundedUp(n * EntryWidth(n))
<1>1. n \in Nat
  BY Quotients DEF FatEntries, Reserved
<1>2. n * EntryWidth(n) \in Nat
  BY <1>1, WidthSpec
<1>3. f \in Nat
  BY <1>2, RoundedUpSpec
<1> HIDE DEF f
<1>4. (size - f - FatOffset) \div b <= size \div b
  BY <1>3, QuotientsGrow DEF FatOffset
<1>5. (size - f - FatOffset) \div b \in Int /\ size \div b \in Int
  BY <1>3, Quotients DEF FatOffset
<1>6. LibraryLayout(size, b).numClusters = (size - f - FatOffset) \div b + Reserved
  BY DEF LibraryLayout, Layout, f
<1> QED
  BY <1>4, <1>5, <1>6 DEF FatEntries, Reserved

(* The clusters end inside the partition, less than a cluster before its end. *)
LEMMA ClustersFill ==
  ASSUME NEW size \in Nat, NEW b \in Nat \ {0}
  PROVE  LET layout == LibraryLayout(size, b)
         IN  /\ layout.clusterOffset + (layout.numClusters - Reserved) * b <= size
             /\ layout.clusterOffset + ((layout.numClusters + 1) - Reserved) * b > size
<1> DEFINE n == FatEntries(size, b)
           f == RoundedUp(n * EntryWidth(n))
           q == (size - f - FatOffset) \div b
<1>1. n \in Nat
  BY Quotients DEF FatEntries, Reserved
<1>2. n * EntryWidth(n) \in Nat
  BY <1>1, WidthSpec
<1>3. f \in Nat
  BY <1>2, RoundedUpSpec
<1> HIDE DEF f
<1>4. q \in Int /\ b * q <= size - f - FatOffset /\ size - f - FatOffset < b * (q + 1)
  BY <1>3, Quotients DEF FatOffset
<1>5. /\ LibraryLayout(size, b).numClusters = q + Reserved
      /\ LibraryLayout(size, b).clusterOffset = FatOffset + f
  BY DEF LibraryLayout, Layout, f
<1> HIDE DEF q
<1>7. q * b = b * q /\ (q + 1) * b = b * (q + 1)
  BY <1>4
<1>8. q * b \in Int /\ (q + 1) * b \in Int
  BY <1>4
<1>9. /\ FatOffset + f + q * b <= size
      /\ FatOffset + f + (q + 1) * b > size
  BY <1>3, <1>4, <1>7, <1>8 DEF FatOffset
<1>10. /\ LibraryLayout(size, b).numClusters - Reserved = q
       /\ (LibraryLayout(size, b).numClusters + 1) - Reserved = q + 1
  BY <1>4, <1>5 DEF Reserved
<1> QED
  BY <1>5, <1>9, <1>10

(* One more entry does not change a FAT, unless it begins a page or widens   *)
(* the entries. *)
LEMMA OneMoreEntry ==
  ASSUME NEW size \in Nat, NEW b \in Nat \ {0}, NEW n \in Nat,
         (n * EntryWidth(n + 1)) % 4096 # 0, n + 1 # 65520
  PROVE  Layout(size, b, n) = Layout(size, b, n + 1)
<1> DEFINE w == EntryWidth(n)
<1>1. EntryWidth(n + 1) = w
  BY DEF EntryWidth
<1>2. RoundedUp(n * w) = RoundedUp((n + 1) * w)
  <2>1. CASE w = 2
    BY <1>1, <2>1 DEF RoundedUp
  <2>2. CASE w = 4
    BY <1>1, <2>2 DEF RoundedUp
  <2> QED
    BY WidthSpec, <2>1, <2>2
<1> QED
  BY <1>1, <1>2 DEF Layout

-----------------------------------------------------------------------------
(* The invariant.  Between its opening and its closing nothing changes what  *)
(* a layout was computed from: formats wait until everything is closed.      *)

ClusterBytes(sectorSize) == super.clusters * sectorSize

LayoutsFromSuperblock ==
  /\ made.open =>
       /\ super.clusters \in ValidClusters
       /\ made.layout = LibraryLayout(Size, ClusterBytes(sector))
  /\ lib.open =>
       /\ super.clusters \in ValidClusters
       /\ lib.layout = LibraryLayout(Size, ClusterBytes(sector))
  /\ rust.open =>
       /\ super.clusters \in ValidClusters
       /\ rust.layout = RustLayout(Resolved(512), ClusterBytes(512))

Inv == TypeOK /\ LayoutsFromSuperblock

(* The size that was asked for is a number. *)
LEMMA SizesAreNumbers ==
  ASSUME asked \in [bytes : Sizes, rest : BOOLEAN]
  PROVE  asked.bytes \in Nat
<1>1. asked.bytes \in Sizes
  OBVIOUS
<1>2. \A n \in Sizes : n \in Nat
  BY GeometryAssumption DEF GeometryAssumption
<1> QED
  BY <1>1, <1>2, Zenon

(* Sizes and cluster sizes are numbers. *)
LEMMA Numbers ==
  ASSUME NEW sectorSize \in {512, 4096}, NEW clusters \in ValidClusters,
         asked \in [bytes : Sizes, rest : BOOLEAN]
  PROVE  /\ Resolved(sectorSize) \in Nat
         /\ clusters * sectorSize \in Nat \ {0}
<1>1. asked.bytes \in Nat
  BY SizesAreNumbers
<1>2. Resolved(sectorSize) \in Nat
  BY <1>1 DEF Resolved
<1>3. clusters \in Nat \ {0}
  BY DEF ValidClusters
<1> QED
  BY <1>2, <1>3

(* What either reader computes is a layout. *)
LEMMA LayoutTypes ==
  ASSUME NEW size \in Nat, NEW b \in Nat \ {0}
  PROVE  LibraryLayout(size, b) \in Layouts /\ RustLayout(size, b) \in Layouts
<1>1. size \div b \in Nat
  BY Quotients
<1> QED
  BY <1>1, LayoutType DEF LibraryLayout, RustLayout, FatEntries, RustFatEntries, Reserved

LEMMA InitInv == Init => Inv
<1> SUFFICES ASSUME Init PROVE Inv
  OBVIOUS
<1>1. ~made.open /\ ~lib.open /\ ~rust.open
  BY DEF Init, Nowhere
<1>2. TypeOK
  BY DEF Init, TypeOK, Superblocks
<1> QED
  BY <1>1, <1>2 DEF Inv, LayoutsFromSuperblock

LEMMA FormatStep ==
  ASSUME Inv, NEW clusters \in Clusters \cup {FromSuperblock}, Format(clusters)
  PROVE  Inv'
<1> DEFINE sb == Superblock(clusters)
           layout == LibraryLayout(Size, sb.clusters * sector)
<1>1. sb \in [variant : {"xbox", "x360"}, clusters : Clusters, root : Roots \cup {1}]
  <2>1. CASE clusters = FromSuperblock
    <3>1. sb = super
      BY <2>1 DEF Superblock
    <3>2. super.variant # "none"
      BY <3>1 DEF Format, LibraryOpens, VariantIs
    <3> QED
      BY <3>1, <3>2 DEF Inv, TypeOK, NoSuperblock
  <2>2. CASE clusters # FromSuperblock
    BY <2>2 DEF Superblock
  <2> QED
    BY <2>1, <2>2
<1>2. sb.clusters \in ValidClusters
  BY DEF Format, LibraryOpens
<1>3. sector \in {512, 4096} /\ asked \in [bytes : Sizes, rest : BOOLEAN]
  BY GeometryAssumption DEF Inv, TypeOK, GeometryAssumption
<1>4. Size \in Nat /\ sb.clusters * sector \in Nat \ {0}
  BY <1>2, <1>3, Numbers DEF Size
<1>5. layout \in Layouts
  BY <1>4, LayoutTypes
<1>6. super' = sb /\ UNCHANGED <<asked, sector, lib, rust>>
  BY DEF Format, WrittenSuperblock
<1>7. Size' = Size
  BY <1>6 DEF Size, Resolved
<1>8. made' \in {Nowhere, [open |-> TRUE, layout |-> layout]} /\ status' \in {"ok", "error"}
  BY DEF Format, Size
<1>9. ~lib.open /\ ~rust.open
  BY DEF Format, Nowhere
<1> HIDE DEF sb, layout
<1>10. TypeOK'
  <2>1. asked' = asked /\ sector' = sector /\ lib' = lib /\ rust' = rust
    BY <1>6
  <2>2. made' \in {Nowhere} \cup [open : {TRUE}, layout : Layouts]
    <3>1. [open |-> TRUE, layout |-> layout] \in [open : {TRUE}, layout : Layouts]
      BY <1>5
    <3> QED
      BY <1>8, <3>1
  <2>3. super' \in {NoSuperblock} \cup
          [variant : {"xbox", "x360"}, clusters : Clusters, root : Roots \cup {1}]
    BY <1>1, <1>6
  <2> QED
    BY <1>8, <2>1, <2>2, <2>3, Zenon DEF Inv, TypeOK
<1>11. LayoutsFromSuperblock'
  <2>1. ~lib'.open /\ ~rust'.open
    BY <1>6, <1>9
  <2>2. ClusterBytes(sector)' = sb.clusters * sector
    BY <1>6 DEF ClusterBytes
  <2>3. made'.open => made'.layout = layout
    BY <1>8 DEF Nowhere
  <2>4. layout = LibraryLayout(Size, ClusterBytes(sector))'
    BY <1>7, <2>2 DEF layout, LibraryLayout, Layout, FatEntries
  <2> QED
    BY <1>2, <1>6, <2>1, <2>3, <2>4 DEF LayoutsFromSuperblock
<1> QED
  BY <1>10, <1>11 DEF Inv

(* What a superblock that passed the checks of an open says. *)
LEMMA OpenedSuperblock ==
  ASSUME TypeOK, super.variant # "none"
  PROVE  super.variant \in {"xbox", "x360"} /\ super.root \in Roots \cup {1}
BY DEF TypeOK, NoSuperblock

LEMMA OpenLibraryStep ==
  ASSUME Inv, NEW variant, OpenLibrary(variant)
  PROVE  Inv'
<1> DEFINE layout == LibraryLayout(Size, ClusterBytes(sector))
<1>1. super.clusters \in ValidClusters /\ super.variant # "none"
  BY DEF OpenLibrary, LibraryOpens, VariantIs
<1>2. sector \in {512, 4096} /\ asked \in [bytes : Sizes, rest : BOOLEAN]
  BY GeometryAssumption DEF Inv, TypeOK, GeometryAssumption
<1>3. layout \in Layouts
  BY <1>1, <1>2, Numbers, LayoutTypes DEF Size, ClusterBytes
<1>4. /\ lib' = [open |-> TRUE, variant |-> super.variant, root |-> super.root,
                 layout |-> layout]
      /\ status' = "ok"
      /\ UNCHANGED <<asked, sector, super, made, rust>>
  BY DEF OpenLibrary, Size, ClusterBytes
<1>5. lib'.open /\ lib'.layout = layout
  BY <1>4
<1>6. UNCHANGED <<Size, ClusterBytes(sector), ClusterBytes(512), Resolved(512)>>
  BY <1>4 DEF Size, ClusterBytes, Resolved
<1> HIDE DEF layout
<1>7. TypeOK'
  <2>1. lib' \in Handles
    BY <1>1, <1>3, <1>4, OpenedSuperblock DEF Inv, Handles
  <2> QED
    BY <1>4, <2>1, Zenon DEF Inv, TypeOK
<1>8. LayoutsFromSuperblock'
  <2>1. layout' = layout
    BY <1>6 DEF layout, LibraryLayout, Layout, FatEntries
  <2>2. (RustLayout(Resolved(512), ClusterBytes(512)))' = RustLayout(Resolved(512), ClusterBytes(512))
    BY <1>6 DEF RustLayout, Layout, RustFatEntries
  <2> QED
    BY <1>1, <1>4, <1>5, <2>1, <2>2 DEF Inv, LayoutsFromSuperblock, layout
<1> QED
  BY <1>7, <1>8 DEF Inv

LEMMA OpenRustStep ==
  ASSUME Inv, NEW variant, OpenRust(variant)
  PROVE  Inv'
<1> DEFINE layout == RustLayout(Resolved(512), ClusterBytes(512))
<1>1. super.clusters \in ValidClusters /\ super.variant # "none"
  BY DEF OpenRust, RustOpens, VariantIs
<1>2. asked \in [bytes : Sizes, rest : BOOLEAN]
  BY DEF Inv, TypeOK
<1>3. layout \in Layouts
  BY <1>1, <1>2, Numbers, LayoutTypes DEF ClusterBytes
<1>4. /\ rust' = [open |-> TRUE, variant |-> super.variant, root |-> super.root,
                  layout |-> layout]
      /\ status' = "ok"
      /\ UNCHANGED <<asked, sector, super, made, lib>>
  BY DEF OpenRust, ClusterBytes
<1>5. rust'.open /\ rust'.layout = layout
  BY <1>4
<1>6. UNCHANGED <<Size, ClusterBytes(sector), ClusterBytes(512), Resolved(512)>>
  BY <1>4 DEF Size, ClusterBytes, Resolved
<1> HIDE DEF layout
<1>7. TypeOK'
  <2>1. rust' \in Handles
    BY <1>1, <1>3, <1>4, OpenedSuperblock DEF Inv, Handles
  <2> QED
    BY <1>4, <2>1, Zenon DEF Inv, TypeOK
<1>8. LayoutsFromSuperblock'
  <2>1. layout' = layout
    BY <1>6 DEF layout, RustLayout, Layout, RustFatEntries
  <2>2. (LibraryLayout(Size, ClusterBytes(sector)))' = LibraryLayout(Size, ClusterBytes(sector))
    BY <1>6 DEF LibraryLayout, Layout, FatEntries
  <2> QED
    BY <1>1, <1>4, <1>5, <2>1, <2>2 DEF Inv, LayoutsFromSuperblock, layout
<1> QED
  BY <1>7, <1>8 DEF Inv

(* A step that leaves the disk alone, and what is open as it is or closed.  *)
LEMMA IdleStep ==
  ASSUME Inv, UNCHANGED <<asked, sector, super, made>>,
         lib' = lib \/ lib' = Nowhere, rust' = rust \/ rust' = Nowhere,
         status' = status \/ status' \in {"ok", "error"}
  PROVE  Inv'
<1>1. TypeOK'
  BY Zenon DEF Inv, TypeOK
<1>2. (lib'.open => lib' = lib) /\ (rust'.open => rust' = rust)
  BY DEF Nowhere
<1>3. UNCHANGED <<Size, ClusterBytes(sector), ClusterBytes(512), Resolved(512)>>
  BY DEF Size, ClusterBytes, Resolved
<1>4. (LibraryLayout(Size, ClusterBytes(sector)))' = LibraryLayout(Size, ClusterBytes(sector))
  BY <1>3 DEF LibraryLayout, Layout, FatEntries
<1>5. (RustLayout(Resolved(512), ClusterBytes(512)))' = RustLayout(Resolved(512), ClusterBytes(512))
  BY <1>3 DEF RustLayout, Layout, RustFatEntries
<1>6. LayoutsFromSuperblock'
  BY <1>2, <1>4, <1>5 DEF Inv, LayoutsFromSuperblock
<1> QED
  BY <1>1, <1>6 DEF Inv

LEMMA NextInv == Inv /\ [Next]_vars => Inv'
<1> SUFFICES ASSUME Inv, [Next]_vars PROVE Inv'
  OBVIOUS
<1>1. ASSUME NEW clusters \in Clusters \cup {FromSuperblock}, Format(clusters)
      PROVE  Inv'
  BY <1>1, FormatStep
<1>2. ASSUME NEW clusters \in Clusters \cup {FromSuperblock}, FormatRefused(clusters)
      PROVE  Inv'
  BY <1>2, IdleStep DEF FormatRefused
<1>3. ASSUME NEW variant, OpenLibrary(variant) PROVE Inv'
  BY <1>3, OpenLibraryStep
<1>4. ASSUME NEW variant, LibraryRefuses(variant) PROVE Inv'
  BY <1>4, IdleStep DEF LibraryRefuses
<1>5. ASSUME NEW variant, OpenRust(variant) PROVE Inv'
  BY <1>5, OpenRustStep
<1>6. ASSUME NEW variant, RustRefuses(variant) PROVE Inv'
  BY <1>6, IdleStep DEF RustRefuses
<1>7. CASE Close
  BY <1>7, IdleStep DEF Close
<1>8. CASE UNCHANGED vars
  BY <1>8, IdleStep DEF vars
<1> QED
  BY <1>1, <1>2, <1>3, <1>4, <1>5, <1>6, <1>7, <1>8 DEF Next

(* The invariant of every behaviour: what is open, and what was formatted,  *)
(* has the layout of the superblock on the disk.                            *)
THEOREM GeometryInvariant == Spec => []Inv
BY InitInv, NextInv, PTL DEF Spec

(* Every variable has its type: the geometry code (fatx.c:115-150) never     *)
(* computes anything but a layout of numbers.                               *)
THEOREM GeometryTypeCorrect == Spec => []TypeOK
<1>1. Inv => TypeOK
  BY DEF Inv
<1> QED
  BY <1>1, GeometryInvariant, PTL

(* What an open library holds: the layout of a partition of natural size    *)
(* and clusters of some bytes.                                              *)
LEMMA OpenLayout ==
  ASSUME Inv, lib.open
  PROVE  /\ Size \in Nat
         /\ ClusterBytes(sector) \in Nat \ {0}
         /\ lib.layout = LibraryLayout(Size, ClusterBytes(sector))
<1>1. super.clusters \in ValidClusters
      /\ lib.layout = LibraryLayout(Size, ClusterBytes(sector))
  BY DEF Inv, LayoutsFromSuperblock
<1>2. sector \in {512, 4096} /\ asked \in [bytes : Sizes, rest : BOOLEAN]
  BY GeometryAssumption DEF Inv, TypeOK, GeometryAssumption
<1> QED
  BY <1>1, <1>2, Numbers DEF Size, ClusterBytes

(* Every cluster that can be handed out has an entry in the FAT, at every   *)
(* size, sector size and cluster size the code accepts (fatx.c:118-150).    *)
THEOREM ClustersHaveEntries == Spec => []EveryClusterHasAnEntry
<1>1. ASSUME Inv, lib.open PROVE lib.layout.numClusters - 1 < EntriesInTheFat(lib)
  <2> DEFINE size == Size
             b == ClusterBytes(sector)
  <2>1. size \in Nat /\ b \in Nat \ {0} /\ lib.layout = LibraryLayout(size, b)
    BY <1>1, OpenLayout
  <2> HIDE DEF size, b
  <2>2. FatEntries(size, b) \in Nat
    BY <2>1, Quotients DEF FatEntries, Reserved
  <2>3. lib.layout.numClusters - 1 < FatEntries(size, b)
    BY <2>1, ClustersAreFewerThanEntries
  <2>4. FatEntries(size, b) <= EntriesInTheFat(lib)
    BY <2>1, <2>2, FatHoldsItsEntries DEF LibraryLayout, EntriesInTheFat
  <2>5. LibraryLayout(size, b) \in Layouts
    BY <2>1, LayoutTypes
  <2>6. lib.layout.numClusters \in Int /\ EntriesInTheFat(lib) \in Int
    <3>1. lib.layout.fatSize \in Nat /\ lib.layout.width \in Nat \ {0}
          /\ lib.layout.numClusters \in Int
      BY <2>1, <2>5 DEF Layouts
    <3> QED
      BY <3>1, Quotients DEF EntriesInTheFat
  <2> QED
    BY <2>2, <2>3, <2>4, <2>6
<1>2. Inv => EveryClusterHasAnEntry
  BY <1>1 DEF EveryClusterHasAnEntry
<1> QED
  BY <1>2, GeometryInvariant, PTL

(* The clusters end inside the partition and leave less than a cluster over, *)
(* at every size (fatx.c:149, fatx_fat.c:322).                               *)
THEOREM NoClusterIsLostOrOutside == Spec => []ClustersFillThePartition
<1>1. ASSUME Inv, lib.open
      PROVE  /\ ByteOffset(lib, lib.layout.numClusters) <= Size
             /\ ByteOffset(lib, lib.layout.numClusters + 1) > Size
  <2> DEFINE size == Size
             b == ClusterBytes(sector)
  <2>1. size \in Nat /\ b \in Nat \ {0} /\ lib.layout = LibraryLayout(size, b)
    BY <1>1, OpenLayout
  <2> HIDE DEF size, b
  <2>2. lib.layout.bytesPerCluster = b
    BY <2>1 DEF LibraryLayout, Layout
  <2>3. /\ ByteOffset(lib, lib.layout.numClusters) <= size
        /\ ByteOffset(lib, lib.layout.numClusters + 1) > size
    <3>1. LET layout == LibraryLayout(size, b)
          IN  /\ layout.clusterOffset + (layout.numClusters - Reserved) * b <= size
              /\ layout.clusterOffset + ((layout.numClusters + 1) - Reserved) * b > size
      BY <2>1, ClustersFill, Zenon
    <3>2. /\ lib.layout.clusterOffset + (lib.layout.numClusters - Reserved) * b <= size
          /\ lib.layout.clusterOffset + ((lib.layout.numClusters + 1) - Reserved) * b > size
      BY <2>1, <3>1, Zenon
    <3>3. ByteOffset(lib, lib.layout.numClusters)
            = lib.layout.clusterOffset + (lib.layout.numClusters - Reserved) * b
      BY <2>2 DEF ByteOffset
    <3>4. ByteOffset(lib, lib.layout.numClusters + 1)
            = lib.layout.clusterOffset + ((lib.layout.numClusters + 1) - Reserved) * b
      BY <2>2 DEF ByteOffset
    <3> QED
      BY <3>2, <3>3, <3>4
  <2> QED
    BY <2>3 DEF size
<1>2. Inv => ClustersFillThePartition
  BY <1>1 DEF ClustersFillThePartition
<1> QED
  BY <1>2, GeometryInvariant, PTL

(* No cluster of a FAT of 16-bit entries has the number of a marker: "this  *)
(* *MUST* be kept below the Cluster Reserved marker for FAT16" (fatx.c:129). *)
THEOREM MarkersAreApart == Spec => []NumbersAreNotMarkers
<1>1. ASSUME Inv, lib.open, lib.layout.width = 2
      PROVE  lib.layout.numClusters - 1 < 65520
  <2> DEFINE size == Size
             b == ClusterBytes(sector)
             n == FatEntries(size, b)
  <2>1. size \in Nat /\ b \in Nat \ {0} /\ lib.layout = LibraryLayout(size, b)
    BY <1>1, OpenLayout
  <2> HIDE DEF size, b
  <2>2. n \in Nat
    BY <2>1, Quotients DEF FatEntries, Reserved
  <2>3. lib.layout.numClusters - 1 < n
    BY <2>1, ClustersAreFewerThanEntries
  <2>4. EntryWidth(n) = 2
    BY <1>1, <2>1 DEF LibraryLayout, Layout
  <2>5. n < 65520
    BY <2>2, <2>4 DEF EntryWidth
  <2>6. lib.layout.numClusters \in Int
    BY <2>1, LayoutTypes DEF Layouts
  <2> HIDE DEF n
  <2> QED
    BY <2>2, <2>3, <2>5, <2>6
<1>2. Inv => NumbersAreNotMarkers
  BY <1>1 DEF NumbersAreNotMarkers
<1> QED
  BY <1>2, GeometryInvariant, PTL

(* A partition is opened with the layout of its last format: the geometry of *)
(* the format is what its superblock says (fatx_partition.c:161-186).        *)
THEOREM FormatIsFound == Spec => []OpenFindsTheFormat
<1>1. Inv => OpenFindsTheFormat
  BY DEF Inv, LayoutsFromSuperblock, OpenFindsTheFormat
<1> QED
  BY <1>1, GeometryInvariant, PTL

(* The reader that counts one entry fewer (fs.rs:181) has the layout of the  *)
(* library (fatx.c:118-120) wherever that entry neither begins a page of the *)
(* FAT nor widens its entries.                                               *)
THEOREM ReadersDifferAtPages == Spec => []ReadersAgreeInsidePages
<1>1. ASSUME Inv, lib.open, rust.open, sector = 512,
             ((FatEntries(Size, lib.layout.bytesPerCluster) - 1) * lib.layout.width) % 4096 # 0,
             FatEntries(Size, lib.layout.bytesPerCluster) # 65520
      PROVE  rust.layout = lib.layout
  <2> DEFINE size == Size
             b == ClusterBytes(sector)
             n == size \div b
  <2>1. size \in Nat /\ b \in Nat \ {0} /\ lib.layout = LibraryLayout(size, b)
    BY <1>1, OpenLayout
  <2>2. rust.layout = RustLayout(size, b)
    BY <1>1 DEF Inv, LayoutsFromSuperblock, Size
  <2>3. lib.layout.bytesPerCluster = b /\ FatEntries(size, b) = n + 1
    BY <2>1 DEF LibraryLayout, Layout, FatEntries, Reserved
  <2>4. lib.layout.width = EntryWidth(n + 1)
    BY <2>1, <2>3 DEF LibraryLayout, Layout
  <2>5. n \in Nat
    <3> HIDE DEF size, b
    <3> QED
      BY <2>1, Quotients
  <2>6. (n * EntryWidth(n + 1)) % 4096 # 0 /\ n + 1 # 65520
    <3>1. FatEntries(size, b) - 1 = n
      BY <2>3, <2>5
    <3> QED
      BY <1>1, <2>3, <2>4, <3>1
  <2> HIDE DEF size, b
  <2>7. Layout(size, b, n) = Layout(size, b, n + 1)
    <3> HIDE DEF n
    <3> QED
      BY <2>1, <2>5, <2>6, OneMoreEntry
  <2> QED
    BY <2>1, <2>2, <2>3, <2>7 DEF LibraryLayout, RustLayout, RustFatEntries
<1>2. Inv => ReadersAgreeInsidePages
  BY <1>1 DEF ReadersAgreeInsidePages
<1> QED
  BY <1>2, GeometryInvariant, PTL

-----------------------------------------------------------------------------
(* Timestamps. *)

(* Bytes and fields of a word. *)

(* The two bytes of a word change places. *)
LEMMA SwapParts ==
  ASSUME NEW high \in 0 .. 255, NEW low \in 0 .. 255
  PROVE  SwapBytes(high * 256 + low) = low * 256 + high
<1>1. (high * 256 + low) % 256 = low /\ (high * 256 + low) \div 256 = high
  OBVIOUS
<1> QED
  BY <1>1 DEF SwapBytes

(* The bytes of a word, swapped, are swapped back. *)
LEMMA SwapTwice ==
  ASSUME NEW w \in Word
  PROVE  SwapBytes(w) \in Word /\ SwapBytes(SwapBytes(w)) = w
<1>1. PICK high \in 0 .. 255, low \in 0 .. 255 : w = high * 256 + low
  <2>1. w \div 256 \in 0 .. 255 /\ w % 256 \in 0 .. 255 /\ w = (w \div 256) * 256 + (w % 256)
    BY DEF Word
  <2> QED
    BY <2>1
<1>2. SwapBytes(w) = low * 256 + high
  BY <1>1, SwapParts
<1>3. SwapBytes(low * 256 + high) = high * 256 + low
  BY SwapParts
<1>4. low * 256 + high \in Nat /\ low * 256 + high < 65536
  OBVIOUS
<1>5. low * 256 + high \in Word
  BY <1>4 DEF Word
<1> QED
  BY <1>1, <1>2, <1>3, <1>5, Zenon

(* What is written is what is read, whichever byte order the disk has. *)
LEMMA OnDiskTwice ==
  ASSUME NEW variant \in Variant, NEW w \in Word
  PROVE  OnDisk(variant, w) \in Word /\ OnDisk(variant, OnDisk(variant, w)) = w
BY SwapTwice DEF OnDisk

(* The slots hold the two halves, in whichever order.                       *)
LEMMA SlotsHoldBoth ==
  ASSUME NEW variant \in Variant, NEW date \in Word, NEW time \in Word
  PROVE  /\ Slots(variant, date, time) \in Word \X Word
         /\ DateSlot(variant, Slots(variant, date, time)) = date
         /\ TimeSlot(variant, Slots(variant, date, time)) = time
BY DEF Slots, DateSlot, TimeSlot

LEMMA SlotsAreTheHalves ==
  ASSUME NEW variant \in Variant, NEW slots \in Word \X Word
  PROVE  /\ DateSlot(variant, slots) \in Word /\ TimeSlot(variant, slots) \in Word
         /\ Slots(variant, DateSlot(variant, slots), TimeSlot(variant, slots)) = slots
BY DEF Slots, DateSlot, TimeSlot

(* The words of three fields each. *)
DateWord(year, month, day) == year * 512 + month * 32 + day
TimeWord(hour, minute, half) == hour * 2048 + minute * 32 + half

(* The fields of a date are found again in its word. *)
LEMMA DateFields ==
  ASSUME NEW a \in 0 .. 127, NEW b \in 0 .. 15, NEW c \in 0 .. 31, NEW variant \in Variant
  PROVE  /\ DateWord(a, b, c) \in Word
         /\ YearOf(variant, DateWord(a, b, c)) = a + Epoch(variant)
         /\ MonthOf(DateWord(a, b, c)) = b
         /\ DayOf(DateWord(a, b, c)) = c
<1> DEFINE w == DateWord(a, b, c)
<1>0. w \in Int /\ w = a * 512 + b * 32 + c
  BY DEF DateWord
<1> HIDE DEF w
<1>1. w \in Nat /\ w < 65536
  BY <1>0
<1>2. w \div 512 = a /\ a % 128 = a
  BY <1>0
<1>3. w \div 32 = a * 16 + b
  BY <1>0
<1>4. (a * 16 + b) % 16 = b
  BY <1>0
<1>5. w \div 1 = w
  BY <1>0
<1>6. w % 32 = c
  BY <1>0
<1>7. w \in Word
  BY <1>1 DEF Word
<1>8. YearOf(variant, w) = a + Epoch(variant)
  BY <1>2 DEF Field, YearOf
<1>9. MonthOf(w) = b
  BY <1>3, <1>4 DEF Field, MonthOf
<1>10. DayOf(w) = c
  BY <1>5, <1>6 DEF Field, DayOf
<1> QED
  BY <1>7, <1>8, <1>9, <1>10 DEF w

(* And those of an Xbox 360's time. *)
LEMMA WideTimeFields ==
  ASSUME NEW a \in 0 .. 31, NEW b \in 0 .. 63, NEW c \in 0 .. 31
  PROVE  /\ TimeWord(a, b, c) \in Word
         /\ HourOf("x360", TimeWord(a, b, c)) = a
         /\ MinuteOf("x360", TimeWord(a, b, c)) = b
         /\ SecondOf(TimeWord(a, b, c)) = c * 2
<1> DEFINE w == TimeWord(a, b, c)
<1>0. w \in Int /\ w = a * 2048 + b * 32 + c
  BY DEF TimeWord
<1> HIDE DEF w
<1>1. w \in Nat /\ w < 65536
  BY <1>0
<1>2. w \div 2048 = a /\ a % 32 = a
  BY <1>0
<1>3. w \div 32 = a * 64 + b
  BY <1>0
<1>4. (a * 64 + b) % 64 = b
  BY <1>0
<1>5. w \div 1 = w
  BY <1>0
<1>6. w % 32 = c
  BY <1>0
<1>7. w \in Word
  BY <1>1 DEF Word
<1>8. HourOf("x360", w) = a
  BY <1>2 DEF Field, HourOf, Hours
<1>9. MinuteOf("x360", w) = b
  BY <1>3, <1>4 DEF Field, MinuteOf, Minutes
<1>10. SecondOf(w) = c * 2
  BY <1>5, <1>6 DEF Field, SecondOf
<1> QED
  BY <1>7, <1>8, <1>9, <1>10 DEF w

(* The original Xbox's are a bit narrower, and that bit is empty. *)
LEMMA NarrowTimeFields ==
  ASSUME NEW a \in 0 .. 15, NEW b \in 0 .. 31, NEW c \in 0 .. 31
  PROVE  /\ TimeWord(a, b, c) \in Word
         /\ HourOf("xbox", TimeWord(a, b, c)) = a
         /\ MinuteOf("xbox", TimeWord(a, b, c)) = b
         /\ SecondOf(TimeWord(a, b, c)) = c * 2
         /\ LeavesEmpty(TimeWord(a, b, c))
<1> DEFINE w == TimeWord(a, b, c)
<1>0. w \in Int /\ w = a * 2048 + b * 32 + c
  BY DEF TimeWord
<1> HIDE DEF w
<1>1. w \div 2048 = a /\ a % 16 = a
  BY <1>0
<1>2. w \div 32 = a * 64 + b
  BY <1>0
<1>3. (a * 64 + b) % 32 = b
  BY <1>0
<1>4. w \div 32768 = 0 /\ 0 % 2 = 0
  BY <1>0
<1>5. w \div 1024 = a * 2
  BY <1>0
<1>6. (a * 2) % 2 = 0
  BY <1>0
<1>7. w \div 1 = w /\ w % 32 = c
  BY <1>0
<1>8. w \in Nat /\ w < 65536
  BY <1>0
<1>9. w \in Word
  BY <1>8 DEF Word
<1>10. HourOf("xbox", w) = a
  BY <1>1 DEF Field, HourOf, Hours
<1>11. MinuteOf("xbox", w) = b
  BY <1>2, <1>3 DEF Field, MinuteOf, Minutes
<1>12. SecondOf(w) = c * 2
  BY <1>7 DEF Field, SecondOf
<1>13. LeavesEmpty(w)
  BY <1>4, <1>5, <1>6 DEF Field, LeavesEmpty
<1> QED
  BY <1>9, <1>10, <1>11, <1>12, <1>13 DEF w

(* A word is the date of its fields. *)
LEMMA EveryWordIsADate ==
  ASSUME NEW w \in Word
  PROVE  \E a \in 0 .. 127, b \in 0 .. 15, c \in 0 .. 31 : w = DateWord(a, b, c)
<1>1. w \in Nat /\ w < 65536
  BY DEF Word
<1>2. w \div 512 \in 0 .. 127 /\ (w \div 32) % 16 \in 0 .. 15 /\ w % 32 \in 0 .. 31
  BY <1>1
<1>3. w = (w \div 32) * 32 + (w % 32) /\ w \div 32 = (w \div 512) * 16 + ((w \div 32) % 16)
  BY <1>1
<1>4. w = (w \div 512) * 512 + ((w \div 32) % 16) * 32 + (w % 32)
  BY <1>2, <1>3
<1>5. w = DateWord(w \div 512, (w \div 32) % 16, w % 32)
  BY <1>4 DEF DateWord
<1> USE <1>2
<1> WITNESS w \div 512 \in 0 .. 127, (w \div 32) % 16 \in 0 .. 15, w % 32 \in 0 .. 31
<1> QED
  BY <1>5

(* And the time of its fields. *)
LEMMA EveryWordIsATime ==
  ASSUME NEW w \in Word
  PROVE  \E a \in 0 .. 31, b \in 0 .. 63, c \in 0 .. 31 : w = TimeWord(a, b, c)
<1>1. w \in Nat /\ w < 65536
  BY DEF Word
<1>2. w \div 2048 \in 0 .. 31 /\ (w \div 32) % 64 \in 0 .. 63 /\ w % 32 \in 0 .. 31
  BY <1>1
<1>3. w = (w \div 32) * 32 + (w % 32) /\ w \div 32 = (w \div 2048) * 64 + ((w \div 32) % 64)
  BY <1>1
<1>4. w = (w \div 2048) * 2048 + ((w \div 32) % 64) * 32 + (w % 32)
  BY <1>2, <1>3
<1>5. w = TimeWord(w \div 2048, (w \div 32) % 64, w % 32)
  BY <1>4 DEF TimeWord
<1> USE <1>2
<1> WITNESS w \div 2048 \in 0 .. 31, (w \div 32) % 64 \in 0 .. 63, w % 32 \in 0 .. 31
<1> QED
  BY <1>5

(* Where the two bits are empty the narrower fields are all there is. *)
LEMMA EmptyBitsAreNarrow ==
  ASSUME NEW w \in Word, LeavesEmpty(w)
  PROVE  \E a \in 0 .. 15, b \in 0 .. 31, c \in 0 .. 31 : w = TimeWord(a, b, c)
<1>1. PICK a \in 0 .. 31, b \in 0 .. 63, c \in 0 .. 31 : w = TimeWord(a, b, c)
  BY EveryWordIsATime
<1>2. w = a * 2048 + b * 32 + c
  BY <1>1 DEF TimeWord
<1>3. (w \div 32768) % 2 = 0 /\ (w \div 1024) % 2 = 0
  BY DEF LeavesEmpty, Field
<1>4. a \in 0 .. 15
  <2>1. a \div 16 = w \div 32768
    BY <1>2
  <2>2. a >= 16 => a \div 16 = 1
    OBVIOUS
  <2>3. w \div 32768 # 1
    BY <1>3
  <2> QED
    BY <2>1, <2>2, <2>3
<1>5. b \in 0 .. 31
  <2>1. w \div 1024 = a * 2 + (b \div 32)
    BY <1>2
  <2>2. b >= 32 => b \div 32 = 1
    OBVIOUS
  <2>3. (a * 2 + 1) % 2 = 1
    OBVIOUS
  <2> QED
    BY <1>3, <2>1, <2>2, <2>3
<1> QED
  BY <1>1, <1>4, <1>5

-----------------------------------------------------------------------------
(* What the pair of packing functions does to the values. *)

LEMMA DateIsReadBack ==
  ASSUME NEW variant \in Variant, NEW ts \in Stamp, Fits(variant, ts)
  PROVE  /\ PackDate(variant, ts) \in Word
         /\ YearOf(variant, PackDate(variant, ts)) = ts.year
         /\ MonthOf(PackDate(variant, ts)) = ts.month
         /\ DayOf(PackDate(variant, ts)) = ts.day
<1>1. ts.year \in Int /\ ts.month \in Nat /\ ts.day \in Nat /\ Epoch(variant) \in Int
  BY DEF Stamp, Word, Epoch
<1>2. PICK y \in 0 .. 127, m \in 0 .. 15, d \in 0 .. 31 :
          y = ts.year - Epoch(variant) /\ m = ts.month /\ d = ts.day
  <2>1. ts.year - Epoch(variant) \in 0 .. 127
    BY <1>1 DEF Fits
  <2>2. ts.month \in 0 .. 15 /\ ts.day \in 0 .. 31
    BY <1>1 DEF Fits
  <2> QED
    BY <2>1, <2>2
<1>3. y % 128 = y /\ m % 16 = m /\ d % 32 = d /\ y + Epoch(variant) = ts.year
  BY <1>1, <1>2
<1>4. PackDate(variant, ts) = DateWord(y, m, d)
  BY <1>2, <1>3 DEF PackDate, DateWord
<1>5. /\ DateWord(y, m, d) \in Word
      /\ YearOf(variant, DateWord(y, m, d)) = y + Epoch(variant)
      /\ MonthOf(DateWord(y, m, d)) = m
      /\ DayOf(DateWord(y, m, d)) = d
  BY DateFields
<1> QED
  BY <1>2, <1>3, <1>4, <1>5

LEMMA TimeIsReadBack ==
  ASSUME NEW variant \in Variant, NEW ts \in Stamp, Fits(variant, ts)
  PROVE  /\ PackTime(variant, ts) \in Word
         /\ HourOf(variant, PackTime(variant, ts)) = ts.hour
         /\ MinuteOf(variant, PackTime(variant, ts)) = ts.minute
         /\ SecondOf(PackTime(variant, ts)) = (ts.second \div 2) * 2
<1>1. ts.hour \in Nat /\ ts.minute \in Nat /\ ts.second \in Nat
  BY DEF Stamp
<1>2. ts.second \div 2 \in 0 .. 31 /\ (ts.second \div 2) % 32 = ts.second \div 2
  BY <1>1 DEF Fits
<1>3. CASE variant = "x360"
  <2>1. PICK h \in 0 .. 31, n \in 0 .. 63, s \in 0 .. 31 :
            h = ts.hour /\ n = ts.minute /\ s = ts.second \div 2
    <3>1. ts.hour \in 0 .. 31 /\ ts.minute \in 0 .. 63
      BY <1>1, <1>3 DEF Fits, Hours, Minutes
    <3> QED
      BY <1>2, <3>1
  <2>2. h % 32 = h /\ n % 64 = n
    OBVIOUS
  <2>3. PackTime(variant, ts) = TimeWord(h, n, s)
    BY <1>2, <1>3, <2>1, <2>2 DEF PackTime, TimeWord, Hours, Minutes
  <2>4. /\ TimeWord(h, n, s) \in Word
        /\ HourOf("x360", TimeWord(h, n, s)) = h
        /\ MinuteOf("x360", TimeWord(h, n, s)) = n
        /\ SecondOf(TimeWord(h, n, s)) = s * 2
    BY WideTimeFields
  <2> QED
    BY <1>3, <2>1, <2>3, <2>4
<1>4. CASE variant = "xbox"
  <2>1. PICK h \in 0 .. 15, n \in 0 .. 31, s \in 0 .. 31 :
            h = ts.hour /\ n = ts.minute /\ s = ts.second \div 2
    <3>1. ts.hour \in 0 .. 15 /\ ts.minute \in 0 .. 31
      BY <1>1, <1>4 DEF Fits, Hours, Minutes
    <3> QED
      BY <1>2, <3>1
  <2>2. h % 16 = h /\ n % 32 = n
    OBVIOUS
  <2>3. PackTime(variant, ts) = TimeWord(h, n, s)
    BY <1>2, <1>4, <2>1, <2>2 DEF PackTime, TimeWord, Hours, Minutes
  <2>4. /\ TimeWord(h, n, s) \in Word
        /\ HourOf("xbox", TimeWord(h, n, s)) = h
        /\ MinuteOf("xbox", TimeWord(h, n, s)) = n
        /\ SecondOf(TimeWord(h, n, s)) = s * 2
    BY NarrowTimeFields
  <2> QED
    BY <1>4, <2>1, <2>3, <2>4
<1> QED
  BY <1>3, <1>4 DEF Variant

-----------------------------------------------------------------------------
(* What is read from a directory entry has room in one. *)

LEMMA DateReadFits ==
  ASSUME NEW variant \in Variant, NEW w \in Word
  PROVE  /\ YearOf(variant, w) \in Epoch(variant) .. Epoch(variant) + 127
         /\ MonthOf(w) \in 0 .. 15
         /\ DayOf(w) \in 0 .. 31
<1>1. PICK a \in 0 .. 127, b \in 0 .. 15, c \in 0 .. 31 : w = DateWord(a, b, c)
  BY EveryWordIsADate
<1>2. /\ YearOf(variant, DateWord(a, b, c)) = a + Epoch(variant)
      /\ MonthOf(DateWord(a, b, c)) = b
      /\ DayOf(DateWord(a, b, c)) = c
  BY DateFields
<1>3. Epoch(variant) \in Int
  BY DEF Epoch
<1>4. a + Epoch(variant) \in Epoch(variant) .. Epoch(variant) + 127
  BY <1>3
<1> QED
  BY <1>1, <1>2, <1>4

LEMMA TimeReadFits ==
  ASSUME NEW variant \in Variant, NEW w \in Word
  PROVE  /\ HourOf(variant, w) \in 0 .. 31 /\ HourOf(variant, w) < Hours(variant)
         /\ MinuteOf(variant, w) \in 0 .. 63 /\ MinuteOf(variant, w) < Minutes(variant)
         /\ SecondOf(w) \in 0 .. 63 /\ (SecondOf(w) \div 2) * 2 = SecondOf(w)
<1>1. w \in Nat
  BY DEF Word
<1>2. (w \div 2048) % 32 \in 0 .. 31 /\ (w \div 2048) % 16 \in 0 .. 15
  BY <1>1
<1>3. (w \div 32) % 64 \in 0 .. 63 /\ (w \div 32) % 32 \in 0 .. 31
  BY <1>1
<1>4. PICK s \in 0 .. 31 : s = (w \div 1) % 32
  BY <1>1
<1>5. SecondOf(w) = s * 2
  BY <1>4 DEF SecondOf, Field
<1>6. s * 2 \in 0 .. 63 /\ ((s * 2) \div 2) * 2 = s * 2
  OBVIOUS
<1>7. HourOf(variant, w) \in 0 .. 31 /\ HourOf(variant, w) < Hours(variant)
  BY <1>2 DEF HourOf, Field, Hours
<1>8. MinuteOf(variant, w) \in 0 .. 63 /\ MinuteOf(variant, w) < Minutes(variant)
  BY <1>3 DEF MinuteOf, Field, Minutes
<1> QED
  BY <1>5, <1>6, <1>7, <1>8

LEMMA WhatIsReadFits ==
  ASSUME NEW variant \in Variant, NEW slots \in Word \X Word
  PROVE  /\ Unpack(variant, slots) \in Stamp
         /\ Fits(variant, Unpack(variant, slots))
         /\ (Unpack(variant, slots).second \div 2) * 2 = Unpack(variant, slots).second
<1> DEFINE date == OnDisk(variant, DateSlot(variant, slots))
           time == OnDisk(variant, TimeSlot(variant, slots))
<1>1. date \in Word /\ time \in Word
  BY SlotsAreTheHalves, OnDiskTwice
<1>2. Unpack(variant, slots) =
        [year |-> YearOf(variant, date), month |-> MonthOf(date), day |-> DayOf(date),
         hour |-> HourOf(variant, time), minute |-> MinuteOf(variant, time),
         second |-> SecondOf(time)]
  BY DEF Unpack
<1> HIDE DEF date, time
<1>3. /\ YearOf(variant, date) \in Epoch(variant) .. Epoch(variant) + 127
      /\ MonthOf(date) \in 0 .. 15 /\ DayOf(date) \in 0 .. 31
  BY <1>1, DateReadFits
<1>4. /\ HourOf(variant, time) \in 0 .. 31 /\ HourOf(variant, time) < Hours(variant)
      /\ MinuteOf(variant, time) \in 0 .. 63 /\ MinuteOf(variant, time) < Minutes(variant)
      /\ SecondOf(time) \in 0 .. 63 /\ (SecondOf(time) \div 2) * 2 = SecondOf(time)
  BY <1>1, TimeReadFits
<1>5. YearOf(variant, date) \in Word
  BY <1>3 DEF Word, Epoch
<1>6. /\ MonthOf(date) < 16 /\ MonthOf(date) \in 0 .. 255
      /\ DayOf(date) < 32 /\ DayOf(date) \in 0 .. 255
      /\ HourOf(variant, time) \in 0 .. 255 /\ MinuteOf(variant, time) \in 0 .. 255
      /\ SecondOf(time) \in 0 .. 255 /\ SecondOf(time) < 64
  BY <1>3, <1>4
<1>7. Unpack(variant, slots) \in Stamp
  BY <1>2, <1>5, <1>6 DEF Stamp
<1>8. Fits(variant, Unpack(variant, slots))
  BY <1>2, <1>3, <1>4, <1>6 DEF Fits
<1> QED
  BY <1>2, <1>4, <1>7, <1>8

(* What the fields of a date are. *)
LEMMA DateHasFields ==
  ASSUME NEW variant \in Variant, NEW w \in Word
  PROVE  \E a \in 0 .. 127, b \in 0 .. 15, c \in 0 .. 31 :
            /\ w = DateWord(a, b, c)
            /\ YearOf(variant, w) = a + Epoch(variant) /\ MonthOf(w) = b /\ DayOf(w) = c
<1>1. PICK a \in 0 .. 127, b \in 0 .. 15, c \in 0 .. 31 : w = DateWord(a, b, c)
  BY EveryWordIsADate
<1>2. /\ YearOf(variant, DateWord(a, b, c)) = a + Epoch(variant)
      /\ MonthOf(DateWord(a, b, c)) = b
      /\ DayOf(DateWord(a, b, c)) = c
  BY DateFields
<1> QED
  BY <1>1, <1>2

(* The fields of a word, packed, are the word. *)
LEMMA DateIsPackedBack ==
  ASSUME NEW variant \in Variant, NEW w \in Word, NEW ts,
         ts.year = YearOf(variant, w), ts.month = MonthOf(w), ts.day = DayOf(w)
  PROVE  PackDate(variant, ts) = w
<1>1. PICK a \in 0 .. 127, b \in 0 .. 15, c \in 0 .. 31 :
          /\ w = DateWord(a, b, c)
          /\ YearOf(variant, w) = a + Epoch(variant) /\ MonthOf(w) = b /\ DayOf(w) = c
  BY DateHasFields
<1>2. ts.year = a + Epoch(variant) /\ ts.month = b /\ ts.day = c
  BY <1>1
<1>3. Epoch(variant) \in Int
  BY DEF Epoch
<1>4. (ts.year - Epoch(variant)) % 128 = a /\ ts.month % 16 = b /\ ts.day % 32 = c
  BY <1>1, <1>2, <1>3
<1> QED
  BY <1>1, <1>4 DEF PackDate, DateWord

LEMMA TimeIsPackedBack ==
  ASSUME NEW variant \in Variant, NEW w \in Word, NEW ts,
         variant = "x360" \/ LeavesEmpty(w),
         ts.hour = HourOf(variant, w), ts.minute = MinuteOf(variant, w), ts.second = SecondOf(w)
  PROVE  PackTime(variant, ts) = w
<1>1. CASE variant = "x360"
  <2>1. PICK a \in 0 .. 31, b \in 0 .. 63, c \in 0 .. 31 : w = TimeWord(a, b, c)
    BY EveryWordIsATime
  <2>2. /\ HourOf("x360", TimeWord(a, b, c)) = a
        /\ MinuteOf("x360", TimeWord(a, b, c)) = b
        /\ SecondOf(TimeWord(a, b, c)) = c * 2
    BY WideTimeFields
  <2>3. ts.hour % 32 = a /\ ts.minute % 64 = b /\ (ts.second \div 2) % 32 = c
    BY <1>1, <2>1, <2>2
  <2> QED
    BY <1>1, <2>1, <2>3 DEF PackTime, TimeWord, Hours, Minutes
<1>2. CASE variant = "xbox"
  <2>1. PICK a \in 0 .. 15, b \in 0 .. 31, c \in 0 .. 31 : w = TimeWord(a, b, c)
    BY <1>2, EmptyBitsAreNarrow
  <2>2. /\ HourOf("xbox", TimeWord(a, b, c)) = a
        /\ MinuteOf("xbox", TimeWord(a, b, c)) = b
        /\ SecondOf(TimeWord(a, b, c)) = c * 2
    BY NarrowTimeFields
  <2>3. ts.hour % 16 = a /\ ts.minute % 32 = b /\ (ts.second \div 2) % 32 = c
    BY <1>2, <2>1, <2>2
  <2> QED
    BY <1>2, <2>1, <2>3 DEF PackTime, TimeWord, Hours, Minutes
<1> QED
  BY <1>1, <1>2 DEF Variant

(* The original Xbox's time always leaves the two bits empty. *)
LEMMA PackedTimeLeavesEmpty ==
  ASSUME NEW ts \in Stamp
  PROVE  LeavesEmpty(PackTime("xbox", ts))
<1>1. ts.hour \in Nat /\ ts.minute \in Nat /\ ts.second \in Nat
  BY DEF Stamp
<1>2. PICK h \in 0 .. 15, n \in 0 .. 31, s \in 0 .. 31 :
          h = ts.hour % 16 /\ n = ts.minute % 32 /\ s = (ts.second \div 2) % 32
  <2>1. ts.hour % 16 \in 0 .. 15 /\ ts.minute % 32 \in 0 .. 31 /\ (ts.second \div 2) % 32 \in 0 .. 31
    BY <1>1
  <2> QED
    BY <2>1
<1>3. PackTime("xbox", ts) = TimeWord(h, n, s)
  BY <1>2 DEF PackTime, TimeWord, Hours, Minutes
<1> QED
  BY <1>3, NarrowTimeFields

-----------------------------------------------------------------------------
(* The theorems. *)

(* A time that fits the slots, written and read again, is the same time, to *)
(* the two seconds: the shifts and masks of the two functions, their epochs *)
(* and both byte orders agree (fatx_pack_timestamp, fatx_unpack_timestamp). *)
THEOREM StampsAreReadBack ==
  ASSUME NEW variant \in Variant, NEW ts \in Stamp, Fits(variant, ts)
  PROVE  Unpack(variant, Pack(variant, ts)) = [ts EXCEPT !.second = (ts.second \div 2) * 2]
<1> DEFINE date == OnDisk(variant, PackDate(variant, ts))
           time == OnDisk(variant, PackTime(variant, ts))
<1>1. /\ date \in Word /\ OnDisk(variant, date) = PackDate(variant, ts)
      /\ time \in Word /\ OnDisk(variant, time) = PackTime(variant, ts)
  BY DateIsReadBack, TimeIsReadBack, OnDiskTwice
<1>2. Pack(variant, ts) = Slots(variant, date, time)
  BY DEF Pack
<1> HIDE DEF date, time
<1>3. /\ DateSlot(variant, Pack(variant, ts)) = date
      /\ TimeSlot(variant, Pack(variant, ts)) = time
  BY <1>1, <1>2, SlotsHoldBoth
<1>4. Unpack(variant, Pack(variant, ts)) =
        [year |-> ts.year, month |-> ts.month, day |-> ts.day, hour |-> ts.hour,
         minute |-> ts.minute, second |-> (ts.second \div 2) * 2]
  BY <1>1, <1>3, DateIsReadBack, TimeIsReadBack DEF Unpack
<1> QED
  BY <1>4 DEF Stamp

(* Renaming, cutting or extending a node writes its timestamps again, and   *)
(* they are still the same ones, whatever bits the entry held               *)
(* (fatx_dirent_to_attr, fatx_attr_to_dirent).                              *)
THEOREM RewritingReadsTheSame ==
  ASSUME NEW variant \in Variant, NEW slots \in Word \X Word
  PROVE  Unpack(variant, Rewritten(variant, slots)) = Unpack(variant, slots)
<1> DEFINE ts == Unpack(variant, slots)
<1>1. ts \in Stamp /\ Fits(variant, ts) /\ (ts.second \div 2) * 2 = ts.second
  BY WhatIsReadFits
<1>2. Rewritten(variant, slots) = Pack(variant, ts)
  BY DEF Rewritten
<1> HIDE DEF ts
<1>3. Unpack(variant, Pack(variant, ts)) = [ts EXCEPT !.second = (ts.second \div 2) * 2]
  BY <1>1, StampsAreReadBack
<1>4. [ts EXCEPT !.second = (ts.second \div 2) * 2] = ts
  BY <1>1 DEF Stamp
<1>5. Unpack(variant, Rewritten(variant, slots)) = ts
  BY <1>2, <1>3, <1>4
<1> QED
  BY <1>5 DEF ts

(* On an Xbox 360's volume the slots are written back as they were, bit by  *)
(* bit; on an original Xbox's exactly when the time left empty the two bits *)
(* the library has no field for, and they are cleared otherwise.            *)
THEOREM RewritingLeavesTheSlots ==
  ASSUME NEW variant \in Variant, NEW slots \in Word \X Word
  PROVE  Rewritten(variant, slots) = slots
           <=> (variant = "x360" \/ LeavesEmpty(OnDisk(variant, TimeSlot(variant, slots))))
<1> DEFINE ts == Unpack(variant, slots)
           date == OnDisk(variant, DateSlot(variant, slots))
           time == OnDisk(variant, TimeSlot(variant, slots))
<1>1. /\ date \in Word /\ OnDisk(variant, date) = DateSlot(variant, slots)
      /\ time \in Word /\ OnDisk(variant, time) = TimeSlot(variant, slots)
  BY SlotsAreTheHalves, OnDiskTwice
<1>2. Slots(variant, DateSlot(variant, slots), TimeSlot(variant, slots)) = slots
  BY SlotsAreTheHalves
<1>3. /\ ts.year = YearOf(variant, date) /\ ts.month = MonthOf(date) /\ ts.day = DayOf(date)
      /\ ts.hour = HourOf(variant, time) /\ ts.minute = MinuteOf(variant, time)
      /\ ts.second = SecondOf(time)
  BY DEF Unpack
<1>4. ts \in Stamp /\ Fits(variant, ts)
  BY WhatIsReadFits
<1>5. Rewritten(variant, slots)
        = Slots(variant, OnDisk(variant, PackDate(variant, ts)), OnDisk(variant, PackTime(variant, ts)))
  BY DEF Rewritten, Pack
<1> HIDE DEF ts, date, time
<1>6. PackDate(variant, ts) = date
  BY <1>1, <1>3, DateIsPackedBack
<1>7. ASSUME variant = "x360" \/ LeavesEmpty(time) PROVE Rewritten(variant, slots) = slots
  <2>1. PackTime(variant, ts) = time
    BY <1>1, <1>3, <1>7, TimeIsPackedBack
  <2> QED
    BY <1>1, <1>2, <1>5, <1>6, <2>1
<1>8. ASSUME Rewritten(variant, slots) = slots, variant = "xbox" PROVE LeavesEmpty(time)
  <2>1. PackTime(variant, ts) \in Word
    BY <1>4, TimeIsReadBack
  <2>2. /\ OnDisk(variant, PackTime(variant, ts)) \in Word
        /\ OnDisk(variant, OnDisk(variant, PackTime(variant, ts))) = PackTime(variant, ts)
    BY <2>1, OnDiskTwice
  <2>3. OnDisk(variant, PackDate(variant, ts)) \in Word
    BY <1>1, <1>6, OnDiskTwice
  <2>4. TimeSlot(variant, slots) = OnDisk(variant, PackTime(variant, ts))
    <3> DEFINE d == OnDisk(variant, PackDate(variant, ts))
               t == OnDisk(variant, PackTime(variant, ts))
    <3>1. d \in Word /\ t \in Word /\ slots = Slots(variant, d, t)
      BY <1>5, <1>8, <2>2, <2>3
    <3> HIDE DEF d, t
    <3>2. TimeSlot(variant, Slots(variant, d, t)) = t
      BY <3>1, SlotsHoldBoth
    <3> QED
      BY <3>1, <3>2 DEF t
  <2>5. time = PackTime("xbox", ts)
    BY <1>8, <2>2, <2>4 DEF time
  <2> QED
    BY <1>4, <2>5, PackedTimeLeavesEmpty
<1>9. Rewritten(variant, slots) = slots <=> (variant = "x360" \/ LeavesEmpty(time))
  BY <1>7, <1>8 DEF Variant
<1> QED
  BY <1>9 DEF time

(* Setting the times of a node sets those two, and leaves the time it was   *)
(* created at what it was (fatx_utime).                                     *)
THEOREM UtimeSetsTwoTimes ==
  ASSUME NEW variant \in Variant,
         NEW entry \in [accessed : Word \X Word, modified : Word \X Word, created : Word \X Word],
         NEW accessed \in Stamp, Fits(variant, accessed),
         NEW modified \in Stamp, Fits(variant, modified)
  PROVE  LET new == Utime(variant, entry, accessed, modified)
         IN  /\ Unpack(variant, new.accessed) = [accessed EXCEPT !.second = (accessed.second \div 2) * 2]
             /\ Unpack(variant, new.modified) = [modified EXCEPT !.second = (modified.second \div 2) * 2]
             /\ Unpack(variant, new.created) = Unpack(variant, entry.created)
<1>1. entry.created \in Word \X Word
  OBVIOUS
<1>2. Unpack(variant, Rewritten(variant, entry.created)) = Unpack(variant, entry.created)
  BY <1>1, RewritingReadsTheSame
<1>3. Unpack(variant, Pack(variant, accessed)) = [accessed EXCEPT !.second = (accessed.second \div 2) * 2]
  BY StampsAreReadBack
<1>4. Unpack(variant, Pack(variant, modified)) = [modified EXCEPT !.second = (modified.second \div 2) * 2]
  BY StampsAreReadBack
<1> QED
  BY <1>2, <1>3, <1>4 DEF Utime

(* The two readers see the same times in an entry, whichever order its      *)
(* bytes and slots have (normalize, TimestampFormat, fatx_unpack_timestamp). *)
THEOREM ReadersReadTheSameStamp ==
  ASSUME NEW variant \in Variant, NEW slots \in Word \X Word
  PROVE  RustUnpack(variant, slots) = Unpack(variant, slots)
<1>1. /\ Normalized(variant, slots)[1] = OnDisk(variant, TimeSlot(variant, slots))
      /\ Normalized(variant, slots)[2] = OnDisk(variant, DateSlot(variant, slots))
  BY DEF Normalized, OnDisk, TimeSlot, DateSlot
<1> QED
  BY <1>1 DEF RustUnpack, Unpack, YearOf, MonthOf, DayOf, HourOf, MinuteOf, SecondOf
=============================================================================
