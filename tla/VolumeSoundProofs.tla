------------------------- MODULE VolumeSoundProofs -------------------------
(***************************************************************************)
(* What the chains, directories and files of a sound volume come to, what  *)
(* users see of it, and how a crash leaves its directories.                *)
(***************************************************************************)
EXTENDS VolumeProofs, VolumeCrash

-----------------------------------------------------------------------------
(* What users see of a sound volume. *)

LEMMA OneCluster ==
  ASSUME NEW v \in Shaped, NEW c \in DirClusters(v)
  PROVE  Chain(v, c) = <<c>> /\ c \in Cluster
<1> DEFINE s == <<c>>
<1>1. v \in Volumes /\ c \in Cluster /\ v.fat[c] = End /\ End \notin Cluster
  BY DirCluster, Entries
<1>2. s \in Seq(Cluster) /\ Len(s) = 1 /\ s[1] = c
  BY <1>1
<1> HIDE DEF s
<1>3. IsChain(v.fat, s)
  BY <1>1, <1>2 DEF IsChain
<1>4. s = Chain(v, c)
  BY <1>1, <1>2, <1>3, OneChain
<1> QED
  BY <1>1, <1>4 DEF s

LEMMA Listed ==
  ASSUME NEW v \in Shaped, NEW c \in DirClusters(v), NEW p \in Listing(v, c)
  PROVE  p \in Live(v) /\ p.cluster = c /\ At(v, p) = BlockOf(v, p)
<1>1. v \in Volumes /\ c \in Cluster /\ v.fat[c] # Available
  BY DirCluster
<1> DEFINE chain == Chain(v, c)
<1>2. chain = <<c>>
  BY OneCluster
<1> HIDE DEF chain
<1>3. Len(chain) = 1 /\ chain[1] = c /\ N * Len(chain) = N
  BY <1>2, OpsAssumption
<1>4. PICK i \in 0 .. N * Len(chain) - 1 : p = Spot(chain, i) /\ At(v, p).kind = "live"
  BY DEF Listing, chain
<1>5. i \in 0 .. N - 1 /\ i \in 0 .. N /\ i < N
  BY <1>3, OpsAssumption
<1>6. i \div N = 0 /\ i % N = i
  BY <1>5, EntryInCluster
<1>7. p = Place(c, i)
  BY <1>3, <1>4, <1>6 DEF Spot
<1>8. p \in Places /\ p.cluster = c
  BY <1>1, <1>5, <1>7 DEF Place, Places
<1> QED
  BY <1>1, <1>4, <1>8, IsLive

LEMMA ReachedAreLive ==
  ASSUME NEW v \in Shaped
  PROVE  /\ Directories(v) \subseteq DirClusters(v)
         /\ \A p \in Nodes(v) : p \in Live(v) /\ At(v, p) = BlockOf(v, p)
<1>1. ASSUME NEW c \in Directories(v) PROVE c \in DirClusters(v)
  <2>1. CASE c = Root
    BY <2>1, RootIsDir
  <2>2. CASE c # Root
    <3>1. PICK p \in Listing(v, Root) : At(v, p).isDir /\ c = At(v, p).first
      BY <2>2 DEF Directories
    <3>2. p \in Live(v) /\ At(v, p) = BlockOf(v, p)
      BY RootIsDir, Listed
    <3> QED
      BY <3>1, <3>2 DEF DirClusters, First
  <2> QED
    BY <2>1, <2>2
<1>2. ASSUME NEW p \in Nodes(v) PROVE p \in Live(v) /\ At(v, p) = BlockOf(v, p)
  <2>1. PICK c \in Directories(v) : p \in Listing(v, c)
    BY DEF Nodes
  <2> QED
    BY <1>1, <2>1, Listed
<1> QED
  BY <1>1, <1>2

(* Between them the entries and the root hold each cluster at most once,    *)
(* and every chain they name is allocated to its last cluster, however      *)
(* files grow, shrink, are replaced and run out of room: fatx_unlink and    *)
(* fatx_truncate free nothing of someone else's.                            *)
THEOREM EntriesOwnTheirChains ==
  ASSUME Careful
  PROVE  Spec => []ChainsAreSound
<1>1. SoundInv => ChainsAreSound
  <2> SUFFICES ASSUME SoundInv PROVE ChainsAreSound
    OBVIOUS
  <2>1. vol \in Shaped /\ vol \in Volumes
    BY SoundIsShaped DEF SoundInv
  <2>2. ASSUME NEW p \in Nodes(vol)
        PROVE  /\ p \in Live(vol) /\ ChainOf(vol, p) = ChainSet(vol, First(vol, p))
               /\ First(vol, p) \in Cluster
    BY <2>1, ReachedAreLive, ChainOfEntry DEF ChainOf, First
  <2>3. ASSUME NEW p \in Nodes(vol) PROVE Root \notin ChainOf(vol, p)
    BY <2>1, <2>2, ChainOfEntry
  <2>4. ASSUME NEW p \in Nodes(vol), NEW q \in Nodes(vol), p # q
        PROVE  ChainOf(vol, p) \cap ChainOf(vol, q) = {}
    BY <2>1, <2>2, <2>4, ChainOfEntry
  <2>5. ASSUME NEW p \in Nodes(vol) PROVE \E c \in ChainOf(vol, p) : vol.fat[c] = End
    <3> DEFINE chain == Chain(vol, First(vol, p))
               last == chain[Len(chain)]
    <3>1. Len(chain) \in 1 .. D /\ IsChain(vol.fat, chain)
      BY <2>1, <2>2, Chained
    <3>2. Len(chain) \in 1 .. Len(chain)
      BY <3>1
    <3>3. last \in ChainSet(vol, First(vol, p))
      BY <2>1, <2>2, <3>2, LastOfChain
    <3>4. NextCluster(vol, last) = 0
      BY <3>1 DEF IsChain, NextCluster
    <3> HIDE DEF last
    <3>5. vol.fat[last] = End
      BY <2>1, <2>2, <3>3, <3>4, ChainOfEntry
    <3> QED
      BY <2>2, <3>3, <3>5
  <2> QED
    BY <2>3, <2>4, <2>5 DEF ChainsAreSound
<1> QED
  BY <1>1, SoundHolds, PTL

(* A file has a cluster for each of its units: fatx_read finds them all. *)
THEOREM FilesHaveTheirClusters ==
  ASSUME Careful
  PROVE  Spec => []SizesFitChains
<1>1. SoundInv => SizesFitChains
  BY SoundIsShaped, ReachedAreLive DEF SoundInv, SizesFitChains, SizesFit, FilesOf, First
<1> QED
  BY <1>1, SoundHolds, PTL

(* No directory has two entries of one name, and each has an end marker     *)
(* inside its cluster, where every scan of it stops.                        *)
THEOREM DirectoriesStaySound ==
  ASSUME Careful
  PROVE  Spec => []DirectoriesAreSound
<1>1. SoundInv => DirectoriesAreSound
  <2> SUFFICES ASSUME SoundInv, NEW c \in Directories(vol)
               PROVE  /\ \A p, q \in Listing(vol, c) : p # q => At(vol, p).name # At(vol, q).name
                      /\ HasEnd(vol, c)
    BY DEF DirectoriesAreSound
  <2>1. vol \in Shaped /\ vol \in Volumes /\ c \in DirClusters(vol)
    BY SoundIsShaped, ReachedAreLive DEF SoundInv
  <2>2. \A p, q \in Listing(vol, c) : p # q => At(vol, p).name # At(vol, q).name
    BY <2>1, Listed DEF Shaped, Dirs
  <2>3. HasEnd(vol, c)
    <3>1. PICK u \in 0 .. N - 1 : Filling(vol.slot[c], u)
      BY <2>1, DirCluster
    <3>2. ~(u < u) /\ vol.slot[c][u] \in {Blank, EndMark}
      BY <3>1 DEF Filling
    <3>3. c \in Cluster /\ c \in ChainSet(vol, c)
      BY <2>1, DirCluster, ChainLinks
    <3>4. Place(c, u) \in Places /\ Place(c, u).cluster = c /\ Place(c, u).entry = u
      BY <3>3 DEF Place, Places
    <3>5. At(vol, Place(c, u)) = vol.slot[c][u]
      BY <2>1, <3>4, BlockAt, PlacesAreWritable
    <3> QED
      BY <3>2, <3>3, <3>5, Statuses DEF HasEnd
  <2> QED
    BY <2>2, <2>3
<1> QED
  BY <1>1, SoundHolds, PTL

LEMMA AtMostBoth ==
  ASSUME NEW a \in Nat, NEW b \in Nat
  PROVE  Min({a, b}) \in Nat /\ Min({a, b}) <= b
<1> DEFINE P(m) == m \in {a, b} /\ \A y \in {a, b} : m <= y
<1>1. \E m : P(m)
  <2>1. CASE a <= b
    <3>1. P(a)
      BY <2>1
    <3> QED
      BY <3>1
  <2>2. CASE ~(a <= b)
    <3>1. P(b)
      BY <2>2
    <3> QED
      BY <3>1
  <2> QED
    BY <2>1, <2>2
<1>2. P(Min({a, b}))
  BY <1>1 DEF Min
<1> QED
  BY <1>2

(* fatx_read returns what users wrote to the file, or the zeroes of a       *)
(* cleared cluster, and nothing of an earlier life of its clusters.         *)
THEOREM ReadsAreFresh ==
  ASSUME Careful
  PROVE  Spec => []NoStaleData
<1>1. SoundInv => NoStaleData
  <2> SUFFICES ASSUME SoundInv, NEW p \in FilesOf(vol), NEW i \in DOMAIN Read(vol, At(vol, p))
               PROVE  Read(vol, At(vol, p))[i] \in {Blank} \cup {Unit(x) : x \in Value}
    BY DEF NoStaleData
  <2>1. /\ vol \in Shaped /\ vol \in Volumes
        /\ p \in Live(vol) /\ ~BlockOf(vol, p).isDir /\ At(vol, p) = BlockOf(vol, p)
    BY SoundIsShaped, ReachedAreLive DEF SoundInv, FilesOf
  <2> DEFINE attr == At(vol, p)
             f == First(vol, p)
             chain == Chain(vol, f)
             n == Len(chain)
             top == Min({attr.size, N * n})
             k == ((i - 1) \div N) + 1
             e == (i - 1) % N
  <2>2. f \in Cluster /\ attr.first = f /\ attr.size \in Nat
    BY <2>1, LiveType, SizesAreNat DEF First
  <2>3. n \in Nat \ {0} /\ N \in Nat
    BY <2>1, <2>2, Chained, OpsAssumption
  <2>4. Read(vol, attr) = [j \in 1 .. top |-> vol.slot[chain[((j - 1) \div N) + 1]][(j - 1) % N]]
    BY <2>2 DEF Read
  <2> HIDE DEF attr, f
  <2>5. N * n \in Nat
    BY <2>3
  <2> DEFINE m == N * n
  <2>6. top \in Nat /\ top <= m
    <3> HIDE DEF n
    <3>1. m \in Nat
      BY <2>5
    <3> HIDE DEF m
    <3>2. Min({attr.size, m}) \in Nat /\ Min({attr.size, m}) <= m
      BY <2>2, <3>1, AtMostBoth
    <3> QED
      BY <3>2 DEF m
  <2> HIDE DEF chain, n, top
  <2>7. i \in 1 .. top /\ Read(vol, attr)[i] = vol.slot[chain[k]][e]
    <3>1. i \in DOMAIN Read(vol, attr)
      BY DEF attr
    <3> QED
      BY <2>4, <3>1
  <2>8. i - 1 \in Nat /\ i - 1 < m
    BY <2>5, <2>6, <2>7
  <2>9. k \in 1 .. n /\ e \in 0 .. N - 1
    <3> DEFINE g == (i - 1) \div N
    <3>1. g \in Nat /\ (i - 1) % N \in 0 .. N - 1 /\ i - 1 = N * g + ((i - 1) % N)
      BY <2>8, Divided
    <3>2. g < n
      <4> HIDE DEF g
      <4> SUFFICES ASSUME n <= g PROVE FALSE
        BY <2>3, <3>1
      <4>1. N * n <= N * g
        BY <2>3, <3>1
      <4> DEFINE a == N * g
                 b == (i - 1) % N
      <4>2. a \in Nat /\ b \in Nat
        BY <2>3, <3>1
      <4>3. i - 1 = a + b /\ m <= a /\ m \in Nat
        BY <2>5, <3>1, <4>1
      <4> HIDE DEF a, b, m
      <4> QED
        BY <2>8, <4>2, <4>3
    <3> QED
      BY <2>3, <3>1, <3>2
  <2> HIDE DEF k, e
  <2>10. chain[k] \in ChainSet(vol, f)
    BY <2>1, <2>2, <2>9, LastOfChain DEF chain, n
  <2>11. chain[k] \in Cluster \ DirClusters(vol) /\ vol.fat[chain[k]] # Available
    BY <2>1, <2>10, ChainOfFile DEF f
  <2>12. vol.slot[chain[k]][e] \in DataBlock
    BY <2>1, <2>9, <2>11 DEF Shaped, Data
  <2> QED
    BY <2>7, <2>12 DEF DataBlock, attr
<1> QED
  BY <1>1, SoundHolds, PTL

-----------------------------------------------------------------------------
(* What calls may not do. *)

LEMMA ListedIfLive ==
  ASSUME NEW v \in Shaped, NEW p \in Live(v)
  PROVE  p \in Listing(v, p.cluster) /\ At(v, p) = BlockOf(v, p)
<1> DEFINE c == p.cluster
           i == p.entry
           chain == Chain(v, c)
<1>1. v \in Volumes /\ c \in DirClusters(v) /\ c \in Cluster
  BY LiveType DEF Shaped, Nesting
<1>2. i \in 0 .. N - 1 /\ p = Place(c, i) /\ At(v, p) = BlockOf(v, p) /\ BlockOf(v, p).kind = "live"
  BY <1>1, LiveType
<1>3. PICK u \in 0 .. N - 1 : Filling(v.slot[c], u)
  BY <1>1, DirCluster
<1>4. chain = <<c>>
  BY <1>1, OneCluster
<1> HIDE DEF c, i, chain
<1>5. Len(chain) = 1 /\ chain[1] = c /\ N * Len(chain) = N
  BY <1>4, OpsAssumption
<1> DEFINE spots == 0 .. N * Len(chain) - 1
           ends == {j \in spots : ReadDir(At(v, Spot(chain, j))) = "end_of_dir"}
           last == IF ends = {} THEN N * Len(chain) ELSE Min(ends)
<1>6. spots = 0 .. N - 1
  BY <1>5
<1> HIDE DEF spots
<1>7. ASSUME NEW j \in spots
      PROVE  Spot(chain, j) = Place(c, j) /\ At(v, Spot(chain, j)) = v.slot[c][j]
  <2>1. j \in 0 .. N - 1 /\ j \in 0 .. N /\ j < N
    BY <1>6, OpsAssumption
  <2>2. j \div N = 0 /\ j % N = j
    BY <2>1, EntryInCluster
  <2>3. Spot(chain, j) = Place(c, j)
    BY <1>5, <2>2 DEF Spot
  <2>4. Place(c, j) \in Places /\ Place(c, j).cluster = c /\ Place(c, j).entry = j
    BY <1>1, <2>1 DEF Place, Places
  <2> QED
    BY <1>1, <2>3, <2>4, BlockAt, PlacesAreWritable
<1>8. i \in spots
  BY <1>2, <1>6
<1>9. v.slot[c][i].kind = "live"
  BY <1>2, <1>7, <1>8
<1>10. i < u
  <2> SUFFICES ASSUME ~(i < u) PROVE FALSE
    OBVIOUS
  <2>1. v.slot[c][i] \in {Blank, EndMark}
    BY <1>2, <1>3 DEF Filling
  <2> QED
    BY <1>9, <2>1, Statuses
<1>11. ASSUME NEW j \in ends PROVE j \in Int /\ i < j
  <2>1. j \in spots /\ ReadDir(v.slot[c][j]) = "end_of_dir"
    BY <1>7
  <2>2. j \in 0 .. N - 1
    BY <1>6, <2>1
  <2>3. ~(j < u)
    BY <1>3, <2>1, <2>2, Statuses DEF Filling
  <2> QED
    BY <1>2, <1>10, <2>2, <2>3
<1>12. i < last
  <2>1. CASE ends = {}
    BY <1>2, <1>5, <2>1, OpsAssumption
  <2>2. CASE ends # {}
    <3> DEFINE P(m) == m \in ends /\ \A y \in ends : m <= y
    <3>1. ends \in SUBSET Nat /\ u \in ends
      <4>1. u \in spots /\ ~(u < u) /\ u \in 0 .. N - 1
        BY <1>6
      <4>2. v.slot[c][u] \in {Blank, EndMark}
        BY <1>3, <4>1 DEF Filling
      <4>3. ReadDir(v.slot[c][u]) = "end_of_dir"
        BY <4>2, Statuses
      <4> QED
        BY <1>6, <1>7, <4>1, <4>3
    <3>2. \A j \in ends : ~(j < u)
      <4> SUFFICES ASSUME NEW j \in ends, j < u PROVE FALSE
        OBVIOUS
      <4>1. j \in spots /\ ReadDir(v.slot[c][j]) = "end_of_dir"
        BY <1>7
      <4>2. j \in 0 .. N - 1
        BY <1>6, <4>1
      <4> QED
        BY <1>3, <4>1, <4>2, Statuses DEF Filling
    <3>3. P(u)
      BY <3>1, <3>2
    <3>4. P(Min(ends))
      <4>1. \E m : P(m)
        BY <3>3
      <4> QED
        BY <4>1 DEF Min
    <3> QED
      BY <1>11, <2>2, <3>4
  <2> QED
    BY <2>1, <2>2
<1>13. p = Spot(chain, i) /\ At(v, Spot(chain, i)).kind = "live"
  BY <1>2, <1>7, <1>8, <1>9
<1>14. Listing(v, c) = {Spot(chain, j) : j \in {k \in spots : k < last /\ At(v, Spot(chain, k)).kind = "live"}}
  BY DEF Listing, chain, spots
<1> HIDE DEF ends, last
<1>15. p \in Listing(v, c)
  BY <1>8, <1>12, <1>13, <1>14
<1> QED
  BY <1>2, <1>15 DEF c

(* Users reach every entry there is. *)
LEMMA AllReached ==
  ASSUME NEW v \in Shaped
  PROVE  Nodes(v) = Live(v)
<1>1. Nodes(v) \subseteq Live(v)
  BY ReachedAreLive
<1>2. ASSUME NEW p \in Live(v) PROVE p \in Nodes(v)
  <2>1. p \in Listing(v, p.cluster) /\ p.cluster \in DirClusters(v)
    BY ListedIfLive DEF Shaped, Nesting
  <2>2. p.cluster \in Directories(v)
    <3>1. CASE p.cluster = Root
      BY <3>1 DEF Directories
    <3>2. CASE p.cluster # Root
      <4>1. PICK d \in Live(v) : BlockOf(v, d).isDir /\ p.cluster = First(v, d)
        BY <2>1, <3>2 DEF DirClusters
      <4>2. d.cluster = Root
        BY <4>1 DEF Shaped, Nesting
      <4>3. d \in Listing(v, Root) /\ At(v, d) = BlockOf(v, d)
        BY <4>2, ListedIfLive
      <4> QED
        BY <4>1, <4>3 DEF Directories, First
    <3> QED
      BY <3>1, <3>2
  <2> QED
    BY <2>1, <2>2 DEF Nodes
<1> QED
  BY <1>1, <1>2

(* The clusters that are free, or someone's. *)
Owned(v) ==
  FreeClusters(v) \cup {Root} \cup UNION {ChainSet(v, First(v, p)) : p \in Live(v)}

LEMMA NotOwned ==
  ASSUME NEW v \in Shaped
  PROVE  LostClusters(v) = Cluster \ Owned(v)
<1>1. ChainSet(v, Root) = {Root}
  <2> DEFINE s == <<Root>>
  <2>1. Chain(v, Root) = s
    BY RootIsDir, OneCluster
  <2>2. s \in Seq({Root}) /\ Len(s) = 1 /\ s[1] = Root
    OBVIOUS
  <2> HIDE DEF s
  <2>3. Range(s) = {Root}
    BY <2>2 DEF Range
  <2> QED
    BY <2>1, <2>3 DEF ChainSet
<1>2. \A p \in Live(v) : ChainOf(v, p) = ChainSet(v, First(v, p))
  BY LiveType DEF ChainOf, First, Shaped
<1>3. UNION {ChainOf(v, p) : p \in Nodes(v)} = UNION {ChainSet(v, First(v, p)) : p \in Live(v)}
  BY <1>2, AllReached
<1> QED
  BY <1>1, <1>3 DEF LostClusters, Owned

(* An entry that keeps its first cluster, and the FAT of its chain, keeps   *)
(* its chain.                                                               *)
LEMMA ChainStillOwned ==
  ASSUME NEW v \in Shaped, NEW w \in Shaped, NEW p \in Live(v), NEW q \in Live(w),
         First(w, q) = First(v, p), \A c \in ChainSet(v, First(v, p)) : w.fat[c] = v.fat[c]
  PROVE  ChainSet(v, First(v, p)) \subseteq Owned(w)
<1>1. v \in Volumes /\ w \in Volumes /\ First(v, p) \in Cluster
  BY LiveType DEF Shaped
<1>2. Chain(w, First(w, q)) = Chain(v, First(v, p))
  BY <1>1, ChainKept
<1> QED
  BY <1>2 DEF Owned, ChainSet

(* All that belonged to someone or was free still is. *)
NoneLost(v, w) == Owned(v) \subseteq Owned(w)

LEMMA NoneLostAgain ==
  ASSUME NEW u, NEW v, NEW w, NoneLost(u, v), NoneLost(v, w)
  PROVE  NoneLost(u, w)
BY DEF NoneLost

LEMMA FileCallLosesNone ==
  ASSUME NEW v \in Shaped, NEW w \in Shaped, NEW q \in Live(v), FileCalled(v, q, w)
  PROVE  NoneLost(v, w)
<1>1. /\ Live(w) = Live(v) /\ \A p \in Live(v) : First(w, p) = First(v, p)
      /\ Mine(w, q) = Mine(v, q) /\ \A c \in Cluster \ Mine(v, q) : w.fat[c] = v.fat[c]
  BY DEF FileCalled, SameNames
<1>2. Mine(w, q) \subseteq Owned(w)
  BY <1>1 DEF Mine, Owned
<1>3. ASSUME NEW p \in Live(v), p # q PROVE ChainSet(v, First(v, p)) \subseteq Owned(w)
  <2>1. \A c \in ChainSet(v, First(v, p)) : c \in Cluster \ Mine(v, q)
    BY <1>3, ChainOfEntry DEF Mine, FreeClusters
  <2> QED
    BY <1>1, <2>1, ChainStillOwned
<1>4. FreeClusters(v) \cup ChainSet(v, First(v, q)) \subseteq Owned(w)
  BY <1>1, <1>2 DEF Mine
<1>5. Root \in Owned(w)
  BY DEF Owned
<1> QED
  BY <1>3, <1>4, <1>5 DEF NoneLost, Owned

LEMMA MakingLosesNone ==
  ASSUME NEW v \in Shaped, NEW w \in Shaped, NEW path, NEW isDir, NEW q,
         Made(v, path, isDir, q, w)
  PROVE  NoneLost(v, w)
<1> DEFINE c == First(w, q)
<1>1. /\ \A p \in Live(v) : p \in Live(w) /\ First(w, p) = First(v, p)
      /\ q \in Live(w) /\ v.fat[c] = Available
      /\ \A d \in Cluster \ {c} : w.fat[d] = v.fat[d]
  BY DEF Made, With, First
<1>2. c \in Cluster /\ c \in ChainSet(w, c)
  BY <1>1, LiveType, ChainLinks DEF Shaped
<1> HIDE DEF c
<1>3. ASSUME NEW d \in FreeClusters(v) PROVE d \in Owned(w)
  <2>1. CASE d = c
    BY <1>1, <1>2, <2>1 DEF Owned, c
  <2>2. CASE d # c
    BY <1>1, <2>2 DEF FreeClusters, Owned
  <2> QED
    BY <2>1, <2>2
<1>4. ASSUME NEW p \in Live(v) PROVE ChainSet(v, First(v, p)) \subseteq Owned(w)
  <2>1. \A d \in ChainSet(v, First(v, p)) : d \in Cluster \ {c}
    BY <1>1, ChainOfEntry
  <2> QED
    BY <1>1, <2>1, ChainStillOwned
<1>5. Root \in Owned(w)
  BY DEF Owned
<1> QED
  BY <1>3, <1>4, <1>5 DEF NoneLost, Owned

(* Removing an entry loses no cluster, unless it is a directory that has    *)
(* something in it.                                                         *)
LEMMA RemovingLosesNone ==
  ASSUME NEW v \in Shaped, NEW w \in Shaped, NEW q \in Live(v), Without(v, q, w), ~Occupied(v, q)
  PROVE  NoneLost(v, w)
<1> DEFINE C == ChainSet(v, First(v, q))
<1>1. /\ \A p \in Live(v) : p # q => p \in Live(w) /\ First(w, p) = First(v, p)
      /\ \A d \in Cluster : w.fat[d] = IF d \in C THEN Available ELSE v.fat[d]
  BY DEF Without, Occupied, First
<1>2. C \subseteq Cluster
  BY ChainOfEntry
<1> HIDE DEF C
<1>3. FreeClusters(v) \cup C \subseteq Owned(w)
  BY <1>1, <1>2 DEF FreeClusters, Owned
<1>4. ASSUME NEW p \in Live(v), p # q PROVE ChainSet(v, First(v, p)) \subseteq Owned(w)
  <2>1. \A d \in ChainSet(v, First(v, p)) : d \in Cluster /\ d \notin C
    BY <1>4, ChainOfEntry DEF C
  <2> QED
    BY <1>1, <1>4, <2>1, ChainStillOwned
<1>5. Root \in Owned(w)
  BY DEF Owned
<1> QED
  BY <1>3, <1>4, <1>5 DEF NoneLost, Owned, C

LEMMA FilesAreNotOccupied ==
  ASSUME NEW v \in Shaped, NEW q \in Live(v), ~BlockOf(v, q).isDir
  PROVE  ~Occupied(v, q)
<1>1. First(v, q) \notin DirClusters(v)
  BY ChainOfFile, ChainLinks, LiveType DEF Shaped
<1> QED
  BY <1>1 DEF Occupied, Shaped, Nesting

(* Entries that change among themselves keep all their chains. *)
LEMMA ChangesLoseNone ==
  ASSUME NEW v \in Shaped, NEW w \in Shaped, EntriesOnly(v, w),
         \A q \in Live(v) : \E p \in Live(v) : First(w, p) = First(v, q)
  PROVE  NoneLost(v, w)
<1>1. w.fat = v.fat /\ Live(w) = Live(v)
  BY DEF EntriesOnly
<1>2. ASSUME NEW q \in Live(v) PROVE ChainSet(v, First(v, q)) \subseteq Owned(w)
  BY <1>1, ChainStillOwned
<1>3. FreeClusters(v) \subseteq Owned(w) /\ Root \in Owned(w)
  BY <1>1 DEF FreeClusters, Owned
<1> QED
  BY <1>2, <1>3 DEF NoneLost, Owned

LEMMA RenamingLosesNone ==
  ASSUME NEW v \in Shaped, NEW w \in Shaped, NEW q \in Live(v), NEW n \in Name, NameChanged(v, q, n, w)
  PROVE  NoneLost(v, w)
<1>1. BlockOf(v, q) \in Block /\ BlockOf(v, q).kind = "live"
  BY LiveType DEF Shaped
<1>2. [BlockOf(v, q) EXCEPT !.name = n].first = BlockOf(v, q).first
  BY <1>1, BlockRenamed
<1>3. \A p \in Live(v) : First(w, p) = First(v, p)
  BY <1>2 DEF NameChanged, First
<1>4. \A r \in Live(v) : \E p \in Live(v) : First(w, p) = First(v, r)
  BY <1>3
<1> QED
  BY <1>4, ChangesLoseNone DEF NameChanged

LEMMA SwappingLosesNone ==
  ASSUME NEW v \in Shaped, NEW w \in Shaped, NEW p \in Live(v), NEW q \in Live(v),
         Exchanged(v, p, q, w)
  PROVE  NoneLost(v, w)
<1>1. /\ BlockOf(v, p) \in Block /\ BlockOf(v, p).kind = "live" /\ BlockOf(v, p).name \in Name
      /\ BlockOf(v, q) \in Block /\ BlockOf(v, q).kind = "live" /\ BlockOf(v, q).name \in Name
  BY LiveType DEF Shaped
<1>2. /\ First(w, p) = First(v, q) /\ First(w, q) = First(v, p)
      /\ \A r \in Live(v) \ {p, q} : First(w, r) = First(v, r)
  BY <1>1, BlockRenamed DEF Exchanged, First
<1>3. \A r \in Live(v) : \E t \in Live(v) : First(w, t) = First(v, r)
  BY <1>2
<1> QED
  BY <1>3, ChangesLoseNone DEF Exchanged

LEMMA SwappingOutLosesNone ==
  ASSUME NEW v \in Shaped, NEW w \in Shaped, NEW p \in Live(v), NEW q \in Live(v),
         SwappedOut(v, p, q, w)
  PROVE  NoneLost(v, w)
<1>1. PICK u \in Sound : Exchanged(v, p, q, u) /\ ~BlockOf(u, p).isDir /\ Without(u, p, w)
  BY DEF SwappedOut
<1>2. u \in Shaped /\ p \in Live(u)
  BY <1>1, SoundIsShaped DEF Exchanged, EntriesOnly
<1>3. NoneLost(v, u)
  BY <1>1, <1>2, SwappingLosesNone
<1>4. NoneLost(u, w)
  BY <1>1, <1>2, FilesAreNotOccupied, RemovingLosesNone
<1> QED
  BY <1>3, <1>4, NoneLostAgain

LEMMA ForgettingLosesNone ==
  ASSUME NEW v \in Sound
  PROVE  NoneLost(v, Forget(v)) /\ FreeClusters(Forget(v)) = FreeClusters(v)
<1> DEFINE w == Forget(v)
<1>1. v \in Shaped /\ v \in Volumes /\ w \in Sound /\ w \in Shaped
  BY SoundIsShaped, ForgetIsSound
<1>2. w.fat = v.fat
  BY <1>1, Forgotten
<1>3. ASSUME NEW q \in Live(v) PROVE BlockOf(w, q) = BlockOf(v, q)
  <2>1. q.cluster \in Cluster /\ v.fat[q.cluster] # Available
    BY <1>1, LiveType
  <2>2. w.slot[q.cluster] = v.slot[q.cluster]
    BY <1>1, <2>1, FreeForgotten
  <2> HIDE DEF w
  <2> QED
    BY <2>2 DEF BlockOf
<1> HIDE DEF w
<1>4. \A q \in Live(v) : q \in Live(w) /\ First(w, q) = First(v, q)
  BY <1>2, <1>3 DEF Live, First
<1>5. ASSUME NEW q \in Live(v) PROVE ChainSet(v, First(v, q)) \subseteq Owned(w)
  BY <1>1, <1>2, <1>4, ChainStillOwned
<1>6. FreeClusters(w) = FreeClusters(v)
  BY <1>2 DEF FreeClusters
<1> QED
  BY <1>5, <1>6 DEF NoneLost, Owned, w

(* A directory that has something in it, as a user sees it. *)
LEMMA OccupiedIsListed ==
  ASSUME vol \in Shaped, NEW path \in Path, NEW q, IsAt(vol, path, q), BlockOf(vol, q).isDir,
         Occupied(vol, q)
  PROVE  \E p \in Listing(vol, Root) :
           /\ <<At(vol, p).name>> = path /\ At(vol, p).isDir
           /\ Listing(vol, At(vol, p).first) # {}
<1>1. Dirname(path) = <<>> /\ path = <<Basename(path)>>
  BY DirAtTop, PathParts
<1>2. q \in Live(vol) /\ q.cluster = Root /\ BlockOf(vol, q).name = Basename(path)
  BY <1>1 DEF IsAt
<1>3. q \in Listing(vol, Root) /\ At(vol, q) = BlockOf(vol, q)
  BY <1>2, ListedIfLive
<1>4. Listing(vol, First(vol, q)) # {}
  BY ListedIfLive DEF Occupied
<1> QED
  BY <1>1, <1>2, <1>3, <1>4 DEF First

LEMMA RenameLosesNone ==
  ASSUME NEW v \in Sound, NEW from, NEW to \in Path, NEW mode, NEW p, IsAt(v, from, p), NEW r,
         RenamedTo(v, from, to, mode, p, r), r.v \in Sound
  PROVE  \/ NoneLost(v, r.v)
         \/ \E q : IsAt(v, to, q) /\ BlockOf(v, q).isDir /\ Occupied(v, q)
<1> DEFINE w == r.v
           n == Basename(to)
<1>1. v \in Shaped /\ w \in Shaped /\ p \in Live(v) /\ n \in Name
  BY SoundIsShaped, PathParts DEF IsAt
<1>2. ASSUME MovedTo(v, from, to, p, r) PROVE NoneLost(v, w)
  <2>1. CASE w = v
    BY <2>1 DEF NoneLost
  <2>2. CASE NameChanged(v, p, n, w)
    <3> HIDE DEF w, n
    <3> QED
      BY <1>1, <2>2, RenamingLosesNone
  <2>3. CASE \E q : \E u \in Sound : Made(v, to, FALSE, q, u) /\ SwappedOut(u, p, q, w)
    <3> DEFINE no == FALSE
    <3>1. PICK q : \E u \in Sound : Made(v, to, no, q, u) /\ SwappedOut(u, p, q, w)
      BY <2>3
    <3>2. PICK u \in Sound : Made(v, to, no, q, u) /\ SwappedOut(u, p, q, w)
      BY <3>1
    <3> HIDE DEF w, no
    <3>3. u \in Shaped /\ p \in Live(u) /\ q \in Live(u)
      BY <1>1, <3>2, SoundIsShaped DEF Made, With
    <3>4. NoneLost(v, u)
      BY <1>1, <3>2, <3>3, MakingLosesNone
    <3>5. NoneLost(u, w)
      BY <1>1, <3>2, <3>3, SwappingOutLosesNone
    <3> QED
      BY <3>4, <3>5, NoneLostAgain
  <2> QED
    BY <1>2, <2>1, <2>2, <2>3 DEF MovedTo
<1>3. ASSUME NEW q, IsAt(v, to, q), ReplacedAt(v, from, to, p, q, w) \/ Exchanged(v, p, q, w), p # q
      PROVE  NoneLost(v, w) \/ (BlockOf(v, q).isDir /\ Occupied(v, q))
  <2>1. q \in Live(v)
    BY <1>3 DEF IsAt
  <2>2. CASE Exchanged(v, p, q, w)
    <3> HIDE DEF w
    <3> QED
      BY <1>1, <2>1, <2>2, SwappingLosesNone
  <2>3. CASE SwappedOut(v, p, q, w)
    <3> HIDE DEF w
    <3> QED
      BY <1>1, <2>1, <2>3, SwappingOutLosesNone
  <2>4. CASE \E u \in Sound : Without(v, q, u) /\ NameChanged(u, p, n, w)
    <3>1. PICK u \in Sound : Without(v, q, u) /\ NameChanged(u, p, n, w)
      BY <2>4
    <3>2. CASE Occupied(v, q)
      BY <1>1, <2>1, <3>2, FilesAreNotOccupied
    <3>3. CASE ~Occupied(v, q)
      <4>1. u \in Shaped /\ p \in Live(u)
        BY <1>1, <1>3, <3>1, <3>3, SoundIsShaped DEF Without, Occupied
      <4>2. NoneLost(v, u)
        BY <1>1, <2>1, <3>1, <3>3, <4>1, RemovingLosesNone
      <4> HIDE DEF w, n
      <4>3. NoneLost(u, w)
        BY <1>1, <3>1, <4>1, RenamingLosesNone
      <4> QED
        BY <4>2, <4>3, NoneLostAgain
    <3> QED
      BY <3>2, <3>3
  <2> QED
    BY <1>3, <2>2, <2>3, <2>4 DEF ReplacedAt
<1>4. CASE MovedTo(v, from, to, p, r)
  BY <1>2, <1>4
<1>5. CASE \E q : /\ IsAt(v, to, q) /\ p # q /\ r.st = "ok"
                  /\ ReplacedAt(v, from, to, p, q, r.v) \/ Exchanged(v, p, q, r.v)
  BY <1>3, <1>5
<1> QED
  BY <1>4, <1>5 DEF RenamedTo

LEMMA CallLosesNone ==
  ASSUME vol \in Sound, NEW op, NEW path, NEW arg, NEW r, Outcomes(op, path, arg, r)
  PROVE  \/ NoneLost(vol, r.v)
         \/ /\ op = "rename" /\ arg[1] \in Path
            /\ \E q : IsAt(vol, arg[1], q) /\ BlockOf(vol, q).isDir /\ Occupied(vol, q)
<1>1. vol \in Shaped /\ r.v \in Sound /\ r.v \in Shaped /\ Effect(op, path, arg, r)
  BY SoundIsShaped DEF Outcomes
<1>2. \A q : IsAt(vol, path, q) => q \in Live(vol)
  BY DEF IsAt
<1>3. CASE r.v = vol
  BY <1>3 DEF NoneLost
<1>4. CASE \E q : Made(vol, path, FALSE, q, r.v) \/ Made(vol, path, TRUE, q, r.v)
  <2> DEFINE yes == TRUE
             no == FALSE
  <2>1. PICK q : Made(vol, path, no, q, r.v) \/ Made(vol, path, yes, q, r.v)
    BY <1>4
  <2> HIDE DEF yes, no
  <2>2. NoneLost(vol, r.v)
    BY <1>1, <2>1, MakingLosesNone
  <2> QED
    BY <2>2
<1>5. CASE \E q : IsAt(vol, path, q) /\ ~BlockOf(vol, q).isDir /\ Without(vol, q, r.v)
  BY <1>1, <1>2, <1>5, FilesAreNotOccupied, RemovingLosesNone
<1>6. CASE \E q : IsAt(vol, path, q) /\ Without(vol, q, r.v) /\ ~Occupied(vol, q)
  BY <1>1, <1>2, <1>6, RemovingLosesNone
<1>7. CASE \E q : IsAt(vol, path, q) /\ FileCalled(vol, q, r.v)
  BY <1>1, <1>2, <1>7, FileCallLosesNone
<1>8. CASE /\ op = "rename" /\ arg[1] \in Path
           /\ \E p : IsAt(vol, path, p) /\ RenamedTo(vol, path, arg[1], arg[2], p, r)
  BY <1>1, <1>8, RenameLosesNone
<1> QED
  BY <1>1, <1>3, <1>4, <1>5, <1>6, <1>7, <1>8 DEF Effect

(* A call leaves allocated to no one only what was so before it: creating,  *)
(* growing, shrinking, removing and renaming, also when they fail, free     *)
(* what they take off an entry and hand on what they allocate.  The one     *)
(* exception is a rename that replaces a directory with something in it.    *)
THEOREM NoClusterIsLost ==
  ASSUME Careful
  PROVE  Spec => ClustersAreNotLost
<1>1. ASSUME SoundInv, [Next]_vars
      PROVE  [LostClusters(vol') \subseteq LostClusters(vol) \/ ReplacesFullDir]_vars
  <2>1. CASE UNCHANGED vars
    BY <2>1
  <2>2. CASE Next
    <3>1. PICK op, path, arg, r : Outcomes(op, path, arg, r)
      BY <1>1, <2>2, NextHasEffect
    <3>2. /\ vol \in Sound /\ vol \in Shaped /\ r.v \in Sound
          /\ vol' = Forget(r.v) /\ vol' \in Shaped /\ res'.op = op /\ res'.arg = arg
      <4>1. vol \in Sound /\ vol' = Forget(r.v) /\ r.v \in Sound /\ res'.op = op /\ res'.arg = arg
        BY <1>1, <3>1 DEF SoundInv, Outcomes, Call
      <4> QED
        BY <4>1, SoundIsShaped, ForgetIsSound
    <3>3. CASE NoneLost(vol, r.v)
      <4>1. NoneLost(r.v, vol')
        BY <3>2, ForgettingLosesNone
      <4>2. NoneLost(vol, vol')
        BY <3>3, <4>1, NoneLostAgain
      <4>3. LostClusters(vol) = Cluster \ Owned(vol) /\ LostClusters(vol') = Cluster \ Owned(vol')
        BY <3>2, NotOwned
      <4> QED
        BY <4>2, <4>3 DEF NoneLost
    <3>4. CASE /\ op = "rename" /\ arg[1] \in Path
               /\ \E q : IsAt(vol, arg[1], q) /\ BlockOf(vol, q).isDir /\ Occupied(vol, q)
      BY <3>2, <3>4, OccupiedIsListed DEF ReplacesFullDir
    <3> QED
      BY <3>1, <3>2, <3>3, <3>4, CallLosesNone
  <2> QED
    BY <1>1, <2>1, <2>2
<1> QED
  BY <1>1, SoundHolds, PTL DEF Spec, ClustersAreNotLost

LEMMA FailureIsFull ==
  ASSUME vol \in Sound, NEW op, NEW path, NEW arg, NEW r, Outcomes(op, path, arg, r), r.st # "ok"
  PROVE  \/ Full(r.v)
         \/ /\ op = "rmdir"
            /\ \E q : IsAt(vol, path, q) /\ BlockOf(vol, q).isDir /\ Occupied(vol, q)
<1>1. Effect(op, path, arg, r)
  BY DEF Outcomes
<1>2. CASE op = "rename"
  <2>1. PICK p : RenamedTo(vol, path, arg[1], arg[2], p, r)
    BY <1>1, <1>2 DEF Effect
  <2> QED
    BY <2>1 DEF RenamedTo, MovedTo
<1> QED
  BY <1>1, <1>2 DEF Effect

(* A call that its caller had reason to make fails only when the volume is  *)
(* full, or on a directory that has something in it.                        *)
THEOREM CallsFailForRoom ==
  ASSUME Careful
  PROVE  Spec => FailuresMeanFull
<1> DEFINE P == res'.st = "failed" =>
                  \/ FreeClusters(vol') = {}
                  \/ /\ res'.op = "rmdir"
                     /\ \E p \in Listing(vol, Root) :
                          <<At(vol, p).name>> = res'.path /\ Listing(vol, At(vol, p).first) # {}
<1>1. ASSUME SoundInv, [Next]_vars PROVE [P]_vars
  <2>1. CASE UNCHANGED vars
    BY <2>1
  <2>2. CASE Next
    <3>1. PICK op, path, arg, r : Outcomes(op, path, arg, r)
      BY <1>1, <2>2, NextHasEffect
    <3>2. /\ vol \in Sound /\ vol \in Shaped /\ r.v \in Sound /\ path \in Path
          /\ vol' = Forget(r.v) /\ res'.op = op /\ res'.path = path
          /\ res'.st = "failed" => r.st # "ok"
      BY <1>1, <3>1, SoundIsShaped DEF SoundInv, Outcomes, Call
    <3>3. FreeClusters(vol') = FreeClusters(r.v)
      BY <3>2, ForgettingLosesNone
    <3> SUFFICES ASSUME res'.st = "failed"
                 PROVE  \/ FreeClusters(vol') = {}
                        \/ /\ res'.op = "rmdir"
                           /\ \E p \in Listing(vol, Root) :
                                <<At(vol, p).name>> = res'.path /\ Listing(vol, At(vol, p).first) # {}
      OBVIOUS
    <3>4. CASE Full(r.v)
      BY <3>3, <3>4 DEF Full
    <3>5. CASE /\ op = "rmdir"
               /\ \E q : IsAt(vol, path, q) /\ BlockOf(vol, q).isDir /\ Occupied(vol, q)
      BY <3>2, <3>5, OccupiedIsListed
    <3> QED
      BY <3>1, <3>2, <3>4, <3>5, FailureIsFull
  <2> QED
    BY <1>1, <2>1, <2>2
<1> QED
  BY <1>1, SoundHolds, PTL DEF Spec, FailuresMeanFull

-----------------------------------------------------------------------------
(* What is at the paths. *)

(* fatx_read returns the units of a file, each of which a user wrote or was *)
(* cleared.                                                                 *)
LEMMA ReadIs ==
  ASSUME NEW v \in Sound, NEW q \in Live(v), ~BlockOf(v, q).isDir
  PROVE  /\ BlockOf(v, q).size \in Nat
         /\ Read(v, BlockOf(v, q)) = [i \in 1 .. BlockOf(v, q).size |-> UnitOf(v, q, i)]
         /\ \A i \in 1 .. BlockOf(v, q).size : UnitOf(v, q, i) \in DataBlock
<1> DEFINE f == First(v, q)
           attr == BlockOf(v, q)
           chain == Chain(v, f)
           m == N * Len(chain)
<1>1. v \in Shaped /\ v \in Volumes /\ f \in Cluster /\ attr.size \in Nat /\ attr.size <= m
  BY SoundIsShaped, LiveType, ChainOfEntry, SizesAreNat DEF SizesFit
<1>2. m \in Nat
  BY <1>1, Chained, OpsAssumption
<1>3. Min({attr.size, m}) = attr.size
  <2> HIDE DEF m, attr
  <2> DEFINE P(x) == x \in {attr.size, m} /\ \A y \in {attr.size, m} : x <= y
  <2>1. P(attr.size)
    BY <1>1, <1>2
  <2>2. \A x : P(x) => x = attr.size
    BY <1>1, <1>2
  <2> QED
    BY <2>1, <2>2 DEF Min
<1>4. Read(v, attr) = [i \in 1 .. attr.size |-> UnitOf(v, q, i)]
  BY <1>3 DEF Read, UnitOf, First
<1>5. ASSUME NEW i \in 1 .. attr.size PROVE UnitOf(v, q, i) \in DataBlock
  <2> DEFINE k == ((i - 1) \div N) + 1
             e == (i - 1) % N
  <2>1. k \in 1 .. Len(chain) /\ e \in 0 .. N - 1
    BY InFile
  <2> HIDE DEF k, e, chain
  <2>2. chain[k] \in Cluster \ DirClusters(v) /\ v.fat[chain[k]] # Available
    BY <1>1, <2>1, LastOfChain, ChainOfFile DEF chain
  <2>3. v.slot[chain[k]][e] \in DataBlock
    BY <1>1, <2>1, <2>2 DEF Shaped, Data
  <2> QED
    BY <2>3 DEF UnitOf, k, e, chain
<1> QED
  BY <1>1, <1>4, <1>5

(* The node an entry is of. *)
NodeOf(v, q) ==
  IF BlockOf(v, q).isDir THEN Tree!Folder ELSE Tree!File(Read(v, BlockOf(v, q)))

Shown(v, path) ==
  IF \E q : IsAt(v, path, q) THEN NodeOf(v, CHOOSE q : IsAt(v, path, q)) ELSE Tree!Nothing

LEMMA OneAt ==
  ASSUME NEW v \in Shaped, NEW path, NEW p, NEW q, IsAt(v, path, p), IsAt(v, path, q)
  PROVE  p = q
<1> DEFINE l == Locate(v, path)
<1>1. \A r : IsAt(v, path, r) => l.at = r
  BY LocatedThere
<1> HIDE DEF l
<1> QED
  BY <1>1

LEMMA ShownIs ==
  ASSUME NEW v \in Shaped, NEW path
  PROVE  /\ \A q : IsAt(v, path, q) => Shown(v, path) = NodeOf(v, q)
         /\ (\A q : ~IsAt(v, path, q)) => Shown(v, path) = Tree!Nothing
<1>1. ASSUME NEW q, IsAt(v, path, q) PROVE Shown(v, path) = NodeOf(v, q)
  <2> DEFINE p == CHOOSE r : IsAt(v, path, r)
  <2>1. IsAt(v, path, p)
    BY <1>1
  <2>2. p = q
    BY <1>1, <2>1, OneAt
  <2> QED
    BY <1>1, <2>2 DEF Shown
<1> QED
  BY <1>1 DEF Shown

(* It is what users see there. *)
LEMMA Seen ==
  ASSUME vol \in Shaped, NEW path
  PROVE  NodeAt(path) = Shown(vol, path)
<1>1. CASE GetAttr(vol, path).st = "ok"
  <2>1. PICK q : IsAt(vol, path, q) /\ GetAttr(vol, path).attr = BlockOf(vol, q)
    BY <1>1, NodeThere
  <2>2. Shown(vol, path) = NodeOf(vol, q)
    BY <2>1, ShownIs
  <2> QED
    BY <1>1, <2>1, <2>2 DEF NodeAt, NodeOf, Tree!Folder, Tree!File
<1>2. CASE GetAttr(vol, path).st # "ok"
  <2>1. \A q : ~IsAt(vol, path, q)
    BY <1>2, AttrPut
  <2> QED
    BY <1>2, <2>1, ShownIs DEF NodeAt, Tree!Nothing
<1> QED
  BY <1>1, <1>2

(* An entry of w is of the node that an entry of v is of, if it names the   *)
(* same chain, which is as it was.                                          *)
LEMMA NodeKept ==
  ASSUME NEW v \in Sound, NEW w \in Sound, NEW q \in Live(v), NEW r \in Live(w),
         BlockOf(w, r).isDir = BlockOf(v, q).isDir, First(w, r) = First(v, q),
         BlockOf(w, r).size = BlockOf(v, q).size,
         \A c \in Cluster \ DirClusters(v) :
           c \in ChainSet(v, First(v, q)) => w.fat[c] = v.fat[c] /\ w.slot[c] = v.slot[c]
  PROVE  NodeOf(w, r) = NodeOf(v, q)
<1>1. CASE BlockOf(v, q).isDir
  BY <1>1 DEF NodeOf
<1>2. CASE ~BlockOf(v, q).isDir
  <2> DEFINE f == First(v, q)
             size == BlockOf(v, q).size
  <2>1. v \in Shaped /\ v \in Volumes /\ w \in Volumes /\ f \in Cluster
    BY SoundIsShaped, ChainOfEntry
  <2>2. \A c \in ChainSet(v, f) : w.fat[c] = v.fat[c] /\ w.slot[c] = v.slot[c]
    BY <1>2, <2>1, ChainOfFile
  <2>3. Chain(w, f) = Chain(v, f)
    BY <2>1, <2>2, ChainKept
  <2>4. ASSUME NEW i \in 1 .. size PROVE UnitOf(w, r, i) = UnitOf(v, q, i)
    <3> DEFINE k == ((i - 1) \div N) + 1
               e == (i - 1) % N
    <3>1. k \in 1 .. Len(Chain(v, f)) /\ e \in 0 .. N - 1
      BY <1>2, InFile
    <3> HIDE DEF k, e
    <3>2. Chain(v, f)[k] \in ChainSet(v, f)
      BY <2>1, <3>1, LastOfChain
    <3> QED
      BY <2>2, <2>3, <3>2 DEF UnitOf, k, e
  <2>5. Read(v, BlockOf(v, q)) = [i \in 1 .. size |-> UnitOf(v, q, i)]
    BY <1>2, ReadIs
  <2>6. Read(w, BlockOf(w, r)) = [i \in 1 .. size |-> UnitOf(w, r, i)]
    BY <1>2, ReadIs
  <2>7. Read(w, BlockOf(w, r)) = Read(v, BlockOf(v, q))
    BY <2>4, <2>5, <2>6
  <2> QED
    BY <1>2, <2>7 DEF NodeOf
<1> QED
  BY <1>1, <1>2

(* An entry is at a path if it has its name, in the root or in the          *)
(* directory at the path above.                                             *)
LEMMA AtIs ==
  ASSUME NEW v \in Shaped, NEW path \in Path, NEW q
  PROVE  IsAt(v, path, q) <=>
           /\ q \in Live(v) /\ BlockOf(v, q).name = Basename(path)
           /\ IF Dirname(path) = <<>> THEN q.cluster = Root
              ELSE \E d : IsAt(v, Dirname(path), d) /\ BlockOf(v, d).isDir /\ q.cluster = First(v, d)
<1> DEFINE m == Dirname(path)
<1>1. CASE m = <<>>
  BY <1>1 DEF IsAt
<1>2. CASE m # <<>>
  <2>1. Dirname(m) = <<>> /\ Basename(m) = m[1]
    BY <1>2, PathParts
  <2>2. ASSUME NEW d PROVE d \in DirNamed(v, m[1]) <=> IsAt(v, m, d) /\ BlockOf(v, d).isDir
    <3>1. d \in Live(v) /\ BlockOf(v, d).isDir => d.cluster = Root
      BY DEF Shaped, Nesting
    <3> QED
      BY <2>1, <3>1 DEF IsAt, DirNamed
  <2> HIDE DEF m
  <2>3. IsAt(v, path, q) <=>
          /\ q \in Live(v) /\ BlockOf(v, q).name = Basename(path)
          /\ \E d \in DirNamed(v, m[1]) : q.cluster = First(v, d)
    BY <1>2 DEF IsAt, m
  <2>4. (\E d \in DirNamed(v, m[1]) : q.cluster = First(v, d)) <=>
          \E d : IsAt(v, m, d) /\ BlockOf(v, d).isDir /\ q.cluster = First(v, d)
    BY <2>2
  <2> QED
    BY <1>2, <2>3, <2>4 DEF m
<1> QED
  BY <1>1, <1>2

(* An entry is at one path. *)
LEMMA OnePath ==
  ASSUME NEW v \in Shaped, NEW s \in Path, NEW t \in Path, NEW q, IsAt(v, s, q), IsAt(v, t, q)
  PROVE  s = t
<1>1. Basename(s) = Basename(t)
  BY DEF IsAt
<1>2. ASSUME NEW path, IsAt(v, path, q), Dirname(path) # <<>>
      PROVE  \E d \in DirNamed(v, Dirname(path)[1]) : q.cluster = First(v, d) /\ q.cluster # Root
  <2>1. PICK d \in DirNamed(v, Dirname(path)[1]) : q.cluster = First(v, d)
    BY <1>2 DEF IsAt
  <2>2. First(v, d) # Root
    BY LiveType DEF DirNamed, Shaped
  <2> QED
    BY <2>1, <2>2
<1>3. CASE Dirname(s) = <<>>
  <2>1. Dirname(t) = <<>>
    BY <1>2, <1>3 DEF IsAt
  <2> QED
    BY <1>1, <1>3, <2>1, PathParts
<1>4. CASE Dirname(s) # <<>>
  <2>1. Dirname(t) # <<>>
    BY <1>2, <1>4 DEF IsAt
  <2>2. PICK d \in DirNamed(v, Dirname(s)[1]) : q.cluster = First(v, d)
    BY <1>2, <1>4
  <2>3. PICK e \in DirNamed(v, Dirname(t)[1]) : q.cluster = First(v, e)
    BY <1>2, <2>1
  <2>4. d = e
    BY <2>2, <2>3 DEF Shaped, Heads, DirNamed
  <2>5. Dirname(s)[1] = Dirname(t)[1]
    BY <2>2, <2>3, <2>4 DEF DirNamed
  <2> QED
    BY <1>1, <1>4, <2>1, <2>5, PathParts
<1> QED
  BY <1>3, <1>4

(* The same is at t now as was at s: what is at the one is of the node of   *)
(* what was at the other.                                                   *)
LEMMA ShownAlike ==
  ASSUME NEW v \in Shaped, NEW w \in Shaped, NEW s, NEW t,
         \A q : IsAt(v, s, q) => \E r : IsAt(w, t, r) /\ NodeOf(w, r) = NodeOf(v, q),
         \A r : IsAt(w, t, r) => \E q : IsAt(v, s, q)
  PROVE  Shown(w, t) = Shown(v, s)
<1>1. CASE \E q : IsAt(v, s, q)
  <2>1. PICK q : IsAt(v, s, q)
    BY <1>1
  <2>2. PICK r : IsAt(w, t, r) /\ NodeOf(w, r) = NodeOf(v, q)
    BY <2>1
  <2> QED
    BY <2>1, <2>2, ShownIs
<1>2. CASE \A q : ~IsAt(v, s, q)
  <2>1. \A r : ~IsAt(w, t, r)
    BY <1>2
  <2> QED
    BY <1>2, <2>1, ShownIs
<1> QED
  BY <1>1, <1>2

(* Nothing is below a path where there is no directory. *)
LEMMA NothingBelow ==
  ASSUME NEW v \in Shaped, NEW s \in Path, Dirname(s) # <<>>,
         \A d : IsAt(v, Dirname(s), d) => ~BlockOf(v, d).isDir
  PROVE  Shown(v, s) = Tree!Nothing
<1>1. \A q : ~IsAt(v, s, q)
  BY AtIs
<1> QED
  BY <1>1, ShownIs

LEMMA PathAbove ==
  ASSUME NEW path \in Path, Dirname(path) # <<>>
  PROVE  /\ Dirname(path) = <<Dirname(path)[1]>> /\ Dirname(path)[1] \in Name
         /\ path = <<Dirname(path)[1], Basename(path)>>
         /\ Dirname(Dirname(path)) = <<>> /\ Basename(Dirname(path)) = Dirname(path)[1]
<1>1. Len(path) # 1
  BY PathParts
<1>2. PICK m, n \in Name : path = <<m, n>>
  <2>1. \A n \in Name : Len(<<n>>) = 1
    OBVIOUS
  <2> QED
    BY <1>1, <2>1, VolumeAssumption
<1> DEFINE s == Dirname(path)
           t == <<m>>
<1>3. s \in Seq(Name) /\ t \in Seq(Name) /\ Len(s) = 1 /\ Len(t) = 1 /\ s[1] = m /\ t[1] = m
  BY <1>2 DEF Dirname
<1>4. Basename(path) = n
  BY <1>2 DEF Basename
<1> HIDE DEF s
<1>5. s = t
  <2> HIDE DEF t
  <2>1. \A i \in 1 .. Len(s) : s[i] = t[i]
    BY <1>3
  <2> QED
    BY <1>3, <2>1, SeqEqual
<1> QED
  BY <1>2, <1>3, <1>4, <1>5, PathParts DEF s

(* The directory above a path is at one path. *)
LEMMA OneAbove ==
  ASSUME NEW v \in Shaped, NEW s \in Path, NEW t \in Path, Dirname(s) # <<>>,
         NEW d, IsAt(v, Dirname(s), d), BlockOf(v, d).isDir, IsAt(v, t, d)
  PROVE  Dirname(s) = t
<1>1. Dirname(t) = <<>>
  BY DirAtTop
<1>2. t = <<Basename(t)>>
  BY <1>1, PathParts
<1>3. Basename(Dirname(s)) = Basename(t)
  BY DEF IsAt
<1> QED
  BY <1>2, <1>3, PathAbove

-----------------------------------------------------------------------------
(* What the calls change of it. *)

(* Nothing but s changes what it shows. *)
OthersShown(v, w, S) == \A s \in Path \ S : Shown(w, s) = Shown(v, s)

LEMMA ForgetShows ==
  ASSUME NEW v \in Sound, NEW path
  PROVE  Shown(Forget(v), path) = Shown(v, path)
<1> DEFINE w == Forget(v)
<1>1. v \in Shaped /\ v \in Volumes /\ w \in Sound /\ w \in Shaped
  BY SoundIsShaped, ForgetIsSound
<1>2. w.fat = v.fat /\ \A c \in Cluster : v.fat[c] # Available => w.slot[c] = v.slot[c]
  BY <1>1, Forgotten, FreeForgotten
<1> HIDE DEF w
<1>3. \A q \in Places : v.fat[q.cluster] # Available => BlockOf(w, q) = BlockOf(v, q)
  BY <1>2 DEF BlockOf, Places
<1>4. SameEntries(v, w)
  BY <1>2, <1>3 DEF SameEntries, Live
<1>5. SameEntries(w, v)
  BY <1>4 DEF SameEntries
<1>6. ASSUME NEW q, IsAt(v, path, q) PROVE IsAt(w, path, q) /\ NodeOf(w, q) = NodeOf(v, q)
  <2>1. IsAt(w, path, q)
    BY <1>4, <1>6, IsAtKept
  <2>2. q \in Live(v) /\ q \in Live(w) /\ BlockOf(w, q) = BlockOf(v, q)
    BY <1>4, <1>6 DEF IsAt, SameEntries
  <2>3. \A c \in Cluster \ DirClusters(v) :
          c \in ChainSet(v, First(v, q)) => w.fat[c] = v.fat[c] /\ w.slot[c] = v.slot[c]
    BY <1>1, <1>2, <2>2, ChainOfEntry
  <2> QED
    BY <1>1, <2>1, <2>2, <2>3, NodeKept DEF First
<1>7. ASSUME NEW q, IsAt(w, path, q) PROVE IsAt(v, path, q)
  BY <1>5, <1>7, IsAtKept
<1> QED
  BY <1>1, <1>6, <1>7, ShownAlike DEF w

(* A node is made: it is there now, and empty. *)
LEMMA MadeShows ==
  ASSUME NEW v \in Sound, NEW w \in Sound, NEW path \in Path, NEW isDir \in BOOLEAN,
         NEW q, Made(v, path, isDir, q, w)
  PROVE  /\ Shown(v, path) = Tree!Nothing
         /\ Shown(w, path) = IF isDir THEN Tree!Folder ELSE Tree!File(<<>>)
         /\ OthersShown(v, w, {path})
<1> DEFINE f == First(w, q)
<1>1. v \in Shaped /\ v \in Volumes /\ w \in Shaped /\ w \in Volumes
  BY SoundIsShaped
<1>2. /\ q \notin Live(v) /\ IsAt(w, path, q) /\ BlockOf(w, q).isDir = isDir
      /\ BlockOf(w, q).size = 0 /\ v.fat[f] = Available
      /\ Live(w) = Live(v) \cup {q}
      /\ \A c \in Cluster \ {f} :
           w.fat[c] = v.fat[c] /\ (c \notin DirClusters(v) => w.slot[c] = v.slot[c])
  BY DEF Made, With
<1> HIDE DEF f
<1>3. \A r \in Live(v) : BlockOf(w, r) = BlockOf(v, r) /\ First(w, r) = First(v, r)
  BY DEF Made, With, First
<1>4. ASSUME NEW s, NEW r, IsAt(v, s, r) PROVE IsAt(w, s, r)
  <2>1. \A n : \A d \in DirNamed(v, n) : d \in DirNamed(w, n) /\ First(w, d) = First(v, d)
    BY <1>2, <1>3 DEF DirNamed
  <2> QED
    BY <1>2, <1>3, <1>4, <2>1 DEF IsAt
<1>5. \A r : ~IsAt(v, path, r)
  <2> SUFFICES ASSUME NEW r, IsAt(v, path, r) PROVE FALSE
    OBVIOUS
  <2>1. r = q
    BY <1>1, <1>2, <1>4, OneAt
  <2> QED
    BY <1>2, <2>1 DEF IsAt
<1>6. Shown(v, path) = Tree!Nothing
  BY <1>1, <1>5, ShownIs
<1>7. Shown(w, path) = IF isDir THEN Tree!Folder ELSE Tree!File(<<>>)
  <2>1. Shown(w, path) = NodeOf(w, q)
    BY <1>1, <1>2, ShownIs
  <2>2. CASE isDir
    BY <1>2, <2>1, <2>2 DEF NodeOf
  <2>3. CASE ~isDir
    <3>1. q \in Live(w) /\ ~BlockOf(w, q).isDir
      BY <1>2, <2>3 DEF IsAt
    <3>2. Read(w, BlockOf(w, q)) = [i \in 1 .. BlockOf(w, q).size |-> UnitOf(w, q, i)]
      BY <3>1, ReadIs
    <3>3. 1 .. 0 = {}
      OBVIOUS
    <3>4. Read(w, BlockOf(w, q)) = <<>>
      BY <1>2, <3>2, <3>3
    <3> QED
      BY <2>1, <2>3, <3>1, <3>4 DEF NodeOf
  <2> QED
    BY <2>2, <2>3
<1>8. ASSUME NEW s \in Path, s # path PROVE Shown(w, s) = Shown(v, s)
  <2>1. ASSUME NEW r, IsAt(v, s, r) PROVE IsAt(w, s, r) /\ NodeOf(w, r) = NodeOf(v, r)
    <3>1. r \in Live(v) /\ r \in Live(w)
      BY <1>2, <2>1 DEF IsAt
    <3>2. \A c \in ChainSet(v, First(v, r)) : c \in Cluster /\ c # f
      BY <1>1, <1>2, <3>1, ChainOfEntry
    <3>3. NodeOf(w, r) = NodeOf(v, r)
      BY <1>2, <1>3, <3>1, <3>2, NodeKept
    <3> QED
      BY <1>4, <2>1, <3>3
  <2>2. ASSUME NEW r, IsAt(w, s, r) PROVE IsAt(v, s, r)
    <3>1. r # q
      BY <1>1, <1>2, <1>8, <2>2, OnePath
    <3>2. r \in Live(v)
      BY <1>2, <2>2, <3>1 DEF IsAt
    <3>3. r.cluster # f
      BY <1>2, <3>2 DEF Live
    <3>4. ASSUME NEW d \in DirNamed(w, Dirname(s)[1]), r.cluster = First(w, d)
          PROVE  d \in DirNamed(v, Dirname(s)[1]) /\ First(w, d) = First(v, d)
      <4>1. d # q
        BY <3>3, <3>4 DEF f
      <4> QED
        BY <1>2, <1>3, <3>4, <4>1 DEF DirNamed
    <3> QED
      BY <1>3, <2>2, <3>2, <3>4 DEF IsAt
  <2> QED
    BY <1>1, <2>1, <2>2, ShownAlike
<1> QED
  BY <1>6, <1>7, <1>8 DEF OthersShown

(* What is removed is not there any more, nor what is below it. *)
LEMMA WithoutShows ==
  ASSUME NEW v \in Sound, NEW w \in Sound, NEW path \in Path, NEW q, IsAt(v, path, q),
         Without(v, q, w)
  PROVE  /\ Shown(w, path) = Tree!Nothing
         /\ \A s \in Path : Dirname(s) = path => Shown(w, s) = Tree!Nothing
         /\ OthersShown(v, w, {s \in Path : s = path \/ Dirname(s) = path})
<1> DEFINE f == First(v, q)
<1>1. v \in Shaped /\ v \in Volumes /\ w \in Shaped /\ w \in Volumes /\ q \in Live(v)
  BY SoundIsShaped DEF IsAt
<1>2. /\ Live(w) = {r \in Live(v) : r # q /\ r.cluster # f}
      /\ \A c \in Cluster : c \notin ChainSet(v, f) => w.fat[c] = v.fat[c]
      /\ \A c \in Cluster \ DirClusters(v) : w.slot[c] = v.slot[c]
  BY DEF Without
<1>3. \A r \in Live(w) : BlockOf(w, r) = BlockOf(v, r) /\ First(w, r) = First(v, r)
  BY DEF Without, First
<1> HIDE DEF f
<1>4. ASSUME NEW s, NEW r, IsAt(w, s, r) PROVE IsAt(v, s, r)
  <2>1. \A n : \A d \in DirNamed(w, n) : d \in DirNamed(v, n) /\ First(w, d) = First(v, d)
    BY <1>2, <1>3 DEF DirNamed
  <2> QED
    BY <1>2, <1>3, <1>4, <2>1 DEF IsAt
<1>5. \A r : ~IsAt(w, path, r)
  <2> SUFFICES ASSUME NEW r, IsAt(w, path, r) PROVE FALSE
    OBVIOUS
  <2>1. r = q
    BY <1>1, <1>4, OneAt
  <2> QED
    BY <1>2, <2>1 DEF IsAt
<1>6. path # <<>>
  BY PathParts
<1>7. ASSUME NEW s \in Path, s # path, Dirname(s) # path PROVE Shown(w, s) = Shown(v, s)
  <2>1. ASSUME NEW r, IsAt(v, s, r) PROVE IsAt(w, s, r) /\ NodeOf(w, r) = NodeOf(v, r)
    <3>1. r \in Live(v) /\ r # q
      BY <1>1, <1>7, <2>1, OnePath DEF IsAt
    <3>2. IsAt(w, s, r)
      <4>1. CASE Dirname(s) = <<>>
        <5>1. r.cluster = Root /\ First(v, q) # Root
          BY <1>1, <2>1, <4>1, LiveType DEF IsAt
        <5>2. r \in Live(w)
          BY <1>2, <3>1, <5>1 DEF f
        <5> QED
          BY <1>1, <1>3, <1>7, <2>1, <4>1, <5>1, <5>2, AtIs
      <4>2. CASE Dirname(s) # <<>>
        <5>1. PICK d : IsAt(v, Dirname(s), d) /\ BlockOf(v, d).isDir /\ r.cluster = First(v, d)
          BY <1>1, <1>7, <2>1, <4>2, AtIs
        <5>2. d \in Live(v) /\ d.cluster = Root
          BY <1>1, <5>1 DEF Shaped, Nesting, IsAt
        <5>3. d # q
          BY <1>1, <1>7, <4>2, <5>1, OneAbove
        <5>4. r.cluster # f /\ d.cluster # f
          BY <1>1, <5>1, <5>2, <5>3, LiveType DEF Shaped, Heads, f
        <5>5. r \in Live(w) /\ d \in Live(w)
          BY <1>2, <3>1, <5>2, <5>3, <5>4
        <5>6. IsAt(w, Dirname(s), d)
          <6>1. Dirname(Dirname(s)) = <<>>
            BY <1>7, <4>2, PathParts
          <6> QED
            BY <1>3, <5>1, <5>5, <6>1 DEF IsAt
        <5>7. BlockOf(w, r).name = Basename(s) /\ BlockOf(w, d).isDir /\ r.cluster = First(w, d)
          BY <1>3, <2>1, <5>1, <5>5 DEF IsAt
        <5> QED
          BY <1>1, <1>7, <4>2, <5>5, <5>6, <5>7, AtIs
      <4> QED
        BY <4>1, <4>2
    <3>3. r \in Live(w)
      BY <3>2 DEF IsAt
    <3>4. \A c \in ChainSet(v, First(v, r)) : c \notin ChainSet(v, f)
      BY <1>1, <3>1, ChainOfEntry DEF f
    <3>5. NodeOf(w, r) = NodeOf(v, r)
      BY <1>2, <1>3, <3>1, <3>3, <3>4, NodeKept
    <3> QED
      BY <3>2, <3>5
  <2> QED
    BY <1>1, <1>4, <2>1, ShownAlike
<1> QED
  BY <1>1, <1>5, <1>6, <1>7, ShownIs, NothingBelow DEF OthersShown

(* A call on a file changes that file. *)
LEMMA FileCallShows ==
  ASSUME NEW v \in Sound, NEW w \in Sound, NEW path \in Path, NEW q, IsAt(v, path, q),
         FileCalled(v, q, w)
  PROVE  IsAt(w, path, q) /\ OthersShown(v, w, {path})
<1>1. v \in Shaped /\ w \in Shaped /\ SameNames(v, w)
  BY SoundIsShaped DEF FileCalled
<1>2. SameNames(w, v)
  BY <1>1 DEF SameNames
<1>3. ASSUME NEW s \in Path, s # path PROVE Shown(w, s) = Shown(v, s)
  <2>1. ASSUME NEW r, IsAt(v, s, r) PROVE IsAt(w, s, r) /\ NodeOf(w, r) = NodeOf(v, r)
    <3>1. r \in Live(v) /\ q \in Live(v) /\ r # q /\ r \in Live(w)
      BY <1>1, <1>3, <2>1, OnePath DEF IsAt, SameNames
    <3>2. BlockOf(w, r) = BlockOf(v, r)
      BY <3>1 DEF FileCalled
    <3>3. \A c \in ChainSet(v, First(v, r)) : c \in Cluster /\ c \notin Mine(v, q)
      BY <1>1, <3>1, ChainOfEntry DEF Mine, FreeClusters
    <3>4. \A c \in Cluster \ DirClusters(v) :
            c \in ChainSet(v, First(v, r)) => w.fat[c] = v.fat[c] /\ w.slot[c] = v.slot[c]
      BY <3>3 DEF FileCalled
    <3> QED
      BY <1>1, <2>1, <3>1, <3>2, <3>4, IsAtKept, NodeKept DEF First
  <2>2. ASSUME NEW r, IsAt(w, s, r) PROVE IsAt(v, s, r)
    BY <1>2, <2>2, IsAtKept
  <2> QED
    BY <1>1, <2>1, <2>2, ShownAlike
<1> QED
  BY <1>1, <1>3, IsAtKept DEF OthersShown

(* What was at a path and below it is at another and below that. *)
Arrived(v, w, from, to) ==
  /\ Shown(w, to) = Shown(v, from)
  /\ \A s, t \in Path :
       Dirname(s) = to /\ Dirname(t) = from /\ Basename(s) = Basename(t) => Shown(w, s) = Shown(v, t)
  /\ Dirname(from) # <<>> => \A s \in Path : Dirname(s) = to => Shown(w, s) = Tree!Nothing

(* The entries but p and q are as they were. *)
But(v, p, q, w) ==
  EntriesOnly(v, w) /\ \A r \in Live(v) \ {p, q} : BlockOf(w, r) = BlockOf(v, r)

LEMMA EntryArrives ==
  ASSUME NEW v \in Sound, NEW w \in Sound, NEW from \in Path, NEW to \in Path,
         NEW p, NEW q, IsAt(v, from, p), IsAt(w, to, q), But(v, p, q, w),
         First(w, q) = First(v, p), BlockOf(w, q).isDir = BlockOf(v, p).isDir,
         BlockOf(w, q).size = BlockOf(v, p).size
  PROVE  Arrived(v, w, from, to)
<1>1. /\ v \in Shaped /\ v \in Volumes /\ w \in Shaped /\ w \in Volumes
      /\ p \in Live(v) /\ q \in Live(w)
  BY SoundIsShaped DEF IsAt
<1>2. /\ w.fat = v.fat /\ Live(w) = Live(v)
      /\ \A c \in Cluster \ DirClusters(v) : w.slot[c] = v.slot[c]
      /\ \A r \in Live(v) \ {p, q} : BlockOf(w, r) = BlockOf(v, r) /\ First(w, r) = First(v, r)
  BY DEF But, EntriesOnly, First
<1>3. NodeOf(w, q) = NodeOf(v, p)
  BY <1>1, <1>2, NodeKept
<1>4. Shown(w, to) = Shown(v, from)
  BY <1>1, <1>3, ShownIs
<1>5. to # <<>> /\ from # <<>>
  BY PathParts
<1>6. ASSUME NEW s \in Path, NEW t \in Path, Dirname(s) = to, Dirname(t) = from, Basename(s) = Basename(t)
      PROVE  Shown(w, s) = Shown(v, t)
  <2>1. ASSUME NEW r \in Live(v), r.cluster = First(v, p), BlockOf(v, p).isDir
        PROVE  r # p /\ r # q
    <3>1. p.cluster = Root /\ q.cluster = Root /\ First(v, p) # Root
      BY <1>1, <2>1, LiveType DEF Shaped, Nesting
    <3> QED
      BY <2>1, <3>1
  <2>2. ASSUME NEW r, IsAt(v, t, r) PROVE IsAt(w, s, r) /\ NodeOf(w, r) = NodeOf(v, r)
    <3>1. PICK d : IsAt(v, from, d) /\ BlockOf(v, d).isDir /\ r.cluster = First(v, d)
      BY <1>1, <1>5, <1>6, <2>2, AtIs
    <3>2. d = p
      BY <1>1, <3>1, OneAt
    <3>3. r \in Live(v) /\ r # p /\ r # q /\ r \in Live(w)
      BY <1>2, <2>1, <2>2, <3>1, <3>2 DEF IsAt
    <3>4. IsAt(w, s, r)
      <4>1. BlockOf(w, r).name = Basename(s)
        BY <1>2, <1>6, <2>2, <3>3 DEF IsAt
      <4> QED
        BY <1>1, <1>5, <1>6, <3>1, <3>2, <3>3, <4>1, AtIs
    <3>5. NodeOf(w, r) = NodeOf(v, r)
      BY <1>1, <1>2, <3>3, NodeKept
    <3> QED
      BY <3>4, <3>5
  <2>3. ASSUME NEW r, IsAt(w, s, r) PROVE IsAt(v, t, r)
    <3>1. PICK d : IsAt(w, to, d) /\ BlockOf(w, d).isDir /\ r.cluster = First(w, d)
      BY <1>1, <1>5, <1>6, <2>3, AtIs
    <3>2. d = q
      BY <1>1, <3>1, OneAt
    <3>3. r \in Live(v) /\ r # p /\ r # q
      BY <1>2, <2>1, <2>3, <3>1, <3>2 DEF IsAt
    <3>4. BlockOf(v, r).name = Basename(t)
      BY <1>2, <1>6, <2>3, <3>3 DEF IsAt
    <3> QED
      BY <1>1, <1>5, <1>6, <3>1, <3>2, <3>3, <3>4, AtIs
  <2> QED
    BY <1>1, <2>2, <2>3, ShownAlike
<1>7. ASSUME Dirname(from) # <<>>, NEW s \in Path, Dirname(s) = to PROVE Shown(w, s) = Tree!Nothing
  <2>1. ~BlockOf(v, p).isDir
    BY <1>1, <1>7, DirAtTop
  <2>2. \A d : IsAt(w, to, d) => ~BlockOf(w, d).isDir
    BY <1>1, <2>1, OneAt
  <2> QED
    BY <1>1, <1>5, <1>7, <2>2, NothingBelow
<1> QED
  BY <1>4, <1>6, <1>7 DEF Arrived

(* What is at neither path, nor below one, stays. *)
Around(from, to) == {s \in Path : s \in {from, to} \/ Dirname(s) \in {from, to}}

LEMMA OthersStay ==
  ASSUME NEW v \in Sound, NEW w \in Sound, NEW from \in Path, NEW to \in Path,
         NEW p, NEW q, IsAt(v, from, p), IsAt(w, to, q), But(v, p, q, w),
         p = q \/ (IsAt(v, to, q) /\ IsAt(w, from, p))
  PROVE  OthersShown(v, w, Around(from, to))
<1>1. v \in Shaped /\ v \in Volumes /\ w \in Shaped /\ w \in Volumes
  BY SoundIsShaped
<1>2. /\ w.fat = v.fat /\ Live(w) = Live(v)
      /\ \A c \in Cluster \ DirClusters(v) : w.slot[c] = v.slot[c]
      /\ \A r \in Live(v) \ {p, q} : BlockOf(w, r) = BlockOf(v, r) /\ First(w, r) = First(v, r)
  BY DEF But, EntriesOnly, First
<1>3. ASSUME NEW s \in Path, s \notin {from, to}, NEW r, IsAt(v, s, r) \/ IsAt(w, s, r)
      PROVE  r \in Live(v) \ {p, q}
  <2>1. r \in Live(v)
    BY <1>2, <1>3 DEF IsAt
  <2>2. CASE IsAt(v, s, r)
    BY <1>1, <1>3, <2>1, <2>2, OnePath
  <2>3. CASE IsAt(w, s, r)
    BY <1>1, <1>3, <2>1, <2>3, OnePath
  <2> QED
    BY <1>3, <2>2, <2>3
<1>4. ASSUME NEW s \in Path, Dirname(s) # <<>>, Dirname(s) \notin {from, to}, NEW d
      PROVE  /\ IsAt(v, Dirname(s), d) /\ BlockOf(v, d).isDir =>
                  IsAt(w, Dirname(s), d) /\ BlockOf(w, d).isDir /\ First(w, d) = First(v, d)
             /\ IsAt(w, Dirname(s), d) /\ BlockOf(w, d).isDir =>
                  IsAt(v, Dirname(s), d) /\ BlockOf(v, d).isDir /\ First(w, d) = First(v, d)
  <2>1. Dirname(Dirname(s)) = <<>>
    BY <1>4, PathParts
  <2>2. ASSUME IsAt(v, Dirname(s), d), BlockOf(v, d).isDir PROVE d \in Live(v) \ {p, q}
    BY <1>1, <1>4, <2>2, OneAbove DEF IsAt
  <2>3. ASSUME IsAt(w, Dirname(s), d), BlockOf(w, d).isDir PROVE d \in Live(v) \ {p, q}
    BY <1>1, <1>2, <1>4, <2>3, OneAbove DEF IsAt
  <2> QED
    BY <1>2, <2>1, <2>2, <2>3 DEF IsAt
<1>5. ASSUME NEW s \in Path, s \notin {from, to}, Dirname(s) \notin {from, to}
      PROVE  Shown(w, s) = Shown(v, s)
  <2>1. ASSUME NEW r, IsAt(v, s, r) PROVE IsAt(w, s, r) /\ NodeOf(w, r) = NodeOf(v, r)
    <3>1. r \in Live(v) \ {p, q} /\ r \in Live(w)
      BY <1>2, <1>3, <1>5, <2>1
    <3>2. IsAt(w, s, r)
      BY <1>1, <1>2, <1>4, <1>5, <2>1, <3>1, AtIs
    <3>3. NodeOf(w, r) = NodeOf(v, r)
      BY <1>1, <1>2, <3>1, NodeKept
    <3> QED
      BY <3>2, <3>3
  <2>2. ASSUME NEW r, IsAt(w, s, r) PROVE IsAt(v, s, r)
    <3>1. r \in Live(v) \ {p, q}
      BY <1>3, <1>5, <2>2
    <3> QED
      BY <1>1, <1>2, <1>4, <1>5, <2>2, <3>1, AtIs
  <2> QED
    BY <1>1, <2>1, <2>2, ShownAlike
<1> QED
  BY <1>5 DEF OthersShown, Around

(* What a rename comes to: what was at the old path, and below it, is at    *)
(* the new one, and what was there has gone, or changed places with it.     *)
MovedTree(v, w, from, to, back) ==
  /\ Arrived(v, w, from, to)
  /\ IF back THEN Arrived(v, w, to, from)
     ELSE \A s \in Path : s = from \/ Dirname(s) = from => Shown(w, s) = Tree!Nothing
  /\ OthersShown(v, w, Around(from, to))

LEMMA NameChangeShows ==
  ASSUME NEW v \in Sound, NEW w \in Sound, NEW from \in Path, NEW to \in Path, from # to,
         Dirname(from) = Dirname(to), NEW p, IsAt(v, from, p),
         NameChanged(v, p, Basename(to), w)
  PROVE  /\ MovedTree(v, w, from, to, FALSE)
         /\ Shown(v, to) = Tree!Nothing /\ \A s \in Path : Dirname(s) = to => Shown(v, s) = Tree!Nothing
<1>1. /\ v \in Shaped /\ v \in Volumes /\ w \in Shaped /\ w \in Volumes /\ p \in Live(v)
      /\ Basename(to) \in Name
  BY SoundIsShaped, PathParts DEF IsAt
<1>2. /\ But(v, p, p, w) /\ Live(w) = Live(v)
      /\ BlockOf(w, p) = [BlockOf(v, p) EXCEPT !.name = Basename(to)]
      /\ \A r \in Live(v) \ {p} : BlockOf(w, r) = BlockOf(v, r)
  BY <1>1 DEF NameChanged, But, EntriesOnly
<1>3. /\ BlockOf(w, p).name = Basename(to) /\ BlockOf(w, p).isDir = BlockOf(v, p).isDir
      /\ First(w, p) = First(v, p) /\ BlockOf(w, p).size = BlockOf(v, p).size
  <2> DEFINE b == BlockOf(v, p)
             n == Basename(to)
             a == BlockOf(w, p)
  <2>1. b \in Block /\ b.kind = "live" /\ n \in Name
    BY <1>1, LiveType
  <2>2. a = [b EXCEPT !.name = n]
    BY <1>2
  <2> HIDE DEF b, n, a
  <2>3. a.name = n /\ a.isDir = b.isDir /\ a.first = b.first /\ a.size = b.size
    BY <2>1, <2>2, BlockRenamed
  <2> QED
    BY <2>3 DEF a, b, n, First
<1>4. ASSUME Dirname(to) # <<>>, NEW d, d \in Live(v), BlockOf(v, d).isDir \/ BlockOf(w, d).isDir
      PROVE  BlockOf(w, d) = BlockOf(v, d)
  <2>1. ~BlockOf(v, p).isDir
    BY <1>1, <1>4, DirAtTop
  <2> QED
    BY <1>2, <1>3, <1>4, <2>1
<1>5. ASSUME NEW d, Dirname(to) # <<>>
      PROVE  /\ IsAt(v, Dirname(to), d) /\ BlockOf(v, d).isDir <=>
                  IsAt(w, Dirname(to), d) /\ BlockOf(w, d).isDir
             /\ IsAt(v, Dirname(to), d) /\ BlockOf(v, d).isDir => First(w, d) = First(v, d)
  <2>1. Dirname(Dirname(to)) = <<>>
    BY <1>5, PathParts
  <2> QED
    BY <1>2, <1>4, <1>5, <2>1 DEF IsAt, First
<1>6. IsAt(w, to, p)
  <2>1. CASE Dirname(to) = <<>>
    BY <1>1, <1>2, <1>3, <2>1 DEF IsAt
  <2>2. CASE Dirname(to) # <<>>
    <3>1. PICK d : IsAt(v, Dirname(to), d) /\ BlockOf(v, d).isDir /\ p.cluster = First(v, d)
      BY <1>1, <2>2, AtIs
    <3>2. IsAt(w, Dirname(to), d) /\ BlockOf(w, d).isDir /\ p.cluster = First(w, d)
      BY <1>5, <2>2, <3>1
    <3>3. p \in Live(w) /\ BlockOf(w, p).name = Basename(to)
      BY <1>1, <1>2, <1>3
    <3> QED
      BY <1>1, <2>2, <3>2, <3>3, AtIs
  <2> QED
    BY <2>1, <2>2
<1>7. ASSUME NEW r, IsAt(w, from, r) PROVE FALSE
  <2>1. r # p
    BY <1>1, <1>6, <1>7, OnePath
  <2>2. r \in Live(v) /\ BlockOf(w, r) = BlockOf(v, r)
    BY <1>2, <1>7, <2>1 DEF IsAt
  <2>3. IsAt(v, from, r)
    <3>1. CASE Dirname(to) = <<>>
      BY <1>7, <2>2, <3>1 DEF IsAt
    <3>2. CASE Dirname(to) # <<>>
      BY <1>1, <1>5, <1>7, <2>2, <3>2, AtIs
    <3> QED
      BY <3>1, <3>2
  <2> QED
    BY <1>1, <2>1, <2>3, OneAt
<1>8. ASSUME NEW r, IsAt(v, to, r) PROVE FALSE
  <2>1. r # p
    BY <1>1, <1>8, OnePath
  <2>2. r \in Live(v) /\ BlockOf(w, r) = BlockOf(v, r) /\ Live(w) = Live(v)
    BY <1>2, <1>8, <2>1 DEF IsAt
  <2>3. IsAt(w, to, r)
    <3>1. CASE Dirname(to) = <<>>
      BY <1>8, <2>2, <3>1 DEF IsAt
    <3>2. CASE Dirname(to) # <<>>
      BY <1>1, <1>5, <1>8, <2>2, <3>2, AtIs
    <3> QED
      BY <3>1, <3>2
  <2> QED
    BY <1>1, <1>6, <2>1, <2>3, OneAt
<1>9. from # <<>> /\ to # <<>>
  BY PathParts
<1>10. Arrived(v, w, from, to)
  BY <1>2, <1>3, <1>6, EntryArrives
<1>11. OthersShown(v, w, Around(from, to))
  BY <1>2, <1>6, OthersStay
<1>12. \A s \in Path : s = from \/ Dirname(s) = from => Shown(w, s) = Tree!Nothing
  BY <1>1, <1>7, <1>9, ShownIs, NothingBelow
<1>13. Shown(v, to) = Tree!Nothing /\ \A s \in Path : Dirname(s) = to => Shown(v, s) = Tree!Nothing
  BY <1>1, <1>8, <1>9, ShownIs, NothingBelow
<1> QED
  BY <1>10, <1>11, <1>12, <1>13 DEF MovedTree

LEMMA ExchangeShows ==
  ASSUME NEW v \in Sound, NEW w \in Sound, NEW from \in Path, NEW to \in Path, DirsStay(v, from, to),
         NEW p, NEW q, IsAt(v, from, p), IsAt(v, to, q), p # q, Exchanged(v, p, q, w)
  PROVE  MovedTree(v, w, from, to, TRUE) /\ IsAt(w, from, p) /\ IsAt(w, to, q)
<1>1. /\ v \in Shaped /\ v \in Volumes /\ w \in Shaped /\ w \in Volumes
      /\ p \in Live(v) /\ q \in Live(v)
      /\ BlockOf(v, p).name = Basename(from) /\ BlockOf(v, q).name = Basename(to)
  BY SoundIsShaped DEF IsAt
<1>2. But(v, p, q, w) /\ But(v, q, p, w) /\ Live(w) = Live(v)
  BY DEF Exchanged, But, EntriesOnly
<1>3. ASSUME NEW a, NEW b, NEW n \in Name, b \in Block, b.kind = "live",
             a = [b EXCEPT !.name = n]
      PROVE  a.name = n /\ a.isDir = b.isDir /\ a.first = b.first /\ a.size = b.size
  BY <1>3, BlockRenamed
<1>4. /\ BlockOf(v, p) \in Block /\ BlockOf(v, p).kind = "live" /\ BlockOf(v, p).name \in Name
      /\ BlockOf(v, q) \in Block /\ BlockOf(v, q).kind = "live" /\ BlockOf(v, q).name \in Name
  BY <1>1, LiveType
<1>5. /\ BlockOf(w, p).name = BlockOf(v, p).name /\ BlockOf(w, p).isDir = BlockOf(v, q).isDir
      /\ First(w, p) = First(v, q) /\ BlockOf(w, p).size = BlockOf(v, q).size
  <2>1. BlockOf(w, p) = [BlockOf(v, q) EXCEPT !.name = BlockOf(v, p).name]
    BY DEF Exchanged
  <2> QED
    BY <1>3, <1>4, <2>1 DEF First
<1>6. /\ BlockOf(w, q).name = BlockOf(v, q).name /\ BlockOf(w, q).isDir = BlockOf(v, p).isDir
      /\ First(w, q) = First(v, p) /\ BlockOf(w, q).size = BlockOf(v, p).size
  <2>1. BlockOf(w, q) = [BlockOf(v, p) EXCEPT !.name = BlockOf(v, q).name]
    BY DEF Exchanged
  <2> QED
    BY <1>3, <1>4, <2>1 DEF First
<1>7. ASSUME NEW path \in Path, NEW r, IsAt(v, path, r), r \in {p, q},
             BlockOf(v, p).isDir \/ BlockOf(v, q).isDir => r.cluster = Root
      PROVE  IsAt(w, path, r)
  <2>1. r \in Live(w) /\ BlockOf(w, r).name = Basename(path)
    BY <1>2, <1>5, <1>6, <1>7 DEF IsAt
  <2>2. CASE Dirname(path) = <<>>
    BY <1>1, <1>7, <2>1, <2>2, AtIs
  <2>3. CASE Dirname(path) # <<>>
    <3>1. PICK d : IsAt(v, Dirname(path), d) /\ BlockOf(v, d).isDir /\ r.cluster = First(v, d)
      BY <1>1, <1>7, <2>3, AtIs
    <3>2. d \in Live(v) /\ First(v, d) # Root
      BY <1>1, <3>1, LiveType DEF IsAt
    <3>3. d # p /\ d # q
      BY <1>7, <3>1, <3>2
    <3>4. BlockOf(w, d) = BlockOf(v, d) /\ d \in Live(w)
      BY <1>2, <3>2, <3>3 DEF But
    <3>5. Dirname(Dirname(path)) = <<>>
      BY <2>3, PathParts
    <3>6. IsAt(w, Dirname(path), d)
      BY <3>1, <3>4, <3>5 DEF IsAt
    <3> QED
      BY <1>1, <2>1, <2>3, <3>1, <3>4, <3>6, AtIs DEF First
  <2> QED
    BY <2>2, <2>3
<1>8. BlockOf(v, p).isDir \/ BlockOf(v, q).isDir => p.cluster = Root /\ q.cluster = Root
  BY <1>1, DirsInRoot
<1>9. IsAt(w, from, p) /\ IsAt(w, to, q)
  BY <1>7, <1>8
<1>10. Arrived(v, w, from, to)
  BY <1>2, <1>6, <1>9, EntryArrives
<1>11. Arrived(v, w, to, from)
  BY <1>2, <1>5, <1>9, EntryArrives
<1>12. OthersShown(v, w, Around(from, to))
  BY <1>2, <1>9, OthersStay
<1> QED
  BY <1>9, <1>10, <1>11, <1>12 DEF MovedTree

(* PathsClosed, of whatever a path is made of. *)
Closed ==
  \A m, n : <<m, n>> \in Path => <<m>> \in Path /\ \A d : <<d>> \in Path => <<d, n>> \in Path

LEMMA PathsAreClosed ==
  ASSUME PathsClosed
  PROVE  Closed
<1> SUFFICES ASSUME NEW m, NEW n, <<m, n>> \in Path
             PROVE  <<m>> \in Path /\ \A d : <<d>> \in Path => <<d, n>> \in Path
  BY DEF Closed
<1>1. m \in Name /\ n \in Name
  BY VolumeAssumption
<1>2. \A d : <<d>> \in Path => d \in Name
  BY VolumeAssumption
<1> QED
  BY <1>1, <1>2 DEF PathsClosed

LEMMA PathIsSeq ==
  ASSUME NEW path \in Path
  PROVE  path \in Seq(Name) /\ Len(path) \in {1, 2}
<1>1. CASE \E n \in Name : path = <<n>>
  BY <1>1
<1>2. CASE \E m, n \in Name : path = <<m, n>>
  BY <1>2
<1> QED
  BY <1>1, <1>2, VolumeAssumption

LEMMA DirnameIsSeq ==
  ASSUME NEW path \in Path
  PROVE  Dirname(path) \in Seq(Name) /\ Len(Dirname(path)) = Len(path) - 1
<1> DEFINE n == Len(path) - 1
           s == SubSeq(path, 1, n)
<1>1. path \in Seq(Name) /\ n \in {0, 1} /\ Len(path) = n + 1
  BY PathIsSeq
<1>2. \A i \in 1 .. n : path[i] \in Name
  BY <1>1
<1>3. s \in Seq(Name) /\ Len(s) = IF 1 <= n THEN n - 1 + 1 ELSE 0
  <2> HIDE DEF n
  <2>1. n \in Int /\ 1 \in Int
    BY <1>1
  <2> QED
    BY <1>2, <2>1, SubSeqProperties
<1>4. Dirname(path) = s
  BY DEF Dirname
<1> HIDE DEF s, n
<1>5. Len(s) = n
  BY <1>1, <1>3
<1> QED
  BY <1>3, <1>4, <1>5 DEF n

LEMMA BelowOrThere ==
  ASSUME NEW s \in Path, NEW p \in Path
  PROVE  Tree!Within(s, p) <=> s = p \/ Dirname(s) = p
<1>1. s \in Seq(Name) /\ p \in Seq(Name) /\ Len(s) \in {1, 2} /\ Len(p) \in {1, 2}
  BY PathIsSeq
<1>2. ASSUME Len(s) = Len(p) PROVE SubSeq(s, 1, Len(p)) = s
  <2> DEFINE t == SubSeq(s, 1, Len(s))
  <2>1. t \in Seq(Name) /\ Len(t) = Len(s) /\ \A i \in 1 .. Len(s) : t[i] = s[i]
    BY <1>1
  <2> HIDE DEF t
  <2>2. t = s
    BY <1>1, <2>1, SeqEqual
  <2> QED
    BY <1>2, <2>2 DEF t
<1> DEFINE cut == SubSeq(s, 1, Len(p))
           above == Dirname(s)
<1>3. Len(above) = Len(s) - 1
  BY DirnameIsSeq
<1>4. Len(p) = Len(s) - 1 => cut = above
  BY DEF Dirname
<1>5. Tree!Within(s, p) <=> Len(s) >= Len(p) /\ cut = p
  BY DEF Tree!Within
<1>6. s # p => ~(Len(s) = Len(p) /\ cut = p)
  BY <1>2
<1>7. s = p => cut = p
  BY <1>2
<1> SUFFICES Tree!Within(s, p) <=> s = p \/ above = p
  OBVIOUS
<1> HIDE DEF cut, above
<1>8. CASE Len(s) = Len(p)
  BY <1>1, <1>3, <1>5, <1>6, <1>7, <1>8
<1>9. CASE Len(s) = 2 /\ Len(p) = 1
  BY <1>3, <1>4, <1>5, <1>9
<1>10. CASE Len(s) = 1 /\ Len(p) = 2
  BY <1>3, <1>5, <1>10
<1> QED
  BY <1>1, <1>8, <1>9, <1>10

(* The path below `from' that goes the way s goes below `to'. *)
Beside(s, from, to) == from \o SubSeq(s, Len(to) + 1, Len(s))

LEMMA BesideIs ==
  ASSUME NEW s \in Path, NEW from \in Path, NEW to \in Path
  PROVE  /\ s = to => Beside(s, from, to) = from
         /\ Dirname(s) = to /\ Dirname(from) # <<>> => Beside(s, from, to) \notin Path
         /\ Dirname(s) = to /\ Dirname(from) = <<>> =>
              /\ Beside(s, from, to) = <<from[1], Basename(s)>>
              /\ from = <<from[1]>> /\ s = <<to[1], Basename(s)>> /\ to = <<to[1]>>
<1>1. /\ s \in Seq(Name) /\ from \in Seq(Name) /\ to \in Seq(Name)
      /\ Len(s) \in {1, 2} /\ Len(from) \in {1, 2} /\ Len(to) \in {1, 2}
  BY PathIsSeq
<1> DEFINE r == SubSeq(s, Len(to) + 1, Len(s))
           b == from \o r
<1>2. ASSUME s = to PROVE b = from
  <2>1. r = <<>>
    <3> DEFINE l == Len(s)
    <3>1. l \in Nat /\ r = SubSeq(s, l + 1, l)
      BY <1>1, <1>2
    <3> HIDE DEF l, r
    <3>2. SubSeq(s, l + 1, l) = <<>>
      BY ONLY <1>1, <3>1, SMTT(30)
    <3> QED
      BY <3>1, <3>2
  <2> HIDE DEF r
  <2> QED
    BY <1>1, <2>1, ConcatEmptySeq
<1>3. ASSUME Dirname(s) = to
      PROVE  r \in Seq(Name) /\ Len(r) = 1 /\ r[1] = Basename(s) /\ Basename(s) \in Name
  <2>1. Len(to) = Len(s) - 1
    BY <1>3, DirnameIsSeq
  <2>2. Len(s) = 2 /\ Len(to) = 1
    BY <1>1, <2>1
  <2>3. r = SubSeq(s, 2, 2) /\ Basename(s) = s[2]
    <3>1. Len(to) + 1 = 2
      BY <2>2
    <3> QED
      BY <2>2, <3>1 DEF Basename
  <2>4. s[2] \in Name
    BY <1>1, <2>2
  <2>5. \A i \in 2 .. 2 : s[i] \in Name
    BY <2>4
  <2> DEFINE x == SubSeq(s, 2, 2)
  <2>6. x \in Seq(Name) /\ Len(x) = 1 /\ x[1] = s[2]
    <3>1. /\ x \in Seq(Name) /\ Len(x) = IF 2 <= 2 THEN 2 - 2 + 1 ELSE 0
          /\ \A i \in 1 .. 2 - 2 + 1 : x[i] = s[2 + i - 1]
      BY <2>5, SubSeqProperties
    <3>2. 1 \in 1 .. 2 - 2 + 1 /\ 2 + 1 - 1 = 2
      OBVIOUS
    <3> HIDE DEF x
    <3> QED
      BY <3>1, <3>2
  <2> HIDE DEF x, r
  <2> QED
    BY <2>3, <2>4, <2>6 DEF x
<1>4. ASSUME Dirname(s) = to
      PROVE  /\ b \in Seq(Name) /\ Len(b) = Len(from) + 1
             /\ \A i \in 1 .. Len(from) : b[i] = from[i]
             /\ b[Len(from) + 1] = Basename(s)
  <2>1. r \in Seq(Name) /\ Len(r) = 1 /\ r[1] = Basename(s)
    BY <1>3, <1>4
  <2> HIDE DEF r
  <2>2. /\ b \in Seq(Name) /\ Len(b) = Len(from) + Len(r)
        /\ \A i \in 1 .. Len(from) + Len(r) : b[i] = IF i <= Len(from) THEN from[i] ELSE r[i - Len(from)]
    BY <1>1, <2>1, ConcatProperties
  <2> HIDE DEF b
  <2> DEFINE l == Len(from)
  <2>3. l \in Nat
    BY <1>1
  <2> HIDE DEF l
  <2>4. \A i \in 1 .. l + 1 : b[i] = IF i <= l THEN from[i] ELSE r[i - l]
    BY <2>1, <2>2 DEF l
  <2>5. /\ \A i \in 1 .. l : i \in 1 .. l + 1 /\ i <= l
        /\ l + 1 \in 1 .. l + 1 /\ ~(l + 1 <= l) /\ (l + 1) - l = 1
    BY <2>3
  <2>6. (\A i \in 1 .. l : b[i] = from[i]) /\ b[l + 1] = r[1]
    BY <2>4, <2>5
  <2> QED
    BY <2>1, <2>2, <2>6 DEF l
<1> HIDE DEF r, b
<1>5. ASSUME Dirname(s) = to, Dirname(from) # <<>> PROVE b \notin Path
  <2> SUFFICES ASSUME b \in Path PROVE FALSE
    OBVIOUS
  <2>1. Len(from) = 2
    BY <1>1, <1>5, PathParts
  <2>2. Len(b) = 3
    BY <1>4, <1>5, <2>1
  <2>3. Len(b) \in {1, 2}
    BY PathIsSeq
  <2> QED
    BY <2>2, <2>3
<1>6. ASSUME Dirname(s) = to, Dirname(from) = <<>>
      PROVE  /\ b = <<from[1], Basename(s)>>
             /\ from = <<from[1]>> /\ s = <<to[1], Basename(s)>> /\ to = <<to[1]>>
  <2> DEFINE n == Basename(s)
             a == from[1]
             t == <<a, n>>
  <2>1. from = <<a>> /\ Len(from) = 1 /\ a \in Name /\ n \in Name
    BY <1>1, <1>6, PathParts DEF Basename
  <2>2. b \in Seq(Name) /\ Len(b) = 2 /\ b[1] = a /\ b[2] = n
    BY <1>4, <1>6, <2>1
  <2> HIDE DEF n, a
  <2>3. t \in Seq(Name) /\ Len(t) = 2 /\ t[1] = a /\ t[2] = n
    BY <2>1
  <2> HIDE DEF t
  <2>4. \A i \in 1 .. Len(b) : b[i] = t[i]
    BY <2>2, <2>3
  <2>5. b = t
    BY <2>2, <2>3, <2>4, SeqEqual
  <2>6. Dirname(s) # <<>>
    BY <1>6, PathParts
  <2> QED
    BY <1>6, <2>1, <2>5, <2>6, PathAbove DEF t, a, n
<1> QED
  BY <1>2, <1>5, <1>6 DEF Beside, b, r

AtOrBelow(path) == {s \in Path : s = path \/ Dirname(s) = path}

(* What was at the new path before does not show. *)
LEMMA ThenMoved ==
  ASSUME NEW v, NEW u, NEW w, NEW from \in Path, NEW to \in Path, ~Nested(from, to),
         OthersShown(v, u, AtOrBelow(to)), MovedTree(u, w, from, to, FALSE)
  PROVE  MovedTree(v, w, from, to, FALSE)
<1>1. /\ Arrived(u, w, from, to) /\ OthersShown(u, w, Around(from, to))
      /\ \A s \in Path : s = from \/ Dirname(s) = from => Shown(w, s) = Tree!Nothing
  BY DEF MovedTree
<1>2. from # to /\ Dirname(from) # to /\ Dirname(to) # from
  BY DEF Nested
<1>3. \A s \in Path : s # to /\ Dirname(s) # to => Shown(u, s) = Shown(v, s)
  BY DEF OthersShown, AtOrBelow
<1>4. Shown(w, to) = Shown(v, from)
  BY <1>1, <1>2, <1>3 DEF Arrived
<1>5. ASSUME NEW s \in Path, NEW t \in Path, Dirname(s) = to, Dirname(t) = from, Basename(s) = Basename(t)
      PROVE  Shown(w, s) = Shown(v, t)
  BY <1>1, <1>2, <1>3, <1>5 DEF Arrived
<1>6. Arrived(v, w, from, to)
  BY <1>1, <1>4, <1>5 DEF Arrived
<1>7. OthersShown(v, w, Around(from, to))
  BY <1>1, <1>3 DEF OthersShown, Around
<1> QED
  BY <1>1, <1>6, <1>7 DEF MovedTree

(* What came to the old path goes. *)
LEMMA ThenGone ==
  ASSUME NEW v, NEW u, NEW w, NEW from \in Path, NEW to \in Path, ~Nested(from, to),
         MovedTree(v, u, from, to, TRUE), OthersShown(u, w, AtOrBelow(from)),
         \A s \in AtOrBelow(from) : Shown(w, s) = Tree!Nothing
  PROVE  MovedTree(v, w, from, to, FALSE)
<1>1. Arrived(v, u, from, to) /\ OthersShown(v, u, Around(from, to))
  BY DEF MovedTree
<1>2. from # to /\ Dirname(from) # to /\ Dirname(to) # from
  BY DEF Nested
<1>3. \A s \in Path : s # from /\ Dirname(s) # from => Shown(w, s) = Shown(u, s)
  BY DEF OthersShown, AtOrBelow
<1>4. Shown(w, to) = Shown(v, from)
  BY <1>1, <1>2, <1>3 DEF Arrived
<1>5. ASSUME NEW s \in Path, Dirname(s) = to PROVE Shown(w, s) = Shown(u, s)
  BY <1>2, <1>3, <1>5
<1>6. Arrived(v, w, from, to)
  BY <1>1, <1>4, <1>5 DEF Arrived
<1>7. OthersShown(v, w, Around(from, to))
  BY <1>1, <1>3 DEF OthersShown, Around
<1>8. \A s \in Path : s = from \/ Dirname(s) = from => Shown(w, s) = Tree!Nothing
  BY DEF AtOrBelow
<1> QED
  BY <1>6, <1>7, <1>8 DEF MovedTree

LEMMA SwappingOutShows ==
  ASSUME NEW v \in Sound, NEW w \in Sound, NEW from \in Path, NEW to \in Path,
         ~Nested(from, to), NEW p, NEW q, IsAt(v, from, p), IsAt(v, to, q), p # q,
         ~BlockOf(v, p).isDir, ~BlockOf(v, q).isDir, SwappedOut(v, p, q, w)
  PROVE  MovedTree(v, w, from, to, FALSE)
<1>1. PICK u \in Sound : Exchanged(v, p, q, u) /\ ~BlockOf(u, p).isDir /\ Without(u, p, w)
  BY DEF SwappedOut
<1>2. DirsStay(v, from, to)
  BY SoundIsShaped, OneAt DEF DirsStay
<1> DEFINE yes == TRUE
<1>3. MovedTree(v, u, from, to, yes) /\ IsAt(u, from, p)
  BY <1>1, <1>2, ExchangeShows
<1>4. /\ OthersShown(u, w, AtOrBelow(from))
      /\ \A s \in AtOrBelow(from) : Shown(w, s) = Tree!Nothing
  <2>1. /\ Shown(w, from) = Tree!Nothing
        /\ \A s \in Path : Dirname(s) = from => Shown(w, s) = Tree!Nothing
        /\ OthersShown(u, w, {s \in Path : s = from \/ Dirname(s) = from})
    BY <1>1, <1>3, WithoutShows
  <2> QED
    BY <2>1 DEF AtOrBelow
<1> QED
  BY <1>3, <1>4, ThenGone

(* A node is somewhere. *)
LEMMA SomethingThere ==
  ASSUME NEW v \in Shaped, NEW path, NEW q, IsAt(v, path, q)
  PROVE  Shown(v, path) # Tree!Nothing
<1>1. Shown(v, path) = NodeOf(v, q)
  BY ShownIs
<1>2. NodeOf(v, q).kind \in {"dir", "file"} /\ Tree!Nothing.kind = "nothing"
  BY DEF NodeOf, Tree!Folder, Tree!File, Tree!Nothing
<1> QED
  BY <1>1, <1>2

LEMMA MoveShows ==
  ASSUME NEW v \in Sound, NEW from \in Path, NEW to \in Path, ~Nested(from, to),
         NEW p, IsAt(v, from, p), NEW r, r.v \in Sound, r.st = "ok", MovedTo(v, from, to, p, r)
  PROVE  MovedTree(v, r.v, from, to, FALSE) /\ Shown(v, to) = Tree!Nothing
<1> DEFINE w == r.v
           no == FALSE
<1>1. from # to
  BY DEF Nested
<1>2. CASE Dirname(from) = Dirname(to) /\ NameChanged(v, p, Basename(to), w)
  <2> HIDE DEF w
  <2>1. w \in Sound
    BY DEF w
  <2>2. MovedTree(v, w, from, to, FALSE) /\ Shown(v, to) = Tree!Nothing
    BY <1>1, <1>2, <2>1, NameChangeShows
  <2> QED
    BY <2>2 DEF w
<1>3. CASE ~BlockOf(v, p).isDir /\ \E q : \E u \in Sound : Made(v, to, no, q, u) /\ SwappedOut(u, p, q, w)
  <2> HIDE DEF w
  <2>1. PICK q : \E u \in Sound : Made(v, to, no, q, u) /\ SwappedOut(u, p, q, w)
    BY <1>3
  <2>2. PICK u \in Sound : Made(v, to, no, q, u) /\ SwappedOut(u, p, q, w)
    BY <2>1
  <2>3. no \in BOOLEAN /\ ~no /\ w \in Sound
    BY DEF w
  <2> HIDE DEF no
  <2>4. Shown(v, to) = Tree!Nothing /\ OthersShown(v, u, {to})
    BY <2>2, <2>3, MadeShows
  <2>5. With(v, q, u) /\ IsAt(u, to, q) /\ q \notin Live(v) /\ ~BlockOf(u, q).isDir
    BY <2>2, <2>3 DEF Made
  <2>6. IsAt(u, from, p) /\ ~BlockOf(u, p).isDir /\ p # q
    BY <1>3, <2>5, WithStays DEF IsAt
  <2>7. MovedTree(u, w, from, to, FALSE)
    BY <2>2, <2>3, <2>5, <2>6, SwappingOutShows
  <2>8. OthersShown(v, u, AtOrBelow(to))
    BY <2>4 DEF OthersShown, AtOrBelow
  <2>9. MovedTree(v, w, from, to, FALSE)
    BY <2>7, <2>8, ThenMoved
  <2> QED
    BY <2>4, <2>9 DEF w
<1> QED
  BY <1>2, <1>3 DEF MovedTo

LEMMA ReplaceShows ==
  ASSUME NEW v \in Sound, NEW w \in Sound, NEW from \in Path, NEW to \in Path, ~Nested(from, to),
         NEW p, IsAt(v, from, p), NEW q, IsAt(v, to, q), p # q, ReplacedAt(v, from, to, p, q, w)
  PROVE  MovedTree(v, w, from, to, FALSE)
<1>1. CASE /\ Dirname(from) = Dirname(to)
           /\ \E u \in Sound : Without(v, q, u) /\ NameChanged(u, p, Basename(to), w)
  <2>1. PICK u \in Sound : Without(v, q, u) /\ NameChanged(u, p, Basename(to), w)
    BY <1>1
  <2>2. IsAt(u, from, p)
    BY <1>1, <2>1, NeighbourStays, SoundIsShaped
  <2>3. MovedTree(u, w, from, to, FALSE)
    BY <1>1, <2>1, <2>2, NameChangeShows DEF Nested
  <2>4. OthersShown(v, u, AtOrBelow(to))
    BY <2>1, WithoutShows DEF AtOrBelow
  <2> QED
    BY <2>3, <2>4, ThenMoved
<1>2. CASE ~BlockOf(v, p).isDir /\ ~BlockOf(v, q).isDir /\ SwappedOut(v, p, q, w)
  BY <1>2, SwappingOutShows
<1> QED
  BY <1>1, <1>2 DEF ReplacedAt

LEMMA RenameShows ==
  ASSUME NEW v \in Sound, NEW from \in Path, NEW to \in Path, ~Nested(from, to),
         DirsStay(v, from, to), NEW mode \in Modes,
         NEW p, IsAt(v, from, p), NEW r, r.v \in Sound, RenamedTo(v, from, to, mode, p, r)
  PROVE  /\ r.st # "ok" => r.v = v
         /\ r.st = "ok" =>
              /\ MovedTree(v, r.v, from, to, mode = "exchange")
              /\ mode = "exchange" => Shown(v, to) # Tree!Nothing
              /\ mode = "no_replace" => Shown(v, to) = Tree!Nothing
<1>1. CASE mode # "exchange" /\ MovedTo(v, from, to, p, r)
  <2>1. r.st # "ok" => r.v = v
    BY <1>1 DEF MovedTo
  <2>2. r.st = "ok" => MovedTree(v, r.v, from, to, FALSE) /\ Shown(v, to) = Tree!Nothing
    BY <1>1, MoveShows
  <2>3. (mode = "exchange") = FALSE
    BY <1>1
  <2> QED
    BY <2>1, <2>2, <2>3
<1>2. CASE \E q : /\ IsAt(v, to, q) /\ p # q /\ r.st = "ok"
                  /\ \/ mode = "exchange" /\ Exchanged(v, p, q, r.v)
                     \/ mode = "replace" /\ ReplacedAt(v, from, to, p, q, r.v)
  <2> DEFINE w == r.v
  <2>1. PICK q : /\ IsAt(v, to, q) /\ p # q /\ r.st = "ok"
                 /\ \/ mode = "exchange" /\ Exchanged(v, p, q, w)
                    \/ mode = "replace" /\ ReplacedAt(v, from, to, p, q, w)
    BY <1>2
  <2>2. w \in Sound
    OBVIOUS
  <2> HIDE DEF w
  <2>3. Shown(v, to) # Tree!Nothing
    BY <2>1, SomethingThere, SoundIsShaped
  <2>4. CASE mode = "exchange" /\ Exchanged(v, p, q, w)
    <3>1. MovedTree(v, w, from, to, TRUE)
      BY <2>1, <2>2, <2>4, ExchangeShows
    <3>2. (mode = "exchange") = TRUE
      BY <2>4
    <3> QED
      BY <2>1, <2>3, <2>4, <3>1, <3>2 DEF w
  <2>5. CASE mode = "replace" /\ ReplacedAt(v, from, to, p, q, w)
    <3>1. MovedTree(v, w, from, to, FALSE)
      BY <2>1, <2>2, <2>5, ReplaceShows
    <3>2. (mode = "exchange") = FALSE
      BY <2>5
    <3> QED
      BY <2>1, <2>5, <3>1, <3>2 DEF w
  <2> QED
    BY <2>1, <2>4, <2>5
<1> QED
  BY <1>1, <1>2 DEF RenamedTo

-----------------------------------------------------------------------------
(* The tree that users see. *)

LEMMA NodesAre ==
  ASSUME vol \in Shaped, NEW p
  PROVE  Tree!Node(p) = IF p \in Path THEN Shown(vol, p) ELSE Tree!Nothing
BY Seen DEF Tree!Node

LEMMA MovedIs ==
  ASSUME Closed, vol \in Shaped, NEW w, NEW from \in Path, NEW to \in Path,
         Arrived(vol, w, from, to), NEW s \in Path, Tree!Within(s, to)
  PROVE  Tree!Moved(s, from, to) = Shown(w, s)
<1> DEFINE b == Beside(s, from, to)
<1>1. Tree!Moved(s, from, to) = Tree!Node(b)
  BY DEF Tree!Moved, Beside
<1>2. Tree!Node(b) = IF b \in Path THEN Shown(vol, b) ELSE Tree!Nothing
  BY NodesAre
<1>3. s = to \/ Dirname(s) = to
  BY BelowOrThere
<1> HIDE DEF b
<1>4. CASE s = to
  <2>1. b = from
    BY <1>4, BesideIs DEF b
  <2> QED
    BY <1>1, <1>2, <1>4, <2>1 DEF Arrived
<1>5. CASE Dirname(s) = to /\ Dirname(from) # <<>>
  <2>1. b \notin Path
    BY <1>5, BesideIs DEF b
  <2> QED
    BY <1>1, <1>2, <1>5, <2>1 DEF Arrived
<1>6. CASE Dirname(s) = to /\ Dirname(from) = <<>>
  <2> DEFINE n == Basename(s)
  <2>1. b = <<from[1], n>> /\ from = <<from[1]>> /\ s = <<to[1], n>>
    BY <1>6, BesideIs DEF b
  <2>2. b \in Path
    BY <2>1 DEF Closed
  <2>3. Len(b) = 2 /\ Basename(b) = n
    BY <2>1 DEF Basename
  <2>4. Dirname(b) # <<>>
    BY <2>2, <2>3, PathParts
  <2>5. Dirname(b) = <<Dirname(b)[1]>> /\ b = <<Dirname(b)[1], Basename(b)>>
    BY <2>2, <2>4, PathAbove
  <2>6. Dirname(b)[1] = from[1]
    BY <2>1, <2>5
  <2>7. Dirname(b) = from
    BY <2>1, <2>5, <2>6
  <2>8. Shown(w, s) = Shown(vol, b)
    BY <1>6, <2>2, <2>3, <2>7 DEF Arrived
  <2> QED
    BY <1>1, <1>2, <2>2, <2>8
<1> QED
  BY <1>3, <1>4, <1>5, <1>6

(* What a rename leaves at each path, in the words of the tree. *)
Relocated(w, from, to, back) ==
  \A s \in Path : Shown(w, s) =
    CASE Tree!Within(s, to) -> Tree!Moved(s, from, to)
      [] Tree!Within(s, from) -> IF back THEN Tree!Moved(s, to, from) ELSE Tree!Nothing
      [] OTHER -> Shown(vol, s)

LEMMA TreeRenamed ==
  ASSUME Closed, vol \in Shaped, NEW w, NEW from \in Path, NEW to \in Path,
         ~Nested(from, to), NEW back \in BOOLEAN, MovedTree(vol, w, from, to, back)
  PROVE  /\ ~Tree!Within(from, to) /\ ~Tree!Within(to, from)
         /\ Relocated(w, from, to, back)
<1>1. from # to /\ Dirname(from) # to /\ Dirname(to) # from
  BY DEF Nested
<1>2. \A s \in Path : (Tree!Within(s, to) <=> s = to \/ Dirname(s) = to)
                      /\ (Tree!Within(s, from) <=> s = from \/ Dirname(s) = from)
  BY BelowOrThere
<1>3. \A s \in Path : ~(Tree!Within(s, to) /\ Tree!Within(s, from))
  BY <1>1, <1>2
<1>4. ASSUME NEW s \in Path, Tree!Within(s, to) PROVE Shown(w, s) = Tree!Moved(s, from, to)
  BY <1>4, MovedIs DEF MovedTree
<1>5. ASSUME NEW s \in Path, Tree!Within(s, from)
      PROVE  Shown(w, s) = IF back THEN Tree!Moved(s, to, from) ELSE Tree!Nothing
  <2>1. CASE back
    BY <1>5, <2>1, MovedIs DEF MovedTree
  <2>2. CASE ~back
    BY <1>2, <1>5, <2>2 DEF MovedTree
  <2> QED
    BY <2>1, <2>2
<1>6. ASSUME NEW s \in Path, ~Tree!Within(s, from), ~Tree!Within(s, to)
      PROVE  Shown(w, s) = Shown(vol, s)
  BY <1>2, <1>6 DEF MovedTree, OthersShown, Around
<1>7. ~Tree!Within(from, to) /\ ~Tree!Within(to, from)
  BY <1>1, <1>2
<1> QED
  BY <1>3, <1>4, <1>5, <1>6, <1>7 DEF Relocated

(* A node's directory is there. *)
LEMMA HeldBy ==
  ASSUME vol \in Shaped, NEW path \in Path, ParentIsDir(path), Closed
  PROVE  Tree!CanHold(path)
<1> DEFINE m == Dirname(path)
<1>1. Tree!Parent(path) = m
  BY DEF Tree!Parent, Dirname
<1>2. CASE m = <<>>
  BY <1>1, <1>2 DEF Tree!CanHold
<1>3. CASE m # <<>>
  <2>1. m \in Path
    BY <1>3, PathAbove DEF Closed
  <2>2. IsDir(m)
    BY <1>3, PathParts DEF ParentIsDir
  <2>3. PICK d : IsAt(vol, m, d) /\ BlockOf(vol, d).isDir
    BY <2>2, DirThere
  <2>4. Shown(vol, m) = Tree!Folder
    BY <2>3, ShownIs DEF NodeOf
  <2>5. Tree!Node(m) = Tree!Folder
    BY <2>1, <2>4, NodesAre
  <2> QED
    BY <1>1, <2>5 DEF Tree!CanHold
<1> QED
  BY <1>2, <1>3

(* What a file holds, as a sequence. *)
Content(v, q) == [i \in 1 .. BlockOf(v, q).size |-> UnitOf(v, q, i)]

LEMMA ContentShown ==
  ASSUME NEW v \in Sound, NEW path, NEW q, IsAt(v, path, q), ~BlockOf(v, q).isDir
  PROVE  /\ Content(v, q) \in Seq(DataBlock) /\ Len(Content(v, q)) = BlockOf(v, q).size
         /\ \A i \in 1 .. BlockOf(v, q).size : Content(v, q)[i] = UnitOf(v, q, i)
         /\ Shown(v, path) = Tree!File(Content(v, q))
<1> DEFINE n == BlockOf(v, q).size
           s == Content(v, q)
<1>1. /\ v \in Shaped /\ q \in Live(v) /\ n \in Nat /\ Read(v, BlockOf(v, q)) = s
      /\ \A i \in 1 .. n : UnitOf(v, q, i) \in DataBlock
  BY SoundIsShaped, ReadIs DEF IsAt, Content
<1>2. s = [i \in 1 .. n |-> UnitOf(v, q, i)]
  BY DEF Content
<1>3. Shown(v, path) = Tree!File(s)
  BY <1>1, ShownIs DEF NodeOf
<1> HIDE DEF n, s
<1>4. s \in Seq(DataBlock) /\ Len(s) = n /\ \A i \in 1 .. n : s[i] = UnitOf(v, q, i)
  BY <1>1, <1>2
<1> QED
  BY <1>3, <1>4 DEF n, s

(* The units that fill the gap between the end of the old data and an       *)
(* offset are those found there.                                            *)
GapOf(data, new, g) == [i \in 1 .. g |-> new[Len(data) + i]]

LEMMA GapFilled ==
  ASSUME NEW S, NEW data \in Seq(S), NEW new \in Seq(S), NEW g \in Nat, Len(data) + g <= Len(new)
  PROVE  LET s == data \o GapOf(data, new, g)
         IN  /\ GapOf(data, new, g) \in [1 .. g -> S]
             /\ s \in Seq(S) /\ Len(s) = Len(data) + g
             /\ \A i \in 1 .. Len(data) + g : s[i] = IF i <= Len(data) THEN data[i] ELSE new[i]
<1> DEFINE gap == GapOf(data, new, g)
           s == data \o gap
           n == Len(data)
           m == Len(new)
<1>1. n \in Nat /\ m \in Nat /\ n + g <= m
  OBVIOUS
<1>2. \A i \in 1 .. g : gap[i] = new[n + i] /\ new[n + i] \in S
  <2>1. \A i \in 1 .. g : n + i \in 1 .. m
    <3> HIDE DEF n, m
    <3> QED
      BY <1>1
  <2>2. \A i \in 1 .. m : new[i] \in S
    OBVIOUS
  <2> QED
    BY <2>1, <2>2 DEF GapOf
<1>3. gap = [i \in 1 .. g |-> new[n + i]]
  BY DEF GapOf
<1> HIDE DEF gap
<1>4. gap \in [1 .. g -> S] /\ gap \in Seq(S) /\ Len(gap) = g
  <2> HIDE DEF n
  <2>1. \A i \in 1 .. g : gap[i] \in S
    BY <1>2
  <2>2. gap \in [1 .. g -> S]
    BY <1>3, <2>1
  <2> QED
    BY <2>2
<1>5. /\ s \in Seq(S) /\ Len(s) = Len(data) + Len(gap)
      /\ \A i \in 1 .. Len(data) + Len(gap) : s[i] = IF i <= Len(data) THEN data[i] ELSE gap[i - Len(data)]
  BY <1>4, ConcatProperties
<1> HIDE DEF s, n, m
<1>6. \A i \in 1 .. n + g : s[i] = IF i <= n THEN data[i] ELSE gap[i - n]
  BY <1>4, <1>5 DEF n
<1>7. ASSUME NEW i \in 1 .. n + g PROVE s[i] = IF i <= n THEN data[i] ELSE new[i]
  <2>1. CASE i <= n
    BY <1>6, <2>1
  <2>2. CASE ~(i <= n)
    <3>1. i - n \in 1 .. g /\ n + (i - n) = i
      BY <1>1, <2>2
    <3>2. s[i] = gap[i - n]
      BY <1>6, <2>2
    <3>3. gap[i - n] = new[n + (i - n)]
      BY <1>2, <3>1
    <3> QED
      BY <2>2, <3>1, <3>2, <3>3
  <2> QED
    BY <2>1, <2>2
<1> QED
  BY <1>4, <1>5, <1>7 DEF s, gap, n

LEMMA CutIs ==
  ASSUME NEW S, NEW s \in Seq(S), NEW new \in Seq(S), Len(new) <= Len(s),
         \A i \in 1 .. Len(new) : s[i] = new[i]
  PROVE  SubSeq(s, 1, Len(new)) = new
<1> DEFINE k == Len(new)
           t == SubSeq(s, 1, k)
<1>1. k \in Nat /\ \A i \in 1 .. k : s[i] \in S
  OBVIOUS
<1>2. t \in Seq(S) /\ Len(t) = k /\ \A i \in 1 .. k : t[i] = s[i]
  <2> HIDE DEF k
  <2> QED
    BY <1>1
<1> HIDE DEF t
<1>3. t = new
  BY <1>2, SeqEqual
<1> QED
  BY <1>3 DEF t

(* What a write leaves, of the data there was and of x. *)
Merged(data, new, o, n, x) ==
  \A i \in 1 .. Len(new) :
    /\ o < i /\ i <= o + n => new[i] = Unit(x)
    /\ ~(o < i /\ i <= o + n) /\ i <= Len(data) => new[i] = data[i]

LEMMA GapIs ==
  ASSUME NEW data, Len(data) \in Nat, NEW k \in Nat, NEW g \in Nat,
         g = IF k > Len(data) THEN k - Len(data) ELSE 0, NEW gap \in [1 .. g -> DataBlock]
  PROVE  gap \in Tree!Gap(data, k)
<1>1. Tree!Gap(data, k) = [1 .. (IF k > Len(data) THEN k - Len(data) ELSE 0) -> DataBlock]
  BY DEF Tree!Gap, DataBlock
<1> QED
  BY <1>1

(* A write that is carried out. *)
LEMMA OverlayIs ==
  ASSUME NEW data \in Seq(DataBlock), NEW new \in Seq(DataBlock), NEW o \in Nat,
         NEW n \in Nat \ {0}, NEW x, Merged(data, new, o, n, x),
         Len(new) = IF o + n > Len(data) THEN o + n ELSE Len(data)
  PROVE  \E gap \in Tree!Gap(data, o) : Tree!Overlay(data \o gap, o, n, x) = new
<1> DEFINE l == Len(data)
           k == Len(new)
           g == IF o > l THEN o - l ELSE 0
           gap == GapOf(data, new, g)
           s == data \o gap
<1>1. l \in Nat /\ k \in Nat /\ k = (IF o + n > l THEN o + n ELSE l) /\ Len(data) = l
  OBVIOUS
<1> HIDE DEF l
<1>2. g \in Nat /\ l + g <= k /\ l + g = (IF o > l THEN o ELSE l)
  <2> HIDE DEF k
  <2> QED
    BY <1>1
<1>3. g = IF o > Len(data) THEN o - Len(data) ELSE 0
  BY <1>1
<1> HIDE DEF g
<1>4. /\ gap \in [1 .. g -> DataBlock]
      /\ s \in Seq(DataBlock) /\ Len(s) = l + g
      /\ \A i \in 1 .. l + g : s[i] = IF i <= l THEN data[i] ELSE new[i]
  <2>1. Len(data) + g <= Len(new)
    BY <1>1, <1>2 DEF k
  <2>2. /\ gap \in [1 .. g -> DataBlock]
        /\ s \in Seq(DataBlock) /\ Len(s) = Len(data) + g
        /\ \A i \in 1 .. Len(data) + g : s[i] = IF i <= Len(data) THEN data[i] ELSE new[i]
    <3>1. g \in Nat
      BY <1>2
    <3> QED
      BY ONLY <2>1, <3>1, GapFilled
  <2> HIDE DEF gap, s
  <2> QED
    BY <1>1, <1>2, <2>2
<1> HIDE DEF gap
<1>5. gap \in Tree!Gap(data, o)
  BY <1>1, <1>2, <1>3, <1>4, GapIs
<1> HIDE DEF s
<1>6. Tree!Overlay(s, o, n, x) = [i \in 1 .. k |-> IF o < i /\ i <= o + n THEN Unit(x) ELSE s[i]]
  <2>1. (IF n > 0 /\ o + n > Len(s) THEN o + n ELSE Len(s)) = k
    <3> DEFINE m == Len(s)
    <3>1. m = (IF o > l THEN o ELSE l)
      BY <1>2, <1>4
    <3> HIDE DEF m, k
    <3>2. (IF n > 0 /\ o + n > m THEN o + n ELSE m) = k
      BY <1>1, <3>1
    <3> QED
      BY <3>2 DEF m
  <2> HIDE DEF k
  <2> QED
    BY <2>1 DEF Tree!Overlay
<1>7. ASSUME NEW i \in 1 .. k
      PROVE  (IF o < i /\ i <= o + n THEN Unit(x) ELSE s[i]) = new[i]
  <2>1. CASE o < i /\ i <= o + n
    BY <2>1 DEF Merged
  <2>2. CASE ~(o < i /\ i <= o + n)
    <3>1. i \in 1 .. l + g
      <4> HIDE DEF k
      <4> QED
        BY <1>1, <1>2, <2>2
    <3>2. s[i] = IF i <= l THEN data[i] ELSE new[i]
      BY <1>4, <3>1
    <3>3. i <= l => new[i] = data[i]
      BY <1>1, <2>2 DEF Merged
    <3> QED
      BY <2>2, <3>2, <3>3
  <2> QED
    BY <2>1, <2>2
<1>8. new = [i \in 1 .. k |-> new[i]]
  OBVIOUS
<1> HIDE DEF k
<1>9. Tree!Overlay(s, o, n, x) = new
  BY <1>6, <1>7, <1>8
<1> QED
  BY <1>5, <1>9 DEF s

(* A write that fails, before the size it had come to is in the directory.  *)
LEMMA OverlayCut ==
  ASSUME NEW data \in Seq(DataBlock), NEW new \in Seq(DataBlock), NEW o \in Nat,
         NEW n \in Nat, NEW x \in Value, Merged(data, new, o, n, x), Len(new) >= Len(data),
         n > 0 => Len(new) >= o
  PROVE  \E gap \in Tree!Gap(data, Len(new)) :
           SubSeq(Tree!Overlay(data \o gap, o, n, x), 1, Len(new)) = new
<1> DEFINE l == Len(data)
           k == Len(new)
           g == k - l
           gap == GapOf(data, new, g)
           s == data \o gap
           t == Tree!Overlay(s, o, n, x)
           m == IF n > 0 /\ o + n > k THEN o + n ELSE k
<1>1. l \in Nat /\ k \in Nat /\ k >= l /\ Len(data) = l
  OBVIOUS
<1> HIDE DEF l, k
<1>2. g \in Nat /\ l + g = k /\ g = (IF k > l THEN k - l ELSE 0) /\ m \in Nat /\ m >= k
  BY <1>1
<1>3. n > 0 => k >= o
  BY DEF k
<1> HIDE DEF g
<1>4. Len(new) = k
  BY DEF k
<1>5. /\ gap \in [1 .. g -> DataBlock]
      /\ s \in Seq(DataBlock) /\ Len(s) = k
      /\ \A i \in 1 .. k : s[i] = IF i <= l THEN data[i] ELSE new[i]
  <2>1. Len(data) + g <= Len(new)
    BY <1>1, <1>2, <1>4 DEF k
  <2>2. /\ gap \in [1 .. g -> DataBlock]
        /\ s \in Seq(DataBlock) /\ Len(s) = Len(data) + g
        /\ \A i \in 1 .. Len(data) + g : s[i] = IF i <= Len(data) THEN data[i] ELSE new[i]
    <3>1. g \in Nat
      BY <1>2
    <3> QED
      BY ONLY <2>1, <3>1, GapFilled
  <2> HIDE DEF gap, s
  <2> QED
    BY <1>1, <1>2, <1>4, <2>2
<1> HIDE DEF gap
<1>6. gap \in Tree!Gap(data, k)
  BY <1>1, <1>2, <1>5, GapIs
<1> HIDE DEF s
<1>7. t = [i \in 1 .. m |-> IF o < i /\ i <= o + n THEN Unit(x) ELSE s[i]]
  BY <1>5 DEF Tree!Overlay
<1> HIDE DEF m, t
<1>8. t \in Seq(DataBlock) /\ Len(t) = m
  <2>1. Unit(x) \in DataBlock
    BY DEF DataBlock
  <2>2. ASSUME NEW i \in 1 .. m PROVE (IF o < i /\ i <= o + n THEN Unit(x) ELSE s[i]) \in DataBlock
    <3>1. CASE o < i /\ i <= o + n
      BY <2>1, <3>1
    <3>2. CASE ~(o < i /\ i <= o + n)
      <4>1. i \in 1 .. k
        BY <1>2, <1>3, <1>1, <3>2 DEF m
      <4>2. s[i] \in DataBlock
        BY <1>5, <4>1
      <4> QED
        BY <3>2, <4>2
    <3> QED
      BY <3>1, <3>2
  <2>3. t \in [1 .. m -> DataBlock]
    BY <1>7, <2>2
  <2> QED
    BY <1>2, <2>3
<1>9. \A i \in 1 .. k : t[i] = new[i]
  <2> SUFFICES ASSUME NEW i \in 1 .. k PROVE t[i] = new[i]
    OBVIOUS
  <2>1. t[i] = IF o < i /\ i <= o + n THEN Unit(x) ELSE s[i]
    BY <1>1, <1>2, <1>7
  <2>2. s[i] = IF i <= l THEN data[i] ELSE new[i]
    BY <1>5
  <2>3. /\ o < i /\ i <= o + n => new[i] = Unit(x)
        /\ ~(o < i /\ i <= o + n) /\ i <= l => new[i] = data[i]
    BY <1>1, <1>4 DEF Merged
  <2> QED
    BY <2>1, <2>2, <2>3
<1>10. SubSeq(t, 1, k) = new
  BY <1>2, <1>4, <1>8, <1>9, CutIs
<1> QED
  BY <1>4, <1>6, <1>10 DEF t, s

(* A size is set. *)
LEMMA CutToSize ==
  ASSUME NEW data \in Seq(DataBlock), NEW new \in Seq(DataBlock),
         \A i \in 1 .. Len(new) : i <= Len(data) => new[i] = data[i]
  PROVE  \E gap \in Tree!Gap(data, Len(new)) : SubSeq(data \o gap, 1, Len(new)) = new
<1> DEFINE l == Len(data)
           k == Len(new)
           g == IF k > l THEN k - l ELSE 0
           gap == GapOf(data, new, g)
           s == data \o gap
<1>1. l \in Nat /\ k \in Nat /\ Len(data) = l /\ Len(new) = k
  OBVIOUS
<1> HIDE DEF l, k
<1>2. g \in Nat /\ l + g \in Nat /\ k <= l + g /\ g = (IF k > l THEN k - l ELSE 0)
  BY <1>1
<1>3. CASE k > l
  <2>1. l + g <= k /\ l + g = k
    BY <1>1, <1>3
  <2> HIDE DEF g
  <2>2. /\ gap \in [1 .. g -> DataBlock]
        /\ s \in Seq(DataBlock) /\ Len(s) = k
        /\ \A i \in 1 .. k : s[i] = IF i <= l THEN data[i] ELSE new[i]
    <3>1. Len(data) + g <= Len(new)
      BY <1>1, <1>2, <2>1 DEF k
    <3>2. /\ gap \in [1 .. g -> DataBlock]
          /\ s \in Seq(DataBlock) /\ Len(s) = Len(data) + g
          /\ \A i \in 1 .. Len(data) + g : s[i] = IF i <= Len(data) THEN data[i] ELSE new[i]
      <4>1. g \in Nat
        BY <1>2
      <4> QED
        BY ONLY <3>1, <4>1, GapFilled
    <3> HIDE DEF gap, s
    <3> QED
      BY <1>1, <1>2, <2>1, <3>2
  <2> HIDE DEF gap
  <2>3. gap \in Tree!Gap(data, k)
    BY <1>1, <1>2, <2>2, GapIs
  <2> HIDE DEF s
  <2>4. \A i \in 1 .. k : s[i] = new[i]
    BY <1>1, <2>2
  <2>5. SubSeq(s, 1, k) = new
    BY <1>1, <2>2, <2>4, CutIs
  <2> QED
    BY <1>1, <2>3, <2>5 DEF s
<1>4. CASE ~(k > l)
  <2>1. g = 0
    BY <1>4
  <2> HIDE DEF g
  <2> DEFINE none == <<>>
  <2>2. none \in [1 .. g -> DataBlock] /\ data \o none = data
    BY <2>1, ConcatEmptySeq
  <2> HIDE DEF none
  <2>3. none \in Tree!Gap(data, k)
    BY <1>1, <1>2, <2>2, GapIs
  <2>4. \A i \in 1 .. k : data[i] = new[i]
    BY <1>1, <1>4
  <2>5. SubSeq(data, 1, k) = new
    BY <1>1, <1>4, <2>4, CutIs
  <2> QED
    BY <1>1, <2>2, <2>3, <2>5
<1> QED
  BY <1>3, <1>4

-----------------------------------------------------------------------------
(* Each call is a step of the tree. *)

TreeNow == [p \in Path |-> NodeAt(p)]

Appears(v, path) ==
  LET g == GetAttr(v, path)
  IN  IF g.st # "ok" THEN [kind |-> "nothing"]
      ELSE IF g.attr.isDir THEN [kind |-> "dir"]
      ELSE [kind |-> "file", data |-> Read(v, g.attr)]

LEMMA AppearsIs ==
  ASSUME NEW v \in Shaped, NEW path
  PROVE  Appears(v, path) = Shown(v, path)
<1>1. CASE GetAttr(v, path).st = "ok"
  <2>1. PICK q : IsAt(v, path, q) /\ GetAttr(v, path).attr = BlockOf(v, q)
    BY <1>1, NodeThere
  <2>2. Shown(v, path) = NodeOf(v, q)
    BY <2>1, ShownIs
  <2> QED
    BY <1>1, <2>1, <2>2 DEF Appears, NodeOf, Tree!Folder, Tree!File
<1>2. CASE GetAttr(v, path).st # "ok"
  <2>1. \A q : ~IsAt(v, path, q)
    BY <1>2, AttrPut
  <2> QED
    BY <1>2, <2>1, ShownIs DEF Appears, Tree!Nothing
<1> QED
  BY <1>1, <1>2

LEMMA TreeIs ==
  ASSUME vol \in Sound
  PROVE  TreeNow = [p \in Path |-> Shown(vol, p)]
<1>1. \A p \in Path : NodeAt(p) = Shown(vol, p)
  BY SoundIsShaped, Seen
<1> QED
  BY <1>1 DEF TreeNow

LEMMA TreeComes ==
  ASSUME NEW w \in Sound, vol' = Forget(w)
  PROVE  TreeNow' = [p \in Path |-> Shown(w, p)]
<1>1. vol' \in Shaped
  BY ForgetIsSound, SoundIsShaped
<1>2. ASSUME NEW p \in Path PROVE NodeAt(p)' = Shown(w, p)
  <2>1. NodeAt(p)' = Appears(vol', p)
    BY DEF NodeAt, Appears
  <2>2. Appears(vol', p) = Shown(vol', p)
    BY <1>1, AppearsIs
  <2>3. Shown(vol', p) = Shown(w, p)
    BY ForgetShows
  <2> QED
    BY <2>1, <2>2, <2>3
<1>3. TreeNow' = [p \in Path |-> NodeAt(p)']
  BY DEF TreeNow
<1> QED
  BY <1>2, <1>3

LEMMA TreeSet ==
  ASSUME vol \in Sound, NEW w \in Sound, vol' = Forget(w), NEW path \in Path,
         OthersShown(vol, w, {path})
  PROVE  TreeNow[path] = Shown(vol, path) /\ TreeNow' = [TreeNow EXCEPT ![path] = Shown(w, path)]
<1>1. TreeNow = [p \in Path |-> Shown(vol, p)] /\ TreeNow' = [p \in Path |-> Shown(w, p)]
  BY TreeIs, TreeComes
<1>2. \A p \in Path : p # path => Shown(w, p) = Shown(vol, p)
  BY DEF OthersShown
<1> QED
  BY <1>1, <1>2

LEMMA TreeStays ==
  ASSUME vol \in Sound, vol' = Forget(vol)
  PROVE  TreeNow' = TreeNow
BY TreeIs, TreeComes

LEMMA MadeSteps ==
  ASSUME vol \in Sound, Closed, NEW path \in Path, NEW isDir \in BOOLEAN,
         NEW w \in Sound, vol' = Forget(w), NEW q, Made(vol, path, isDir, q, w),
         Dirname(path) # <<>> => ParentIsDir(path),
         NEW op, Tree!Call(op, path, <<>>, "ok")
  PROVE  Tree!Make(op, path, IF isDir THEN Tree!Folder ELSE Tree!File(<<>>))
<1> DEFINE node == IF isDir THEN Tree!Folder ELSE Tree!File(<<>>)
<1>1. /\ Shown(vol, path) = Tree!Nothing /\ Shown(w, path) = node
      /\ OthersShown(vol, w, {path})
  BY MadeShows
<1>2. Tree!CanHold(path)
  <2>1. Dirname(path) = <<>> => ParentIsDir(path)
    BY PathParts DEF ParentIsDir
  <2> QED
    BY <2>1, SoundIsShaped, HeldBy
<1> HIDE DEF node
<1>3. TreeNow[path] = Tree!Nothing /\ TreeNow' = [TreeNow EXCEPT ![path] = node]
  BY <1>1, TreeSet
<1>4. Tree!Make(op, path, node)
  BY <1>2, <1>3 DEF Tree!Make, TreeNow
<1> QED
  BY <1>4 DEF node

LEMMA UnlinkSteps ==
  ASSUME vol \in Sound, NEW path \in Path, NEW w \in Sound, vol' = Forget(w),
         NEW q, IsAt(vol, path, q), ~BlockOf(vol, q).isDir, Without(vol, q, w),
         Tree!Call("unlink", path, <<>>, "ok")
  PROVE  Tree!Unlink(path)
<1>1. /\ Shown(w, path) = Tree!Nothing
      /\ OthersShown(vol, w, {s \in Path : s = path \/ Dirname(s) = path})
  BY WithoutShows
<1>2. vol \in Shaped /\ w \in Shaped
  BY SoundIsShaped
<1>3. \A d : IsAt(vol, path, d) => ~BlockOf(vol, d).isDir
  BY <1>2, OneAt
<1>4. OthersShown(vol, w, {path})
  <2>1. ASSUME NEW s \in Path, s # path, Dirname(s) = path PROVE Shown(w, s) = Shown(vol, s)
    <3>1. Dirname(s) # <<>>
      BY <2>1, PathParts
    <3>2. Shown(vol, s) = Tree!Nothing
      BY <1>2, <1>3, <2>1, <3>1, NothingBelow
    <3>3. Shown(w, s) = Tree!Nothing
      BY <2>1, WithoutShows
    <3> QED
      BY <3>2, <3>3
  <2> QED
    BY <1>1, <2>1 DEF OthersShown
<1>5. TreeNow[path] = Shown(vol, path) /\ TreeNow' = [TreeNow EXCEPT ![path] = Tree!Nothing]
  BY <1>1, <1>4, TreeSet
<1>6. Shown(vol, path).kind = "file"
  BY ContentShown DEF Tree!File
<1> QED
  BY <1>5, <1>6 DEF Tree!Unlink, TreeNow

LEMMA RmdirSteps ==
  ASSUME vol \in Sound, NEW path \in Path, Dirname(path) = <<>>, NEW w \in Sound, vol' = Forget(w),
         NEW q, IsAt(vol, path, q), BlockOf(vol, q).isDir, Without(vol, q, w), ~Occupied(vol, q),
         Tree!Call("rmdir", path, <<>>, "ok")
  PROVE  Tree!Rmdir(path)
<1>1. /\ Shown(w, path) = Tree!Nothing
      /\ OthersShown(vol, w, {s \in Path : s = path \/ Dirname(s) = path})
      /\ \A s \in Path : Dirname(s) = path => Shown(w, s) = Tree!Nothing
  BY WithoutShows
<1>2. vol \in Shaped /\ w \in Shaped
  BY SoundIsShaped
<1>3. ASSUME NEW s \in Path, Dirname(s) = path PROVE Shown(vol, s) = Tree!Nothing
  <2>1. Dirname(s) # <<>>
    BY <1>3, PathParts
  <2>2. \A r : ~IsAt(vol, s, r)
    <3> SUFFICES ASSUME NEW r, IsAt(vol, s, r) PROVE FALSE
      OBVIOUS
    <3>1. PICK d : IsAt(vol, path, d) /\ r.cluster = First(vol, d)
      BY <1>2, <1>3, <2>1, AtIs
    <3>2. d = q
      BY <1>2, <3>1, OneAt
    <3>3. r \in Live(vol)
      BY DEF IsAt
    <3> QED
      BY <3>1, <3>2, <3>3 DEF Occupied
  <2> QED
    BY <1>2, <2>2, ShownIs
<1>4. OthersShown(vol, w, {path})
  BY <1>1, <1>3 DEF OthersShown
<1>5. TreeNow[path] = Shown(vol, path) /\ TreeNow' = [TreeNow EXCEPT ![path] = Tree!Nothing]
  BY <1>1, <1>4, TreeSet
<1>6. Shown(vol, path) = Tree!Folder
  BY <1>2, ShownIs DEF NodeOf
<1>7. \A s \in Tree!Below(path) : TreeNow[s] = Tree!Nothing
  <2>1. \A s \in Tree!Below(path) : s \in Path /\ Dirname(s) = path
    BY DEF Tree!Below, Tree!Parent, Dirname
  <2>2. TreeNow = [p \in Path |-> Shown(vol, p)]
    BY TreeIs
  <2> QED
    BY <1>3, <2>1, <2>2
<1>8. Tree!Empty(path)
  BY <1>7 DEF Tree!Empty, TreeNow
<1> QED
  BY <1>5, <1>6, <1>8 DEF Tree!Rmdir, TreeNow

(* The tree's own view of new data in a file. *)
FileBecomes(path, old, new) ==
  /\ TreeNow[path] = Tree!File(old)
  /\ TreeNow' = [TreeNow EXCEPT ![path] = Tree!File(new)]

DataBecomes(path, old, new) ==
  /\ TreeNow[path].kind = "file" /\ TreeNow[path].data = old
  /\ TreeNow' = [TreeNow EXCEPT ![path].data = new]

LEMMA DataIsSet ==
  ASSUME NEW path, NEW old, NEW new, FileBecomes(path, old, new)
  PROVE  DataBecomes(path, old, new)
<1> DEFINE f == TreeNow
           g == TreeNow'
<1>1. f[path] = [kind |-> "file", data |-> old] /\ g = [f EXCEPT ![path] = [kind |-> "file", data |-> new]]
  BY DEF FileBecomes, Tree!File
<1> HIDE DEF f, g
<1>2. [f[path] EXCEPT !.data = new] = [kind |-> "file", data |-> new]
  BY <1>1
<1>3. [f EXCEPT ![path].data = new] = [f EXCEPT ![path] = [f[path] EXCEPT !.data = new]]
  OBVIOUS
<1>4. g = [f EXCEPT ![path].data = new]
  BY <1>1, <1>2, <1>3
<1>5. f[path].kind = "file" /\ f[path].data = old
  BY <1>1
<1> QED
  BY <1>4, <1>5 DEF DataBecomes, f, g

(* A call on a file, of what it leaves of the volume. *)
FileStep(path, q, w) ==
  /\ vol \in Sound /\ w \in Sound /\ path \in Path /\ vol' = Forget(w)
  /\ IsAt(vol, path, q) /\ ~BlockOf(vol, q).isDir /\ FileCalled(vol, q, w)

LEMMA FileSteps ==
  ASSUME NEW path, NEW q, NEW w, FileStep(path, q, w)
  PROVE  LET old == Content(vol, q)
             new == Content(w, q)
         IN  /\ old \in Seq(DataBlock) /\ Len(old) = BlockOf(vol, q).size
             /\ new \in Seq(DataBlock) /\ Len(new) = BlockOf(w, q).size
             /\ \A i \in 1 .. Len(old) : old[i] = UnitOf(vol, q, i)
             /\ \A i \in 1 .. Len(new) : new[i] = UnitOf(w, q, i)
             /\ path \in Path /\ FileBecomes(path, old, new)
<1>1. /\ vol \in Sound /\ w \in Sound /\ path \in Path /\ vol' = Forget(w)
      /\ IsAt(vol, path, q) /\ ~BlockOf(vol, q).isDir /\ FileCalled(vol, q, w)
  BY DEF FileStep
<1>2. IsAt(w, path, q) /\ OthersShown(vol, w, {path})
  BY <1>1, FileCallShows
<1>3. ~BlockOf(w, q).isDir
  BY <1>1 DEF FileCalled, SameNames, IsAt
<1>4. /\ Content(vol, q) \in Seq(DataBlock) /\ Len(Content(vol, q)) = BlockOf(vol, q).size
      /\ \A i \in 1 .. BlockOf(vol, q).size : Content(vol, q)[i] = UnitOf(vol, q, i)
      /\ Shown(vol, path) = Tree!File(Content(vol, q))
  BY <1>1, ContentShown
<1>5. /\ Content(w, q) \in Seq(DataBlock) /\ Len(Content(w, q)) = BlockOf(w, q).size
      /\ \A i \in 1 .. BlockOf(w, q).size : Content(w, q)[i] = UnitOf(w, q, i)
      /\ Shown(w, path) = Tree!File(Content(w, q))
  BY <1>1, <1>2, <1>3, ContentShown
<1>6. TreeNow[path] = Shown(vol, path) /\ TreeNow' = [TreeNow EXCEPT ![path] = Shown(w, path)]
  BY <1>1, <1>2, TreeSet
<1> QED
  BY <1>1, <1>4, <1>5, <1>6 DEF FileBecomes

LEMMA TruncateSteps ==
  ASSUME NEW path, NEW q, NEW w, FileStep(path, q, w), NEW n, DataKept(vol, q, w, n),
         Tree!Call("truncate", path, <<n>>, "ok")
  PROVE  Tree!Truncate(path, n)
<1> DEFINE old == Content(vol, q)
           new == Content(w, q)
<1>1. /\ old \in Seq(DataBlock) /\ Len(old) = BlockOf(vol, q).size
      /\ new \in Seq(DataBlock) /\ Len(new) = BlockOf(w, q).size
      /\ \A i \in 1 .. Len(old) : old[i] = UnitOf(vol, q, i)
      /\ \A i \in 1 .. Len(new) : new[i] = UnitOf(w, q, i)
      /\ path \in Path /\ FileBecomes(path, old, new)
  BY FileSteps
<1> HIDE DEF old, new
<1>2. Len(new) = n /\ Len(old) \in Nat /\ Len(new) \in Nat
  BY <1>1 DEF DataKept
<1>3. \A i \in 1 .. Len(new) : i <= Len(old) => new[i] = old[i]
  <2> SUFFICES ASSUME NEW i \in 1 .. Len(new), i <= Len(old) PROVE new[i] = old[i]
    OBVIOUS
  <2>1. UnitOf(w, q, i) = UnitOf(vol, q, i)
    BY <1>1, <1>2 DEF DataKept
  <2>2. i \in 1 .. Len(old)
    BY <1>2
  <2> QED
    BY <1>1, <2>1, <2>2
<1>4. PICK gap \in Tree!Gap(old, n) : SubSeq(old \o gap, 1, n) = new
  <2>1. old \in Seq(DataBlock) /\ new \in Seq(DataBlock)
    BY <1>1
  <2>2. \E gap \in Tree!Gap(old, Len(new)) : SubSeq(old \o gap, 1, Len(new)) = new
    BY ONLY <1>3, <2>1, CutToSize
  <2> QED
    BY <1>2, <2>2
<1>5. DataBecomes(path, old, new)
  BY <1>1, DataIsSet
<1>7. \E g \in Tree!Gap(TreeNow[path].data, n) :
        TreeNow' = [TreeNow EXCEPT ![path].data = SubSeq(@ \o g, 1, n)]
  BY <1>4, <1>5 DEF DataBecomes
<1> QED
  BY <1>1, <1>5, <1>7 DEF Tree!Truncate, TreeNow, DataBecomes

LEMMA KeptSteps ==
  ASSUME NEW path, NEW q, NEW w, FileStep(path, q, w), DataKept(vol, q, w, BlockOf(vol, q).size)
  PROVE  TreeNow' = TreeNow
<1> DEFINE old == Content(vol, q)
           new == Content(w, q)
<1>1. /\ old \in Seq(DataBlock) /\ Len(old) = BlockOf(vol, q).size
      /\ new \in Seq(DataBlock) /\ Len(new) = BlockOf(w, q).size
      /\ \A i \in 1 .. Len(old) : old[i] = UnitOf(vol, q, i)
      /\ \A i \in 1 .. Len(new) : new[i] = UnitOf(w, q, i)
      /\ path \in Path /\ FileBecomes(path, old, new)
  BY FileSteps
<1> HIDE DEF old, new
<1>2. Len(new) = Len(old) /\ Len(old) \in Nat
  BY <1>1 DEF DataKept
<1>3. \A i \in 1 .. Len(new) : new[i] = old[i]
  BY <1>1, <1>2 DEF DataKept
<1>4. new = old
  BY <1>1, <1>2, <1>3, SeqEqual
<1>5. TreeNow = [p \in Path |-> Shown(vol, p)]
  BY TreeIs DEF FileStep
<1> QED
  BY <1>1, <1>4, <1>5 DEF FileBecomes

LEMMA MergedIs ==
  ASSUME NEW path, NEW q, NEW w, FileStep(path, q, w), NEW o, NEW n, NEW x, NEW size,
         Wrote(vol, q, w, o, n, x, size)
  PROVE  Merged(Content(vol, q), Content(w, q), o, n, x) /\ Len(Content(w, q)) = size
<1> DEFINE old == Content(vol, q)
           new == Content(w, q)
<1>1. /\ old \in Seq(DataBlock) /\ Len(old) = BlockOf(vol, q).size
      /\ new \in Seq(DataBlock) /\ Len(new) = BlockOf(w, q).size
      /\ \A i \in 1 .. Len(old) : old[i] = UnitOf(vol, q, i)
      /\ \A i \in 1 .. Len(new) : new[i] = UnitOf(w, q, i)
  BY FileSteps
<1> HIDE DEF old, new
<1>2. Len(new) = size /\ Len(old) \in Nat /\ Len(new) \in Nat
  BY <1>1 DEF Wrote
<1>3. ASSUME NEW i \in 1 .. Len(new)
      PROVE  /\ o < i /\ i <= o + n => new[i] = Unit(x)
             /\ ~(o < i /\ i <= o + n) /\ i <= Len(old) => new[i] = old[i]
  <2>1. /\ o < i /\ i <= o + n => UnitOf(w, q, i) = Unit(x)
        /\ ~(o < i /\ i <= o + n) /\ i <= BlockOf(vol, q).size => UnitOf(w, q, i) = UnitOf(vol, q, i)
    BY <1>2 DEF Wrote
  <2>2. i <= Len(old) => i \in 1 .. Len(old)
    BY <1>2
  <2> QED
    BY <1>1, <2>1, <2>2
<1>4. Merged(old, new, o, n, x)
  BY <1>3 DEF Merged
<1> QED
  BY <1>2, <1>4 DEF old, new

LEMMA WriteSteps ==
  ASSUME NEW path, NEW q, NEW r, FileStep(path, q, r.v), NEW o \in Nat, NEW n \in Nat \ {0},
         NEW x \in Value, WroteOut(vol, q, r, o, n, x), r.st = "ok",
         Tree!Call("write", path, <<o, n, x>>, "ok")
  PROVE  Tree!Write(path, o, n, x)
<1> DEFINE w == r.v
           old == Content(vol, q)
           new == Content(w, q)
           size == BlockOf(vol, q).size
<1>1. FileStep(path, q, w) /\ Wrote(vol, q, w, o, n, x, IF o + n > size THEN o + n ELSE size)
  BY DEF WroteOut
<1> HIDE DEF w
<1>2. /\ old \in Seq(DataBlock) /\ Len(old) = BlockOf(vol, q).size /\ new \in Seq(DataBlock)
      /\ path \in Path /\ FileBecomes(path, old, new)
  BY <1>1, FileSteps
<1> HIDE DEF size
<1>3. Merged(old, new, o, n, x) /\ Len(new) = IF o + n > size THEN o + n ELSE size
  BY <1>1, MergedIs
<1>4. Len(new) = IF o + n > Len(old) THEN o + n ELSE Len(old)
  BY <1>2, <1>3 DEF size
<1> HIDE DEF old, new
<1>5. PICK gap \in Tree!Gap(old, o) : Tree!Overlay(old \o gap, o, n, x) = new
  <2>1. old \in Seq(DataBlock) /\ new \in Seq(DataBlock) /\ Merged(old, new, o, n, x)
    BY <1>2, <1>3
  <2> QED
    BY ONLY <1>4, <2>1, OverlayIs
<1>6. DataBecomes(path, old, new)
  BY <1>2, DataIsSet
<1>7. \E g \in Tree!Gap(TreeNow[path].data, o) :
        TreeNow' = [TreeNow EXCEPT ![path].data = Tree!Overlay(@ \o g, o, n, x)]
  BY <1>5, <1>6 DEF DataBecomes
<1> QED
  BY <1>6, <1>7 DEF Tree!Write, TreeNow, DataBecomes

LEMMA WriteFailSteps ==
  ASSUME NEW path, NEW q, NEW r, FileStep(path, q, r.v), NEW o \in Nat, NEW n \in Nat \ {0},
         NEW x \in Value, WroteOut(vol, q, r, o, n, x), r.st # "ok",
         Tree!Call("write", path, <<o, n, x>>, "failed")
  PROVE  Tree!WriteFails(path, o, n, x)
<1> DEFINE w == r.v
           old == Content(vol, q)
           new == Content(w, q)
           size == BlockOf(vol, q).size
<1>1. PICK j \in 0 .. n - 1, k \in {size, o + 1} :
        k >= size /\ (j > 0 => k >= o) /\ Wrote(vol, q, w, o, j, x, k)
  BY DEF WroteOut
<1>2. FileStep(path, q, w)
  OBVIOUS
<1> HIDE DEF w
<1>3. /\ old \in Seq(DataBlock) /\ Len(old) = BlockOf(vol, q).size /\ new \in Seq(DataBlock)
      /\ path \in Path /\ FileBecomes(path, old, new)
  BY <1>2, FileSteps
<1>4. Len(old) = size
  BY <1>3
<1> HIDE DEF size
<1>5. Merged(old, new, o, j, x) /\ Len(new) = k
  BY <1>1, <1>2, MergedIs
<1> HIDE DEF old, new
<1>6. Len(new) >= Len(old) /\ (j > 0 => Len(new) >= o) /\ j \in Nat
  <2>1. j \in Nat /\ k >= size /\ (j > 0 => k >= o)
    BY <1>1
  <2> QED
    BY ONLY <1>4, <1>5, <2>1
<1>7. PICK gap \in Tree!Gap(old, Len(new)) :
        SubSeq(Tree!Overlay(old \o gap, o, j, x), 1, Len(new)) = new
  <2>1. old \in Seq(DataBlock) /\ new \in Seq(DataBlock) /\ Merged(old, new, o, j, x)
    BY <1>3, <1>5
  <2> QED
    BY ONLY <1>6, <2>1, OverlayCut
<1>8. DataBecomes(path, old, new)
  BY <1>3, DataIsSet
<1>9. k \in {Len(old), o + 1} /\ k >= Len(old)
  BY <1>1, <1>4
<1>10. \E g \in Tree!Gap(TreeNow[path].data, k) :
         TreeNow' = [TreeNow EXCEPT ![path].data = SubSeq(Tree!Overlay(@ \o g, o, j, x), 1, k)]
  BY <1>5, <1>7, <1>8 DEF DataBecomes
<1>11. \E length \in {Len(TreeNow[path].data), o + 1}, written \in 0 .. n - 1 :
         /\ length >= Len(TreeNow[path].data)
         /\ written > 0 => length >= o
         /\ \E g \in Tree!Gap(TreeNow[path].data, length) :
              TreeNow' = [TreeNow EXCEPT ![path].data =
                            SubSeq(Tree!Overlay(@ \o g, o, written, x), 1, length)]
  BY <1>1, <1>8, <1>9, <1>10 DEF DataBecomes
<1> QED
  BY <1>8, <1>11 DEF Tree!WriteFails, TreeNow, DataBecomes

LEMMA RenameSteps ==
  ASSUME vol \in Sound, Closed, NEW from \in Path, NEW to \in Path, NEW mode \in Modes,
         ~Nested(from, to), DirsStay(vol, from, to), ParentIsDir(to), NEW p, IsAt(vol, from, p),
         NEW r, r.v \in Sound, vol' = Forget(r.v), RenamedTo(vol, from, to, mode, p, r),
         r.st = "ok", Tree!Call("rename", from, <<to, mode>>, "ok")
  PROVE  Tree!Rename(from, to, mode)
<1> DEFINE w == r.v
           back == mode = "exchange"
<1>1. vol \in Shaped /\ w \in Sound /\ back \in BOOLEAN
  BY SoundIsShaped
<1>2. /\ MovedTree(vol, w, from, to, back)
      /\ back => Shown(vol, to) # Tree!Nothing
      /\ mode = "no_replace" => Shown(vol, to) = Tree!Nothing
  BY RenameShows
<1>3. TreeNow = [s \in Path |-> Shown(vol, s)] /\ TreeNow' = [s \in Path |-> Shown(w, s)]
  BY TreeIs, TreeComes
<1> HIDE DEF w, back
<1>4. /\ ~Tree!Within(from, to) /\ ~Tree!Within(to, from)
      /\ Relocated(w, from, to, back)
  BY <1>1, <1>2, TreeRenamed
<1>5. TreeNow[from] # Tree!Nothing
  BY <1>1, <1>3, SomethingThere
<1>6. Tree!CanHold(to)
  BY <1>1, HeldBy
<1>7. /\ mode = "exchange" => TreeNow[to] # Tree!Nothing
      /\ mode = "no_replace" => TreeNow[to] = Tree!Nothing
  BY <1>2, <1>3 DEF back
<1>8. \A s \in Path : Shown(w, s) =
        CASE Tree!Within(s, to) -> Tree!Moved(s, from, to)
          [] Tree!Within(s, from) ->
               IF mode = "exchange" THEN Tree!Moved(s, to, from) ELSE Tree!Nothing
          [] OTHER -> TreeNow[s]
  BY <1>3, <1>4 DEF Relocated, back
<1>9. TreeNow' = [s \in Path |->
                    CASE Tree!Within(s, to) -> Tree!Moved(s, from, to)
                      [] Tree!Within(s, from) ->
                           IF mode = "exchange" THEN Tree!Moved(s, to, from) ELSE Tree!Nothing
                      [] OTHER -> TreeNow[s]]
  BY <1>3, <1>8
<1> QED
  BY <1>4, <1>5, <1>6, <1>7, <1>9 DEF Tree!Rename, TreeNow

LEMMA FailSteps ==
  ASSUME NEW op, NEW path, NEW arg, TreeNow' = TreeNow, Tree!Call(op, path, arg, "failed")
  PROVE  Tree!Fail(op, path, arg)
BY DEF Tree!Fail, TreeNow

LEMMA OutcomesAreSteps ==
  ASSUME vol \in Sound, Closed, NEW op, NEW path, NEW arg, NEW r, Outcomes(op, path, arg, r)
  PROVE  Tree!Next
<1>1. /\ Call(op, path, arg, r) /\ r.v \in Sound /\ path \in Path /\ Effect(op, path, arg, r)
      /\ vol' = Forget(r.v)
  BY DEF Outcomes, Call
<1>2. /\ r.st = "ok" => Tree!Call(op, path, arg, "ok")
      /\ r.st # "ok" => Tree!Call(op, path, arg, "failed")
  BY <1>1 DEF Call, Tree!Call
<1>3. r.v = vol => TreeNow' = TreeNow
  BY <1>1, TreeStays
<1>4. CASE op \in {"mknod", "mkdir"} /\ arg = <<>> /\ r.st # "ok" /\ r.v = vol /\ Full(vol)
  <2>1. Tree!Fail(op, path, <<>>)
    BY <1>2, <1>3, <1>4, FailSteps
  <2> QED
    BY <1>1, <1>4, <2>1 DEF Tree!Next
<1>5. CASE /\ op = "mknod" /\ arg = <<>> /\ r.st = "ok" /\ ParentIsDir(path)
           /\ \E q : Made(vol, path, FALSE, q, r.v)
  <2> DEFINE no == FALSE
  <2>1. PICK q : Made(vol, path, no, q, r.v)
    BY <1>5
  <2>2. no \in BOOLEAN /\ Tree!Call("mknod", path, <<>>, "ok")
    BY <1>2, <1>5
  <2> HIDE DEF no
  <2>3. Tree!Make("mknod", path, IF no THEN Tree!Folder ELSE Tree!File(<<>>))
    BY <1>1, <1>5, <2>1, <2>2, MadeSteps
  <2>4. Tree!Make("mknod", path, Tree!File(<<>>))
    BY <2>3 DEF no
  <2> QED
    BY <1>1, <2>4 DEF Tree!Next
<1>6. CASE /\ op = "mkdir" /\ arg = <<>> /\ r.st = "ok" /\ Dirname(path) = <<>>
           /\ \E q : Made(vol, path, TRUE, q, r.v)
  <2> DEFINE yes == TRUE
  <2>1. PICK q : Made(vol, path, yes, q, r.v)
    BY <1>6
  <2>2. yes \in BOOLEAN /\ Tree!Call("mkdir", path, <<>>, "ok")
    BY <1>2, <1>6
  <2> HIDE DEF yes
  <2>3. Tree!Make("mkdir", path, IF yes THEN Tree!Folder ELSE Tree!File(<<>>))
    BY <1>1, <1>6, <2>1, <2>2, MadeSteps
  <2>4. Tree!Make("mkdir", path, Tree!Folder)
    BY <2>3 DEF yes
  <2> QED
    BY <1>1, <2>4 DEF Tree!Next
<1>7. CASE /\ op = "unlink" /\ arg = <<>> /\ r.st = "ok"
           /\ \E q : IsAt(vol, path, q) /\ ~BlockOf(vol, q).isDir /\ Without(vol, q, r.v)
  <2>1. PICK q : IsAt(vol, path, q) /\ ~BlockOf(vol, q).isDir /\ Without(vol, q, r.v)
    BY <1>7
  <2>2. Tree!Unlink(path)
    BY <1>1, <1>2, <1>7, <2>1, UnlinkSteps
  <2> QED
    BY <1>1, <2>2 DEF Tree!Next
<1>8. CASE /\ op = "rmdir" /\ arg = <<>> /\ Dirname(path) = <<>>
           /\ \E q : /\ IsAt(vol, path, q) /\ BlockOf(vol, q).isDir
                     /\ \/ r.st = "ok" /\ Without(vol, q, r.v) /\ ~Occupied(vol, q)
                        \/ r.st # "ok" /\ r.v = vol /\ Occupied(vol, q)
  <2>1. PICK q : /\ IsAt(vol, path, q) /\ BlockOf(vol, q).isDir
                 /\ \/ r.st = "ok" /\ Without(vol, q, r.v) /\ ~Occupied(vol, q)
                    \/ r.st # "ok" /\ r.v = vol /\ Occupied(vol, q)
    BY <1>8
  <2>2. CASE r.st = "ok"
    <3>1. Tree!Rmdir(path)
      BY <1>1, <1>2, <1>8, <2>1, <2>2, RmdirSteps
    <3> QED
      BY <1>1, <3>1 DEF Tree!Next
  <2>3. CASE r.st # "ok"
    <3>1. Tree!Fail("rmdir", path, <<>>)
      BY <1>2, <1>3, <1>8, <2>1, <2>3, FailSteps
    <3> QED
      BY <1>1, <3>1 DEF Tree!Next
  <2> QED
    BY <2>2, <2>3
<1>9. CASE /\ op \in {"truncate", "write"} /\ (r.st # "ok" => Full(r.v))
           /\ \E q : /\ IsAt(vol, path, q) /\ ~BlockOf(vol, q).isDir /\ FileCalled(vol, q, r.v)
                     /\ DataSet(op, arg, q, r)
  <2>1. PICK q : /\ IsAt(vol, path, q) /\ ~BlockOf(vol, q).isDir /\ FileCalled(vol, q, r.v)
                 /\ DataSet(op, arg, q, r)
    BY <1>9
  <2>2. FileStep(path, q, r.v)
    BY <1>1, <2>1 DEF FileStep
  <2>3. CASE /\ op = "truncate" /\ arg = <<arg[1]>> /\ arg[1] \in Sizes
             /\ r.st = "ok" => DataKept(vol, q, r.v, arg[1])
             /\ r.st # "ok" => DataKept(vol, q, r.v, BlockOf(vol, q).size)
    <3> DEFINE n == arg[1]
    <3>1. op = "truncate" /\ arg = <<n>> /\ n \in Sizes
      BY <2>3
    <3> HIDE DEF n
    <3>2. CASE r.st = "ok"
      <4>1. DataKept(vol, q, r.v, n) /\ Tree!Call("truncate", path, <<n>>, "ok")
        BY <1>2, <2>3, <3>1, <3>2 DEF n
      <4>2. Tree!Truncate(path, n)
        BY <2>2, <4>1, TruncateSteps
      <4> QED
        BY <1>1, <3>1, <4>2 DEF Tree!Next
    <3>3. CASE r.st # "ok"
      <4>1. TreeNow' = TreeNow
        BY <2>2, <2>3, <3>3, KeptSteps
      <4>2. Tree!Fail("truncate", path, <<n>>)
        BY <1>2, <3>1, <3>3, <4>1, FailSteps
      <4> QED
        BY <1>1, <3>1, <4>2 DEF Tree!Next
    <3> QED
      BY <3>2, <3>3
  <2>4. CASE /\ op = "write" /\ arg[3] \in Value
             /\ \E w \in Writes : arg = <<w[1], w[2], arg[3]>> /\ WroteOut(vol, q, r, w[1], w[2], arg[3])
    <3> DEFINE x == arg[3]
    <3>1. PICK w \in Writes : arg = <<w[1], w[2], x>> /\ WroteOut(vol, q, r, w[1], w[2], x)
      BY <2>4
    <3>2. x \in Value /\ w[1] \in Nat /\ w[2] \in Nat \ {0}
      BY <2>4, VolumeAssumption
    <3> HIDE DEF x
    <3>3. CASE r.st = "ok"
      <4>1. Tree!Call("write", path, <<w[1], w[2], x>>, "ok")
        BY <1>2, <2>4, <3>1, <3>3
      <4>2. Tree!Write(path, w[1], w[2], x)
        BY <2>2, <3>1, <3>2, <3>3, <4>1, WriteSteps
      <4> QED
        BY <1>1, <3>2, <4>2 DEF Tree!Next
    <3>4. CASE r.st # "ok"
      <4>1. Tree!Call("write", path, <<w[1], w[2], x>>, "failed")
        BY <1>2, <2>4, <3>1, <3>4
      <4>2. Tree!WriteFails(path, w[1], w[2], x)
        BY <2>2, <3>1, <3>2, <3>4, <4>1, WriteFailSteps
      <4> QED
        BY <1>1, <3>2, <4>2 DEF Tree!Next
    <3> QED
      BY <3>3, <3>4
  <2> QED
    BY <2>1, <2>3, <2>4 DEF DataSet
<1>10. CASE /\ op = "rename" /\ arg = <<arg[1], arg[2]>> /\ arg[1] \in Path /\ arg[2] \in Modes
            /\ ~Nested(path, arg[1]) /\ DirsStay(vol, path, arg[1]) /\ ParentIsDir(arg[1])
            /\ \E p : IsAt(vol, path, p) /\ RenamedTo(vol, path, arg[1], arg[2], p, r)
  <2> DEFINE to == arg[1]
             mode == arg[2]
  <2>1. /\ op = "rename" /\ arg = <<to, mode>> /\ to \in Path /\ mode \in Modes
        /\ ~Nested(path, to) /\ DirsStay(vol, path, to) /\ ParentIsDir(to)
    BY <1>10
  <2>2. PICK p : IsAt(vol, path, p) /\ RenamedTo(vol, path, to, mode, p, r)
    BY <1>10
  <2> HIDE DEF to, mode
  <2>3. mode \in Tree!Mode
    BY <2>1 DEF Modes, Tree!Mode
  <2>4. CASE r.st = "ok"
    <3>1. Tree!Call("rename", path, <<to, mode>>, "ok")
      BY <1>2, <2>1, <2>4
    <3>2. Tree!Rename(path, to, mode)
      BY <1>1, <2>1, <2>2, <2>4, <3>1, RenameSteps
    <3> QED
      BY <1>1, <2>1, <2>3, <3>2 DEF Tree!Next
  <2>5. CASE r.st # "ok"
    <3>1. r.v = vol
      BY <1>1, <2>1, <2>2, <2>5, RenameShows
    <3>2. Tree!Fail("rename", path, <<to, mode>>)
      BY <1>2, <1>3, <2>1, <2>5, <3>1, FailSteps
    <3> QED
      BY <1>1, <2>1, <2>3, <3>2 DEF Tree!Next
  <2> QED
    BY <2>4, <2>5
<1> QED
  BY <1>1, <1>4, <1>5, <1>6, <1>7, <1>8, <1>9, <1>10 DEF Effect

LEMMA FormattedIsEmpty ==
  ASSUME IsFiniteSet(Name), Init
  PROVE  Tree!Init
<1>1. vol \in Sound /\ vol \in Shaped
  BY FormattedIsSound, SoundIsShaped DEF Init
<1>2. Live(vol) = {}
  BY FormattedIsSound DEF Init
<1>3. \A p \in Path : Shown(vol, p) = Tree!Nothing
  <2>1. \A p, q : ~IsAt(vol, p, q)
    BY <1>2 DEF IsAt
  <2> QED
    BY <1>1, <2>1, ShownIs
<1>4. TreeNow = [p \in Path |-> Tree!Nothing]
  BY <1>1, <1>3, TreeIs
<1> QED
  BY <1>4 DEF Init, Tree!Init, TreeNow

(* The volume implements the tree of files and directories: with callers    *)
(* that look first, whatever the volume's size, names and data, each call   *)
(* does to the tree that users see what it is asked and nothing else, and a *)
(* call that fails leaves it as it was, or, for a write, changes that file. *)
THEOREM VolumeIsATree ==
  ASSUME Careful, PathsClosed
  PROVE  Spec => ImplementsFileTree
<1>0. Closed
  BY PathsAreClosed
<1>1. Init => Tree!Init
  BY FormattedIsEmpty DEF Careful
<1>2. SoundInv /\ [Next]_vars => [Tree!Next]_(Tree!vars)
  <2>1. ASSUME SoundInv, Next PROVE Tree!Next
    <3>1. PICK op, path, arg, r : Outcomes(op, path, arg, r)
      BY <2>1, NextHasEffect
    <3> QED
      BY <1>0, <2>1, <3>1, OutcomesAreSteps DEF SoundInv
  <2>2. ASSUME UNCHANGED vars PROVE UNCHANGED Tree!vars
    <3>1. vol' = vol /\ res' = res
      BY <2>2 DEF vars
    <3> DEFINE t == [p \in Path |-> NodeAt(p)]
    <3>2. t' = t
      BY <3>1 DEF NodeAt
    <3> HIDE DEF t
    <3> QED
      BY <3>1, <3>2 DEF Tree!vars, t
  <2> QED
    BY <2>1, <2>2
<1> QED
  BY <1>1, <1>2, SoundHolds, PTL DEF ImplementsFileTree, Tree!Spec, Spec

-----------------------------------------------------------------------------
(* What a call leaves on the device at each of its writes. *)

(* A directory's entries come first, no two of one name, and its cluster    *)
(* has room for an end.                                                     *)
InOrder(blocks) ==
  /\ \E u \in 0 .. N - 1 : Filling(blocks, u)
  /\ \A i, j \in 0 .. N - 1 :
       blocks[i].kind = "live" /\ blocks[j].kind = "live" /\ blocks[i].name = blocks[j].name
         => i = j

(* The root is in order, and every directory in it. *)
DirsInOrder(slot) ==
  /\ InOrder(slot[Root])
  /\ \A e \in 0 .. N - 1 :
       slot[Root][e].kind = "live" /\ slot[Root][e].isDir =>
         slot[Root][e].first \in Cluster /\ InOrder(slot[slot[Root][e].first])

(* The device after each write of a log, as SlotsAfter has it: f[i] after i. *)
Replayed(s, log, f) ==
  /\ f[0] = s
  /\ \A i \in 1 .. Len(log) :
       f[i] = IF log[i].to = "fat" THEN f[i - 1]
              ELSE [f[i - 1] EXCEPT ![log[i].cluster] = log[i].blocks]

(* The writes of v, on a device that held s, lead to what v holds, and keep *)
(* the directories in order on the way.                                     *)
Trail(s, v) ==
  \E f : /\ Replayed(s, v.log, f)
         /\ f[Len(v.log)] = v.slot
         /\ \A i \in 0 .. Len(v.log) : DirsInOrder(f[i])

LEMMA ShapedInOrder ==
  ASSUME NEW v \in Shaped
  PROVE  DirsInOrder(v.slot)
<1>1. v \in Volumes /\ Root \in DirClusters(v)
  BY RootIsDir DEF Shaped
<1>2. \A c \in DirClusters(v) : c \in Cluster /\ v.fat[c] # Available
                               /\ \E u \in 0 .. N - 1 : Filling(v.slot[c], u)
  BY DirCluster
<1>3. ASSUME NEW c \in DirClusters(v), NEW i \in 0 .. N - 1, v.slot[c][i].kind = "live"
      PROVE  /\ Place(c, i) \in Live(v) /\ Place(c, i).cluster = c
             /\ BlockOf(v, Place(c, i)) = v.slot[c][i]
  BY <1>2, <1>3 DEF Live, Places, Place, BlockOf
<1>4. ASSUME NEW c \in DirClusters(v) PROVE InOrder(v.slot[c])
  <2>1. ASSUME NEW i \in 0 .. N - 1, NEW j \in 0 .. N - 1, v.slot[c][i].kind = "live",
               v.slot[c][j].kind = "live", v.slot[c][i].name = v.slot[c][j].name
        PROVE  i = j
    <3>1. Place(c, i) = Place(c, j)
      BY <1>3, <2>1 DEF Shaped, Dirs
    <3> QED
      BY <3>1 DEF Place
  <2> QED
    BY <1>2, <2>1 DEF InOrder
<1>5. ASSUME NEW e \in 0 .. N - 1, v.slot[Root][e].kind = "live", v.slot[Root][e].isDir
      PROVE  v.slot[Root][e].first \in DirClusters(v)
  <2>1. Place(Root, e) \in Live(v) /\ BlockOf(v, Place(Root, e)) = v.slot[Root][e]
    BY <1>1, <1>3, <1>5
  <2> QED
    BY <1>5, <2>1 DEF DirClusters, First
<1> QED
  BY <1>1, <1>2, <1>4, <1>5 DEF DirsInOrder

(* What is written elsewhere does not matter. *)
LEMMA OutsideInOrder ==
  ASSUME NEW v \in Shaped, NEW c, c \notin DirClusters(v), NEW b
  PROVE  DirsInOrder([v.slot EXCEPT ![c] = b])
<1> DEFINE w == [v.slot EXCEPT ![c] = b]
<1>1. v \in Volumes /\ Root \in DirClusters(v) /\ DirsInOrder(v.slot)
  BY RootIsDir, ShapedInOrder DEF Shaped
<1>2. v.slot \in Slots /\ Root \in 1 .. D + 1 /\ Cluster \subseteq 1 .. D + 1
  BY <1>1, OpsAssumption DEF Volumes, VolumeType, Root, Cluster
<1>3. \A d \in 1 .. D + 1 : d # c => w[d] = v.slot[d]
  BY <1>2 DEF Slots
<1>4. w[Root] = v.slot[Root]
  BY <1>1, <1>2, <1>3
<1>5. ASSUME NEW e \in 0 .. N - 1, v.slot[Root][e].kind = "live", v.slot[Root][e].isDir
      PROVE  w[v.slot[Root][e].first] = v.slot[v.slot[Root][e].first]
  <2>1. Place(Root, e) \in Live(v) /\ BlockOf(v, Place(Root, e)) = v.slot[Root][e]
    BY <1>1, <1>5, DirCluster DEF Live, Places, Place, BlockOf
  <2>2. v.slot[Root][e].first \in DirClusters(v)
    BY <1>5, <2>1 DEF DirClusters, First
  <2>3. v.slot[Root][e].first \in Cluster
    BY <1>1, <1>5 DEF DirsInOrder
  <2> QED
    BY <1>2, <1>3, <2>2, <2>3
<1> HIDE DEF w
<1>6. DirsInOrder(w)
  BY <1>1, <1>4, <1>5 DEF DirsInOrder
<1> QED
  BY <1>6 DEF w

LEMMA VolumesAreTyped == Volumes \subseteq VolumeType
  BY DEF Volumes

LEMMA TrailBegins ==
  ASSUME NEW v \in Shaped, v.log = <<>>
  PROVE  Trail(v.slot, v)
<1> DEFINE f == [i \in {0} |-> v.slot]
<1>1. Len(v.log) = 0 /\ 1 .. Len(v.log) = {} /\ 0 .. Len(v.log) = {0}
  OBVIOUS
<1>2. f[0] = v.slot /\ DirsInOrder(f[0])
  BY ShapedInOrder
<1> HIDE DEF f
<1> QED
  BY <1>1, <1>2 DEF Trail, Replayed

LEMMA TrailSame ==
  ASSUME NEW s, NEW v, Trail(s, v), NEW w, w.log = v.log, w.slot = v.slot
  PROVE  Trail(s, w)
  BY DEF Trail

(* One more write. *)
LEMMA TrailOn ==
  ASSUME NEW s, NEW v \in VolumeType, Trail(s, v), NEW e \in LogWrite, NEW w,
         w.log = Append(v.log, e),
         w.slot = IF e.to = "fat" THEN v.slot ELSE [v.slot EXCEPT ![e.cluster] = e.blocks],
         DirsInOrder(w.slot)
  PROVE  Trail(s, w)
<1> DEFINE n == Len(v.log)
<1>1. v.log \in Seq(LogWrite) /\ n \in Nat /\ Len(w.log) = n + 1 /\ w.log[n + 1] = e
      /\ \A i \in 1 .. n : w.log[i] = v.log[i]
  BY DEF VolumeType
<1>2. PICK f : /\ Replayed(s, v.log, f) /\ f[n] = v.slot
               /\ \A i \in 0 .. n : DirsInOrder(f[i])
  BY DEF Trail
<1> DEFINE g == [i \in 0 .. n + 1 |-> IF i = n + 1 THEN w.slot ELSE f[i]]
<1> HIDE DEF n
<1>3. g[n + 1] = w.slot /\ \A i \in 0 .. n : g[i] = f[i]
  BY <1>1
<1> HIDE DEF g
<1>4. g[0] = s
  BY <1>1, <1>2, <1>3 DEF Replayed
<1>5. ASSUME NEW i \in 1 .. n + 1
      PROVE  g[i] = IF w.log[i].to = "fat" THEN g[i - 1]
                    ELSE [g[i - 1] EXCEPT ![w.log[i].cluster] = w.log[i].blocks]
  <2>1. CASE i = n + 1
    <3>1. i - 1 = n /\ g[i - 1] = v.slot /\ g[i] = w.slot /\ w.log[i] = e
      BY <1>1, <1>2, <1>3, <2>1
    <3> QED
      BY <3>1
  <2>2. CASE i # n + 1
    <3>1. i \in 1 .. n /\ i - 1 \in 0 .. n /\ i \in 0 .. n
      BY <1>1, <2>2
    <3>2. g[i] = f[i] /\ g[i - 1] = f[i - 1] /\ w.log[i] = v.log[i]
      BY <1>1, <1>3, <3>1
    <3> QED
      BY <1>2, <3>1, <3>2 DEF Replayed, n
  <2> QED
    BY <2>1, <2>2
<1>6. \A i \in 0 .. n + 1 : DirsInOrder(g[i])
  BY <1>1, <1>2, <1>3
<1>7. Replayed(s, w.log, g)
  BY <1>1, <1>4, <1>5 DEF Replayed
<1> QED
  BY <1>1, <1>3, <1>6, <1>7 DEF Trail

LEMMA TrailInOrder ==
  ASSUME NEW s, NEW v \in VolumeType, Trail(s, v)
  PROVE  DirsInOrder(v.slot)
<1>1. v.log \in Seq(LogWrite) /\ Len(v.log) \in 0 .. Len(v.log)
  BY DEF VolumeType
<1> QED
  BY <1>1 DEF Trail

(* To the FAT. *)
LEMMA TrailFat ==
  ASSUME NEW s, NEW v \in VolumeType, Trail(s, v), NEW c \in Cluster, NEW e \in Entry
  PROVE  Trail(s, Do(v, FatWrite(c, e)))
<1> DEFINE w == Do(v, FatWrite(c, e))
<1>1. FatWrite(c, e) \in LogWrite /\ FatWrite(c, e).to = "fat"
  BY DEF FatWrite, LogWrite
<1>2. w.log = Append(v.log, FatWrite(c, e)) /\ w.slot = v.slot
  BY <1>1 DEF Do, Applied, VolumeType
<1>3. DirsInOrder(v.slot)
  BY TrailInOrder
<1> HIDE DEF w
<1>4. Trail(s, w)
  BY <1>1, <1>2, <1>3, TrailOn
<1> QED
  BY <1>4 DEF w

(* To the device. *)
LEMMA TrailDevice ==
  ASSUME NEW s, NEW v \in Volumes, Trail(s, v),
         NEW c \in 1 .. D + 1, NEW b \in [0 .. N - 1 -> Block],
         DirsInOrder(Do(v, DevWrite(c, b)).slot)
  PROVE  Trail(s, Do(v, DevWrite(c, b)))
<1> DEFINE w == Do(v, DevWrite(c, b))
<1>1. /\ DevWrite(c, b) \in LogWrite /\ DevWrite(c, b).to # "fat"
      /\ DevWrite(c, b).cluster = c /\ DevWrite(c, b).blocks = b
  BY DEF DevWrite, LogWrite
<1>2. w.log = Append(v.log, DevWrite(c, b)) /\ w.slot = [v.slot EXCEPT ![c] = b]
  BY <1>1 DEF Do, Applied, Volumes, VolumeType
<1>3. DirsInOrder(w.slot)
  OBVIOUS
<1> HIDE DEF w
<1>4. Trail(s, w)
  BY <1>1, <1>2, <1>3, TrailOn, VolumesAreTyped
<1> QED
  BY <1>4 DEF w

LEMMA TrailPut ==
  ASSUME NEW s, NEW v \in Volumes, Trail(s, v), NEW p \in Writable, NEW b \in Block,
         DirsInOrder(Put(v, p, b).slot)
  PROVE  Trail(s, Put(v, p, b))
<1> DEFINE c == p.cluster + (p.entry \div N)
           bs == [v.slot[c] EXCEPT ![p.entry % N] = b]
<1>1. c \in 1 .. D + 1 /\ p.entry % N \in 0 .. N - 1
  <2>1. p \in [cluster : Cluster, entry : 0 .. N] /\ p.entry \in 0 .. N
    BY DEF Writable
  <2>2. c \in 1 .. D + 1
    BY <2>1, BlockPut
  <2> QED
    BY <2>1, <2>2, EntryInCluster
<1>2. v.slot[c] \in [0 .. N - 1 -> Block]
  BY <1>1 DEF Volumes, VolumeType, Slots
<1>3. bs \in [0 .. N - 1 -> Block]
  BY <1>2
<1>4. Put(v, p, b) = Do(v, DevWrite(c, bs))
  BY DEF Put
<1> HIDE DEF c, bs
<1>5. DirsInOrder(Do(v, DevWrite(c, bs)).slot)
  BY <1>4
<1>6. Trail(s, Do(v, DevWrite(c, bs)))
  BY <1>1, <1>3, <1>5, TrailDevice
<1> QED
  BY <1>4, <1>6

(* A chain is freed entry by entry. *)
LEMMA TrailFreed ==
  ASSUME NEW s, NEW v \in Volumes, Trail(s, v), NEW c \in Cluster
  PROVE  Trail(s, FreeChain(v, c))
<1> DEFINE w == FreeChain(v, c)
           t == Chain(v, c)
           m == [i \in DOMAIN t |-> FatWrite(t[i], Available)]
           n == Len(v.log)
           k == Len(t)
<1>1. t \in Seq(Cluster) /\ k \in Nat /\ DOMAIN t = 1 .. k
  BY Chained
<1>2. w.log = v.log \o m /\ w.slot = v.slot
  BY DEF FreeChain, Volumes, VolumeType
<1> HIDE DEF t
<1>3. \A i \in 1 .. k : m[i] \in LogWrite /\ m[i].to = "fat"
  BY <1>1 DEF FatWrite, LogWrite, Entry
<1>4. m \in Seq(LogWrite) /\ Len(m) = k
  <2>1. m \in [1 .. k -> LogWrite]
    BY <1>1, <1>3
  <2> QED
    BY <1>1, <2>1, LenProperties, SeqDef
<1>5. v.log \in Seq(LogWrite) /\ n \in Nat
  BY DEF Volumes, VolumeType
<1> HIDE DEF w, m
<1>6. /\ Len(w.log) = n + k
      /\ \A i \in 1 .. n : w.log[i] = v.log[i]
      /\ \A i \in n + 1 .. n + k : w.log[i] = m[i - n]
  <2> DEFINE l == v.log
  <2>1. l \in Seq(LogWrite) /\ m \in Seq(LogWrite)
    BY <1>4, <1>5
  <2> HIDE DEF l
  <2>2. /\ Len(l \o m) = Len(l) + Len(m)
        /\ \A i \in 1 .. Len(l) + Len(m) : (l \o m)[i] = IF i <= Len(l) THEN l[i] ELSE m[i - Len(l)]
    BY <2>1, ConcatProperties, Zenon
  <2>3. /\ Len(w.log) = n + k
        /\ \A i \in 1 .. n + k : w.log[i] = IF i <= n THEN v.log[i] ELSE m[i - n]
    BY <1>2, <1>4, <2>2 DEF l
  <2>4. n \in Nat /\ k \in Nat
    BY <1>1, <1>5
  <2> HIDE DEF n, k
  <2>5. \A i \in 1 .. n : i \in 1 .. n + k /\ i <= n
    BY <2>4
  <2>6. \A i \in n + 1 .. n + k : i \in 1 .. n + k /\ ~(i <= n)
    BY <2>4
  <2> QED
    BY ONLY <2>3, <2>5, <2>6
<1>7. PICK f : /\ Replayed(s, v.log, f) /\ f[n] = v.slot
               /\ \A i \in 0 .. n : DirsInOrder(f[i])
  BY DEF Trail
<1> DEFINE g == [i \in 0 .. n + k |-> IF i > n THEN v.slot ELSE f[i]]
<1> HIDE DEF n
<1>8. /\ \A i \in 0 .. n : g[i] = f[i]
      /\ \A i \in n .. n + k : g[i] = v.slot
  BY <1>1, <1>5, <1>7
<1> HIDE DEF g
<1>9. ASSUME NEW i \in 1 .. n + k
      PROVE  g[i] = IF w.log[i].to = "fat" THEN g[i - 1]
                    ELSE [g[i - 1] EXCEPT ![w.log[i].cluster] = w.log[i].blocks]
  <2>1. CASE i > n
    <3>1. i - n \in 1 .. k /\ i \in n + 1 .. n + k /\ i \in n .. n + k /\ i - 1 \in n .. n + k
      BY <1>1, <1>5, <2>1
    <3>2. w.log[i].to = "fat"
      BY <1>3, <1>6, <3>1
    <3> QED
      BY <1>8, <3>1, <3>2
  <2>2. CASE i <= n
    <3>1. i \in 1 .. n /\ i - 1 \in 0 .. n /\ i \in 0 .. n
      BY <1>5, <2>2
    <3>2. g[i] = f[i] /\ g[i - 1] = f[i - 1] /\ w.log[i] = v.log[i]
      BY <1>6, <1>8, <3>1
    <3> QED
      BY <1>7, <3>1, <3>2 DEF Replayed, n
  <2> QED
    BY <1>1, <1>5, <2>1, <2>2
<1>10. \A i \in 0 .. n + k : DirsInOrder(g[i])
  <2>1. \A i \in 0 .. n + k : i \in 0 .. n \/ i \in n .. n + k
    BY <1>1, <1>5
  <2>2. DirsInOrder(v.slot)
    BY TrailInOrder, VolumesAreTyped
  <2> QED
    BY <1>7, <1>8, <2>1, <2>2
<1>11. g[0] = s /\ g[n + k] = v.slot
  <2>1. 0 \in 0 .. n /\ n + k \in n .. n + k
    BY <1>1, <1>5
  <2> QED
    BY <1>7, <1>8, <2>1 DEF Replayed
<1>12. Replayed(s, w.log, g)
  BY <1>6, <1>9, <1>11 DEF Replayed
<1>13. Trail(s, w)
  BY <1>2, <1>6, <1>10, <1>11, <1>12 DEF Trail
<1> QED
  BY <1>13 DEF w

-----------------------------------------------------------------------------
(* Clusters. *)

LEMMA TrailAllocated ==
  ASSUME NEW s, NEW v \in Shaped, Trail(s, v), NEW zero
  PROVE  Trail(s, AllocCluster(v, zero).v)
<1> DEFINE free == {c \in 2 .. D : v.fat[c] = Available}
           c == NextFree(v.cursor, free)
           t == Take(v, c)
<1>1. v \in Volumes
  BY DEF Shaped
<1>2. CASE free = {}
  BY <1>2 DEF AllocCluster
<1>3. CASE free # {}
  <2>1. v.cursor \in Nat /\ free \in SUBSET Nat
    BY <1>1, OpsAssumption DEF Volumes, VolumeType, Cluster
  <2>2. c \in free
    BY <1>3, <2>1, NextFreeIsFree
  <2>3. c \in Cluster /\ c \in 1 .. D + 1 /\ v.fat[c] = Available
    BY <2>2, OpsAssumption DEF Cluster
  <2> HIDE DEF c
  <2>4. End \in Entry
    BY DEF Entry
  <2>5. Trail(s, MarkEnd(v, c))
    BY <1>1, <2>3, <2>4, TrailFat, VolumesAreTyped DEF MarkEnd
  <2>6. Trail(s, t)
    <3>1. MarkEnd(v, c) \in VolumeType
      BY <1>1, <2>3, <2>4, FatEntryWritten, VolumesAreTyped DEF MarkEnd
    <3>2. t.log = MarkEnd(v, c).log /\ t.slot = MarkEnd(v, c).slot
      BY <3>1 DEF Take, VolumeType
    <3> QED
      BY <2>5, <3>2, TrailSame
  <2>7. AllocCluster(v, zero).v = IF zero THEN Clear(t, c) ELSE t
    BY <1>3 DEF AllocCluster, c
  <2>8. CASE ~zero
    BY <2>6, <2>7, <2>8
  <2>9. CASE zero
    <3>1. AllocCluster(v, FALSE).v = t /\ AllocCluster(v, FALSE).v \in Volumes
      BY <1>1, <1>3, Allocated DEF AllocCluster, c
    <3>2. t.slot = v.slot
      BY <1>1 DEF Take, MarkEnd, Do, Applied, FatWrite, Volumes, VolumeType
    <3>3. Cleared \in [0 .. N - 1 -> Block] /\ Clear(t, c) = Do(t, DevWrite(c, Cleared))
      BY ClearedBlocks DEF Clear, Cleared
    <3> HIDE DEF t
    <3>8. t \in Volumes
      BY <3>1
    <3>9. Do(t, DevWrite(c, Cleared)).slot = [t.slot EXCEPT ![c] = Cleared]
      BY ONLY <2>3, <3>3, <3>8, ClusterWritten
    <3>4. Do(t, DevWrite(c, Cleared)).slot = [v.slot EXCEPT ![c] = Cleared]
      BY <3>2, <3>9
    <3>5. c \notin DirClusters(v)
      BY <2>3, FreeIsFree
    <3>6. DirsInOrder(Do(t, DevWrite(c, Cleared)).slot)
      BY <3>4, <3>5, OutsideInOrder
    <3>7. Trail(s, Clear(t, c))
      BY <2>3, <2>6, <3>1, <3>3, <3>6, TrailDevice
    <3> QED
      BY <2>7, <2>9, <3>7
  <2> QED
    BY <2>8, <2>9
<1> QED
  BY <1>2, <1>3

LEMMA TrailAttached ==
  ASSUME NEW s, NEW v \in Volumes, Trail(s, v), NEW tail \in Cluster, NEW c \in Cluster
  PROVE  Trail(s, AttachCluster(v, tail, c).v)
<1> DEFINE w == Do(v, FatWrite(tail, c))
<1>1. c \in Entry /\ End \in Entry
  BY DEF Entry
<1>2. CASE v.fat[tail] # End
  BY <1>2 DEF AttachCluster
<1>3. CASE v.fat[tail] = End
  <2>1. Trail(s, w)
    BY <1>1, TrailFat, VolumesAreTyped
  <2>2. AttachCluster(v, tail, c).v = Do(w, FatWrite(c, End))
    BY <1>3 DEF AttachCluster, MarkEnd
  <2>3. w \in VolumeType
    BY <1>1, FatEntryWritten, VolumesAreTyped
  <2> HIDE DEF w
  <2> QED
    BY <1>1, <2>1, <2>2, <2>3, TrailFat
<1> QED
  BY <1>2, <1>3

LEMMA TrailExtended ==
  ASSUME NEW s, NEW v \in Shaped, Trail(s, v), NEW tail \in Cluster, NEW zero
  PROVE  Trail(s, Extend(v, tail, zero).v)
<1> DEFINE a == AllocCluster(v, zero)
<1>1. v \in Volumes
  BY DEF Shaped
<1>2. /\ a.st \in {"ok", "error"} /\ a.v \in Volumes
      /\ (a.st = "ok" => a.cluster \in 2 .. D)
  BY <1>1, Allocated
<1>3. Trail(s, a.v)
  BY TrailAllocated
<1>4. Extend(v, tail, zero) = IF a.st # "ok" THEN a ELSE AttachCluster(a.v, tail, a.cluster)
  BY DEF Extend
<1>5. 2 .. D \subseteq Cluster
  BY OpsAssumption DEF Cluster
<1> HIDE DEF a
<1>6. CASE a.st # "ok"
  BY <1>3, <1>4, <1>6
<1>7. CASE a.st = "ok"
  <2>1. a.cluster \in Cluster
    BY <1>2, <1>5, <1>7
  <2>2. Trail(s, AttachCluster(a.v, tail, a.cluster).v)
    BY <1>2, <1>3, <2>1, TrailAttached
  <2> QED
    BY <1>4, <1>7, <2>2
<1> QED
  BY <1>6, <1>7

(* A walk along the chain of a file. *)
LEMMA TrailOnward ==
  ASSUME NEW s, NEW v \in Sound, NEW q \in Live(v), ~BlockOf(v, q).isDir, NEW k \in Nat, NEW p,
         OnChain(v, q, k, p), Trail(s, p.v), NEW checked
  PROVE  Trail(s, Onward(p, checked).v)
<1> DEFINE c == NextCluster(p.v, p.cluster)
           zero == TRUE
           r == Extend(p.v, p.cluster, zero)
<1>1. CASE p.st # "ok"
  BY <1>1 DEF Onward
<1>2. CASE p.st = "ok" /\ c # 0
  <2>1. Onward(p, checked) = [p EXCEPT !.cluster = c]
    BY <1>2 DEF Onward
  <2>2. p \in [st : {"ok", "error"}, v : Volumes, cluster : 0 .. D]
    BY DEF OnChain, Step
  <2> HIDE DEF c
  <2>3. Onward(p, checked).v = p.v
    BY <2>1, <2>2
  <2> QED
    BY <2>3
<1>3. CASE p.st = "ok" /\ c = 0
  <2>1. p.v.fat[p.cluster] = End /\ p.v \in Shaped /\ p.cluster \in Cluster
    BY <1>3, OnFile
  <2>2. Onward(p, checked) = r
    BY <1>3, <2>1 DEF Onward
  <2> HIDE DEF zero
  <2>3. Trail(s, r.v)
    BY <2>1, TrailExtended
  <2> QED
    BY <2>2, <2>3
<1> QED
  BY <1>1, <1>2, <1>3

LEMMA TrailFollowed ==
  ASSUME NEW s, NEW v \in Sound, Trail(s, v), NEW q \in Live(v), ~BlockOf(v, q).isDir,
         NEW k \in Nat, NEW checked
  PROVE  Trail(s, Follow(v, First(v, q), k, checked).v)
<1> DEFINE f == First(v, q)
           p0 == [st |-> "ok", v |-> v, cluster |-> f]
<1>1. v \in Volumes /\ v \in Shaped /\ f \in Cluster
  BY SoundIsShaped, ChainOfEntry
<1> HIDE DEF f
<1>2. PICK step \in [0 .. k -> Step] : Follows(v, f, k, checked, step)
  BY <1>1, FollowUnfolds
<1>3. /\ step[0] = p0
      /\ \A i \in 1 .. k : step[i] = Onward(step[i - 1], checked)
      /\ Follow(v, f, k, checked) = step[k]
  BY <1>2 DEF Follows
<1>4. OnChain(v, q, 1, p0) /\ Trail(s, p0.v)
  <2>1. f \in 0 .. D
    BY <1>1, OpsAssumption DEF Cluster
  <2>2. p0 \in Step /\ p0.v = v /\ p0.cluster = f
    BY <1>1, <2>1 DEF Step
  <2>3. 1 \in 1 .. Len(Chain(v, f)) /\ Chain(v, f)[1] = f
    BY <1>1, Chained
  <2>4. Along(v, q, v) /\ p0.st = "ok"
    BY <1>1, AlongItself
  <2> HIDE DEF p0
  <2> QED
    BY <2>2, <2>3, <2>4 DEF OnChain, f
<1> DEFINE T == {i \in Nat : i <= k => OnChain(v, q, i + 1, step[i]) /\ Trail(s, step[i].v)}
<1>5. 0 \in T
  BY <1>3, <1>4
<1>6. ASSUME NEW i \in Nat, i \in T PROVE i + 1 \in T
  <2> SUFFICES ASSUME i + 1 <= k
               PROVE  OnChain(v, q, (i + 1) + 1, step[i + 1]) /\ Trail(s, step[i + 1].v)
    OBVIOUS
  <2>1. OnChain(v, q, i + 1, step[i]) /\ i + 1 \in Nat /\ Trail(s, step[i].v)
    BY <1>6
  <2>2. step[i + 1] = Onward(step[i], checked)
    <3>1. i + 1 \in 1 .. k /\ (i + 1) - 1 = i
      OBVIOUS
    <3> QED
      BY <1>3, <3>1
  <2>3. OnChain(v, q, (i + 1) + 1, Onward(step[i], checked))
    BY <2>1, OnwardOnChain
  <2>4. Trail(s, Onward(step[i], checked).v)
    BY <2>1, TrailOnward
  <2> QED
    BY <2>2, <2>3, <2>4
<1>7. k \in T
  BY <1>5, <1>6, CountUp
<1> QED
  BY <1>3, <1>7 DEF f

(* An entry is put, on a volume that is then in shape. *)
LEMMA TrailShaped ==
  ASSUME NEW s, NEW v \in Volumes, Trail(s, v), NEW p \in Writable, NEW b \in Block,
         Put(v, p, b) \in Shaped
  PROVE  Trail(s, Put(v, p, b))
<1>1. DirsInOrder(Put(v, p, b).slot)
  BY ShapedInOrder
<1> QED
  BY <1>1, TrailPut

LEMMA TrailAttr ==
  ASSUME NEW s, NEW v \in Shaped, Trail(s, v), NEW path, NEW q, IsAt(v, path, q),
         NEW attr \in Block, SetAttr(v, path, attr).v \in Shaped
  PROVE  Trail(s, SetAttr(v, path, attr).v)
<1>1. SetAttr(v, path, attr).v = Put(v, q, attr)
  BY AttrPut
<1>2. q \in Writable /\ v \in Volumes
  BY PlacesAreWritable DEF IsAt, Live, Shaped
<1> QED
  BY <1>1, <1>2, TrailShaped

LEMMA TrailCut ==
  ASSUME NEW s, NEW f, f.v \in Volumes, f.cluster \in Cluster, Trail(s, f.v)
  PROVE  Trail(s, CutChain(f))
<1> DEFINE c == NextCluster(f.v, f.cluster)
           w == IF c # 0 THEN FreeChain(f.v, c) ELSE f.v
<1>1. CutChain(f) = MarkEnd(w, f.cluster)
  BY DEF CutChain
<1>2. w \in Volumes /\ Trail(s, w)
  <2>1. CASE c = 0
    BY <2>1
  <2>2. CASE c # 0
    <3>1. c \in Cluster
      BY <2>2 DEF NextCluster
    <3> HIDE DEF c
    <3>2. FreeChain(f.v, c) \in Volumes /\ Trail(s, FreeChain(f.v, c))
      BY <3>1, ChainFreed, TrailFreed
    <3> QED
      BY <2>2, <3>2
  <2> QED
    BY <2>1, <2>2
<1> HIDE DEF w
<1>3. Trail(s, MarkEnd(w, f.cluster))
  <2>1. End \in Entry
    BY DEF Entry
  <2> QED
    BY <1>2, <2>1, TrailFat, VolumesAreTyped DEF MarkEnd
<1> QED
  BY <1>1, <1>3

LEMMA TrailTruncated ==
  ASSUME NEW s, NEW v \in Sound, Trail(s, v), NEW path, NEW q, IsAt(v, path, q),
         ~BlockOf(v, q).isDir, NEW n \in FileSize
  PROVE  Trail(s, Truncate(v, path, n).v)
<1> DEFINE f == First(v, q)
           k == IF n = 0 THEN 0 ELSE (n - 1) \div N
           p == Follow(v, f, k, FALSE)
           w == CutChain(p)
           r == Truncate(v, path, n)
<1>1. v \in Shaped /\ v \in Volumes /\ q \in Live(v) /\ f \in Cluster
  BY SoundIsShaped, ChainOfEntry DEF IsAt
<1>2. k \in Nat
  <2>1. n \in Nat
    BY SizesAreNat
  <2>2. CASE n # 0
    <3>1. n - 1 \in Nat
      BY <2>1, <2>2
    <3> QED
      BY <2>2, <3>1, Divided
  <2> QED
    BY <2>2
<1>3. GetAttr(v, path) = [st |-> "ok", attr |-> BlockOf(v, q)]
  BY <1>1, AttrPut
<1>4. r = Resize(p, path, BlockOf(v, q), n)
  BY <1>3 DEF Truncate, First
<1>5. r.v \in Shaped
  BY TruncateIsSound, SoundIsShaped
<1> HIDE DEF k, r
<1>6. OnChain(v, q, k + 1, p) /\ Trail(s, p.v)
  BY <1>1, <1>2, FollowOnChain, TrailFollowed
<1> HIDE DEF p, f
<1>7. CASE p.st # "ok"
  <2>1. r = [st |-> p.st, v |-> p.v]
    BY <1>4, <1>7 DEF Resize
  <2> QED
    BY <1>6, <2>1 DEF r
<1>8. CASE p.st = "ok"
  <2> DEFINE u == p.v
             b == [BlockOf(v, q) EXCEPT !.size = n]
  <2>1. /\ u \in Shaped /\ u \in Volumes /\ q \in Live(u) /\ ~BlockOf(u, q).isDir /\ First(u, q) = f
        /\ SameEntries(v, u) /\ p \in Step /\ p.cluster \in Cluster
        /\ k + 1 \in 1 .. Len(Chain(u, f)) /\ p.cluster = Chain(u, f)[k + 1]
    BY <1>1, <1>2, <1>6, <1>8, OnFile DEF OnChain, Along, f
  <2>2. w \in Shaped /\ SameEntries(u, w)
    BY <1>8, <2>1, ChainCutShort
  <2>3. Trail(s, w)
    BY <1>6, <2>1, TrailCut
  <2>4. SameEntries(v, w)
    BY <2>1, <2>2, SameAgain
  <2> HIDE DEF w
  <2>5. IsAt(w, path, q)
    BY <2>4, IsAtKept
  <2>6. r = SetAttr(w, path, b)
    BY <1>4, <1>8 DEF Resize, w
  <2>7. b \in Block
    BY <1>1, LiveType, Changed
  <2> HIDE DEF b
  <2>8. Trail(s, SetAttr(w, path, b).v)
    BY <1>5, <2>2, <2>3, <2>5, <2>6, <2>7, TrailAttr
  <2> QED
    BY <2>6, <2>8 DEF r
<1> QED
  BY <1>7, <1>8

(* Data is put into a file, cluster by cluster. *)
LEMMA TrailUnits ==
  ASSUME NEW s, NEW v \in Volumes, Trail(s, v), NEW c \in Cluster, NEW from, NEW to, NEW x \in Value,
         PutUnits(v, c, from, to, x) \in Shaped
  PROVE  Trail(s, PutUnits(v, c, from, to, x))
<1> DEFINE b == UnitsIn(v, c, from, to, x)
<1>1. c \in 1 .. D + 1
  BY OpsAssumption DEF Cluster
<1>2. v.slot \in Slots /\ Unit(x) \in Block
  BY Blocks DEF Volumes, VolumeType
<1>3. b \in [0 .. N - 1 -> Block]
  BY <1>1, <1>2 DEF Slots, UnitsIn
<1>4. PutUnits(v, c, from, to, x) = Do(v, DevWrite(c, b))
  BY DEF PutUnits, UnitsIn
<1> HIDE DEF b
<1>5. DirsInOrder(Do(v, DevWrite(c, b)).slot)
  BY <1>4, ShapedInOrder
<1> QED
  BY <1>1, <1>3, <1>4, <1>5, TrailDevice

LEMMA TrailFilled ==
  ASSUME NEW s, NEW p \in Step, Trail(s, p.v), NEW from, NEW to, NEW x \in Value,
         Filled(p, from, to, x).v \in Shaped
  PROVE  Trail(s, Filled(p, from, to, x).v)
<1>1. CASE p.st # "ok"
  BY <1>1 DEF Filled
<1>2. CASE p.st = "ok"
  <2> DEFINE u == p.v
             c == p.cluster
             w == PutUnits(u, c, from, to, x)
  <2>1. /\ p \in [st : {"ok", "error"}, v : Volumes, cluster : 0 .. D]
        /\ u \in Volumes /\ c \in Cluster
    BY <1>2 DEF Step
  <2>2. Filled(p, from, to, x) = [p EXCEPT !.v = w]
    BY <1>2 DEF Filled
  <2> HIDE DEF w
  <2>3. Filled(p, from, to, x).v = w
    BY <2>1, <2>2
  <2>4. Trail(s, w)
    BY <2>1, <2>3, TrailUnits DEF w
  <2> QED
    BY <2>3, <2>4
<1> QED
  BY <1>1, <1>2

LEMMA TrailWriteNext ==
  ASSUME NEW s, NEW v \in Sound, NEW q \in Live(v), ~BlockOf(v, q).isDir, NEW k \in Nat, NEW p,
         OnChain(v, q, k, p), Trail(s, p.v), NEW to \in Int, NEW x \in Value
  PROVE  Trail(s, WriteNext(p, to, x).v)
<1> DEFINE c == NextCluster(p.v, p.cluster)
           zero == to < N
           r == Extend(p.v, p.cluster, zero)
           m == Min({N, to})
<1>1. p \in [st : {"ok", "error"}, v : Volumes, cluster : 0 .. D] /\ p \in Step
  BY DEF OnChain, Step
<1>2. WriteNext(p, to, x).v \in Shaped
  BY WriteNextOnChain, SoundIsShaped DEF OnChain
<1>3. CASE p.st # "ok"
  BY <1>3 DEF WriteNext
<1>4. CASE p.st = "ok" /\ c # 0
  <2> DEFINE n == [p EXCEPT !.cluster = c]
  <2>1. OnChain(v, q, k + 1, n)
    BY <1>4, NextOnChain
  <2>2. WriteNext(p, to, x) = Filled(n, 0, m, x)
    BY <1>4 DEF WriteNext, NextToWrite
  <2>3. n.v = p.v
    BY <1>1
  <2> HIDE DEF n, m, c
  <2>4. n \in Step
    BY <2>1 DEF OnChain
  <2> QED
    BY <1>2, <2>2, <2>3, <2>4, TrailFilled
<1>5. CASE p.st = "ok" /\ c = 0
  <2>1. WriteNext(p, to, x) = Filled(r, 0, m, x)
    BY <1>5 DEF WriteNext, NextToWrite
  <2>2. p.v \in Shaped /\ p.v \in Volumes /\ p.cluster \in Cluster
    BY <1>5, OnFile
  <2> HIDE DEF zero, m
  <2>3. r \in Step /\ Trail(s, r.v)
    BY <2>2, Extended, TrailExtended
  <2> HIDE DEF r
  <2> QED
    BY <1>2, <2>1, <2>3, TrailFilled
<1> QED
  BY <1>3, <1>4, <1>5

LEMMA TrailUnitsWritten ==
  ASSUME NEW s, NEW v \in Sound, NEW q \in Live(v), ~BlockOf(v, q).isDir, NEW k \in Nat, NEW p,
         OnChain(v, q, k, p), p.st = "ok", Trail(s, p.v),
         NEW from, NEW to \in Nat \ {0}, NEW x \in Value
  PROVE  Trail(s, WriteUnits(p.v, p.cluster, from, to, x).v)
<1> DEFINE n == (to - 1) \div N
           u == p.v
           c == p.cluster
<1>1. u \in Volumes /\ c \in Cluster /\ p \in Step
  BY OnFile DEF OnChain
<1>2. p = [st |-> "ok", v |-> u, cluster |-> c]
  BY DEF OnChain, Step
<1>3. n \in Nat
  <2>1. to - 1 \in Nat
    OBVIOUS
  <2> QED
    BY <2>1, Divided
<1>4. PICK step \in [0 .. n -> Step] : Fills(u, c, from, to, x, step)
  <2> HIDE DEF u, c
  <2> QED
    BY <1>1, WriteUnfolds
<1> DEFINE m == Min({N, to})
<1>5. /\ step[0] = Filled(p, from, m, x)
      /\ \A i \in 1 .. n : step[i] = WriteNext(step[i - 1], to - i * N, x)
      /\ WriteUnits(u, c, from, to, x) = step[n]
  BY <1>2, <1>4 DEF Fills
<1> HIDE DEF n, m, u, c
<1> DEFINE T == {i \in Nat : i <= n => OnChain(v, q, k + i, step[i]) /\ Trail(s, step[i].v)}
<1>6. 0 \in T
  <2>1. OnChain(v, q, k, step[0]) /\ k + 0 = k
    BY <1>5, FilledOnChain
  <2>2. step[0].v \in Shaped
    BY <2>1, SoundIsShaped DEF OnChain
  <2>3. Trail(s, step[0].v)
    BY <1>1, <1>5, <2>2, TrailFilled
  <2> QED
    BY <2>1, <2>3
<1>7. ASSUME NEW i \in Nat, i \in T PROVE i + 1 \in T
  <2> SUFFICES ASSUME i + 1 <= n
               PROVE  OnChain(v, q, k + (i + 1), step[i + 1]) /\ Trail(s, step[i + 1].v)
    OBVIOUS
  <2>1. /\ OnChain(v, q, k + i, step[i]) /\ k + i \in Nat /\ k + (i + 1) = (k + i) + 1
        /\ Trail(s, step[i].v)
    BY <1>3, <1>7
  <2> DEFINE left == to - (i + 1) * N
  <2>2. left \in Int
    BY OpsAssumption
  <2>3. step[i + 1] = WriteNext(step[i], left, x)
    <3>1. i + 1 \in 1 .. n /\ (i + 1) - 1 = i
      BY <1>3
    <3> QED
      BY <1>5, <3>1
  <2> HIDE DEF left
  <2>4. OnChain(v, q, (k + i) + 1, WriteNext(step[i], left, x))
    BY <2>1, <2>2, WriteNextOnChain
  <2>5. Trail(s, WriteNext(step[i], left, x).v)
    BY <2>1, <2>2, TrailWriteNext
  <2> QED
    BY <2>1, <2>3, <2>4, <2>5
<1>8. n \in T
  BY <1>3, <1>6, <1>7, CountUp
<1> QED
  BY <1>3, <1>5, <1>8 DEF n, u, c

LEMMA TrailWritten ==
  ASSUME NEW s, NEW t, t.v \in Sound, Trail(s, t.v), NEW path, NEW q,
         t.st = "ok" => IsAt(t.v, path, q) /\ ~BlockOf(t.v, q).isDir,
         t.st # "ok" => FileCalled(t.v, q, t.v) /\ Full(t.v),
         NEW y \in Writes, NEW x \in Value
  PROVE  Trail(s, Written(t, path, y[1], y[2], x).v)
<1> DEFINE v == t.v
           b == BlockOf(v, q)
           f == First(v, q)
           o == y[1]
           n == y[2]
           k == o \div N
           to == (o % N) + n
           j == (to - 1) \div N
           p == Follow(v, f, k, TRUE)
           g == WriteUnits(p.v, p.cluster, o % N, to, x)
           r == Written(t, path, o, n, x)
<1>1. CASE t.st # "ok"
  BY <1>1 DEF Written, WriteInto
<1>2. CASE t.st = "ok"
  <2>1. v \in Sound /\ v \in Shaped /\ v \in Volumes /\ q \in Live(v) /\ f \in Cluster /\ ~b.isDir
        /\ IsAt(v, path, q)
    BY <1>2, SoundIsShaped, ChainOfEntry DEF IsAt
  <2>2. o \in Nat /\ n \in Nat \ {0} /\ o + n \in FileSize
    BY VolumeAssumption DEF FileSize
  <2>3. k \in Nat /\ (o % N) \in 0 .. N - 1
    BY <2>2, Divided
  <2>4. to \in Nat \ {0} /\ to - 1 \in Nat
    BY <2>2, <2>3
  <2>5. j \in Nat
    BY <2>4, Divided
  <2>6. GetAttr(v, path) = [st |-> "ok", attr |-> b]
    BY <2>1, AttrPut
  <2>7. r = WriteAt(p, path, b, o, n, x)
    BY <1>2, <2>6 DEF Written, WriteInto, First
  <2>8. r.v \in Shaped
    BY WrittenIsSound, SoundIsShaped
  <2>9. b \in Block /\ b.kind = "live"
    BY <2>1, LiveType
  <2> HIDE DEF k, j, to, r, o, n
  <2>10. OnChain(v, q, k + 1, p) /\ Trail(s, p.v)
    BY <2>1, <2>3, FollowOnChain, TrailFollowed
  <2> HIDE DEF p
  <2>11. CASE p.st # "ok"
    <3>1. r = [st |-> "nothing_written", v |-> p.v]
      BY <2>7, <2>11 DEF WriteAt
    <3> QED
      BY <2>10, <3>1 DEF r, o, n
  <2>12. CASE p.st = "ok"
    <3>1. r = GrowSize(g, path, b, o + n)
      BY <2>7, <2>12 DEF WriteAt, to
    <3>2. k + 1 \in Nat
      BY <2>3
    <3>3. OnChain(v, q, (k + 1) + j, g)
      BY <2>1, <2>4, <2>10, <2>12, <3>2, UnitsOnChain DEF j
    <3>4. Trail(s, g.v)
      BY <2>1, <2>4, <2>10, <2>12, <3>2, TrailUnitsWritten
    <3> HIDE DEF g
    <3>5. CASE g.st # "ok" \/ ~(o + n > b.size)
      <4>1. r.v = g.v
        BY <3>1, <3>5 DEF GrowSize
      <4> QED
        BY <3>4, <4>1 DEF r, o, n
    <3>6. CASE g.st = "ok" /\ o + n > b.size
      <4> DEFINE a == [b EXCEPT !.size = o + n]
      <4>1. r = SetAttr(g.v, path, a)
        BY <3>1, <3>6 DEF GrowSize
      <4>2. g.v \in Shaped /\ SameEntries(v, g.v)
        BY <3>3, SoundIsShaped DEF OnChain, Along
      <4>3. IsAt(g.v, path, q)
        BY <2>1, <4>2, IsAtKept
      <4>4. a \in Block
        <5> DEFINE m == o + n
        <5>1. m \in FileSize
          BY <2>2
        <5> HIDE DEF m, b
        <5>2. [b EXCEPT !.size = m] \in Block
          BY <2>9, <5>1, Changed
        <5> QED
          BY <5>2 DEF m
      <4> HIDE DEF a
      <4>5. Trail(s, SetAttr(g.v, path, a).v)
        BY <2>8, <3>4, <4>1, <4>2, <4>3, <4>4, TrailAttr
      <4> QED
        BY <4>1, <4>5 DEF r, o, n
    <3> QED
      BY <3>5, <3>6
  <2> QED
    BY <2>11, <2>12
<1> QED
  BY <1>1, <1>2

LEMMA TrailWrote ==
  ASSUME NEW s, NEW v \in Sound, Trail(s, v), NEW path, NEW q, IsAt(v, path, q),
         ~BlockOf(v, q).isDir, NEW y \in Writes, NEW x \in Value
  PROVE  Trail(s, Write(v, path, y[1], y[2], x).v)
<1> DEFINE o == y[1]
           n == y[2]
           m == o + 1
           t == Truncate(v, path, m)
           u == [st |-> "ok", v |-> v]
<1>1. v \in Shaped /\ v \in Volumes
  BY SoundIsShaped
<1>2. GetAttr(v, path) = [st |-> "ok", attr |-> BlockOf(v, q)]
  BY <1>1, AttrPut
<1>3. m \in FileSize
  BY DEF FileSize
<1>4. CASE o > BlockOf(v, q).size
  <2>1. Write(v, path, o, n, x) = Written(t, path, o, n, x)
    BY <1>2, <1>4 DEF Write
  <2> HIDE DEF m
  <2>2. /\ t.v \in Sound /\ FileCalled(v, q, t.v) /\ Trail(s, t.v)
        /\ t.st # "ok" => Full(t.v)
    BY <1>3, TruncateIsSound, TrailTruncated
  <2> HIDE DEF t
  <2>3. ASSUME t.st = "ok" PROVE IsAt(t.v, path, q) /\ ~BlockOf(t.v, q).isDir
    <3>1. SameNames(v, t.v)
      BY <2>2 DEF FileCalled
    <3>2. IsAt(t.v, path, q)
      BY <3>1, IsAtKept
    <3>3. q \in Live(v)
      BY DEF IsAt
    <3> QED
      BY <3>1, <3>2, <3>3 DEF SameNames
  <2>4. FileCalled(t.v, q, t.v)
    BY DEF FileCalled, SameNames
  <2>5. Trail(s, Written(t, path, y[1], y[2], x).v)
    BY <2>2, <2>3, <2>4, TrailWritten
  <2> QED
    BY <2>1, <2>5
<1>5. CASE ~(o > BlockOf(v, q).size)
  <2>1. Write(v, path, o, n, x) = Written(u, path, o, n, x)
    BY <1>2, <1>5 DEF Write
  <2>2. u.st = "ok" /\ u.v = v
    OBVIOUS
  <2> HIDE DEF u
  <2>3. Trail(s, Written(u, path, y[1], y[2], x).v)
    BY <2>2, TrailWritten
  <2> QED
    BY <2>1, <2>3
<1> QED
  BY <1>4, <1>5

-----------------------------------------------------------------------------
(* Entries. *)

(* A directory stays in order when a live entry gives way to one of its     *)
(* name, and an end marker to an end marker.                                *)
LEMMA KeptInOrder ==
  ASSUME NEW v \in Shaped, NEW slot,
         \A c \in DirClusters(v) : \A i \in 0 .. N - 1 :
           \/ slot[c][i] = v.slot[c][i]
           \/ slot[c][i] \in {Blank, EndMark} /\ v.slot[c][i] \in {Blank, EndMark}
           \/ /\ slot[c][i].kind = "live" /\ v.slot[c][i].kind = "live"
              /\ slot[c][i].name = v.slot[c][i].name
              /\ slot[c][i].isDir => slot[c][i].first \in DirClusters(v)
  PROVE  DirsInOrder(slot)
<1>1. v \in Volumes /\ Root \in DirClusters(v)
  BY RootIsDir DEF Shaped
<1>2. Blank.kind # "live" /\ EndMark.kind # "live"
  BY DEF Blank, EndMark
<1>3. ASSUME NEW c \in DirClusters(v), NEW i \in 0 .. N - 1, slot[c][i].kind = "live"
      PROVE  /\ v.slot[c][i].kind = "live" /\ slot[c][i].name = v.slot[c][i].name
             /\ Place(c, i) \in Live(v) /\ Place(c, i).cluster = c
             /\ BlockOf(v, Place(c, i)) = v.slot[c][i]
             /\ slot[c][i].isDir => slot[c][i].first \in DirClusters(v)
  <2>1. v.slot[c][i].kind = "live" /\ slot[c][i].name = v.slot[c][i].name
    BY <1>2, <1>3
  <2>2. /\ Place(c, i) \in Live(v) /\ Place(c, i).cluster = c
        /\ BlockOf(v, Place(c, i)) = v.slot[c][i]
    BY <2>1, DirCluster DEF Live, Places, Place, BlockOf
  <2>3. v.slot[c][i].isDir => v.slot[c][i].first \in DirClusters(v)
    BY <2>2 DEF DirClusters, First
  <2> QED
    BY <1>2, <1>3, <2>1, <2>2, <2>3
<1>4. ASSUME NEW c \in DirClusters(v) PROVE InOrder(slot[c])
  <2>1. PICK u \in 0 .. N - 1 : Filling(v.slot[c], u)
    BY DirCluster
  <2>2. Filling(slot[c], u)
    <3> SUFFICES ASSUME NEW i \in 0 .. N - 1
                 PROVE  IF i < u THEN slot[c][i] = DeletedMark \/ slot[c][i].kind = "live"
                        ELSE slot[c][i] \in {Blank, EndMark}
      BY DEF Filling
    <3>1. IF i < u THEN v.slot[c][i] = DeletedMark \/ v.slot[c][i].kind = "live"
          ELSE v.slot[c][i] \in {Blank, EndMark}
      BY <2>1 DEF Filling
    <3>2. DeletedMark \notin {Blank, EndMark}
      BY DEF DeletedMark, Blank, EndMark
    <3> QED
      BY <1>2, <3>1, <3>2
  <2>3. ASSUME NEW i \in 0 .. N - 1, NEW j \in 0 .. N - 1, slot[c][i].kind = "live",
               slot[c][j].kind = "live", slot[c][i].name = slot[c][j].name
        PROVE  i = j
    <3>1. Place(c, i) = Place(c, j)
      <4>1. /\ Place(c, i) \in Live(v) /\ Place(c, j) \in Live(v)
            /\ Place(c, i).cluster = Place(c, j).cluster
            /\ BlockOf(v, Place(c, i)).name = BlockOf(v, Place(c, j)).name
        BY <1>3, <2>3
      <4> QED
        BY <4>1 DEF Shaped, Dirs
    <3> QED
      BY <3>1 DEF Place
  <2> QED
    BY <2>2, <2>3 DEF InOrder
<1>5. DirClusters(v) \subseteq Cluster
  BY DirCluster
<1>6. \A e \in 0 .. N - 1 :
        slot[Root][e].kind = "live" /\ slot[Root][e].isDir => slot[Root][e].first \in DirClusters(v)
  BY <1>1, <1>3
<1>7. \A e \in 0 .. N - 1 :
        slot[Root][e].kind = "live" /\ slot[Root][e].isDir =>
          slot[Root][e].first \in Cluster /\ InOrder(slot[slot[Root][e].first])
  BY <1>4, <1>5, <1>6
<1>8. InOrder(slot[Root])
  BY <1>1, <1>4
<1> QED
  BY ONLY <1>7, <1>8 DEF DirsInOrder

LEMMA TrailKept ==
  ASSUME NEW s, NEW v \in Shaped, Trail(s, v), NEW x \in Places, NEW b \in Block,
         \/ b = EndMark /\ BlockOf(v, x) \in {Blank, EndMark}
         \/ /\ b.kind = "live" /\ BlockOf(v, x).kind = "live" /\ b.name = BlockOf(v, x).name
            /\ b.isDir => b.first \in DirClusters(v)
  PROVE  Trail(s, Put(v, x, b))
<1> DEFINE w == Put(v, x, b)
<1>1. v \in Volumes /\ x \in Writable
  BY PlacesAreWritable DEF Shaped
<1>2. \A p \in Places : BlockOf(w, p) = IF p = x THEN b ELSE BlockOf(v, p)
  <2>1. Overwritten(v, x, b, w)
    BY <1>1, EntryPut
  <2> HIDE DEF w
  <2> QED
    BY <2>1 DEF Overwritten
<1> HIDE DEF w
<1>3. ASSUME NEW c \in DirClusters(v), NEW i \in 0 .. N - 1
      PROVE  \/ w.slot[c][i] = v.slot[c][i]
             \/ w.slot[c][i] \in {Blank, EndMark} /\ v.slot[c][i] \in {Blank, EndMark}
             \/ /\ w.slot[c][i].kind = "live" /\ v.slot[c][i].kind = "live"
                /\ w.slot[c][i].name = v.slot[c][i].name
                /\ w.slot[c][i].isDir => w.slot[c][i].first \in DirClusters(v)
  <2>1. Place(c, i) \in Places
    BY DirCluster DEF Place, Places
  <2>2. BlockOf(w, Place(c, i)) = w.slot[c][i] /\ BlockOf(v, Place(c, i)) = v.slot[c][i]
    BY DEF BlockOf, Place
  <2>3. CASE Place(c, i) # x
    BY <1>2, <2>1, <2>2, <2>3
  <2>4. CASE Place(c, i) = x
    <3>1. w.slot[c][i] = b /\ v.slot[c][i] = BlockOf(v, x)
      BY <1>2, <2>1, <2>2, <2>4
    <3> QED
      BY <3>1
  <2> QED
    BY <2>3, <2>4
<1> DEFINE slot == w.slot
<1>4. \A c \in DirClusters(v) : \A i \in 0 .. N - 1 :
        \/ slot[c][i] = v.slot[c][i]
        \/ slot[c][i] \in {Blank, EndMark} /\ v.slot[c][i] \in {Blank, EndMark}
        \/ /\ slot[c][i].kind = "live" /\ v.slot[c][i].kind = "live"
           /\ slot[c][i].name = v.slot[c][i].name
           /\ slot[c][i].isDir => slot[c][i].first \in DirClusters(v)
  BY <1>3
<1> HIDE DEF slot
<1>5. DirsInOrder(slot)
  BY <1>4, KeptInOrder
<1> QED
  BY <1>1, <1>5, TrailPut DEF slot, w

LEMMA TrailUnlinked ==
  ASSUME NEW s, NEW v \in Sound, Trail(s, v), NEW path, NEW q, IsAt(v, path, q)
  PROVE  Trail(s, Unlink(v, path).v)
<1> DEFINE x == FreeChain(v, First(v, q))
           w == Put(x, q, DeletedMark)
<1>1. v \in Shaped /\ v \in Volumes
  BY SoundIsShaped
<1>2. q \in Live(v) /\ Locate(v, path).st = "ok" /\ Locate(v, path).at = q
  BY <1>1, LocatedThere DEF IsAt
<1>3. First(v, q) = At(v, q).first /\ First(v, q) \in Cluster /\ q \in Writable
  BY <1>1, <1>2, LiveType DEF First
<1>4. Unlink(v, path).v = w
  BY <1>2, <1>3 DEF Unlink
<1>5. w \in Shaped
  BY <1>2, EntryRemoved, SoundIsShaped
<1>6. x \in Volumes /\ Trail(s, x)
  BY <1>1, <1>3, ChainFreed, TrailFreed
<1>7. DeletedMark \in Block
  BY Blocks
<1> HIDE DEF x
<1>8. Trail(s, w)
  BY <1>3, <1>5, <1>6, <1>7, TrailShaped
<1> QED
  BY <1>4, <1>8

LEMMA TrailRmdired ==
  ASSUME NEW s, NEW v \in Sound, Trail(s, v), NEW path, NEW q, IsAt(v, path, q)
  PROVE  Trail(s, Rmdir(v, path).v)
<1> DEFINE d == OpenDir(v, path)
           wanted == {h \in Places : ReadDir(At(v, h)) = "ok"}
           t == Scan(v, d.at, wanted)
           m == N
<1>1. v \in Volumes /\ Trail(s, Unlink(v, path).v)
  BY SoundIsShaped, TrailUnlinked
<1>2. t.st \in {"ok", "not_found", "error"}
  <2>1. m \in {N - 1, N} /\ d.at \in [cluster : Cluster, entry : 0 .. m]
    BY <1>1, Opened DEF Writable
  <2> HIDE DEF m, d, wanted
  <2> QED
    BY <1>1, <2>1, ScanEnds DEF ScanOutcome
<1>3. Rmdir(v, path) = IF d.st # "ok" THEN [st |-> d.st, v |-> v]
                       ELSE CASE t.st = "ok" -> [st |-> "end_of_dir", v |-> v]
                              [] t.st = "error" -> [st |-> "error", v |-> v]
                              [] t.st = "not_found" -> Unlink(v, path)
  BY DEF Rmdir
<1> HIDE DEF d, t
<1> QED
  BY <1>1, <1>2, <1>3

(* A new entry, first without what is put there. *)
LEMMA TrailEntryAllocated ==
  ASSUME IsFiniteSet(Name), Cardinality(Name) < N,
         NEW s, NEW v \in Shaped, Trail(s, v), NEW k \in DirClusters(v), NEW n \in Name,
         \A q \in Live(v) : q.cluster = k => BlockOf(v, q).name # n
  PROVE  Trail(s, AllocDirEntry(v, Place(k, 0)).v)
<1> DEFINE wanted == {q \in Places : At(v, q).kind = "deleted"}
           t == Scan(v, Place(k, 0), wanted)
           e == AllocDirEntry(v, Place(k, 0))
<1>1. v \in Volumes /\ k \in Cluster
  BY DirCluster
<1>2. PICK u \in 0 .. N - 1 : Filling(v.slot[k], u)
  BY DirCluster
<1>3. ASSUME NEW i \in 0 .. N - 1
      PROVE  /\ Place(k, i) \in Places /\ Place(k, i).cluster = k /\ Place(k, i).entry = i
             /\ BlockOf(v, Place(k, i)) = v.slot[k][i] /\ At(v, Place(k, i)) = v.slot[k][i]
  <2>1. Place(k, i) \in Places /\ Place(k, i).cluster = k /\ Place(k, i).entry = i
    BY <1>1 DEF Place, Places
  <2> QED
    BY <1>1, <2>1, BlockAt, PlacesAreWritable DEF BlockOf
<1>4. Blank.kind # "deleted" /\ EndMark.kind # "deleted" /\ EndMark \in Block /\ u \in Nat
  BY Blocks DEF Blank, EndMark
<1>5. \A i \in u .. N - 1 : i \in 0 .. N - 1 /\ v.slot[k][i] \in {Blank, EndMark}
  BY <1>2 DEF Filling
<1>6. \A i \in u .. N - 1 : Place(k, i) \notin wanted
  BY <1>3, <1>4, <1>5
<1>7. \/ t.st = "ok" /\ t.at \in wanted /\ t.at.cluster = k
      \/ /\ t = [st |-> "not_found", at |-> Place(k, u)]
         /\ \A i \in 0 .. N - 1 : Place(k, i) \notin wanted
  <2> HIDE DEF wanted
  <2> QED
    BY <1>2, <1>6, DirScan
<1>8. e = TakeDirEntry(v, t)
  BY DEF AllocDirEntry, Place
<1> HIDE DEF t, e
<1>9. CASE t.st = "ok" /\ t.at \in wanted /\ t.at.cluster = k
  <2>1. e.v = v
    BY <1>8, <1>9 DEF TakeDirEntry
  <2> QED
    BY <2>1 DEF e
<1>10. CASE t = [st |-> "not_found", at |-> Place(k, u)] /\ \A i \in 0 .. N - 1 : Place(k, i) \notin wanted
  <2> DEFINE x == Place(k, u + 1)
  <2>1. \A i \in 0 .. u - 1 : v.slot[k][i].kind = "live"
    <3> SUFFICES ASSUME NEW i \in 0 .. u - 1 PROVE v.slot[k][i].kind = "live"
      OBVIOUS
    <3>1. i \in 0 .. N - 1 /\ i < u
      BY <1>4, OpsAssumption
    <3>2. v.slot[k][i].kind # "deleted"
      BY <1>3, <1>10, <3>1
    <3>3. DeletedMark.kind = "deleted"
      BY DEF DeletedMark
    <3> QED
      BY <1>2, <3>1, <3>2, <3>3 DEF Filling
  <2>2. u + 1 \in 0 .. N - 1
    <3>1. u + 1 <= Cardinality(Name)
      BY <2>1, RoomFor
    <3>2. Cardinality(Name) \in Nat
      BY FS_CardinalityType
    <3> QED
      BY <1>4, <3>1, <3>2, OpsAssumption
  <2>3. x \in Places /\ BlockOf(v, x) \in {Blank, EndMark}
    <3>1. u + 1 \in u .. N - 1
      BY <1>4, <2>2
    <3> QED
      BY <1>3, <1>5, <2>2, <3>1
  <2>4. e.v = Put(v, x, EndMark)
    <3>1. Place(k, u).cluster = k /\ Place(k, u).entry = u
      BY DEF Place
    <3> QED
      BY <1>8, <1>10, <3>1 DEF TakeDirEntry
  <2> HIDE DEF x
  <2>5. Trail(s, Put(v, x, EndMark))
    <3> DEFINE b == EndMark
    <3>1. b \in Block /\ b = EndMark
      BY <1>4
    <3> HIDE DEF b
    <3>2. Trail(s, Put(v, x, b))
      BY <2>3, <3>1, TrailKept
    <3> QED
      BY <3>1, <3>2
  <2> QED
    BY <2>4, <2>5 DEF e
<1> QED
  BY <1>7, <1>9, <1>10

LEMMA TrailCreated ==
  ASSUME IsFiniteSet(Name), Cardinality(Name) < N,
         NEW s, NEW v \in Sound, Trail(s, v), NEW path, Basename(path) \in Name, NEW isDir \in BOOLEAN,
         isDir => Dirname(path) = <<>>, CanMake(v, path)
  PROVE  Trail(s, Create(v, path, isDir).v)
<1> DEFINE d == OpenDir(v, Dirname(path))
           a == AllocCluster(v, TRUE)
           y == a.v
           c == a.cluster
           k == d.at.cluster
           n == Basename(path)
           b == Dirent(n, isDir, c, 0)
           e == AllocDirEntry(y, d.at)
           w == Put(e.v, e.at, b)
           r == Create(v, path, isDir)
<1>1. v \in Shaped /\ v \in Volumes
  BY SoundIsShaped
<1>2. GetAttr(v, path).st # "ok" /\ d.st = "ok" /\ Locate(v, path).st # "ok"
  BY <1>1, Got DEF CanMake
<1>3. Trail(s, y)
  BY <1>1, TrailAllocated
<1>4. CASE a.st # "ok"
  <2>1. r.v = v
    BY <1>2, <1>4 DEF Create, CreateDirent
  <2> QED
    BY <2>1
<1>5. CASE a.st = "ok"
  <2>1. /\ y \in Sound /\ SameEntries(v, y) /\ DirClusters(y) = DirClusters(v)
        /\ c \in Cluster \ {Root}
    BY <1>5, AllocIsSound
  <2>2. k \in DirClusters(v) /\ d.at = Place(k, 0)
    <3> DEFINE D1 == Dirname(path)
    <3> HIDE DEF D1
    <3>1. LET o == OpenDir(v, D1)
          IN  o.st = "ok" => o.at.cluster \in DirClusters(v) /\ o.at = Place(o.at.cluster, 0)
      BY <1>1, OpenedDir
    <3> QED
      BY <1>2, <3>1 DEF D1
  <2>3. \A q \in Live(v) : q.cluster = k => BlockOf(v, q).name # n
    BY <1>1, <1>2, LocatedIn
  <2>4. r = FillDirEntry(e, n, isDir, c)
    BY <1>2, <1>5 DEF Create, CreateDirent
  <2>5. r.v \in Shaped
    BY CreateIsSound, SoundIsShaped
  <2>6. n \in Name
    OBVIOUS
  <2> HIDE DEF d, y, c, k, n, r
  <2>7. y \in Shaped /\ y \in Volumes
    BY <2>1, SoundIsShaped
  <2>8. b \in Block
    <3>1. 0 \in FileSize
      BY DEF FileSize
    <3> QED
      BY <2>1, <2>6, <3>1, Blocks DEF Dirent
  <2>9. \A q \in Live(y) : q.cluster = k => BlockOf(y, q).name # n
    BY <2>1, <2>3 DEF SameEntries
  <2>10. Trail(s, e.v)
    <3>1. Trail(s, AllocDirEntry(y, Place(k, 0)).v)
      BY <1>3, <2>1, <2>2, <2>6, <2>7, <2>9, TrailEntryAllocated
    <3> QED
      BY <2>2, <3>1
  <2>11. e.v \in Volumes /\ e.at \in Writable
    <3>1. d.at.cluster \in Cluster
      BY <1>1, <2>2, DirCluster DEF Place
    <3> QED
      BY <2>7, <3>1, DirEntryAllocated
  <2> HIDE DEF e, b
  <2>12. CASE e.st = "ok"
    <3>1. r.v = w
      BY <2>4, <2>12 DEF FillDirEntry, b
    <3>2. Trail(s, w)
      BY <2>5, <2>8, <2>10, <2>11, <3>1, TrailShaped
    <3> QED
      BY <3>1, <3>2 DEF r
  <2>13. CASE e.st # "ok"
    <3>1. r.v = FreeChain(e.v, c)
      BY <2>4, <2>13 DEF FillDirEntry
    <3> QED
      BY <2>1, <2>10, <2>11, <3>1, TrailFreed DEF r
  <2> QED
    BY <2>12, <2>13
<1> QED
  BY <1>4, <1>5

LEMMA TrailDirMade ==
  ASSUME IsFiniteSet(Name), Cardinality(Name) < N,
         NEW s, NEW v \in Sound, Trail(s, v), NEW path, Basename(path) \in Name, path # <<>>,
         Dirname(path) = <<>>, Basename(path) = path[1], CanMake(v, path)
  PROVE  Trail(s, Mkdir(v, path).v)
<1> DEFINE yes == TRUE
           c == Create(v, path, yes)
           w == c.v
           d == OpenDir(w, path)
           r == Mkdir(v, path)
<1>1. yes = TRUE
  OBVIOUS
<1>2. r.v \in Shaped
  BY MkdirIsSound, SoundIsShaped
<1> HIDE DEF yes
<1>3. w \in Volumes /\ Trail(s, w)
  <2>1. yes \in BOOLEAN /\ (yes => Dirname(path) = <<>>)
    BY <1>1
  <2> QED
    BY <2>1, CreateIsSound, SoundIsShaped, TrailCreated
<1>4. r = IF c.st # "ok" THEN c ELSE MarkEmpty(w, d)
  BY <1>1 DEF Mkdir
<1>5. d.at \in Writable
  BY <1>3, Opened
<1> HIDE DEF c, r, d
<1>6. CASE c.st = "ok" /\ d.st = "ok"
  <2>1. r.v = Put(w, d.at, EndMark) /\ EndMark \in Block
    BY <1>4, <1>6, Blocks DEF MarkEmpty
  <2>2. Trail(s, Put(w, d.at, EndMark))
    BY <1>2, <1>3, <1>5, <2>1, TrailShaped
  <2> QED
    BY <2>1, <2>2 DEF r
<1>7. CASE ~(c.st = "ok" /\ d.st = "ok")
  <2>1. r.v = w
    BY <1>4, <1>7 DEF MarkEmpty
  <2> QED
    BY <1>3, <2>1 DEF r
<1> QED
  BY <1>6, <1>7

LEMMA TrailSwapped ==
  ASSUME NEW s, NEW v \in Sound, Trail(s, v),
         NEW from, NEW to, NEW p, NEW q, IsAt(v, from, p), IsAt(v, to, q),
         BlockOf(v, p).isDir \/ BlockOf(v, q).isDir => p.cluster = Root /\ q.cluster = Root
  PROVE  Trail(s, AtomicSwap(v, from, to).v)
<1> DEFINE a == [BlockOf(v, p) EXCEPT !.name = Basename(to)]
           b == [BlockOf(v, q) EXCEPT !.name = Basename(from)]
           u == Put(v, q, a)
           w == Put(u, p, b)
<1>1. v \in Shaped /\ v \in Volumes /\ p \in Live(v) /\ q \in Live(v)
      /\ BlockOf(v, p).name = Basename(from) /\ BlockOf(v, q).name = Basename(to)
  BY SoundIsShaped DEF IsAt
<1>2. /\ p \in Places /\ BlockOf(v, p) \in Block /\ BlockOf(v, p).kind = "live"
      /\ q \in Places /\ BlockOf(v, q) \in Block /\ BlockOf(v, q).kind = "live"
      /\ BlockOf(v, p).name \in Name /\ BlockOf(v, q).name \in Name
      /\ At(v, p) = BlockOf(v, p) /\ At(v, q) = BlockOf(v, q)
  BY <1>1, LiveType
<1>3. AtomicSwap(v, from, to).v = w
  <2>1. /\ Locate(v, from).st = "ok" /\ Locate(v, from).at = p
        /\ Locate(v, to).st = "ok" /\ Locate(v, to).at = q
    BY <1>1, LocatedThere
  <2>2. AtomicSwap(v, from, to).v = SwapAt(v, p, q, from, to)
    BY <2>1 DEF AtomicSwap
  <2> QED
    BY <1>2, <2>2 DEF SwapAt
<1>4. w \in Shaped
  BY <1>3, SwapIsSound, SoundIsShaped
<1>5. /\ a \in Block /\ a.kind = "live" /\ a.name = BlockOf(v, q).name
      /\ a.isDir = BlockOf(v, p).isDir /\ a.first = First(v, p)
  BY <1>1, <1>2, BlockRenamed DEF First
<1>6. b \in Block
  BY <1>1, <1>2, BlockRenamed
<1> HIDE DEF a, b
<1>7. a.isDir => a.first \in DirClusters(v)
  BY <1>1, <1>5 DEF DirClusters
<1>8. Trail(s, u)
  BY <1>1, <1>2, <1>5, <1>7, TrailKept
<1>9. u \in Volumes
  BY <1>1, <1>2, <1>5, EntryPut
<1>10. p \in Writable
  BY <1>2, OpsAssumption DEF Places, Writable
<1> HIDE DEF u
<1>11. Trail(s, w)
  BY <1>4, <1>6, <1>8, <1>9, <1>10, TrailShaped
<1> QED
  BY <1>3, <1>11

LEMMA TrailSwappedOut ==
  ASSUME NEW s, NEW v \in Sound, Trail(s, v),
         NEW from, NEW to, NEW p, NEW q, IsAt(v, from, p), IsAt(v, to, q),
         ~BlockOf(v, p).isDir, ~BlockOf(v, q).isDir
  PROVE  Trail(s, SwapAndUnlink(v, from, to).v)
<1> DEFINE t == AtomicSwap(v, from, to)
           u == t.v
<1>1. t.st = "ok" /\ u \in Sound /\ Exchanged(v, p, q, u)
  BY SwapIsSound
<1>2. SwapAndUnlink(v, from, to) = Unlink(u, from)
  BY <1>1 DEF SwapAndUnlink
<1>3. Trail(s, u)
  BY TrailSwapped
<1> HIDE DEF t, u
<1>4. p \in Live(v) /\ q \in Live(v) /\ BlockOf(v, p) \in Block /\ BlockOf(v, q) \in Block
  BY SoundIsShaped, LiveType DEF IsAt
<1>5. IsAt(u, from, p)
  BY <1>1, <1>4, FilesSwapped
<1>6. Trail(s, Unlink(u, from).v)
  BY <1>1, <1>3, <1>5, TrailUnlinked
<1> QED
  BY <1>2, <1>6

LEMMA TrailNameSet ==
  ASSUME NEW s, NEW v \in Sound, Trail(s, v), NEW path, NEW q, IsAt(v, path, q), NEW n \in Name,
         \A p \in Live(v) : p.cluster = q.cluster /\ BlockOf(v, p).name = n => p = q
  PROVE  Trail(s, SetName([st |-> "ok", v |-> v], path, BlockOf(v, q), n).v)
<1> DEFINE b == [BlockOf(v, q) EXCEPT !.name = n]
           t == SetName([st |-> "ok", v |-> v], path, BlockOf(v, q), n)
<1>1. v \in Shaped /\ q \in Live(v)
  BY SoundIsShaped DEF IsAt
<1>2. t = SetAttr(v, path, b)
  BY DEF SetName
<1>3. t.v \in Sound
  BY NameSetIsSound
<1>4. b \in Block
  BY <1>1, LiveType, BlockRenamed DEF Shaped
<1> HIDE DEF b, t
<1>5. SetAttr(v, path, b).v \in Shaped
  BY <1>2, <1>3, SoundIsShaped
<1>6. Trail(s, SetAttr(v, path, b).v)
  BY <1>1, <1>4, <1>5, TrailAttr
<1> QED
  BY <1>2, <1>6 DEF t

LEMMA TrailMoved ==
  ASSUME IsFiniteSet(Name), Cardinality(Name) < N,
         NEW s, NEW v \in Sound, Trail(s, v),
         NEW from \in Path, NEW to \in Path, DirsStay(v, from, to),
         NEW p, IsAt(v, from, p), CanMake(v, to)
  PROVE  Trail(s, Move(v, Mknod(v, to), from, to, BlockOf(v, p)).v)
<1> DEFINE m == Mknod(v, to)
           w == m.v
           n == Basename(to)
           r == Move(v, m, from, to, BlockOf(v, p))
<1>1. v \in Shaped /\ v \in Volumes /\ n \in Name /\ p \in Live(v)
  BY SoundIsShaped, PathParts DEF IsAt
<1>2. CASE Dirname(from) = Dirname(to)
  <2> DEFINE d == OpenDir(v, Dirname(to))
             t == SetName([st |-> "ok", v |-> v], from, BlockOf(v, p), n)
  <2>1. Locate(v, from).st = "ok" /\ Locate(v, from).at = p
    BY <1>1, LocatedThere
  <2>2. d.st = "ok" /\ p.cluster = d.at.cluster
    BY <1>1, <1>2, <2>1, LocatedIn
  <2>3. \A q \in Live(v) : q.cluster = d.at.cluster => BlockOf(v, q).name # n
    BY <1>1, <2>2, LocatedIn DEF CanMake
  <2>4. \A q \in Live(v) : q.cluster = p.cluster /\ BlockOf(v, q).name = n => q = p
    BY <2>2, <2>3
  <2>5. r = t
    BY <1>2 DEF Move
  <2> HIDE DEF n, d, r
  <2>6. Trail(s, t.v)
    BY <1>1, <2>4, TrailNameSet
  <2> HIDE DEF t
  <2> QED
    BY <2>5, <2>6 DEF r
<1>3. CASE Dirname(from) # Dirname(to)
  <2> DEFINE no == FALSE
             c == Create(v, to, no)
  <2>0. no = FALSE /\ m = c
    BY DEF Mknod
  <2> HIDE DEF no
  <2>1. no \in BOOLEAN /\ (no => Dirname(to) = <<>>) /\ Basename(to) \in Name
    BY <1>1, <2>0
  <2>2. /\ c.v \in Sound
        /\ c.st # "ok" => c.v = v /\ Full(v)
        /\ c.st = "ok" => \E q : Made(v, to, no, q, c.v) /\ c.v.slot[First(c.v, q)] = Cleared
    BY <2>1, CreateIsSound
  <2>3. Trail(s, c.v)
    BY <2>1, TrailCreated
  <2>4. /\ w \in Sound /\ Trail(s, w)
        /\ m.st = "ok" => \E q : Made(v, to, FALSE, q, w)
    BY <2>0, <2>2, <2>3
  <2>5. r = IF m.st # "ok" THEN m ELSE SwapAndUnlink(w, from, to)
    BY <1>3 DEF Move
  <2> HIDE DEF c, m, w, r
  <2>6. CASE m.st # "ok"
    BY <2>4, <2>5, <2>6 DEF w, r, m
  <2>7. CASE m.st = "ok"
    <3>1. PICK q : Made(v, to, FALSE, q, w)
      BY <2>4, <2>7
    <3>2. ~BlockOf(v, p).isDir
      BY <1>1, <1>3, DirAtTop DEF DirsStay
    <3>3. IsAt(w, from, p) /\ BlockOf(w, p) = BlockOf(v, p)
      BY <3>1, WithStays DEF Made
    <3>4. IsAt(w, to, q) /\ ~BlockOf(w, q).isDir
      BY <3>1 DEF Made
    <3>5. Trail(s, SwapAndUnlink(w, from, to).v)
      BY <2>4, <3>2, <3>3, <3>4, TrailSwappedOut
    <3> QED
      BY <2>5, <2>7, <3>5 DEF r, m
  <2> QED
    BY <2>6, <2>7
<1> QED
  BY <1>2, <1>3

LEMMA TrailReplaced ==
  ASSUME NEW s, NEW v \in Sound, Trail(s, v),
         NEW from \in Path, NEW to \in Path, DirsStay(v, from, to), from # to,
         NEW p, IsAt(v, from, p), NEW q, IsAt(v, to, q)
  PROVE  Trail(s, Replace(v, from, to, BlockOf(v, p)).v)
<1> DEFINE m == Unlink(v, to)
           w == m.v
           n == Basename(to)
           r == Replace(v, from, to, BlockOf(v, p))
<1>1. v \in Shaped /\ v \in Volumes /\ n \in Name /\ p \in Live(v) /\ q \in Live(v)
  BY SoundIsShaped, PathParts DEF IsAt
<1>2. CASE Dirname(from) # Dirname(to)
  <2>1. ~BlockOf(v, p).isDir /\ ~BlockOf(v, q).isDir
    BY <1>1, <1>2, DirAtTop DEF DirsStay
  <2>2. Trail(s, SwapAndUnlink(v, from, to).v)
    BY <2>1, TrailSwappedOut
  <2> QED
    BY <1>2, <2>2 DEF Replace
<1>3. CASE Dirname(from) = Dirname(to)
  <2>1. m.st = "ok" /\ w \in Sound /\ Without(v, q, w)
    BY UnlinkIsSound
  <2>2. Trail(s, w)
    BY TrailUnlinked
  <2>3. r = SetName(m, from, BlockOf(v, p), n)
    BY <1>3 DEF Replace
  <2> HIDE DEF n, m, w, r
  <2>4. BlockOf(v, q).name = n /\ p.cluster = q.cluster
    BY <1>1, <1>3, OneDirectory DEF IsAt, n
  <2>5. p # q
    BY <1>3, <2>4, PathParts DEF IsAt, n
  <2>6. IsAt(w, from, p) /\ BlockOf(w, p) = BlockOf(v, p)
    BY <1>1, <1>3, <2>1, <2>5, NeighbourStays
  <2>7. ASSUME NEW h \in Live(w), h.cluster = p.cluster, BlockOf(w, h).name = n
        PROVE  h = p
    <3>1. h \in Live(v) /\ h # q /\ BlockOf(v, h).name = n
      BY <2>1, <2>7 DEF Without
    <3> QED
      BY <1>1, <2>4, <2>7, <3>1 DEF Shaped, Dirs
  <2> DEFINE t == SetName([st |-> "ok", v |-> w], from, BlockOf(w, p), n)
  <2>8. Trail(s, t.v)
    BY <1>1, <2>1, <2>2, <2>6, <2>7, TrailNameSet
  <2>9. r = t
    BY <2>1, <2>3, <2>6 DEF SetName, w
  <2> HIDE DEF t
  <2> QED
    BY <2>8, <2>9 DEF r
<1> QED
  BY <1>2, <1>3

LEMMA TrailRenamed ==
  ASSUME IsFiniteSet(Name), Cardinality(Name) < N,
         NEW s, NEW v \in Sound, Trail(s, v),
         NEW from \in Path, NEW to \in Path, DirsStay(v, from, to), from # to,
         NEW p, IsAt(v, from, p), NEW mode \in Modes,
         mode = "exchange" => Locate(v, to).st = "ok",
         mode = "no_replace" => Locate(v, to).st # "ok",
         OpenDir(v, Dirname(to)).st = "ok"
  PROVE  Trail(s, Rename(v, from, to, mode).v)
<1> DEFINE a == GetAttr(v, from)
           b == GetAttr(v, to)
           r == Rename(v, from, to, mode)
<1>1. v \in Shaped /\ v \in Volumes
  BY SoundIsShaped
<1>2. /\ b.st = Locate(v, to).st
      /\ b.st \in {"ok", "not_found"}
  BY <1>1, Got, LocatedIn
<1>3. a.st = "ok" /\ a.attr = BlockOf(v, p)
  BY <1>1, AttrPut
<1>4. CASE b.st = "not_found"
  <2> DEFINE t == Move(v, Mknod(v, to), from, to, BlockOf(v, p))
  <2>1. CanMake(v, to)
    BY <1>2, <1>4 DEF CanMake
  <2>2. Trail(s, t.v)
    BY <2>1, TrailMoved
  <2> HIDE DEF t
  <2>3. r = t
    BY <1>2, <1>3, <1>4 DEF Rename, t
  <2> HIDE DEF r
  <2> QED
    BY <2>2, <2>3 DEF r
<1>5. CASE b.st = "ok"
  <2> DEFINE q == Locate(v, to).at
             t == Replace(v, from, to, BlockOf(v, p))
             x == AtomicSwap(v, from, to)
  <2>1. IsAt(v, to, q)
    BY <1>1, <1>2, <1>5, LocatedThere
  <2>2. r = IF mode = "exchange" THEN x ELSE t
    BY <1>2, <1>3, <1>5 DEF Rename, Modes
  <2> HIDE DEF q, r
  <2>3. Trail(s, t.v)
    BY <2>1, TrailReplaced
  <2>4. Trail(s, x.v)
    <3>1. BlockOf(v, p).isDir \/ BlockOf(v, q).isDir => p.cluster = Root /\ q.cluster = Root
      BY <1>1, <2>1, DirsInRoot
    <3> QED
      BY <2>1, <3>1, TrailSwapped
  <2> HIDE DEF t, x
  <2> QED
    BY <2>2, <2>3, <2>4 DEF r
<1> QED
  BY <1>2, <1>4, <1>5

-----------------------------------------------------------------------------
(* The calls of VolumeCrash. *)

LEMMA CallForms ==
  ASSUME NEW c \in Calls
  PROVE  /\ c.path \in Path
         /\ \/ c.op \in {"mknod", "mkdir", "unlink", "rmdir"}
            \/ c.op = "truncate" /\ c.arg[1] \in Sizes
            \/ c.op = "write" /\ \E y \in Writes, x \in Value : c.arg = <<y[1], y[2], x>>
            \/ c.op = "rename" /\ c.arg[1] \in Path /\ c.arg[2] \in Modes
BY DEF Calls, Asking

(* What a call comes to: a sound volume, by writes that keep order. *)
WellLed(s, v) == v \in Sound /\ Trail(s, v)

LEMMA RenameLeads ==
  ASSUME Careful, vol \in Sound, NEW s, Trail(s, vol),
         NEW from \in Path, NEW to \in Path, NEW mode \in Modes, MayRename(from, to, mode)
  PROVE  WellLed(s, Rename(vol, from, to, mode).v)
<1>1. vol \in Shaped /\ Kernel /\ IsFiniteSet(Name) /\ Cardinality(Name) < N
  BY SoundIsShaped DEF Careful
<1>2. /\ DirsStay(vol, from, to) /\ from # to /\ ~Nested(from, to) /\ ParentIsDir(to)
  BY <1>1, DirsMayMove DEF MayRename, Nested
<1>3. OpenDir(vol, Dirname(to)).st = "ok" /\ GetAttr(vol, from).st = "ok"
  BY <1>1, <1>2, ParentOpens DEF MayRename, Exists
<1>4. PICK p : IsAt(vol, from, p)
  BY <1>1, <1>3, NodeThere
<1>5. GetAttr(vol, to).st = Locate(vol, to).st
  BY <1>1, Got DEF Shaped
<1>6. mode = "exchange" => Locate(vol, to).st = "ok"
  BY <1>1, <1>5 DEF MayRename, Exists
<1>7. mode = "no_replace" => Locate(vol, to).st # "ok"
  BY <1>1, <1>5 DEF MayRename, Missing
<1> DEFINE r == Rename(vol, from, to, mode)
<1>8. r.v \in Sound
  BY <1>1, <1>2, <1>3, <1>4, <1>6, <1>7, RenameIsSound
<1>9. Trail(s, r.v)
  BY <1>1, <1>2, <1>3, <1>4, <1>6, <1>7, TrailRenamed
<1> QED
  BY <1>8, <1>9 DEF WellLed

LEMMA OutcomeLeads ==
  ASSUME Careful, vol \in Sound, NEW s, Trail(s, vol), NEW c \in Calls, May(c)
  PROVE  WellLed(s, Outcome(c).v)
<1> DEFINE path == c.path
<1>1. vol \in Shaped /\ Kernel /\ IsFiniteSet(Name) /\ Cardinality(Name) < N /\ path \in Path
  BY SoundIsShaped, CallForms DEF Careful
<1> HIDE DEF path
<1>2. CASE c.op = "mknod"
  <2> DEFINE no == FALSE
             r == Create(vol, path, no)
  <2>1. no = FALSE /\ Outcome(c) = r
    BY <1>2 DEF Mknod, Outcome, path
  <2> HIDE DEF no
  <2>2. no \in BOOLEAN /\ (no => Dirname(path) = <<>>) /\ Basename(path) \in Name /\ CanMake(vol, path)
    BY <1>1, <1>2, <2>1, PathParts, MayBeMade DEF May, MayCreate, path
  <2>3. r.v \in Sound /\ Trail(s, r.v)
    BY <1>1, <2>2, CreateIsSound, TrailCreated
  <2> HIDE DEF r
  <2> QED
    BY <2>1, <2>3 DEF WellLed
<1>3. CASE c.op = "mkdir"
  <2>1. MayMakeDir(path)
    BY <1>3 DEF May, path
  <2>2. Basename(path) \in Name /\ path # <<>> /\ Dirname(path) = <<>> /\ Basename(path) = path[1]
    BY <1>1, <2>1, PathParts DEF MayMakeDir
  <2>3. CanMake(vol, path)
    BY <1>1, <2>1, MayBeMade DEF MayMakeDir, ParentIsDir
  <2> DEFINE r == Mkdir(vol, path)
  <2>4. r.v \in Sound /\ Trail(s, r.v)
    BY <1>1, <2>2, <2>3, MkdirIsSound, TrailDirMade
  <2> HIDE DEF r
  <2>5. Outcome(c) = r
    BY <1>3 DEF Outcome, path, r
  <2> QED
    BY <2>4, <2>5 DEF WellLed
<1>4. ASSUME c.op \in {"unlink", "truncate", "write"}
      PROVE  \E q : IsAt(vol, path, q) /\ ~BlockOf(vol, q).isDir
  <2>1. IsFile(path)
    BY <1>1, <1>4 DEF May, MayChange, path
  <2> QED
    BY <1>1, <2>1, FileThere
<1>5. CASE c.op = "unlink"
  <2>1. PICK q : IsAt(vol, path, q) /\ ~BlockOf(vol, q).isDir
    BY <1>4, <1>5
  <2> DEFINE r == Unlink(vol, path)
  <2>2. r.v \in Sound /\ Trail(s, r.v)
    BY <1>1, <2>1, UnlinkIsSound, TrailUnlinked
  <2> HIDE DEF r
  <2>3. Outcome(c) = r
    BY <1>5 DEF Outcome, path, r
  <2> QED
    BY <2>2, <2>3 DEF WellLed
<1>6. CASE c.op = "rmdir"
  <2>1. MayRemoveDir(path)
    BY <1>6 DEF May, path
  <2>2. PICK q : IsAt(vol, path, q) /\ BlockOf(vol, q).isDir
    BY <1>1, <2>1, DirThere DEF MayRemoveDir
  <2>3. path # <<>> /\ Dirname(path) = <<>> /\ Basename(path) = path[1]
    BY <1>1, <2>1, PathParts DEF MayRemoveDir
  <2> DEFINE r == Rmdir(vol, path)
  <2>4. r.v \in Sound /\ Trail(s, r.v)
    BY <1>1, <2>2, <2>3, RmdirIsSound, TrailRmdired
  <2> HIDE DEF r
  <2>5. Outcome(c) = r
    BY <1>6 DEF Outcome, path, r
  <2> QED
    BY <2>4, <2>5 DEF WellLed
<1>7. CASE c.op = "truncate"
  <2> DEFINE n == c.arg[1]
  <2>1. n \in Sizes
    BY <1>7, CallForms
  <2> HIDE DEF n
  <2>2. n \in FileSize
    BY <2>1 DEF FileSize
  <2>3. PICK q : IsAt(vol, path, q) /\ ~BlockOf(vol, q).isDir
    BY <1>4, <1>7
  <2> DEFINE r == Truncate(vol, path, n)
  <2>4. r.v \in Sound /\ Trail(s, r.v)
    BY <1>1, <2>2, <2>3, TruncateIsSound, TrailTruncated
  <2> HIDE DEF r
  <2>5. Outcome(c) = r
    BY <1>7 DEF Outcome, path, r, n
  <2> QED
    BY <2>4, <2>5 DEF WellLed
<1>8. CASE c.op = "write"
  <2>1. PICK y \in Writes, x \in Value : c.arg = <<y[1], y[2], x>>
    BY <1>8, CallForms
  <2>2. PICK q : IsAt(vol, path, q) /\ ~BlockOf(vol, q).isDir
    BY <1>4, <1>8
  <2> DEFINE r == Write(vol, path, y[1], y[2], x)
  <2>3. r.v \in Sound /\ Trail(s, r.v)
    BY <1>1, <2>2, WriteIsSound, TrailWrote
  <2> HIDE DEF r
  <2>4. Outcome(c) = r
    BY <1>8, <2>1 DEF Outcome, path, r
  <2> QED
    BY <2>3, <2>4 DEF WellLed
<1>9. CASE c.op = "rename"
  <2> DEFINE to == c.arg[1]
             mode == c.arg[2]
             r == Rename(vol, path, to, mode)
  <2>1. to \in Path /\ mode \in Modes
    BY <1>9, CallForms
  <2>2. MayRename(path, to, mode)
    BY <1>9 DEF May, path
  <2>3. Outcome(c) = r
    BY <1>9 DEF Outcome, path
  <2> HIDE DEF to, mode
  <2>4. WellLed(s, r.v)
    BY <1>1, <2>1, <2>2, RenameLeads
  <2> QED
    BY <2>3, <2>4
<1> QED
  BY <1>2, <1>3, <1>5, <1>6, <1>7, <1>8, <1>9, CallForms

-----------------------------------------------------------------------------
(* What a process finds after a crash, whatever the FAT it finds. *)

LEMMA ChainBegins ==
  ASSUME NEW v, NEW c \in Cluster
  PROVE  /\ Chain(v, c) \in Seq(Cluster) /\ Len(Chain(v, c)) \in Nat \ {0} /\ Chain(v, c)[1] = c
         /\ c \in ChainSet(v, c)
<1> DEFINE chain == Chain(v, c)
<1>1. PICK from \in [1 .. D -> [Cluster -> Seq(Cluster)]] :
        /\ \A n \in 1 .. D : \A d \in Cluster :
             from[n][d] = <<d>> \o (IF NextCluster(v, d) # 0 /\ n > 1
                                    THEN from[n - 1][NextCluster(v, d)] ELSE <<>>)
        /\ \A d \in Cluster : Chain(v, d) = from[D][d]
  BY ChainUnfolds
<1> DEFINE rest == IF NextCluster(v, c) # 0 /\ D > 1 THEN from[D - 1][NextCluster(v, c)] ELSE <<>>
<1>2. D \in 1 .. D /\ (D > 1 => D - 1 \in 1 .. D)
  BY OpsAssumption
<1>3. chain = <<c>> \o rest
  BY <1>1, <1>2
<1>4. rest \in Seq(Cluster)
  <2>1. NextCluster(v, c) # 0 => NextCluster(v, c) \in Cluster
    BY NextWithin
  <2>2. NextCluster(v, c) # 0 /\ D > 1 => from[D - 1][NextCluster(v, c)] \in Seq(Cluster)
    BY <1>2, <2>1
  <2>3. <<>> \in Seq(Cluster)
    OBVIOUS
  <2> QED
    BY <2>2, <2>3
<1> HIDE DEF rest
<1>5. chain \in Seq(Cluster) /\ Len(chain) = Len(rest) + 1 /\ chain[1] = c
  BY <1>3, <1>4, InFront
<1>6. Len(chain) \in Nat \ {0} /\ 1 \in DOMAIN chain
  BY <1>4, <1>5
<1> HIDE DEF chain
<1>7. c \in Range(chain)
  BY <1>5, <1>6 DEF Range
<1> QED
  BY <1>5, <1>6, <1>7 DEF ChainSet, chain

LEMMA ListedInOrder ==
  ASSUME NEW v, NEW c \in Cluster, InOrder(v.slot[c])
  PROVE  /\ HasEnd(v, c)
         /\ \A p \in Listing(v, c) : \E i \in 0 .. N - 1 :
              p = Place(c, i) /\ At(v, p) = v.slot[c][i] /\ v.slot[c][i].kind = "live"
<1> DEFINE chain == Chain(v, c)
           spots == 0 .. N * Len(chain) - 1
           ends == {j \in spots : ReadDir(At(v, Spot(chain, j))) = "end_of_dir"}
           last == IF ends = {} THEN N * Len(chain) ELSE Min(ends)
<1>1. PICK u \in 0 .. N - 1 : Filling(v.slot[c], u)
  BY DEF InOrder
<1>2. c \in ChainSet(v, c) /\ Len(chain) \in Nat \ {0} /\ chain[1] = c
  BY ChainBegins
<1>3. Listing(v, c) = {Spot(chain, j) : j \in {k \in spots : k < last /\ At(v, Spot(chain, k)).kind = "live"}}
  BY DEF Listing
<1> HIDE DEF chain
<1>4. N \in Nat \ {0} /\ N * Len(chain) \in Nat /\ N <= N * Len(chain)
  <2> DEFINE n == Len(chain)
  <2>1. n \in Nat \ {0} /\ N \in Nat \ {0}
    BY <1>2, OpsAssumption
  <2> HIDE DEF n
  <2>2. N * n \in Nat /\ N * 1 <= N * n
    BY <2>1
  <2> QED
    BY <2>1, <2>2 DEF n
<1> DEFINE m == N * Len(chain)
<1>5. spots = 0 .. m - 1 /\ m \in Nat /\ N <= m
  BY <1>4
<1> HIDE DEF m, spots
<1>6. ASSUME NEW j \in 0 .. N - 1
      PROVE  /\ j \in spots /\ At(v, Place(c, j)) = v.slot[c][j]
             /\ Spot(chain, j) = Place(c, j) /\ At(v, Spot(chain, j)) = v.slot[c][j]
  <2>1. j \in spots /\ j \in 0 .. N /\ j < N
    BY <1>4, <1>5
  <2>2. j \div N = 0 /\ j % N = j
    BY <2>1, EntryInCluster
  <2>3. Spot(chain, j) = Place(c, j)
    BY <1>2, <2>2 DEF Spot
  <2>4. Place(c, j).cluster = c /\ Place(c, j).entry = j /\ c + 0 = c
    BY DEF Place, Cluster
  <2>5. At(v, Place(c, j)) = v.slot[c][j]
    BY <2>2, <2>4 DEF At
  <2> QED
    BY <2>1, <2>3, <2>5
<1>7. v.slot[c][u] \in {Blank, EndMark} /\ ReadDir(v.slot[c][u]) = "end_of_dir"
  <2>1. ~(u < u)
    OBVIOUS
  <2> QED
    BY <1>1, <2>1, Statuses DEF Filling
<1>8. HasEnd(v, c)
  BY <1>2, <1>6, <1>7 DEF HasEnd
<1>9. u \in ends
  BY <1>6, <1>7
<1>10. \A j \in ends : j \in Int /\ u <= j
  <2> SUFFICES ASSUME NEW j \in ends PROVE j \in Int /\ u <= j
    OBVIOUS
  <2>1. j \in Int /\ 0 <= j
    BY <1>5
  <2>2. ASSUME j < u PROVE FALSE
    <3>1. j \in 0 .. N - 1
      BY <1>4, <2>1, <2>2
    <3>2. ReadDir(v.slot[c][j]) = "end_of_dir"
      BY <1>6, <3>1
    <3> QED
      BY <1>1, <2>2, <3>1, <3>2, Statuses DEF Filling
  <2> QED
    BY <2>1, <2>2
<1> DEFINE P(x) == x \in ends /\ \A y \in ends : x <= y
<1>11. P(Min(ends))
  <2>1. P(u)
    BY <1>9, <1>10
  <2>2. \E x : P(x)
    BY <2>1
  <2> QED
    BY <2>2 DEF Min
<1>12. last \in Int /\ last <= u
  BY <1>9, <1>10, <1>11
<1> HIDE DEF ends, last
<1>13. ASSUME NEW p \in Listing(v, c)
       PROVE  \E i \in 0 .. N - 1 :
                p = Place(c, i) /\ At(v, p) = v.slot[c][i] /\ v.slot[c][i].kind = "live"
  <2>1. PICK j \in spots : p = Spot(chain, j) /\ j < last /\ At(v, Spot(chain, j)).kind = "live"
    BY <1>3
  <2>2. j \in 0 .. N - 1
    BY <1>4, <1>5, <1>12, <2>1
  <2> QED
    BY <1>6, <2>1, <2>2
<1> QED
  BY <1>8, <1>13

(* In such a volume no directory has two entries of a name, and each has an *)
(* end.                                                                     *)
DirsAreSound(v) ==
  \A c \in Directories(v) :
    /\ \A p, q \in Listing(v, c) : p # q => At(v, p).name # At(v, q).name
    /\ HasEnd(v, c)

LEMMA FoundInOrder ==
  ASSUME NEW v, DirsInOrder(v.slot)
  PROVE  DirsAreSound(v)
<1>1. Root \in Cluster /\ InOrder(v.slot[Root])
  BY OpsAssumption DEF DirsInOrder, Cluster, Root
<1>2. ASSUME NEW c \in Directories(v) PROVE c \in Cluster /\ InOrder(v.slot[c])
  <2>1. CASE c = Root
    BY <1>1, <2>1
  <2>2. CASE c # Root
    <3>1. PICK p \in Listing(v, Root) : At(v, p).isDir /\ c = At(v, p).first
      BY <2>2 DEF Directories
    <3>2. PICK i \in 0 .. N - 1 : p = Place(Root, i) /\ At(v, p) = v.slot[Root][i]
                                 /\ v.slot[Root][i].kind = "live"
      BY <1>1, <3>1, ListedInOrder
    <3> QED
      BY <3>1, <3>2 DEF DirsInOrder
  <2> QED
    BY <2>1, <2>2
<1>3. ASSUME NEW c \in Directories(v), NEW p \in Listing(v, c), NEW q \in Listing(v, c), p # q
      PROVE  At(v, p).name # At(v, q).name
  <2>1. PICK i \in 0 .. N - 1 :
          p = Place(c, i) /\ At(v, p) = v.slot[c][i] /\ v.slot[c][i].kind = "live"
    BY <1>2, ListedInOrder
  <2>2. PICK j \in 0 .. N - 1 :
          q = Place(c, j) /\ At(v, q) = v.slot[c][j] /\ v.slot[c][j].kind = "live"
    BY <1>2, ListedInOrder
  <2> QED
    BY <1>2, <1>3, <2>1, <2>2 DEF InOrder
<1>4. \A c \in Directories(v) : HasEnd(v, c)
  BY <1>2, ListedInOrder
<1> QED
  BY <1>3, <1>4 DEF DirsAreSound

LEMMA SlotsFollow ==
  ASSUME NEW log, Len(log) \in Nat, NEW f, Replayed(vol.slot, log, f), NEW k \in 0 .. Len(log)
  PROVE  SlotsAfter(log, k) = f[k]
<1> DEFINE G(i, slot) == IF log[i].to = "fat" THEN slot
                         ELSE [slot EXCEPT ![log[i].cluster] = log[i].blocks]
           after == CHOOSE a : a = [i \in 0 .. k |-> IF i = 0 THEN vol.slot ELSE G(i, a[i - 1])]
           h == [i \in 0 .. k |-> f[i]]
<1>1. f[0] = vol.slot
  BY DEF Replayed
<1>2. ASSUME NEW i \in 1 .. k PROVE f[i] = G(i, f[i - 1])
  <2>1. i \in 1 .. Len(log)
    OBVIOUS
  <2> QED
    BY <2>1, Zenon DEF Replayed
<1>3. SlotsAfter(log, k) = after[k]
  BY Zenon DEF SlotsAfter
<1> HIDE DEF G
<1>4. h = [i \in 0 .. k |-> IF i = 0 THEN vol.slot ELSE G(i, h[i - 1])]
  <2> SUFFICES ASSUME NEW i \in 0 .. k
               PROVE  f[i] = IF i = 0 THEN vol.slot ELSE G(i, h[i - 1])
    BY Zenon
  <2>1. CASE i = 0
    BY <1>1, <2>1
  <2>2. CASE i # 0
    <3>1. i \in 1 .. k /\ i - 1 \in 0 .. k
      BY <2>2
    <3>2. h[i - 1] = f[i - 1]
      BY <3>1
    <3>3. f[i] = G(i, f[i - 1])
      BY <1>2, <3>1
    <3> QED
      BY <2>2, <3>2, <3>3
  <2> QED
    BY <2>1, <2>2
<1> HIDE DEF h
<1>5. after = [i \in 0 .. k |-> IF i = 0 THEN vol.slot ELSE G(i, after[i - 1])]
  BY <1>4, Zenon
<1> HIDE DEF after
<1>6. ASSUME NEW i \in 0 .. k
      PROVE  after[i] = IF i = 0 THEN vol.slot ELSE G(i, after[i - 1])
  BY <1>5, Zenon
<1> DEFINE T == {n \in Nat : n <= k => after[n] = f[n]}
<1>7. 0 \in T
  <2>1. 0 \in 0 .. k
    OBVIOUS
  <2> QED
    BY <1>1, <1>6, <2>1
<1>8. ASSUME NEW n \in Nat, n \in T PROVE n + 1 \in T
  <2> SUFFICES ASSUME n + 1 <= k PROVE after[n + 1] = f[n + 1]
    OBVIOUS
  <2> DEFINE i == n + 1
  <2>1. i \in 0 .. k /\ i \in 1 .. k /\ i # 0 /\ i - 1 = n /\ n <= k
    OBVIOUS
  <2>2. after[n] = f[n]
    BY <1>8, <2>1
  <2> HIDE DEF T, i
  <2>3. after[i] = G(i, after[n])
    BY <1>6, <2>1
  <2>4. f[i] = G(i, f[n])
    BY <1>2, <2>1
  <2> QED
    BY <2>2, <2>3, <2>4 DEF i
<1>9. Nat \subseteq T
  <2> HIDE DEF T
  <2> QED
    BY <1>7, <1>8, CountUp
<1>10. after[k] = f[k]
  BY <1>9
<1> QED
  BY <1>3, <1>10

(* The device after any of the writes of a call. *)
LEMMA WrittenInOrder ==
  ASSUME NEW v \in Sound, Trail(vol.slot, v), NEW k \in DOMAIN v.log
  PROVE  DirsInOrder(SlotsAfter(v.log, k))
<1> DEFINE log == v.log
<1>1. log \in Seq(LogWrite)
  BY SoundIsShaped, VolumesAreTyped DEF VolumeType
<1>2. Len(log) \in Nat /\ k \in 0 .. Len(log)
  BY <1>1
<1>3. PICK f : Replayed(vol.slot, log, f) /\ \A i \in 0 .. Len(log) : DirsInOrder(f[i])
  BY DEF Trail
<1> HIDE DEF log
<1>4. SlotsAfter(log, k) = f[k]
  BY <1>2, <1>3, SlotsFollow
<1> QED
  BY <1>2, <1>3, <1>4 DEF log

(* A sound volume stays one when its log is cleared and its cursor reset. *)
LEMMA SoundAgain ==
  ASSUME NEW v \in Sound, NEW w \in Volumes, w.fat = v.fat, w.slot = v.slot
  PROVE  w \in Sound
<1>1. v \in Shaped /\ v \in Volumes /\ SizesFit(v) /\ Links(v.fat) /\ Heads(v) /\ Data(v)
  BY SoundIsShaped DEF Shaped, Sound
<1>2. \A c \in DirClusters(v) : w.slot[c] = v.slot[c] /\ w.fat[c] = v.fat[c]
  OBVIOUS
<1>3. \A c \in Cluster \ DirClusters(v) :
        w.fat[c] # Available => w.slot[c] \in [0 .. N - 1 -> DataBlock]
  BY <1>1 DEF Data
<1>4. \A q \in Live(v) : w.fat[First(v, q)] # Available /\ \A c \in Cluster : w.fat[c] # First(v, q)
  BY <1>1 DEF Heads
<1>5. w \in Shaped /\ SameEntries(v, w)
  BY <1>1, <1>2, <1>3, <1>4, FilesChanged
<1>6. ASSUME NEW q \in Live(v) PROVE Chain(w, First(v, q)) = Chain(v, First(v, q))
  <2>1. First(v, q) \in Cluster
    BY <1>1, LiveType
  <2> QED
    BY <1>1, <2>1, ChainsStay
<1>7. SizesFit(w)
  BY <1>1, <1>5, <1>6 DEF SizesFit, SameEntries, First
<1> QED
  BY <1>5, <1>7 DEF Sound

LEMMA NothingUnderWay ==
  ASSUME NEW v \in Sound
  PROVE  LET w == [v EXCEPT !.log = <<>>]
         IN  w \in Sound /\ w.log = <<>>
<1> DEFINE w == [v EXCEPT !.log = <<>>]
<1>1. v \in VolumeType /\ Ordered(v.fat)
  BY SoundIsShaped DEF Volumes
<1>2. w = [fat |-> v.fat, slot |-> v.slot, cursor |-> v.cursor, log |-> <<>>]
  BY <1>1 DEF VolumeType
<1>3. <<>> \in Seq(LogWrite)
  OBVIOUS
<1>4. w.fat = v.fat /\ w.slot = v.slot /\ w.log = <<>>
  BY <1>2
<1>5. w \in Volumes
  BY <1>1, <1>2, <1>3 DEF Volumes, VolumeType
<1> HIDE DEF w
<1>6. w \in Sound
  BY <1>4, <1>5, SoundAgain
<1> QED
  BY <1>4, <1>6 DEF w

LEMMA MountedIsSound ==
  ASSUME NEW v \in Sound
  PROVE  LET w == Mounted(v.fat, v.slot)
         IN  w \in Sound /\ w.log = <<>>
<1> DEFINE w == Mounted(v.fat, v.slot)
<1>1. v \in VolumeType /\ Ordered(v.fat)
  BY SoundIsShaped DEF Volumes
<1>2. w = [fat |-> v.fat, slot |-> v.slot, cursor |-> 2, log |-> <<>>]
  BY DEF Mounted
<1>3. <<>> \in Seq(LogWrite)
  OBVIOUS
<1>4. w.fat = v.fat /\ w.slot = v.slot /\ w.log = <<>>
  BY <1>2
<1>5. w \in Volumes
  BY <1>1, <1>2, <1>3 DEF Volumes, VolumeType
<1> HIDE DEF w
<1>6. w \in Sound
  BY <1>4, <1>5, SoundAgain
<1> QED
  BY <1>4, <1>6 DEF w

(* What is mounted at first is sound. *)
StartsSound == \A s \in Start : Mounted(s.fat, s.slot) \in Sound

(* Until the first crash the volume is sound.  After it the invariants of   *)
(* Volume are gone, and the directories are those the device held.          *)
CrashInv ==
  /\ crashes \in Nat
  /\ crashes = 0 => vol \in Sound /\ vol.log = <<>>
  /\ CrashLeavesDirectories

LEMMA RestartFinds ==
  ASSUME NEW fats, NEW slot, Restart(fats, slot), DirsInOrder(slot)
  PROVE  DirectoriesAreSound'
<1>1. PICK fat : vol' = Mounted(fat, slot)
  BY Zenon DEF Restart
<1>2. vol'.slot = slot
  BY <1>1 DEF Mounted
<1> DEFINE v == vol'
<1>3. DirsInOrder(v.slot)
  BY <1>2
<1> HIDE DEF v
<1>4. DirsAreSound(v)
  BY <1>3, FoundInOrder
<1> QED
  BY <1>4 DEF DirsAreSound, DirectoriesAreSound, v

LEMMA CrashInitially ==
  ASSUME StartsSound, CrashInit
  PROVE  CrashInv
<1>1. PICK s \in Start : vol = Mounted(s.fat, s.slot)
  BY DEF CrashInit
<1>2. vol \in Sound /\ vol.log = <<>>
  BY <1>1 DEF StartsSound, Mounted
<1>3. crashes = 0
  BY DEF CrashInit
<1> QED
  BY <1>2, <1>3 DEF CrashInv, CrashLeavesDirectories

LEMMA AttemptKeeps ==
  ASSUME Careful, CrashInv, Attempt
  PROVE  CrashInv'
<1>1. PICK c \in {x \in Calls : May(x)} : \E r \in {Outcome(c)} :
        Complete(c.op, c.path, c.arg, r) \/ CutShort(c.op, c.path, c.arg, r)
  BY Zenon DEF Attempt
<1> DEFINE r == Outcome(c)
<1>2. Complete(c.op, c.path, c.arg, r) \/ CutShort(c.op, c.path, c.arg, r)
  BY <1>1
<1>3. crashes \in Nat
  BY DEF CrashInv
<1>4. ASSUME crashes = 0 PROVE r.v \in Sound /\ Trail(vol.slot, r.v)
  <2>1. vol \in Sound /\ vol.log = <<>>
    BY <1>4 DEF CrashInv
  <2>2. Trail(vol.slot, vol)
    BY <2>1, SoundIsShaped, TrailBegins
  <2> QED
    BY <1>1, <2>1, <2>2, OutcomeLeads DEF WellLed
<1> HIDE DEF r
<1>5. CASE Complete(c.op, c.path, c.arg, r)
  <2>1. vol' = [r.v EXCEPT !.log = <<>>] /\ crashes' = crashes
    BY <1>5 DEF Complete
  <2>2. res'.op # "crash"
    <3>1. res'.op = c.op
      BY <1>5 DEF Complete
    <3>2. c.op \in {"mknod", "mkdir", "unlink", "rmdir", "truncate", "write", "rename"}
      BY <1>1, CallForms
    <3> QED
      BY <3>1, <3>2
  <2>3. crashes' = 0 => vol' \in Sound /\ vol'.log = <<>>
    BY <1>4, <2>1, NothingUnderWay
  <2> QED
    BY <1>3, <2>1, <2>2, <2>3 DEF CrashInv, CrashLeavesDirectories
<1>6. CASE CutShort(c.op, c.path, c.arg, r)
  <2>1. crashes' = crashes + 1
    BY <1>6 DEF CutShort
  <2>2. PICK k \in DOMAIN r.v.log :
          Restart(Reached(SubSeq(r.v.log, 1, k)), SlotsAfter(r.v.log, k))
    BY <1>6, Zenon DEF CutShort
  <2>3. ASSUME crashes' = 1 PROVE DirectoriesAreSound'
    <3>1. r.v \in Sound /\ Trail(vol.slot, r.v)
      BY <1>3, <1>4, <2>1, <2>3
    <3>2. DirsInOrder(SlotsAfter(r.v.log, k))
      BY <3>1, WrittenInOrder
    <3> QED
      BY <2>2, <3>2, RestartFinds
  <2> QED
    BY <1>3, <2>1, <2>3 DEF CrashInv, CrashLeavesDirectories
<1> QED
  BY <1>2, <1>5, <1>6

LEMMA CrashKeeps ==
  ASSUME CrashInv, Crash
  PROVE  CrashInv'
<1>1. crashes \in Nat /\ crashes' = crashes + 1 /\ Restart(onDisk, vol.slot)
  BY DEF CrashInv, Crash
<1>2. ASSUME crashes' = 1 PROVE DirectoriesAreSound'
  <2>1. vol \in Sound
    BY <1>1, <1>2 DEF CrashInv
  <2>2. DirsInOrder(vol.slot)
    BY <2>1, SoundIsShaped, ShapedInOrder
  <2> QED
    BY <1>1, <2>2, RestartFinds
<1> QED
  BY <1>1, <1>2 DEF CrashInv, CrashLeavesDirectories

LEMMA RemountKeeps ==
  ASSUME CrashInv, Remount
  PROVE  CrashInv'
<1>1. vol' = Mounted(vol.fat, vol.slot) /\ crashes' = crashes /\ res'.op = "mount"
  BY DEF Remount
<1>2. crashes \in Nat /\ (crashes = 0 => vol \in Sound)
  BY DEF CrashInv
<1>3. crashes' = 0 => vol' \in Sound /\ vol'.log = <<>>
  BY <1>1, <1>2, MountedIsSound
<1> QED
  BY <1>1, <1>2, <1>3 DEF CrashInv, CrashLeavesDirectories

(* A sound volume whose process dies, between two calls or between any two  *)
(* writes of one, and with any part of the FAT cache, is found with its     *)
(* directories sound: no two entries of one name in any, and an end in      *)
(* each.  The call is one of fatxfs's, on names that fit a directory.       *)
THEOREM DirectoriesOutliveCrashes ==
  ASSUME Careful, StartsSound
  PROVE  CrashSpec => []CrashLeavesDirectories
<1>1. CrashInit => CrashInv
  BY CrashInitially
<1>2. CrashInv /\ [CrashNext]_crashVars => CrashInv'
  <2>1. ASSUME CrashInv, CrashNext PROVE CrashInv'
    BY <2>1, AttemptKeeps, CrashKeeps, RemountKeeps DEF CrashNext
  <2>2. ASSUME CrashInv, UNCHANGED crashVars PROVE CrashInv'
    <3> DEFINE v == vol
               w == vol'
    <3>1. w = v /\ res' = res /\ crashes' = crashes
      BY <2>2 DEF crashVars
    <3>2. DirectoriesAreSound <=> DirsAreSound(v)
      BY Zenon DEF DirectoriesAreSound, DirsAreSound
    <3>3. DirectoriesAreSound' <=> DirsAreSound(w)
      BY Zenon DEF DirectoriesAreSound, DirsAreSound
    <3>4. vol = v /\ vol' = w
      OBVIOUS
    <3> HIDE DEF v, w
    <3> QED
      BY <2>2, <3>1, <3>2, <3>3, <3>4 DEF CrashInv, CrashLeavesDirectories
  <2> QED
    BY <2>1, <2>2
<1>3. CrashInv => CrashLeavesDirectories
  BY DEF CrashInv
<1> QED
  BY <1>1, <1>2, <1>3, PTL DEF CrashSpec
=============================================================================
