---------------------------- MODULE VolumeProofs ----------------------------
(***************************************************************************)
(* A mounted volume, for every number of clusters, every size of them, and *)
(* every sequence of calls: its types, and that no chain is a cycle.  Then, *)
(* for callers that look before they call and names that fit a directory's *)
(* cluster, what makes a volume sound, which every call leaves it.         *)
(***************************************************************************)
EXTENDS Volume, FiniteSetTheorems, SequenceTheorems, WellFoundedInduction, TLAPS

-----------------------------------------------------------------------------
(* Induction, by the least number that is not in a set.                    *)

LEMMA LeastNatural ==
  ASSUME NEW T \in SUBSET Nat, T # {}
  PROVE  \E n \in T : \A m \in T : n <= m
<1>1. PICK n \in T : \A m \in T : ~ (<<m, n>> \in OpToRel(<, Nat))
  BY NatLessThanWellFounded, WFMin
<1>2. \A m \in Nat, p \in Nat : <<m, p>> \in OpToRel(<, Nat) <=> m < p
  BY DEF OpToRel
<1>3. \A m \in T : ~ (m < n)
  BY <1>1, <1>2, Zenon
<1> QED
  BY <1>3

(* A set that has 0, and with each number the next, has them all.          *)
LEMMA CountUp ==
  ASSUME NEW T, 0 \in T, \A n \in Nat : n \in T => n + 1 \in T
  PROVE  Nat \subseteq T
<1> SUFFICES ASSUME Nat \ T # {} PROVE FALSE
  OBVIOUS
<1>1. PICK n \in Nat \ T : \A m \in Nat \ T : n <= m
  BY LeastNatural
<1>2. n - 1 \in Nat /\ n - 1 \in T
  BY <1>1
<1> QED
  BY <1>1, <1>2

(* A function that is defined from 0 up, each value from the one before.   *)
LEMMA Recursion ==
  ASSUME NEW S, NEW a \in S, NEW k \in Nat, NEW F \in [1 .. k -> [S -> S]]
  PROVE  \E f \in [0 .. k -> S] : f[0] = a /\ \A n \in 1 .. k : f[n] = F[n][f[n - 1]]
<1> DEFINE T == {m \in Nat : m <= k => \E f \in [0 .. m -> S] :
                              f[0] = a /\ \A n \in 1 .. m : f[n] = F[n][f[n - 1]]}
<1>1. 0 \in T
  <2>1. [n \in 0 .. 0 |-> a] \in [0 .. 0 -> S] /\ [n \in 0 .. 0 |-> a][0] = a
    OBVIOUS
  <2>2. \A n \in 1 .. 0 : FALSE
    OBVIOUS
  <2>3. \E f \in [0 .. 0 -> S] : f[0] = a /\ \A n \in 1 .. 0 : f[n] = F[n][f[n - 1]]
    BY <2>1, <2>2
  <2> QED
    BY <2>3
<1>2. ASSUME NEW m \in Nat, m \in T PROVE m + 1 \in T
  <2> SUFFICES ASSUME m + 1 <= k
               PROVE  \E f \in [0 .. m + 1 -> S] :
                        f[0] = a /\ \A n \in 1 .. m + 1 : f[n] = F[n][f[n - 1]]
    OBVIOUS
  <2>1. PICK f \in [0 .. m -> S] : f[0] = a /\ \A n \in 1 .. m : f[n] = F[n][f[n - 1]]
    BY <1>2
  <2> DEFINE g == [n \in 0 .. m + 1 |-> IF n = m + 1 THEN F[m + 1][f[m]] ELSE f[n]]
  <2>2. g \in [0 .. m + 1 -> S]
    BY <2>1
  <2>3. g[0] = a /\ \A n \in 1 .. m + 1 : g[n] = F[n][g[n - 1]]
    BY <2>1
  <2> QED
    BY <2>2, <2>3
<1>3. k \in T
  BY <1>1, <1>2, CountUp
<1> QED
  BY <1>3

-----------------------------------------------------------------------------
(* Volumes, as they are between two writes of a call. *)

Slots == [1 .. D + 1 -> [0 .. N - 1 -> Block]]

LogWrite ==
  [to : {"fat"}, cluster : Cluster, entry : Entry]
    \cup [to : {"device"}, cluster : 1 .. D + 1, blocks : [0 .. N - 1 -> Block]]

(* No chain is a cycle: clusters can be put in an order in which each comes *)
(* after those its chain goes on to.                                        *)
Ordered(fat) ==
  \E rank \in [Cluster -> 0 .. D - 1] :
    /\ \A c, d \in Cluster : rank[c] = rank[d] => c = d
    /\ \A c \in Cluster : fat[c] \in Cluster => rank[fat[c]] < rank[c]

VolumeType ==
  [fat : [Cluster -> Entry], slot : Slots, cursor : {2} \cup (Cluster \ {Root}), log : Seq(LogWrite)]

Volumes == {v \in VolumeType : Ordered(v.fat)}

Inv == vol \in Volumes

-----------------------------------------------------------------------------
(* Blocks. *)

LEMMA Blocks ==
  /\ Blank \in Block /\ EndMark \in Block /\ DeletedMark \in Block
  /\ \A x \in Value \cup {Stale} : Unit(x) \in Block
  /\ \A n \in Name, d \in BOOLEAN, c \in Cluster \ {Root}, s \in FileSize :
       Dirent(n, d, c, s) \in Block
  /\ \A b \in Block : b.kind = "live" =>
       /\ b.name \in Name /\ b.isDir \in BOOLEAN
       /\ b.first \in Cluster \ {Root} /\ b.size \in FileSize
       /\ b = Dirent(b.name, b.isDir, b.first, b.size)
<1>1. /\ Blank \in Block /\ EndMark \in Block /\ DeletedMark \in Block
      /\ \A x \in Value \cup {Stale} : Unit(x) \in Block
  BY DEF Block, Unit
<1>2. \A n \in Name, d \in BOOLEAN, c \in Cluster \ {Root}, s \in FileSize :
        Dirent(n, d, c, s) \in Block
  BY DEF Block, Dirent
<1>3. ASSUME NEW b \in Block, b.kind = "live"
      PROVE  /\ b.name \in Name /\ b.isDir \in BOOLEAN
             /\ b.first \in Cluster \ {Root} /\ b.size \in FileSize
             /\ b = Dirent(b.name, b.isDir, b.first, b.size)
  <2>1. b \notin {Blank, EndMark, DeletedMark}
    BY <1>3 DEF Blank, EndMark, DeletedMark
  <2>2. b \notin [kind : {"data"}, val : Value \cup {Stale}]
    BY <1>3
  <2>3. b \in [kind : {"live"}, name : Name, isDir : BOOLEAN,
               first : Cluster \ {Root}, size : FileSize]
    BY <2>1, <2>2 DEF Block
  <2> QED
    BY <2>3 DEF Dirent
<1> QED
  BY <1>1, <1>2, <1>3

LEMMA GarbageIsBlocks == Garbage \in [0 .. N - 1 -> Block]
<1>1. Unit(Stale) \in Block
  BY Blocks
<1> QED
  BY <1>1 DEF Garbage

(* Where an entry is on the device: in its cluster, or first in the next.  *)
LEMMA EntryInCluster ==
  ASSUME NEW e \in 0 .. N
  PROVE  /\ e % N \in 0 .. N - 1
         /\ e < N => e \div N = 0 /\ e % N = e
         /\ e = N => e \div N = 1 /\ e % N = 0
<1> DEFINE q == e \div N
           r == e % N
<1>1. N \in Nat /\ N > 1
  BY OpsAssumption
<1>2. q \in Int /\ r \in 0 .. N - 1 /\ e = N * q + r
  BY <1>1
<1> HIDE DEF q, r
<1>3. N * q >= 0 => q >= 0
  BY <1>1, <1>2
<1>4. CASE q < 0
  <2>1. N * q <= 0 - N
    BY <1>1, <1>2, <1>4
  <2> QED
    BY <1>1, <1>2, <2>1
<1>5. CASE q = 0
  BY <1>1, <1>2, <1>5 DEF q, r
<1>6. CASE q = 1
  BY <1>1, <1>2, <1>6 DEF q, r
<1>7. CASE q > 1
  <2>1. N * q >= N + N
    BY <1>1, <1>2, <1>7
  <2> QED
    BY <1>1, <1>2, <2>1
<1> QED
  BY <1>2, <1>4, <1>5, <1>6, <1>7

-----------------------------------------------------------------------------
(* Writes. *)

LEMMA FatEntryWritten ==
  ASSUME NEW v \in VolumeType, NEW c \in Cluster, NEW e \in Entry
  PROVE  /\ Do(v, FatWrite(c, e)) \in VolumeType
         /\ Do(v, FatWrite(c, e)).fat = [v.fat EXCEPT ![c] = e]
         /\ Do(v, FatWrite(c, e)).slot = v.slot
         /\ Do(v, FatWrite(c, e)).cursor = v.cursor
<1> DEFINE w == FatWrite(c, e)
           log == Append(v.log, w)
<1>1. w \in LogWrite /\ w.to = "fat" /\ w.cluster = c /\ w.entry = e
  BY DEF FatWrite, LogWrite
<1>2. log \in Seq(LogWrite) /\ v.log \in Seq(LogWrite)
  BY <1>1 DEF VolumeType
<1>3. Do(v, w) = [[v EXCEPT !.fat[w.cluster] = w.entry] EXCEPT !.log = Append(@, w)]
  BY <1>1 DEF Do, Applied
<1> HIDE DEF w
<1>4. Do(v, w) = [fat |-> [v.fat EXCEPT ![c] = e], slot |-> v.slot, cursor |-> v.cursor, log |-> log]
  BY <1>1, <1>2, <1>3 DEF VolumeType
<1>5. [v.fat EXCEPT ![c] = e] \in [Cluster -> Entry]
  BY DEF VolumeType
<1> HIDE DEF log
<1> QED
  BY <1>2, <1>4, <1>5 DEF VolumeType, w

LEMMA BlocksWritten ==
  ASSUME NEW v \in VolumeType, NEW c \in 1 .. D + 1, NEW b \in [0 .. N - 1 -> Block]
  PROVE  /\ Do(v, DevWrite(c, b)) \in VolumeType
         /\ Do(v, DevWrite(c, b)).fat = v.fat
         /\ Do(v, DevWrite(c, b)).slot = [v.slot EXCEPT ![c] = b]
         /\ Do(v, DevWrite(c, b)).cursor = v.cursor
<1> DEFINE w == DevWrite(c, b)
           log == Append(v.log, w)
<1>1. w \in LogWrite /\ w.to # "fat" /\ w.cluster = c /\ w.blocks = b
  BY DEF DevWrite, LogWrite
<1>2. log \in Seq(LogWrite) /\ v.log \in Seq(LogWrite)
  BY <1>1 DEF VolumeType
<1>3. Do(v, w) = [[v EXCEPT !.slot[w.cluster] = w.blocks] EXCEPT !.log = Append(@, w)]
  BY <1>1 DEF Do, Applied
<1> HIDE DEF w
<1>4. Do(v, w) = [fat |-> v.fat, slot |-> [v.slot EXCEPT ![c] = b], cursor |-> v.cursor, log |-> log]
  BY <1>1, <1>2, <1>3 DEF VolumeType
<1>5. [v.slot EXCEPT ![c] = b] \in Slots
  BY DEF VolumeType, Slots
<1> HIDE DEF log
<1> QED
  BY <1>2, <1>4, <1>5 DEF VolumeType, w

(* Taking links out of a FAT leaves no cycle in it.                         *)
LEMMA FewerLinks ==
  ASSUME NEW f, NEW g, Ordered(f),
         \A c \in Cluster : g[c] \in Cluster => f[c] = g[c]
  PROVE  Ordered(g)
BY DEF Ordered

(* Nor does linking a tail to a cluster that goes on to no other: that      *)
(* cluster comes first in the order, and those before it one later.         *)
LEMMA LinkAtTheEnd ==
  ASSUME NEW f, NEW g, Ordered(f), NEW t \in Cluster, NEW c \in Cluster,
         g[c] \notin Cluster,
         \A d \in Cluster : d # t /\ g[d] \in Cluster => f[d] = g[d],
         g[t] \in Cluster => g[t] = c
  PROVE  Ordered(g)
<1>1. PICK rank \in [Cluster -> 0 .. D - 1] :
        /\ \A d, e \in Cluster : rank[d] = rank[e] => d = e
        /\ \A d \in Cluster : f[d] \in Cluster => rank[f[d]] < rank[d]
  BY DEF Ordered
<1> DEFINE later == [d \in Cluster |-> IF d = c THEN 0
                                       ELSE IF rank[d] < rank[c] THEN rank[d] + 1 ELSE rank[d]]
<1>2. D \in Nat
  BY OpsAssumption
<1>3. \A d \in Cluster : rank[d] \in 0 .. D - 1
  BY <1>1
<1>4. later \in [Cluster -> 0 .. D - 1]
  BY <1>2, <1>3
<1>5. \A d, e \in Cluster : later[d] = later[e] => d = e
  BY <1>1, <1>2, <1>3
<1>6. ASSUME NEW d \in Cluster, g[d] \in Cluster
      PROVE  later[g[d]] < later[d]
  <2>1. d # c
    BY <1>6
  <2>2. CASE g[d] = c
    BY <1>1, <1>2, <1>3, <2>1, <2>2
  <2>3. CASE g[d] # c
    <3>1. f[d] = g[d]
      BY <1>6, <2>3
    <3> QED
      BY <1>1, <1>2, <1>3, <1>6, <2>1, <2>3, <3>1
  <2> QED
    BY <2>2, <2>3
<1> QED
  BY <1>4, <1>5, <1>6 DEF Ordered

LEMMA Entries ==
  /\ Available \in Entry /\ End \in Entry
  /\ Available \notin Cluster /\ End \notin Cluster
  /\ \A c \in Cluster : c \in Entry /\ c \in 1 .. D + 1
BY OpsAssumption DEF Available, End, Entry, Cluster

LEMMA EntryCleared ==
  ASSUME NEW v \in Volumes, NEW c \in Cluster, NEW e \in {Available, End}
  PROVE  /\ Do(v, FatWrite(c, e)) \in Volumes
         /\ Do(v, FatWrite(c, e)).fat = [v.fat EXCEPT ![c] = e]
         /\ Do(v, FatWrite(c, e)).slot = v.slot
         /\ Do(v, FatWrite(c, e)).cursor = v.cursor
<1>1. v \in VolumeType /\ Ordered(v.fat) /\ e \in Entry /\ e \notin Cluster
  BY Entries DEF Volumes
<1> DEFINE w == Do(v, FatWrite(c, e))
<1>2. w \in VolumeType /\ w.fat = [v.fat EXCEPT ![c] = e] /\ w.slot = v.slot /\ w.cursor = v.cursor
  BY <1>1, FatEntryWritten
<1> HIDE DEF w
<1>3. v.fat \in [Cluster -> Entry]
  BY <1>1 DEF VolumeType
<1>4. \A d \in Cluster : w.fat[d] \in Cluster => v.fat[d] = w.fat[d]
  BY <1>1, <1>2, <1>3
<1>5. Ordered(w.fat)
  BY <1>1, <1>4, FewerLinks
<1> QED
  BY <1>2, <1>5 DEF Volumes, w

LEMMA Ended ==
  ASSUME NEW v \in Volumes, NEW c \in Cluster
  PROVE  /\ MarkEnd(v, c) \in Volumes
         /\ MarkEnd(v, c).fat = [v.fat EXCEPT ![c] = End]
         /\ MarkEnd(v, c).slot = v.slot
         /\ MarkEnd(v, c).cursor = v.cursor
BY EntryCleared DEF MarkEnd

LEMMA ClusterWritten ==
  ASSUME NEW v \in Volumes, NEW c \in 1 .. D + 1, NEW b \in [0 .. N - 1 -> Block]
  PROVE  /\ Do(v, DevWrite(c, b)) \in Volumes
         /\ Do(v, DevWrite(c, b)).fat = v.fat
         /\ Do(v, DevWrite(c, b)).slot = [v.slot EXCEPT ![c] = b]
         /\ Do(v, DevWrite(c, b)).cursor = v.cursor
BY BlocksWritten DEF Volumes

(* An entry is written, in its cluster or as the first of the next.        *)
LEMMA BlockPut ==
  ASSUME NEW v \in Volumes, NEW p \in [cluster : Cluster, entry : 0 .. N], NEW b \in Block
  PROVE  /\ Put(v, p, b) \in Volumes
         /\ Put(v, p, b).fat = v.fat
         /\ Put(v, p, b).cursor = v.cursor
         /\ p.cluster + (p.entry \div N) \in 1 .. D + 1
         /\ Put(v, p, b).slot =
              [v.slot EXCEPT ![p.cluster + (p.entry \div N)] = [@ EXCEPT ![p.entry % N] = b]]
<1> DEFINE c == p.cluster + (p.entry \div N)
           blocks == [v.slot[c] EXCEPT ![p.entry % N] = b]
<1>1. p.cluster \in 1 .. D /\ p.entry \in 0 .. N /\ D \in Nat /\ N \in Nat
  BY OpsAssumption DEF Cluster
<1>2. p.entry \div N \in 0 .. 1 /\ p.entry % N \in 0 .. N - 1
  BY <1>1, EntryInCluster
<1>3. c \in 1 .. D + 1
  BY <1>1, <1>2
<1>4. v.slot \in Slots
  BY DEF Volumes, VolumeType
<1>5. blocks \in [0 .. N - 1 -> Block]
  BY <1>2, <1>3, <1>4 DEF Slots
<1>6. Put(v, p, b) = Do(v, DevWrite(c, blocks))
  BY DEF Put
<1> HIDE DEF c, blocks
<1>7. /\ Put(v, p, b) \in Volumes /\ Put(v, p, b).fat = v.fat /\ Put(v, p, b).cursor = v.cursor
      /\ Put(v, p, b).slot = [v.slot EXCEPT ![c] = blocks]
  BY <1>3, <1>5, <1>6, ClusterWritten
<1> QED
  BY <1>3, <1>7 DEF c, blocks

-----------------------------------------------------------------------------
(* Allocation. *)

(* The free cluster that is next to the cursor is a free cluster.          *)
LEMMA NextFreeIsFree ==
  ASSUME NEW cursor \in Nat, NEW free \in SUBSET Nat, free # {}
  PROVE  NextFree(cursor, free) \in free
<1> DEFINE T == IF \E c \in free : c >= cursor THEN {c \in free : c >= cursor} ELSE free
<1>1. T \in SUBSET Nat /\ T # {} /\ T \subseteq free
  OBVIOUS
<1>2. NextFree(cursor, free) = CHOOSE x \in T : \A y \in T : x <= y
  BY DEF NextFree, Min
<1> HIDE DEF T
<1>3. \E x \in T : \A y \in T : x <= y
  BY <1>1, LeastNatural
<1>4. NextFree(cursor, free) \in T
  BY <1>2, <1>3
<1> QED
  BY <1>1, <1>4

Cleared == [e \in 0 .. N - 1 |-> Blank]

LEMMA ClearedBlocks == Cleared \in [0 .. N - 1 -> Block]
BY Blocks DEF Cleared

(* What fatx_alloc_cluster leaves: a cluster that was free is marked END,  *)
(* and cleared if that was asked for, and nothing else is touched.         *)
LEMMA Allocated ==
  ASSUME NEW v \in Volumes, NEW zero
  PROVE  LET a == AllocCluster(v, zero)
         IN  /\ a = [st |-> a.st, v |-> a.v, cluster |-> a.cluster]
             /\ a.st \in {"ok", "error"}
             /\ a.v \in Volumes
             /\ a.st = "error" =>
                  a.v = v /\ a.cluster = 0 /\ \A c \in 2 .. D : v.fat[c] # Available
             /\ a.st = "ok" =>
                  /\ a.cluster \in 2 .. D
                  /\ v.fat[a.cluster] = Available
                  /\ a.v.fat = [v.fat EXCEPT ![a.cluster] = End]
                  /\ a.v.slot = IF zero THEN [v.slot EXCEPT ![a.cluster] = Cleared] ELSE v.slot
<1> DEFINE a == AllocCluster(v, zero)
           free == {c \in 2 .. D : v.fat[c] = Available}
           c == NextFree(v.cursor, free)
<1>1. CASE free = {}
  <2>1. a = [st |-> "error", v |-> v, cluster |-> 0]
    BY <1>1 DEF AllocCluster
  <2> HIDE DEF a
  <2> QED
    BY <1>1, <2>1 DEF a
<1>2. CASE free # {}
  <2>1. v.cursor \in Nat /\ free \in SUBSET Nat /\ D \in Nat
    BY OpsAssumption DEF Volumes, VolumeType, Cluster
  <2> HIDE DEF free
  <2>2. c \in free
    BY <1>2, <2>1, NextFreeIsFree
  <2>3. a = [st |-> "ok", cluster |-> c, v |-> IF zero THEN Clear(Take(v, c), c) ELSE Take(v, c)]
    BY <1>2 DEF AllocCluster, free
  <2> HIDE DEF a, c
  <2>4. c \in 2 .. D /\ c \in Cluster \ {Root} /\ c \in 1 .. D + 1 /\ v.fat[c] = Available
    BY <2>1, <2>2 DEF free, Cluster, Root
  <2>5. /\ Take(v, c) \in Volumes
        /\ Take(v, c).fat = [v.fat EXCEPT ![c] = End]
        /\ Take(v, c).slot = v.slot
    <3> DEFINE m == MarkEnd(v, c)
    <3>1. m \in Volumes /\ m.fat = [v.fat EXCEPT ![c] = End] /\ m.slot = v.slot
      BY <2>4, Ended
    <3>2. Take(v, c) = [m EXCEPT !.cursor = c]
      BY DEF Take
    <3> HIDE DEF m
    <3>3. [m EXCEPT !.cursor = c].fat = m.fat /\ [m EXCEPT !.cursor = c].slot = m.slot
      BY <3>1 DEF Volumes, VolumeType
    <3>4. [m EXCEPT !.cursor = c] \in VolumeType
      BY <2>4, <3>1 DEF Volumes, VolumeType
    <3> QED
      BY <3>1, <3>2, <3>3, <3>4 DEF Volumes
  <2>6. CASE zero
    <3>1. a.v = Do(Take(v, c), DevWrite(c, Cleared))
      BY <2>3, <2>6 DEF Clear, Cleared
    <3>2. /\ a.v \in Volumes /\ a.v.fat = Take(v, c).fat
          /\ a.v.slot = [Take(v, c).slot EXCEPT ![c] = Cleared]
      BY <2>4, <2>5, <3>1, ClearedBlocks, ClusterWritten
    <3> QED
      BY <2>3, <2>4, <2>5, <2>6, <3>2 DEF a
  <2>7. CASE ~zero
    <3>1. a.v = Take(v, c)
      BY <2>3, <2>7
    <3> QED
      BY <2>3, <2>4, <2>5, <2>7, <3>1 DEF a
  <2> QED
    BY <2>6, <2>7
<1> QED
  BY <1>1, <1>2

(* What fatx_attach_cluster leaves. *)
LEMMA Attached ==
  ASSUME NEW v \in Volumes, NEW tail \in Cluster, NEW c \in Cluster
  PROVE  LET a == AttachCluster(v, tail, c)
         IN  /\ a = [st |-> a.st, v |-> a.v, cluster |-> c]
             /\ a.st \in {"ok", "error"}
             /\ a.v \in Volumes
             /\ a.v.slot = v.slot
             /\ a.st = "error" => v.fat[tail] # End /\ a.v = v
             /\ a.st = "ok" => /\ v.fat[tail] = End
                               /\ a.v.fat = [[v.fat EXCEPT ![tail] = c] EXCEPT ![c] = End]
<1> DEFINE a == AttachCluster(v, tail, c)
<1>1. CASE v.fat[tail] # End
  <2>1. a = [st |-> "error", v |-> v, cluster |-> c]
    BY <1>1 DEF AttachCluster
  <2> HIDE DEF a
  <2> QED
    BY <1>1, <2>1 DEF a
<1>2. CASE v.fat[tail] = End
  <2> DEFINE u == Do(v, FatWrite(tail, c))
             w == Do(u, FatWrite(c, End))
  <2>1. a = [st |-> "ok", v |-> w, cluster |-> c]
    BY <1>2 DEF AttachCluster, MarkEnd
  <2>2. v \in VolumeType /\ c \in Entry /\ End \in Entry /\ End \notin Cluster
    BY Entries DEF Volumes
  <2>3. u \in VolumeType /\ u.fat = [v.fat EXCEPT ![tail] = c] /\ u.slot = v.slot
    BY <2>2, FatEntryWritten
  <2> HIDE DEF u
  <2>4. w \in VolumeType /\ w.fat = [u.fat EXCEPT ![c] = End] /\ w.slot = u.slot
    BY <2>2, <2>3, FatEntryWritten
  <2> HIDE DEF w, a
  <2>5. v.fat \in [Cluster -> Entry]
    BY <2>2 DEF VolumeType
  <2>6. /\ w.fat[c] \notin Cluster
        /\ \A d \in Cluster : d # tail /\ w.fat[d] \in Cluster => v.fat[d] = w.fat[d]
        /\ w.fat[tail] \in Cluster => w.fat[tail] = c
    BY <2>2, <2>3, <2>4, <2>5
  <2>7. Ordered(w.fat)
    BY <2>6, LinkAtTheEnd DEF Volumes
  <2>8. w \in Volumes
    BY <2>4, <2>7 DEF Volumes
  <2> QED
    BY <1>2, <2>1, <2>3, <2>4, <2>8 DEF a
<1> QED
  BY <1>1, <1>2

(* A place in a chain: what the loops over one come to. *)
Step ==
  {p \in [st : {"ok", "error"}, v : Volumes, cluster : 0 .. D] : p.st = "ok" => p.cluster \in Cluster}

LEMMA Extended ==
  ASSUME NEW v \in Volumes, NEW tail \in Cluster, NEW zero
  PROVE  Extend(v, tail, zero) \in Step
<1> DEFINE a == AllocCluster(v, zero)
           b == AttachCluster(a.v, tail, a.cluster)
<1>1. /\ a = [st |-> a.st, v |-> a.v, cluster |-> a.cluster] /\ a.st \in {"ok", "error"}
      /\ a.v \in Volumes /\ (a.st = "error" => a.cluster = 0)
      /\ (a.st = "ok" => a.cluster \in 2 .. D)
  BY Allocated
<1>2. D \in Nat /\ 2 .. D \subseteq Cluster /\ 2 .. D \subseteq 0 .. D /\ 0 \in 0 .. D
  BY OpsAssumption DEF Cluster
<1>3. Extend(v, tail, zero) = IF a.st # "ok" THEN a ELSE b
  BY DEF Extend
<1> HIDE DEF a
<1>4. CASE a.st # "ok"
  BY <1>1, <1>2, <1>3, <1>4 DEF Step
<1>5. CASE a.st = "ok"
  <2>1. /\ b = [st |-> b.st, v |-> b.v, cluster |-> a.cluster] /\ b.st \in {"ok", "error"}
        /\ b.v \in Volumes
    BY <1>1, <1>2, <1>5, Attached
  <2> HIDE DEF b
  <2> QED
    BY <1>1, <1>2, <1>3, <1>5, <2>1 DEF Step
<1> QED
  BY <1>4, <1>5

(* Whatever the FAT holds. *)
LEMMA NextWithin ==
  ASSUME NEW v, NEW c \in Cluster
  PROVE  NextCluster(v, c) \in Cluster \cup {0}
BY DEF NextCluster

LEMMA NextInChain ==
  ASSUME NEW v \in Volumes, NEW c \in Cluster
  PROVE  /\ NextCluster(v, c) \in Cluster \cup {0}
         /\ NextCluster(v, c) # 0 => NextCluster(v, c) \in Cluster /\ v.fat[c] = NextCluster(v, c)
         /\ NextCluster(v, c) = 0 => v.fat[c] \notin Cluster
BY OpsAssumption DEF NextCluster, Cluster

LEMMA StepOn ==
  ASSUME NEW p \in Step, NEW checked
  PROVE  Onward(p, checked) \in Step
<1>1. p \in [st : {"ok", "error"}, v : Volumes, cluster : 0 .. D]
  BY DEF Step
<1>2. CASE p.st # "ok"
  BY <1>2 DEF Onward
<1>3. CASE p.st = "ok"
  <2>1. p.cluster \in Cluster /\ p.v \in Volumes
    BY <1>1, <1>3 DEF Step
  <2>2. CASE NextCluster(p.v, p.cluster) # 0
    <3>1. NextCluster(p.v, p.cluster) \in Cluster /\ Cluster \subseteq 0 .. D
      BY <2>1, <2>2, NextInChain, OpsAssumption DEF Cluster
    <3>2. Onward(p, checked) = [p EXCEPT !.cluster = NextCluster(p.v, p.cluster)]
      BY <1>3, <2>2 DEF Onward
    <3> QED
      BY <1>1, <1>3, <3>1, <3>2 DEF Step
  <2>3. CASE NextCluster(p.v, p.cluster) = 0
    <3>1. CASE checked /\ p.v.fat[p.cluster] # End
      <4>1. Onward(p, checked) = [p EXCEPT !.st = "error"]
        BY <1>3, <2>3, <3>1 DEF Onward
      <4> QED
        BY <1>1, <4>1 DEF Step
    <3>2. CASE ~ (checked /\ p.v.fat[p.cluster] # End)
      <4>1. Onward(p, checked) = Extend(p.v, p.cluster, TRUE)
        BY <1>3, <2>3, <3>2 DEF Onward
      <4> QED
        BY <2>1, <4>1, Extended
    <3> QED
      BY <3>1, <3>2
  <2> QED
    BY <2>2, <2>3
<1> QED
  BY <1>2, <1>3

(* The steps of a walk along a chain, one from the other. *)
Follows(v, c, k, checked, step) ==
  /\ step[0] = [st |-> "ok", v |-> v, cluster |-> c]
  /\ \A i \in 1 .. k : step[i] = Onward(step[i - 1], checked)
  /\ Follow(v, c, k, checked) = step[k]

LEMMA FollowUnfolds ==
  ASSUME NEW v \in Volumes, NEW c \in Cluster, NEW k \in Nat, NEW checked
  PROVE  \E step \in [0 .. k -> Step] : Follows(v, c, k, checked, step)
<1> DEFINE a == [st |-> "ok", v |-> v, cluster |-> c]
           F == [i \in 1 .. k |-> [p \in Step |-> Onward(p, checked)]]
           step == CHOOSE f : f = [i \in 0 .. k |-> IF i = 0 THEN a ELSE Onward(f[i - 1], checked)]
<1>1. a \in Step
  BY OpsAssumption DEF Step, Cluster
<1>2. F \in [1 .. k -> [Step -> Step]]
  BY StepOn
<1> HIDE DEF a
<1>3. PICK f \in [0 .. k -> Step] : f[0] = a /\ \A i \in 1 .. k : f[i] = F[i][f[i - 1]]
  <2> HIDE DEF F
  <2> QED
    BY <1>1, <1>2, Recursion
<1>4. ASSUME NEW i \in 1 .. k PROVE f[i] = Onward(f[i - 1], checked)
  <2>1. i - 1 \in 0 .. k
    OBVIOUS
  <2>2. f[i - 1] \in Step
    BY <1>3, <2>1
  <2> QED
    BY <1>3, <2>2
<1>5. f = [i \in 0 .. k |-> IF i = 0 THEN a ELSE Onward(f[i - 1], checked)]
  BY <1>3, <1>4
<1>6. step = [i \in 0 .. k |-> IF i = 0 THEN a ELSE Onward(step[i - 1], checked)]
  BY <1>5
<1>7. Follow(v, c, k, checked) = step[k]
  BY DEF Follow, a
<1> HIDE DEF step
<1>8. \A i \in 0 .. k : step[i] = IF i = 0 THEN a ELSE Onward(step[i - 1], checked)
  BY <1>6, Zenon
<1>9. step[0] = a /\ \A i \in 1 .. k : step[i] = Onward(step[i - 1], checked)
  BY <1>8
<1> DEFINE T == {i \in Nat : i <= k => step[i] \in Step}
<1>10. 0 \in T
  BY <1>1, <1>9
<1>11. ASSUME NEW i \in Nat, i \in T PROVE i + 1 \in T
  <2>1. ASSUME i + 1 <= k PROVE step[i + 1] \in Step
    <3>1. step[i] \in Step /\ step[i + 1] = Onward(step[i], checked)
      BY <1>9, <1>11, <2>1
    <3> QED
      BY <3>1, StepOn
  <2> QED
    BY <2>1
<1>12. Nat \subseteq T
  BY <1>10, <1>11, CountUp
<1>13. step \in [0 .. k -> Step]
  BY <1>6, <1>12
<1> QED
  BY <1>7, <1>9, <1>13 DEF a, Follows

LEMMA Followed ==
  ASSUME NEW v \in Volumes, NEW c \in Cluster, NEW k \in Nat, NEW checked
  PROVE  Follow(v, c, k, checked) \in Step
<1>1. PICK step \in [0 .. k -> Step] : Follows(v, c, k, checked, step)
  BY FollowUnfolds
<1> QED
  BY <1>1 DEF Follows

-----------------------------------------------------------------------------
(* Chains. *)

LEMMA ChainUnfolds ==
  ASSUME NEW v
  PROVE  \E from \in [1 .. D -> [Cluster -> Seq(Cluster)]] :
           /\ \A n \in 1 .. D : \A c \in Cluster :
                from[n][c] = <<c>> \o (IF NextCluster(v, c) # 0 /\ n > 1
                                       THEN from[n - 1][NextCluster(v, c)] ELSE <<>>)
           /\ \A c \in Cluster : Chain(v, c) = from[D][c]
<1> DEFINE S == [Cluster -> Seq(Cluster)]
           With(n, g) == [c \in Cluster |-> <<c>> \o (IF NextCluster(v, c) # 0 /\ n > 1
                                                    THEN g[NextCluster(v, c)] ELSE <<>>)]
           a == [c \in Cluster |-> <<c>>]
           F == [n \in 1 .. D |-> [g \in S |-> With(n, g)]]
           W == Cluster \X (1 .. D)
           from == CHOOSE f : f = [x \in W |-> LET next == NextCluster(v, x[1])
                                    IN  <<x[1]>> \o (IF next # 0 /\ x[2] > 1 THEN f[<<next, x[2] - 1>>] ELSE <<>>)]
<1>1. D \in Nat /\ D >= 1
  BY OpsAssumption
<1>2. a \in S
  OBVIOUS
<1>3. ASSUME NEW n \in 1 .. D, NEW g \in S PROVE With(n, g) \in S
  <2> SUFFICES ASSUME NEW c \in Cluster
               PROVE  <<c>> \o (IF NextCluster(v, c) # 0 /\ n > 1
                                THEN g[NextCluster(v, c)] ELSE <<>>) \in Seq(Cluster)
    OBVIOUS
  <2>1. <<c>> \in Seq(Cluster) /\ <<>> \in Seq(Cluster)
    OBVIOUS
  <2>2. NextCluster(v, c) # 0 => g[NextCluster(v, c)] \in Seq(Cluster)
    BY NextWithin
  <2> QED
    BY <2>1, <2>2, ConcatProperties
<1> HIDE DEF With
<1>4. F \in [1 .. D -> [S -> S]]
  BY <1>3
<1>5. PICK f \in [0 .. D -> S] : f[0] = a /\ \A n \in 1 .. D : f[n] = F[n][f[n - 1]]
  <2> DEFINE k == D
  <2>1. k \in Nat /\ F \in [1 .. k -> [S -> S]]
    BY <1>1, <1>4
  <2> HIDE DEF F, S, a, k
  <2>2. \E f \in [0 .. k -> S] : f[0] = a /\ \A n \in 1 .. k : f[n] = F[n][f[n - 1]]
    BY ONLY <1>2, <2>1, Recursion
  <2> QED
    BY <2>2 DEF k
<1>6. ASSUME NEW n \in 1 .. D PROVE f[n - 1] \in S /\ f[n] \in S /\ f[n] = With(n, f[n - 1])
  <2>1. n - 1 \in 0 .. D /\ n \in 0 .. D
    BY <1>1
  <2>2. f[n - 1] \in S /\ f[n] \in S
    BY <1>5, <2>1
  <2> QED
    BY <1>5, <2>2
<1> HIDE DEF F, S, a
<1>7. \A n \in 1 .. D : \A c \in Cluster :
        f[n][c] = <<c>> \o (IF NextCluster(v, c) # 0 /\ n > 1
                            THEN f[n - 1][NextCluster(v, c)] ELSE <<>>)
  BY <1>6 DEF With
<1> DEFINE h == [x \in W |-> f[x[2]][x[1]]]
<1>8. h = [x \in W |-> LET next == NextCluster(v, x[1])
                       IN  <<x[1]>> \o (IF next # 0 /\ x[2] > 1 THEN h[<<next, x[2] - 1>>] ELSE <<>>)]
  <2> SUFFICES ASSUME NEW x \in W
               PROVE  f[x[2]][x[1]] = <<x[1]>> \o (IF NextCluster(v, x[1]) # 0 /\ x[2] > 1
                                       THEN h[<<NextCluster(v, x[1]), x[2] - 1>>] ELSE <<>>)
    BY Zenon
  <2>1. x[1] \in Cluster /\ x[2] \in 1 .. D
    OBVIOUS
  <2>2. ASSUME NextCluster(v, x[1]) # 0, x[2] > 1
        PROVE  h[<<NextCluster(v, x[1]), x[2] - 1>>] = f[x[2] - 1][NextCluster(v, x[1])]
    <3>1. NextCluster(v, x[1]) \in Cluster /\ x[2] - 1 \in 1 .. D
      BY <2>1, <2>2, <1>1, NextWithin
    <3> QED
      BY <3>1
  <2> QED
    BY <1>7, <2>1, <2>2
<1> HIDE DEF h
<1>9. from = [x \in W |-> LET next == NextCluster(v, x[1])
                          IN  <<x[1]>> \o (IF next # 0 /\ x[2] > 1 THEN from[<<next, x[2] - 1>>] ELSE <<>>)]
  BY <1>8, Zenon
<1>10. \A c \in Cluster : Chain(v, c) = from[<<c, D>>]
  BY Zenon DEF Chain
<1> HIDE DEF from
<1> DEFINE g == [n \in 1 .. D |-> [c \in Cluster |-> from[<<c, n>>]]]
<1>11. ASSUME NEW n \in 1 .. D, NEW c \in Cluster
       PROVE  from[<<c, n>>] = <<c>> \o (IF NextCluster(v, c) # 0 /\ n > 1
                                         THEN from[<<NextCluster(v, c), n - 1>>] ELSE <<>>)
  <2> DEFINE x == <<c, n>>
  <2>1. x \in W /\ x[1] = c /\ x[2] = n
    OBVIOUS
  <2>2. from[x] = LET next == NextCluster(v, x[1])
                  IN  <<x[1]>> \o (IF next # 0 /\ x[2] > 1 THEN from[<<next, x[2] - 1>>] ELSE <<>>)
    <3> HIDE DEF x, W
    <3> QED
      BY <1>9, <2>1, Zenon
  <2> QED
    BY <2>1, <2>2
<1>12. \A n \in 1 .. D : \A c \in Cluster :
         g[n][c] = <<c>> \o (IF NextCluster(v, c) # 0 /\ n > 1
                             THEN g[n - 1][NextCluster(v, c)] ELSE <<>>)
  <2> SUFFICES ASSUME NEW n \in 1 .. D, NEW c \in Cluster
               PROVE  g[n][c] = <<c>> \o (IF NextCluster(v, c) # 0 /\ n > 1
                                          THEN g[n - 1][NextCluster(v, c)] ELSE <<>>)
    OBVIOUS
  <2>1. ASSUME NextCluster(v, c) # 0, n > 1
        PROVE  g[n - 1][NextCluster(v, c)] = from[<<NextCluster(v, c), n - 1>>]
    <3>1. NextCluster(v, c) \in Cluster /\ n - 1 \in 1 .. D
      BY <1>1, <2>1, NextWithin
    <3> QED
      BY <3>1
  <2>2. g[n][c] = from[<<c, n>>]
    OBVIOUS
  <2> HIDE DEF g
  <2> QED
    BY <1>11, <2>1, <2>2
<1>13. \A n \in 1 .. D : g[n] \in [Cluster -> Seq(Cluster)]
  <2> DEFINE T == {n \in Nat : n >= 1 /\ n <= D => g[n] \in [Cluster -> Seq(Cluster)]}
  <2>1. 0 \in T
    OBVIOUS
  <2>2. ASSUME NEW n \in Nat, n \in T PROVE n + 1 \in T
    <3> SUFFICES ASSUME n + 1 <= D, NEW c \in Cluster PROVE g[n + 1][c] \in Seq(Cluster)
      <4>1. n + 1 \in Nat /\ (n + 1 <= D => n + 1 \in 1 .. D)
        BY <1>1
      <4> QED
        BY <4>1
    <3> HIDE DEF g
    <3>1. n + 1 \in 1 .. D /\ (n + 1) - 1 = n
      BY <1>1
    <3>2. g[n + 1][c] = <<c>> \o (IF NextCluster(v, c) # 0 /\ n + 1 > 1
                                  THEN g[n][NextCluster(v, c)] ELSE <<>>)
      BY <1>12, <3>1
    <3>3. NextCluster(v, c) # 0 /\ n + 1 > 1 => g[n][NextCluster(v, c)] \in Seq(Cluster)
      BY <1>1, <2>2, <3>1, NextWithin
    <3>4. <<c>> \in Seq(Cluster) /\ <<>> \in Seq(Cluster)
      OBVIOUS
    <3> QED
      BY <3>2, <3>3, <3>4, ConcatProperties
  <2>3. Nat \subseteq T
    <3> HIDE DEF T
    <3> QED
      BY <2>1, <2>2, CountUp
  <2> QED
    BY <1>1, <2>3
<1>14. \A c \in Cluster : Chain(v, c) = g[D][c]
  BY <1>1, <1>10
<1>15. g \in [1 .. D -> [Cluster -> Seq(Cluster)]]
  BY <1>13
<1> HIDE DEF g
<1> QED
  BY <1>12, <1>14, <1>15

(* A sequence with one element more in front. *)
LEMMA InFront ==
  ASSUME NEW S, NEW c \in S, NEW s \in Seq(S)
  PROVE  /\ <<c>> \o s \in Seq(S) /\ Len(<<c>> \o s) = Len(s) + 1
         /\ (<<c>> \o s)[1] = c
         /\ \A i \in 1 .. Len(s) : (<<c>> \o s)[i + 1] = s[i]
<1>1. <<c>> \in Seq(S) /\ Len(<<c>>) = 1 /\ <<c>>[1] = c
  OBVIOUS
<1>2. /\ <<c>> \o s \in Seq(S)
      /\ Len(<<c>> \o s) = 1 + Len(s)
      /\ \A i \in 1 .. 1 + Len(s) :
           (<<c>> \o s)[i] = IF i <= 1 THEN <<c>>[i] ELSE s[i - 1]
  BY <1>1, ConcatProperties
<1>3. Len(s) \in Nat
  OBVIOUS
<1> HIDE DEF OpsAssumption
<1>4. (<<c>> \o s)[1] = c
  BY <1>1, <1>2, <1>3
<1>5. ASSUME NEW i \in 1 .. Len(s) PROVE (<<c>> \o s)[i + 1] = s[i]
  <2>1. i + 1 \in 1 .. 1 + Len(s) /\ ~ (i + 1 <= 1) /\ (i + 1) - 1 = i
    BY <1>3
  <2> QED
    BY ONLY <1>2, <2>1
<1> QED
  BY <1>2, <1>3, <1>4, <1>5

(* The links of a chain, from its first cluster to one that is no link.    *)
IsChain(fat, s) ==
  /\ \A i \in 1 .. Len(s) - 1 : fat[s[i]] = s[i + 1]
  /\ fat[s[Len(s)]] \notin Cluster

LEMMA Chained ==
  ASSUME NEW v \in Volumes, NEW c \in Cluster
  PROVE  /\ Chain(v, c) \in Seq(Cluster) /\ Len(Chain(v, c)) \in 1 .. D
         /\ Chain(v, c)[1] = c
         /\ IsChain(v.fat, Chain(v, c))
<1>1. PICK from \in [1 .. D -> [Cluster -> Seq(Cluster)]] :
        /\ \A n \in 1 .. D : \A d \in Cluster :
             from[n][d] = <<d>> \o (IF NextCluster(v, d) # 0 /\ n > 1
                                    THEN from[n - 1][NextCluster(v, d)] ELSE <<>>)
        /\ \A d \in Cluster : Chain(v, d) = from[D][d]
  BY ChainUnfolds
<1>2. PICK rank \in [Cluster -> 0 .. D - 1] :
        \A d \in Cluster : v.fat[d] \in Cluster => rank[v.fat[d]] < rank[d]
  BY DEF Volumes, Ordered
<1>3. D \in Nat /\ D >= 1 /\ v.fat \in [Cluster -> Entry]
  BY OpsAssumption DEF Volumes, VolumeType
<1> DEFINE Fits(n, d, s) ==
             /\ s \in Seq(Cluster) /\ Len(s) \in 1 .. n /\ s[1] = d
             /\ \A i \in 1 .. Len(s) - 1 : v.fat[s[i]] = s[i + 1]
             /\ rank[d] < n => v.fat[s[Len(s)]] \notin Cluster
           T == {n \in Nat : n \in 1 .. D => \A d \in Cluster : Fits(n, d, from[n][d])}
<1>4. 0 \in T
  OBVIOUS
<1>5. ASSUME NEW n \in Nat, n \in T PROVE n + 1 \in T
  <2> SUFFICES ASSUME n + 1 \in 1 .. D, NEW d \in Cluster
               PROVE  Fits(n + 1, d, from[n + 1][d])
    OBVIOUS
  <2> DEFINE next == NextCluster(v, d)
             s == from[n + 1][d]
             t == from[n][next]
  <2>1. s = <<d>> \o (IF next # 0 /\ n + 1 > 1 THEN t ELSE <<>>)
    <3>1. n + 1 \in 1 .. D /\ (n + 1) - 1 = n
      OBVIOUS
    <3> QED
      BY ONLY <1>1, <3>1, d \in Cluster
  <2>2. rank[d] \in 0 .. D - 1
    BY <1>2
  <2>3. CASE next # 0 /\ n + 1 > 1
    <3>1. next \in Cluster /\ v.fat[d] = next /\ n \in 1 .. D
      BY <1>3, <2>3, NextInChain
    <3>2. Fits(n, next, t)
      BY <1>5, <3>1
    <3>3. s = <<d>> \o t /\ t \in Seq(Cluster)
      BY <2>1, <2>3, <3>2
    <3> HIDE DEF s, t, next
    <3>4. /\ s \in Seq(Cluster) /\ Len(s) = Len(t) + 1 /\ s[1] = d
          /\ \A i \in 1 .. Len(t) : s[i + 1] = t[i]
      BY <3>3, InFront
    <3>5. Len(t) \in 1 .. n /\ t[1] = next
      BY <3>2
    <3>6. ASSUME NEW i \in 1 .. Len(s) - 1 PROVE v.fat[s[i]] = s[i + 1]
      <4>1. i \in 1 .. Len(t) /\ s[i + 1] = t[i]
        BY <3>4, <3>5
      <4>2. CASE i = 1
        BY <3>1, <3>4, <3>5, <4>1, <4>2
      <4>3. CASE i > 1
        <5>1. i - 1 \in 1 .. Len(t) - 1 /\ i - 1 \in 1 .. Len(t)
          BY <3>5, <4>1, <4>3
        <5>2. s[(i - 1) + 1] = t[i - 1] /\ v.fat[t[i - 1]] = t[(i - 1) + 1]
          BY <3>2, <3>4, <5>1
        <5> QED
          BY <4>1, <5>2
      <4> QED
        BY <4>1, <4>2, <4>3
    <3>7. ASSUME rank[d] < n + 1 PROVE v.fat[s[Len(s)]] \notin Cluster
      <4>1. rank[next] < rank[d] /\ rank[next] \in 0 .. D - 1
        BY <1>2, <3>1
      <4>2. rank[next] < n
        BY <1>3, <2>2, <3>7, <4>1
      <4>3. s[Len(s)] = t[Len(t)]
        <5>1. Len(t) \in 1 .. Len(t) /\ Len(s) = Len(t) + 1
          BY <3>4, <3>5
        <5> QED
          BY ONLY <3>4, <5>1
      <4> QED
        BY <3>2, <4>2, <4>3
    <3>8. Len(s) \in 1 .. n + 1
      BY <3>4, <3>5
    <3> QED
      BY <3>4, <3>6, <3>7, <3>8 DEF s
  <2>4. CASE ~ (next # 0 /\ n + 1 > 1)
    <3>1. s = <<d>> \o <<>>
      BY <2>1, <2>4
    <3>4. <<>> \in Seq(Cluster) /\ Len(<<>>) = 0
      OBVIOUS
    <3> HIDE DEF s
    <3>2. s \in Seq(Cluster) /\ Len(s) = 1 /\ s[1] = d
      BY <3>1, <3>4, InFront
    <3>3. ASSUME rank[d] < n + 1 PROVE v.fat[d] \notin Cluster
      <4>1. CASE next = 0
        BY <4>1, NextInChain
      <4>2. CASE n = 0
        BY <1>2, <1>3, <2>2, <3>3, <4>2
      <4> QED
        BY <2>4, <4>1, <4>2
    <3> QED
      BY <3>2, <3>3 DEF s
  <2> QED
    BY <2>3, <2>4
<1>6. D \in T
  <2> HIDE DEF T
  <2> QED
    BY <1>3, <1>4, <1>5, CountUp
<1>7. Fits(D, c, Chain(v, c))
  <2>1. Chain(v, c) = from[D][c]
    BY <1>1
  <2> HIDE DEF Fits
  <2>2. Fits(D, c, from[D][c])
    BY <1>3, <1>6
  <2> QED
    BY <2>1, <2>2
<1>8. rank[c] < D
  BY <1>2, <1>3
<1> QED
  BY <1>7, <1>8 DEF IsChain

(* What fatx_free_cluster_chain leaves. *)
LEMMA ChainFreed ==
  ASSUME NEW v \in Volumes, NEW c \in Cluster
  PROVE  /\ FreeChain(v, c) \in Volumes
         /\ FreeChain(v, c).fat =
              [d \in Cluster |-> IF d \in ChainSet(v, c) THEN Available ELSE v.fat[d]]
         /\ FreeChain(v, c).slot = v.slot
         /\ FreeChain(v, c).cursor = v.cursor
<1> DEFINE s == Chain(v, c)
           fat == [d \in Cluster |-> IF d \in ChainSet(v, c) THEN Available ELSE v.fat[d]]
           freed == [i \in DOMAIN s |-> FatWrite(s[i], Available)]
           log == v.log \o freed
<1>1. v \in VolumeType /\ Ordered(v.fat)
  BY DEF Volumes
<1>2. s \in Seq(Cluster)
  BY Chained
<1>3. FreeChain(v, c) = [v EXCEPT !.fat = fat, !.log = log]
  BY DEF FreeChain, ChainSet
<1> HIDE DEF s
<1>4. freed \in Seq(LogWrite)
  <2>1. freed = [i \in 1 .. Len(s) |-> FatWrite(s[i], Available)] /\ Len(s) \in Nat
    BY <1>2
  <2>2. \A i \in 1 .. Len(s) : FatWrite(s[i], Available) \in LogWrite
    BY <1>2, Entries DEF FatWrite, LogWrite
  <2> QED
    BY <2>1, <2>2
<1> HIDE DEF freed
<1>5. log \in Seq(LogWrite)
  BY <1>1, <1>4, ConcatProperties DEF VolumeType
<1>6. fat \in [Cluster -> Entry]
  BY <1>1, Entries DEF VolumeType
<1>7. \A d \in Cluster : fat[d] \in Cluster => v.fat[d] = fat[d]
  BY Entries
<1> HIDE DEF fat, log
<1>8. FreeChain(v, c) = [fat |-> fat, slot |-> v.slot, cursor |-> v.cursor, log |-> log]
  BY <1>1, <1>3 DEF VolumeType
<1>9. FreeChain(v, c) \in VolumeType
  BY <1>1, <1>5, <1>6, <1>8 DEF VolumeType
<1>10. Ordered(fat)
  BY <1>1, <1>7, FewerLinks
<1> QED
  BY <1>8, <1>9, <1>10 DEF Volumes, fat

-----------------------------------------------------------------------------
(* Scans of directories. *)

Spots == [cluster : Cluster, entry : Nat]

LEMMA LookOn ==
  ASSUME NEW v \in Volumes, NEW q \in Spots, NEW wanted
  PROVE  /\ Look(v, q, wanted) \in Looks
         /\ Look(v, q, wanted).st = "ok" => q \in wanted /\ Look(v, q, wanted).at = q
         /\ Look(v, q, wanted).st = "not_found" =>
              q \notin wanted /\ ReadDir(At(v, q)) = "end_of_dir" /\ Look(v, q, wanted).at = q
         /\ Look(v, q, wanted).st \in {"on", "error"} =>
              q \notin wanted /\ ReadDir(At(v, q)) # "end_of_dir"
         /\ Look(v, q, wanted).st = "on" =>
              \/ q.entry + 1 < N /\ Look(v, q, wanted).at = Place(q.cluster, q.entry + 1)
              \/ /\ q.entry + 1 >= N /\ NextCluster(v, q.cluster) # 0
                 /\ Look(v, q, wanted).at = Place(NextCluster(v, q.cluster), 0)
         /\ Look(v, q, wanted).st = "error" =>
              /\ q.entry + 1 >= N /\ NextCluster(v, q.cluster) = 0
              /\ Look(v, q, wanted).at = Place(q.cluster, q.entry + 1)
<1> DEFINE l == Look(v, q, wanted)
           next == NextDirEntry(v, q)
<1>1. q.cluster \in Cluster /\ q.entry \in Nat /\ N \in Nat
  BY OpsAssumption DEF Spots
<1>2. CASE q \in wanted
  <2>1. l = [st |-> "ok", at |-> q]
    BY <1>2 DEF Look
  <2> HIDE DEF l
  <2> QED
    BY <1>2, <2>1 DEF l, Looks, Spots
<1>3. CASE q \notin wanted /\ ReadDir(At(v, q)) = "end_of_dir"
  <2>1. l = [st |-> "not_found", at |-> q]
    BY <1>3 DEF Look
  <2> HIDE DEF l
  <2> QED
    BY <1>3, <2>1 DEF l, Looks, Spots
<1>4. CASE q \notin wanted /\ ReadDir(At(v, q)) # "end_of_dir"
  <2>1. l = Onto(next)
    BY <1>4 DEF Look
  <2>2. CASE q.entry + 1 < N
    <3>1. next = [st |-> "ok", at |-> Place(q.cluster, q.entry + 1)]
      BY <2>2 DEF NextDirEntry
    <3>2. l = [st |-> "on", at |-> Place(q.cluster, q.entry + 1)]
      BY <2>1, <3>1 DEF Onto
    <3> HIDE DEF l, next
    <3> QED
      BY <1>1, <1>4, <2>2, <3>2 DEF l, Looks, Place
  <2>3. CASE ~ (q.entry + 1 < N) /\ NextCluster(v, q.cluster) # 0
    <3>1. next = [st |-> "ok", at |-> Place(NextCluster(v, q.cluster), 0)]
      BY <2>3 DEF NextDirEntry
    <3>2. l = [st |-> "on", at |-> Place(NextCluster(v, q.cluster), 0)]
      BY <2>1, <3>1 DEF Onto
    <3>3. NextCluster(v, q.cluster) \in Cluster /\ q.entry + 1 >= N
      BY <1>1, <2>3, NextInChain
    <3> HIDE DEF l, next
    <3> QED
      BY <1>1, <1>4, <2>3, <3>2, <3>3 DEF l, Looks, Place
  <2>4. CASE ~ (q.entry + 1 < N) /\ NextCluster(v, q.cluster) = 0
    <3>1. next = [st |-> "error", at |-> Place(q.cluster, q.entry + 1)]
      BY <2>4 DEF NextDirEntry
    <3>2. l = [st |-> "error", at |-> Place(q.cluster, q.entry + 1)]
      BY <2>1, <3>1 DEF Onto
    <3>3. q.entry + 1 >= N
      BY <1>1, <2>4
    <3> HIDE DEF l, next
    <3> QED
      BY <1>1, <1>4, <2>4, <3>2, <3>3 DEF l, Looks, Place
  <2> QED
    BY <2>2, <2>3, <2>4
<1> QED
  BY <1>2, <1>3, <1>4

(* A scan of so many entries, from one of an entry less. *)
Scans(v, wanted, from) ==
  /\ \A l \in Looks : from[0][l] = l
  /\ \A n \in 1 .. D * N : \A l \in Looks :
       from[n][l] = IF l.st = "on" THEN from[n - 1][Look(v, l.at, wanted)] ELSE l
  /\ \A p \in Spots : Scan(v, p, wanted) = from[D * N][[st |-> "on", at |-> p]]

LEMMA ScanUnfolds ==
  ASSUME NEW v \in Volumes, NEW wanted
  PROVE  \E from \in [0 .. D * N -> [Looks -> Looks]] : Scans(v, wanted, from)
<1> DEFINE S == [Looks -> Looks]
           k == D * N
           With(g) == [l \in Looks |-> IF l.st = "on" THEN g[Look(v, l.at, wanted)] ELSE l]
           a == [l \in Looks |-> l]
           F == [n \in 1 .. k |-> [g \in S |-> With(g)]]
           W == Looks \X (0 .. k)
           from == CHOOSE f : f = [x \in W |-> IF x[1].st = "on" /\ x[2] > 0
                                               THEN f[<<Look(v, x[1].at, wanted), x[2] - 1>>]
                                               ELSE x[1]]
<1>1. k \in Nat
  BY OpsAssumption
<1>2. a \in S
  OBVIOUS
<1>3. \A p \in Spots : Scan(v, p, wanted) = from[<<[st |-> "on", at |-> p], k>>]
  BY Zenon DEF Scan
<1> HIDE DEF k
<1>4. \A l \in Looks : l.at \in Spots /\ (l.st = "on" => Look(v, l.at, wanted) \in Looks)
  BY LookOn DEF Looks, Spots
<1>5. ASSUME NEW g \in S PROVE With(g) \in S
  BY <1>4
<1> HIDE DEF With
<1>6. F \in [1 .. k -> [S -> S]]
  BY <1>5
<1>7. PICK f \in [0 .. k -> S] : f[0] = a /\ \A n \in 1 .. k : f[n] = F[n][f[n - 1]]
  <2> HIDE DEF F, S, a
  <2> QED
    BY ONLY <1>1, <1>2, <1>6, Recursion
<1>8. ASSUME NEW n \in 1 .. k PROVE f[n - 1] \in S /\ f[n] \in S /\ f[n] = With(f[n - 1])
  <2>1. n - 1 \in 0 .. k /\ n \in 0 .. k
    BY <1>1
  <2>2. f[n - 1] \in S /\ f[n] \in S
    BY <1>7, <2>1
  <2> QED
    BY <1>7, <2>2
<1>9. \A n \in 1 .. k : \A l \in Looks :
        f[n][l] = IF l.st = "on" THEN f[n - 1][Look(v, l.at, wanted)] ELSE l
  <2> SUFFICES ASSUME NEW n \in 1 .. k, NEW l \in Looks
               PROVE  f[n][l] = IF l.st = "on" THEN f[n - 1][Look(v, l.at, wanted)] ELSE l
    OBVIOUS
  <2>1. f[n] = [m \in Looks |-> IF m.st = "on" THEN f[n - 1][Look(v, m.at, wanted)] ELSE m]
    BY <1>8 DEF With
  <2> QED
    BY ONLY <2>1, l \in Looks
<1>10. \A l \in Looks : f[0][l] = l
  BY <1>7
<1> HIDE DEF F, S, a
<1> DEFINE h == [x \in W |-> f[x[2]][x[1]]]
<1>11. h = [x \in W |-> IF x[1].st = "on" /\ x[2] > 0
                        THEN h[<<Look(v, x[1].at, wanted), x[2] - 1>>] ELSE x[1]]
  <2> SUFFICES ASSUME NEW x \in W
               PROVE  f[x[2]][x[1]] = IF x[1].st = "on" /\ x[2] > 0
                                      THEN h[<<Look(v, x[1].at, wanted), x[2] - 1>>] ELSE x[1]
    BY Zenon
  <2>1. x[1] \in Looks /\ x[2] \in 0 .. k
    OBVIOUS
  <2>2. ASSUME x[1].st = "on", x[2] > 0
        PROVE  h[<<Look(v, x[1].at, wanted), x[2] - 1>>] = f[x[2] - 1][Look(v, x[1].at, wanted)]
    <3>1. Look(v, x[1].at, wanted) \in Looks /\ x[2] - 1 \in 0 .. k
      BY <1>1, <1>4, <2>1, <2>2
    <3> QED
      BY <3>1
  <2>3. CASE x[2] = 0
    BY <1>10, <2>1, <2>3
  <2>4. CASE x[2] > 0
    <3>1. x[2] \in 1 .. k
      BY <2>1, <2>4
    <3> QED
      BY <1>9, <2>1, <2>2, <2>4, <3>1
  <2> QED
    BY <1>1, <2>1, <2>3, <2>4
<1> HIDE DEF h
<1>12. from = [x \in W |-> IF x[1].st = "on" /\ x[2] > 0
                           THEN from[<<Look(v, x[1].at, wanted), x[2] - 1>>] ELSE x[1]]
  BY <1>11, Zenon
<1> HIDE DEF from
<1> DEFINE g == [n \in 0 .. k |-> [l \in Looks |-> from[<<l, n>>]]]
<1>13. ASSUME NEW n \in 0 .. k, NEW l \in Looks
       PROVE  from[<<l, n>>] = IF l.st = "on" /\ n > 0
                               THEN from[<<Look(v, l.at, wanted), n - 1>>] ELSE l
  <2> DEFINE x == <<l, n>>
  <2>1. x \in W /\ x[1] = l /\ x[2] = n
    OBVIOUS
  <2>2. from[x] = IF x[1].st = "on" /\ x[2] > 0
                  THEN from[<<Look(v, x[1].at, wanted), x[2] - 1>>] ELSE x[1]
    <3> HIDE DEF x, W
    <3> QED
      BY <1>12, <2>1, Zenon
  <2> QED
    BY <2>1, <2>2
<1>14. ASSUME NEW n \in 1 .. k, NEW l \in Looks
       PROVE  g[n][l] = IF l.st = "on" THEN g[n - 1][Look(v, l.at, wanted)] ELSE l
  <2>1. n \in 0 .. k /\ n - 1 \in 0 .. k /\ n > 0
    BY <1>1
  <2>2. g[n][l] = from[<<l, n>>]
    BY <2>1
  <2>3. l.st = "on" => g[n - 1][Look(v, l.at, wanted)] = from[<<Look(v, l.at, wanted), n - 1>>]
    BY <1>4, <2>1
  <2> HIDE DEF g
  <2> QED
    BY <1>13, <2>1, <2>2, <2>3
<1>15. \A l \in Looks : g[0][l] = l
  <2> SUFFICES ASSUME NEW l \in Looks PROVE g[0][l] = l
    OBVIOUS
  <2>1. 0 \in 0 .. k
    BY <1>1
  <2>2. g[0][l] = from[<<l, 0>>]
    BY <2>1
  <2>3. from[<<l, 0>>] = IF l.st = "on" /\ 0 > 0
                         THEN from[<<Look(v, l.at, wanted), 0 - 1>>] ELSE l
    BY ONLY <1>13, <2>1, l \in Looks
  <2> QED
    BY ONLY <2>2, <2>3
<1>16. g \in [0 .. k -> [Looks -> Looks]]
  <2> DEFINE T == {n \in Nat : n <= k => g[n] \in [Looks -> Looks]}
  <2>1. 0 \in T
    <3>1. 0 \in 0 .. k
      BY <1>1
    <3>2. g[0] = [l \in Looks |-> from[<<l, 0>>]]
      BY <3>1
    <3> HIDE DEF g
    <3>3. \A l \in Looks : from[<<l, 0>>] = l
      BY <1>15, <3>2
    <3> QED
      BY <3>2, <3>3
  <2>2. ASSUME NEW n \in Nat, n \in T PROVE n + 1 \in T
    <3> SUFFICES ASSUME n + 1 <= k PROVE g[n + 1] \in [Looks -> Looks]
      OBVIOUS
    <3>1. n + 1 \in 1 .. k /\ (n + 1) - 1 = n /\ n + 1 \in 0 .. k
      BY <1>1
    <3>2. g[n + 1] = [l \in Looks |-> from[<<l, n + 1>>]]
      BY <3>1
    <3>3. g[n] \in [Looks -> Looks]
      BY <1>1, <2>2, <3>1
    <3> HIDE DEF g
    <3>4. ASSUME NEW l \in Looks PROVE g[n + 1][l] \in Looks
      <4>1. g[n + 1][l] = IF l.st = "on" THEN g[n][Look(v, l.at, wanted)] ELSE l
        BY ONLY <1>14, <3>1, l \in Looks
      <4> QED
        BY <1>4, <3>3, <4>1
    <3> QED
      BY <3>2, <3>4
  <2>3. Nat \subseteq T
    <3> HIDE DEF T
    <3> QED
      BY <2>1, <2>2, CountUp
  <2>4. ASSUME NEW n \in 0 .. k PROVE g[n] \in [Looks -> Looks]
    <3>1. n \in Nat /\ n <= k
      BY <1>1
    <3>2. n \in T
      BY <2>3, <3>1
    <3> HIDE DEF g
    <3> QED
      BY <3>1, <3>2
  <2> HIDE DEF T
  <2>5. g = [n \in 0 .. k |-> g[n]]
    OBVIOUS
  <2> HIDE DEF g
  <2> QED
    BY <2>4, <2>5
<1>17. \A p \in Spots : Scan(v, p, wanted) = g[k][[st |-> "on", at |-> p]]
  <2> SUFFICES ASSUME NEW p \in Spots PROVE Scan(v, p, wanted) = g[k][[st |-> "on", at |-> p]]
    OBVIOUS
  <2>1. [st |-> "on", at |-> p] \in Looks /\ k \in 0 .. k
    BY <1>1 DEF Looks, Spots
  <2> QED
    BY <1>3, <2>1
<1> HIDE DEF g
<1> QED
  BY <1>14, <1>15, <1>16, <1>17 DEF k, Scans

LEMMA Multiples ==
  ASSUME NEW a \in Nat, NEW b \in Nat, NEW n \in Nat, a < b
  PROVE  a * n \in Nat /\ b * n \in Nat /\ a * n + n <= b * n
<1> DEFINE d == b - a - 1
<1>1. d \in Nat /\ b = a + 1 + d
  OBVIOUS
<1> HIDE DEF d
<1>2. b * n = a * n + n + d * n /\ d * n >= 0
  BY <1>1
<1> QED
  BY <1>2

(* What a scan comes to: a place that is wanted, the end of a directory, or *)
(* the end of a chain.  It is over, since no chain is a cycle.              *)
ScanOutcome(v, wanted, m, r) ==
  /\ r \in Looks
  /\ r.st \in {"ok", "not_found", "error"}
  /\ r.st = "ok" => r.at \in wanted
  /\ r.st = "not_found" => r.at.entry \in 0 .. m /\ ReadDir(At(v, r.at)) = "end_of_dir"
  /\ r.st = "error" => r.at.entry \in N .. m + 1 /\ NextCluster(v, r.at.cluster) = 0

LEMMA ScanEnds ==
  ASSUME NEW v \in Volumes, NEW wanted, NEW m \in {N - 1, N},
         NEW p \in [cluster : Cluster, entry : 0 .. m]
  PROVE  ScanOutcome(v, wanted, m, Scan(v, p, wanted))
<1>1. PICK from \in [0 .. D * N -> [Looks -> Looks]] : Scans(v, wanted, from)
  BY ScanUnfolds
<1>2. PICK rank \in [Cluster -> 0 .. D - 1] :
        \A c \in Cluster : v.fat[c] \in Cluster => rank[v.fat[c]] < rank[c]
  BY DEF Volumes, Ordered
<1>3. D \in Nat /\ N \in Nat /\ N > 1 /\ m \in Nat /\ m >= N - 1 /\ m <= N
  BY OpsAssumption
<1> DEFINE k == D * N
           left(q) == (rank[q.cluster] * N) + (IF q.entry = N THEN 1 ELSE N - q.entry)
           Good(l, n) ==
             IF l.st = "on"
             THEN l.at \in [cluster : Cluster, entry : 0 .. m] /\ left(l.at) <= n
             ELSE ScanOutcome(v, wanted, m, l)
           T == {n \in Nat : n <= k => \A l \in Looks :
                   Good(l, n) => ScanOutcome(v, wanted, m, from[n][l])}
<1>4. k \in Nat
  BY <1>3
<1>5. \A c \in Cluster : rank[c] \in Nat /\ rank[c] <= D - 1
  BY <1>2, <1>3
<1>6. \A q \in [cluster : Cluster, entry : 0 .. m] : left(q) \in Nat /\ left(q) >= 1
  <2> SUFFICES ASSUME NEW q \in [cluster : Cluster, entry : 0 .. m]
               PROVE  left(q) \in Nat /\ left(q) >= 1
    OBVIOUS
  <2>1. q.entry \in 0 .. m /\ rank[q.cluster] \in Nat
    BY <1>5
  <2> DEFINE x == rank[q.cluster] * N
             y == IF q.entry = N THEN 1 ELSE N - q.entry
  <2>2. x \in Nat
    BY <1>3, <2>1
  <2>3. y \in Nat /\ y >= 1
    BY <1>3, <2>1
  <2>4. left(q) = x + y
    OBVIOUS
  <2> HIDE DEF x, y, left
  <2> QED
    BY <2>2, <2>3, <2>4
<1>7. 0 \in T
  <2> SUFFICES ASSUME NEW l \in Looks, Good(l, 0) PROVE ScanOutcome(v, wanted, m, from[0][l])
    OBVIOUS
  <2>1. l.st # "on"
    BY <1>6
  <2>2. from[0][l] = l
    BY <1>1 DEF Scans
  <2> QED
    BY <2>1, <2>2
<1>8. ASSUME NEW n \in Nat, n \in T PROVE n + 1 \in T
  <2> SUFFICES ASSUME n + 1 <= k, NEW l \in Looks, Good(l, n + 1)
               PROVE  ScanOutcome(v, wanted, m, from[n + 1][l])
    OBVIOUS
  <2>1. n + 1 \in 1 .. k /\ (n + 1) - 1 = n /\ n <= k
    BY <1>4
  <2>2. from[n + 1][l] = IF l.st = "on" THEN from[n][Look(v, l.at, wanted)] ELSE l
    BY ONLY <1>1, <2>1, l \in Looks DEF k, Scans
  <2>3. CASE l.st # "on"
    BY <2>2, <2>3
  <2>4. CASE l.st = "on"
    <3> DEFINE q == l.at
               r == Look(v, q, wanted)
    <3>1. q \in [cluster : Cluster, entry : 0 .. m] /\ left(q) <= n + 1
      BY <2>4
    <3>2. q \in Spots /\ q.cluster \in Cluster /\ q.entry \in 0 .. m
      BY <1>3, <3>1 DEF Spots
    <3> HIDE DEF q
    <3>3. /\ r \in Looks
          /\ r.st = "ok" => q \in wanted /\ r.at = q
          /\ r.st = "not_found" => ReadDir(At(v, q)) = "end_of_dir" /\ r.at = q
          /\ r.st = "on" =>
               \/ q.entry + 1 < N /\ r.at = Place(q.cluster, q.entry + 1)
               \/ /\ q.entry + 1 >= N /\ NextCluster(v, q.cluster) # 0
                  /\ r.at = Place(NextCluster(v, q.cluster), 0)
          /\ r.st = "error" =>
               /\ q.entry + 1 >= N /\ NextCluster(v, q.cluster) = 0
               /\ r.at = Place(q.cluster, q.entry + 1)
      BY <3>2, LookOn
    <3> HIDE DEF r, T, Good, left
    <3>4. Good(r, n)
      <4>1. CASE r.st = "ok"
        BY <3>3, <4>1 DEF Good, ScanOutcome
      <4>2. CASE r.st = "not_found"
        BY <3>2, <3>3, <4>2 DEF Good, ScanOutcome
      <4>3. CASE r.st = "error"
        <5>1. r.at.entry = q.entry + 1 /\ r.at.cluster = q.cluster
          BY <3>3, <4>3 DEF Place
        <5>2. q.entry + 1 \in N .. m + 1
          BY <1>3, <3>2, <3>3, <4>3
        <5> QED
          BY <3>3, <4>3, <5>1, <5>2 DEF Good, ScanOutcome
      <4>4. CASE r.st = "on" /\ q.entry + 1 < N
        <5>1. r.at = Place(q.cluster, q.entry + 1)
          BY <3>3, <4>4, <3>2, <1>3
        <5>2. q.entry + 1 \in 0 .. m /\ q.entry # N /\ q.entry + 1 # N
          BY <1>3, <3>2, <4>4
        <5>3. r.at \in [cluster : Cluster, entry : 0 .. m]
          BY <3>2, <5>1, <5>2 DEF Place
        <5>4. left(q) = rank[q.cluster] * N + (N - q.entry)
          BY <5>2 DEF left
        <5>5. left(r.at) = rank[q.cluster] * N + (N - (q.entry + 1))
          BY <5>1, <5>2 DEF left, Place
        <5>6. rank[q.cluster] * N \in Nat
          BY <1>3, <1>5, <3>2
        <5>7. left(r.at) <= n
          BY <1>3, <3>1, <3>2, <5>4, <5>5, <5>6
        <5> QED
          BY <4>4, <5>3, <5>7 DEF Good
      <4>5. CASE r.st = "on" /\ ~ (q.entry + 1 < N)
        <5> DEFINE c == NextCluster(v, q.cluster)
        <5>1. c # 0 /\ r.at = Place(c, 0)
          BY <3>3, <4>5
        <5>2. c \in Cluster /\ v.fat[q.cluster] = c
          BY <3>2, <5>1, NextInChain
        <5> HIDE DEF c
        <5>3. rank[c] < rank[q.cluster] /\ rank[c] \in Nat /\ rank[q.cluster] \in Nat
          BY <1>2, <1>5, <3>2, <5>2
        <5>4. /\ rank[c] * N \in Nat /\ rank[q.cluster] * N \in Nat
              /\ rank[c] * N + N <= rank[q.cluster] * N
          BY <1>3, <5>3, Multiples
        <5>5. r.at \in [cluster : Cluster, entry : 0 .. m] /\ r.at.cluster = c /\ r.at.entry = 0
          BY <1>3, <5>1, <5>2 DEF Place
        <5>6. left(r.at) = rank[c] * N + N
          BY <1>3, <5>5 DEF left
        <5>7. left(q) >= rank[q.cluster] * N + 1
          <6> DEFINE x == rank[q.cluster] * N
                     y == IF q.entry = N THEN 1 ELSE N - q.entry
          <6>1. y \in Nat /\ y >= 1
            BY <1>3, <3>2
          <6>2. left(q) = x + y /\ x \in Nat
            BY <5>4 DEF left
          <6> HIDE DEF x, y
          <6>3. left(q) >= x + 1
            BY <6>1, <6>2
          <6> QED
            BY <6>3 DEF x
        <5>8. left(r.at) <= n
          <6> DEFINE x == rank[c] * N
                     y == rank[q.cluster] * N
                     z == left(q)
          <6>1. left(r.at) = x + N /\ x + N <= y /\ z >= y + 1 /\ z <= n + 1 /\ x \in Nat /\ y \in Nat /\ z \in Nat
            BY <1>6, <3>1, <5>4, <5>6, <5>7
          <6> HIDE DEF x, y, z
          <6> QED
            BY <1>3, <6>1
        <5> QED
          BY <4>5, <5>5, <5>8 DEF Good
      <4>6. r.st \in {"on", "ok", "not_found", "error"}
        BY <3>3 DEF Looks
      <4> QED
        BY <4>1, <4>2, <4>3, <4>4, <4>5, <4>6
    <3>5. ScanOutcome(v, wanted, m, from[n][r])
      BY <1>8, <2>1, <3>3, <3>4 DEF T
    <3> QED
      BY <2>2, <2>4, <3>5 DEF r, q
  <2> QED
    BY <2>3, <2>4
<1>9. k \in T
  <2> HIDE DEF T
  <2> QED
    BY <1>4, <1>7, <1>8, CountUp
<1> DEFINE l == [st |-> "on", at |-> p]
<1>10. l \in Looks /\ p \in Spots /\ l.st = "on" /\ l.at = p
  BY <1>3 DEF Looks, Spots
<1>11. left(p) <= k
  <2>1. p.cluster \in Cluster /\ p.entry \in 0 .. m
    OBVIOUS
  <2>2. rank[p.cluster] \in Nat /\ rank[p.cluster] < D
    BY <1>3, <1>5, <2>1
  <2>3. rank[p.cluster] * N \in Nat /\ rank[p.cluster] * N + N <= D * N
    BY <1>3, <2>2, Multiples
  <2>4. left(p) <= rank[p.cluster] * N + N
    BY <1>3, <2>1, <2>3
  <2>5. left(p) \in Nat
    BY <1>6
  <2> DEFINE x == rank[p.cluster] * N
             z == left(p)
  <2>6. x \in Nat /\ x + N <= k /\ z <= x + N /\ z \in Nat
    BY <2>3, <2>4, <2>5
  <2> HIDE DEF x, z, k
  <2>7. z <= k
    BY <1>3, <1>4, <2>6
  <2> QED
    BY <2>7 DEF z
<1> HIDE DEF l
<1>12. Good(l, k)
  BY <1>10, <1>11
<1>13. ScanOutcome(v, wanted, m, from[k][l])
  <2> HIDE DEF Good, k
  <2> QED
    BY <1>4, <1>9, <1>10, <1>12
<1>14. Scan(v, p, wanted) = from[k][l]
  BY ONLY <1>1, <1>10 DEF k, l, Scans
<1> QED
  BY <1>13, <1>14

-----------------------------------------------------------------------------
(* Lookups. *)

(* Places an entry may be written at: the one past a cluster's last is the  *)
(* first of what follows the cluster on the device.                         *)
Writable == [cluster : Cluster, entry : 0 .. N]

LEMMA BlockAt ==
  ASSUME NEW v \in Volumes, NEW p \in Writable
  PROVE  /\ At(v, p) \in Block
         /\ p \in Places => At(v, p) = v.slot[p.cluster][p.entry]
<1>1. p.cluster \in 1 .. D /\ p.entry \in 0 .. N /\ D \in Nat /\ N \in Nat
  BY OpsAssumption DEF Cluster, Writable
<1>2. /\ p.entry \div N \in 0 .. 1 /\ p.entry % N \in 0 .. N - 1
      /\ p.entry < N => p.entry \div N = 0 /\ p.entry % N = p.entry
  BY <1>1, EntryInCluster
<1>3. p.cluster + (p.entry \div N) \in 1 .. D + 1
  BY <1>1, <1>2
<1>4. v.slot \in Slots
  BY DEF Volumes, VolumeType
<1>5. At(v, p) \in Block
  BY <1>2, <1>3, <1>4 DEF At, Slots
<1>6. ASSUME p \in Places PROVE At(v, p) = v.slot[p.cluster][p.entry]
  <2>1. p.entry < N
    BY <1>1, <1>6 DEF Places
  <2>2. p.entry \div N = 0 /\ p.entry % N = p.entry
    BY <1>2, <2>1
  <2>3. At(v, p) = v.slot[p.cluster + 0][p.entry]
    BY ONLY <2>2 DEF At
  <2> QED
    BY <1>1, <2>3
<1> QED
  BY <1>5, <1>6

LEMMA PlacesAreWritable == Places \subseteq Writable
BY OpsAssumption DEF Places, Writable

LEMMA LiveAt ==
  ASSUME NEW v \in Volumes, NEW q \in Places, At(v, q).kind = "live"
  PROVE  /\ At(v, q) \in Block
         /\ At(v, q).name \in Name /\ At(v, q).isDir \in BOOLEAN
         /\ At(v, q).first \in Cluster \ {Root} /\ At(v, q).size \in FileSize
         /\ At(v, q) = Dirent(At(v, q).name, At(v, q).isDir, At(v, q).first, At(v, q).size)
BY BlockAt, PlacesAreWritable, Blocks

LEMMA Starts ==
  /\ Root \in Cluster
  /\ \A c \in Cluster : Place(c, 0) \in [cluster : Cluster, entry : 0 .. N - 1]
  /\ \A c \in Cluster : Place(c, 0) \in Writable /\ Place(c, 0) \in Places
BY OpsAssumption DEF Root, Cluster, Place, Writable, Places

(* A directory that is opened is at its first entry, or past the end of a   *)
(* root that has no end marker.                                             *)
LEMMA Opened ==
  ASSUME NEW v \in Volumes, NEW path
  PROVE  /\ OpenDir(v, path).st \in {"ok", "not_found"}
         /\ OpenDir(v, path).at \in Writable
<1> DEFINE wanted == {q \in Named(v, path[1]) : At(v, q).isDir}
           s == Scan(v, Place(Root, 0), wanted)
           m == N - 1
<1>1. CASE path = <<>>
  BY <1>1, Starts DEF OpenDir
<1>2. CASE path # <<>>
  <2>1. OpenDir(v, path) = Enter(v, s)
    BY <1>2 DEF OpenDir
  <2>2. ScanOutcome(v, wanted, m, s)
    <3> HIDE DEF wanted
    <3>1. Place(Root, 0) \in [cluster : Cluster, entry : 0 .. m] /\ m \in {N - 1, N}
      BY Starts
    <3> HIDE DEF m
    <3> QED
      BY <3>1, ScanEnds DEF m
  <2>3. s \in Looks /\ s.st \in {"ok", "not_found", "error"}
    BY <2>2 DEF ScanOutcome
  <2>4. CASE s.st = "ok"
    <3>1. s.at \in Places /\ At(v, s.at).kind = "live"
      BY <2>2, <2>4 DEF ScanOutcome, Named
    <3>2. At(v, s.at).first \in Cluster
      BY <3>1, LiveAt
    <3>3. OpenDir(v, path) = [st |-> "ok", at |-> Place(At(v, s.at).first, 0)]
      BY <2>1, <2>4 DEF Enter
    <3> QED
      BY <3>2, <3>3, Starts
  <2>5. CASE s.st = "not_found"
    <3>1. OpenDir(v, path) = s
      BY <2>1, <2>5 DEF Enter
    <3>2. s.at.entry \in 0 .. N
      BY <2>2, <2>5, OpsAssumption DEF ScanOutcome
    <3> HIDE DEF s
    <3> QED
      BY <2>3, <2>5, <3>1, <3>2 DEF Looks, Writable
  <2>6. CASE s.st = "error"
    <3>1. OpenDir(v, path) = [s EXCEPT !.st = "ok"]
      BY <2>1, <2>6 DEF Enter
    <3>2. s.at.entry \in 0 .. N
      BY <2>2, <2>6, OpsAssumption DEF ScanOutcome
    <3> HIDE DEF s
    <3> QED
      BY <2>3, <2>6, <3>1, <3>2 DEF Looks, Writable
  <2> QED
    BY <2>3, <2>4, <2>5, <2>6
<1> QED
  BY <1>1, <1>2

LEMMA Located ==
  ASSUME NEW v \in Volumes, NEW path
  PROVE  /\ Locate(v, path).st \in {"ok", "not_found", "error"}
         /\ Locate(v, path).st = "ok" =>
              /\ Locate(v, path).at \in Places
              /\ At(v, Locate(v, path).at).kind = "live"
              /\ At(v, Locate(v, path).at).name = Basename(path)
<1> DEFINE d == OpenDir(v, Dirname(path))
           wanted == Named(v, Basename(path))
<1>1. d.st \in {"ok", "not_found"} /\ d.at \in Writable
  BY Opened
<1>2. Locate(v, path) = IF d.st # "ok" THEN d ELSE Scan(v, d.at, wanted)
  BY DEF Locate
<1> HIDE DEF d
<1>3. CASE d.st # "ok"
  BY <1>1, <1>2, <1>3
<1>4. CASE d.st = "ok"
  <2> HIDE DEF wanted
  <2> DEFINE m == N
  <2>1. d.at \in [cluster : Cluster, entry : 0 .. m] /\ m \in {N - 1, N}
    BY <1>1 DEF Writable
  <2> HIDE DEF m
  <2>2. ScanOutcome(v, wanted, m, Scan(v, d.at, wanted))
    BY <2>1, ScanEnds
  <2> QED
    BY <1>2, <1>4, <2>2 DEF ScanOutcome, wanted, Named
<1> QED
  BY <1>3, <1>4

LEMMA Got ==
  ASSUME NEW v \in Volumes, NEW path
  PROVE  /\ GetAttr(v, path).st = Locate(v, path).st
         /\ GetAttr(v, path).st = "ok" =>
              /\ GetAttr(v, path).attr = At(v, Locate(v, path).at)
              /\ GetAttr(v, path).attr \in Block
              /\ GetAttr(v, path).attr.kind = "live"
              /\ GetAttr(v, path).attr.first \in Cluster \ {Root}
<1> DEFINE l == Locate(v, path)
<1>1. l.st = "ok" => l.at \in Places /\ At(v, l.at).kind = "live"
  BY Located
<1>2. GetAttr(v, path) = IF l.st = "ok" THEN [st |-> "ok", attr |-> At(v, l.at)] ELSE [st |-> l.st]
  BY DEF GetAttr
<1> HIDE DEF l
<1>3. CASE l.st = "ok"
  <2>1. GetAttr(v, path).st = "ok" /\ GetAttr(v, path).attr = At(v, l.at)
    BY <1>2, <1>3
  <2> QED
    BY <1>1, <1>3, <2>1, LiveAt DEF l
<1>4. CASE l.st # "ok"
  BY <1>2, <1>4 DEF l
<1> QED
  BY <1>3, <1>4

LEMMA Changed ==
  ASSUME NEW b \in Block, b.kind = "live"
  PROVE  /\ \A s \in FileSize : [b EXCEPT !.size = s] \in Block
         /\ \A n \in Name : [b EXCEPT !.name = n] \in Block
<1>1. /\ b.name \in Name /\ b.isDir \in BOOLEAN
      /\ b.first \in Cluster \ {Root} /\ b.size \in FileSize
      /\ b = Dirent(b.name, b.isDir, b.first, b.size)
  BY Blocks
<1>2. ASSUME NEW s \in FileSize PROVE [b EXCEPT !.size = s] \in Block
  <2>1. [b EXCEPT !.size = s] = Dirent(b.name, b.isDir, b.first, s)
    BY <1>1 DEF Dirent
  <2> QED
    BY <1>1, <2>1, Blocks
<1>3. ASSUME NEW n \in Name PROVE [b EXCEPT !.name = n] \in Block
  <2>1. [b EXCEPT !.name = n] = Dirent(n, b.isDir, b.first, b.size)
    BY <1>1 DEF Dirent
  <2> QED
    BY <1>1, <2>1, Blocks
<1> QED
  BY <1>2, <1>3

LEMMA AttrSet ==
  ASSUME NEW v \in Volumes, NEW path, NEW attr \in Block
  PROVE  SetAttr(v, path, attr).v \in Volumes
<1> DEFINE l == Locate(v, path)
<1>1. l.st = "ok" => l.at \in Writable
  BY Located, PlacesAreWritable
<1>2. SetAttr(v, path, attr) =
        IF l.st = "ok" THEN [st |-> "ok", v |-> Put(v, l.at, attr)] ELSE [st |-> l.st, v |-> v]
  BY DEF SetAttr
<1> HIDE DEF l
<1>3. l.st = "ok" => Put(v, l.at, attr) \in Volumes
  BY <1>1, BlockPut DEF Writable
<1> QED
  BY <1>2, <1>3

-----------------------------------------------------------------------------
(* Nodes are made and removed. *)

LEMMA DirEntryAllocated ==
  ASSUME NEW v \in Volumes, NEW p, p.cluster \in Cluster
  PROVE  /\ AllocDirEntry(v, p).st \in {"ok", "error"}
         /\ AllocDirEntry(v, p).v \in Volumes
         /\ AllocDirEntry(v, p).at \in Writable
<1> DEFINE wanted == {q \in Places : At(v, q).kind = "deleted"}
           s == Scan(v, Place(p.cluster, 0), wanted)
           m == N - 1
<1>1. AllocDirEntry(v, p) = TakeDirEntry(v, s)
  BY DEF AllocDirEntry
<1>2. ScanOutcome(v, wanted, m, s)
  <2>1. Place(p.cluster, 0) \in [cluster : Cluster, entry : 0 .. m] /\ m \in {N - 1, N}
    BY Starts
  <2> HIDE DEF wanted, m
  <2>2. ScanOutcome(v, wanted, m, Scan(v, Place(p.cluster, 0), wanted))
    BY <2>1, ScanEnds DEF m
  <2> QED
    BY <2>2
<1>3. s \in Looks /\ s.st \in {"ok", "not_found", "error"} /\ s.at.cluster \in Cluster
  BY <1>2 DEF ScanOutcome, Looks
<1>4. N \in Nat
  BY OpsAssumption
<1> HIDE DEF s
<1>5. CASE s.st = "ok"
  <2>1. s.at \in Places
    BY <1>2, <1>5 DEF ScanOutcome
  <2>2. TakeDirEntry(v, s) = [st |-> "ok", v |-> v, at |-> s.at]
    BY <1>5 DEF TakeDirEntry
  <2> QED
    BY <1>1, <2>1, <2>2, PlacesAreWritable
<1>6. CASE s.st = "not_found"
  <2>1. s.at.entry \in 0 .. m
    BY <1>2, <1>6 DEF ScanOutcome
  <2>2. s.at \in Writable /\ Place(s.at.cluster, s.at.entry + 1) \in Writable
    BY <1>3, <1>4, <2>1 DEF Writable, Place, Looks
  <2>3. TakeDirEntry(v, s) =
          [st |-> "ok", v |-> Put(v, Place(s.at.cluster, s.at.entry + 1), EndMark), at |-> s.at]
    BY <1>6 DEF TakeDirEntry
  <2>4. Put(v, Place(s.at.cluster, s.at.entry + 1), EndMark) \in Volumes
    BY <2>2, BlockPut, Blocks DEF Writable
  <2> QED
    BY <1>1, <2>2, <2>3, <2>4
<1>7. CASE s.st = "error"
  <2> DEFINE x == Extend(v, s.at.cluster, TRUE)
  <2>1. s.at.entry \in 0 .. N
    BY <1>2, <1>4, <1>7 DEF ScanOutcome
  <2>2. x \in Step
    BY <1>3, Extended
  <2>3. TakeDirEntry(v, s) = GrowDir(x, s.at)
    BY <1>7 DEF TakeDirEntry
  <2> HIDE DEF x
  <2>4. s.at \in Writable
    BY <1>3, <2>1 DEF Writable, Looks
  <2>5. x.v \in Volumes /\ x.st \in {"ok", "error"} /\ (x.st = "ok" => x.cluster \in Cluster)
    BY <2>2 DEF Step
  <2>6. CASE x.st # "ok"
    <3>1. GrowDir(x, s.at) = [st |-> x.st, v |-> x.v, at |-> s.at]
      BY <2>6 DEF GrowDir
    <3> QED
      BY <1>1, <2>3, <2>4, <2>5, <3>1
  <2>7. CASE x.st = "ok"
    <3>1. GrowDir(x, s.at) = [st |-> "ok", v |-> Put(x.v, Place(x.cluster, 0), EndMark), at |-> s.at]
      BY <2>7 DEF GrowDir
    <3>2. Put(x.v, Place(x.cluster, 0), EndMark) \in Volumes
      BY <2>5, <2>7, Starts, BlockPut, Blocks DEF Writable
    <3> QED
      BY <1>1, <2>3, <2>4, <3>1, <3>2
  <2> QED
    BY <2>6, <2>7
<1> QED
  BY <1>3, <1>5, <1>6, <1>7

LEMMA BasenameIsName == ASSUME NEW path \in Path PROVE Basename(path) \in Name
<1>1. path \in {<<n>> : n \in Name} \cup {<<m, n>> : m, n \in Name}
  BY VolumeAssumption
<1>2. CASE \E n \in Name : path = <<n>>
  BY <1>2 DEF Basename
<1>3. CASE \E m, n \in Name : path = <<m, n>>
  BY <1>3 DEF Basename
<1> QED
  BY <1>1, <1>2, <1>3

LEMMA DirentCreated ==
  ASSUME NEW v \in Volumes, NEW path \in Path, NEW dir, dir.cluster \in Cluster,
         NEW isDir \in BOOLEAN
  PROVE  CreateDirent(v, path, dir, isDir).v \in Volumes
<1> DEFINE a == AllocCluster(v, TRUE)
           e == AllocDirEntry(a.v, dir)
           f == FillDirEntry(e, Basename(path), isDir, a.cluster)
           b == Dirent(Basename(path), isDir, a.cluster, 0)
<1>1. a.v \in Volumes /\ (a.st = "ok" => a.cluster \in 2 .. D)
  BY Allocated
<1>2. CASE a.st # "ok"
  <2>1. CreateDirent(v, path, dir, isDir) = [st |-> a.st, v |-> v]
    BY <1>2 DEF CreateDirent
  <2> QED
    BY <2>1
<1>3. CASE a.st = "ok"
  <2>1. CreateDirent(v, path, dir, isDir) = f
    BY <1>3 DEF CreateDirent
  <2> HIDE DEF a
  <2>2. a.cluster \in Cluster \ {Root}
    BY <1>1, <1>3, OpsAssumption DEF Cluster, Root
  <2>3. e.st \in {"ok", "error"} /\ e.v \in Volumes /\ e.at \in Writable
    BY <1>1, DirEntryAllocated
  <2> HIDE DEF e
  <2>4. b \in Block
    BY <2>2, BasenameIsName, Blocks DEF FileSize
  <2>5. FreeChain(e.v, a.cluster) \in Volumes
    BY <2>2, <2>3, ChainFreed
  <2> HIDE DEF b
  <2>6. Put(e.v, e.at, b) \in Volumes
    BY <2>3, <2>4, BlockPut DEF Writable
  <2>7. f = IF e.st # "ok" THEN [st |-> e.st, v |-> FreeChain(e.v, a.cluster)]
            ELSE [st |-> "ok", v |-> Put(e.v, e.at, b)]
    BY DEF FillDirEntry, b
  <2> HIDE DEF f
  <2> QED
    BY <2>1, <2>5, <2>6, <2>7
<1> QED
  BY <1>2, <1>3

LEMMA Created ==
  ASSUME NEW v \in Volumes, NEW path \in Path, NEW isDir \in BOOLEAN
  PROVE  Create(v, path, isDir).v \in Volumes
<1> DEFINE d == OpenDir(v, Dirname(path))
           c == CreateDirent(v, path, d.at, isDir)
<1>1. d.at.cluster \in Cluster
  BY Opened DEF Writable
<1>2. c.v \in Volumes
  BY <1>1, DirentCreated
<1>3. Create(v, path, isDir) = IF GetAttr(v, path).st = "ok" THEN [st |-> "error", v |-> v]
                               ELSE IF d.st # "ok" THEN [st |-> d.st, v |-> v] ELSE c
  BY DEF Create
<1> HIDE DEF c, d
<1> QED
  BY <1>2, <1>3

LEMMA Mkdired ==
  ASSUME NEW v \in Volumes, NEW path \in Path
  PROVE  Mkdir(v, path).v \in Volumes
<1> DEFINE c == Create(v, path, TRUE)
           d == OpenDir(c.v, path)
<1>1. c.v \in Volumes
  BY Created
<1>2. Mkdir(v, path) = IF c.st # "ok" THEN c ELSE MarkEmpty(c.v, d)
  BY DEF Mkdir
<1> HIDE DEF c
<1>3. d.at \in Writable
  BY <1>1, Opened
<1> HIDE DEF d
<1>4. Put(c.v, d.at, EndMark) \in Volumes
  BY <1>1, <1>3, BlockPut, Blocks DEF Writable
<1>5. MarkEmpty(c.v, d).v \in Volumes
  BY <1>1, <1>4 DEF MarkEmpty
<1> QED
  BY <1>1, <1>2, <1>5

LEMMA Unlinked ==
  ASSUME NEW v \in Volumes, NEW path
  PROVE  Unlink(v, path).v \in Volumes
<1> DEFINE l == Locate(v, path)
           c == At(v, l.at).first
           w == FreeChain(v, c)
<1>1. Unlink(v, path) = IF l.st # "ok" THEN [st |-> l.st, v |-> v]
                        ELSE [st |-> "ok", v |-> Put(w, l.at, DeletedMark)]
  BY DEF Unlink
<1>2. CASE l.st # "ok"
  <2> HIDE DEF l, w
  <2> QED
    BY <1>1, <1>2
<1>3. CASE l.st = "ok"
  <2>1. l.at \in Writable /\ c \in Cluster
    BY <1>3, Located, LiveAt, PlacesAreWritable
  <2> HIDE DEF l, c
  <2>2. w \in Volumes
    BY <2>1, ChainFreed
  <2> HIDE DEF w
  <2>3. Put(w, l.at, DeletedMark) \in Volumes
    BY <2>1, <2>2, BlockPut, Blocks DEF Writable
  <2> QED
    BY <1>1, <1>3, <2>3
<1> QED
  BY <1>2, <1>3

LEMMA Rmdired ==
  ASSUME NEW v \in Volumes, NEW path
  PROVE  Rmdir(v, path).v \in Volumes
<1> DEFINE d == OpenDir(v, path)
           wanted == {q \in Places : ReadDir(At(v, q)) = "ok"}
           s == Scan(v, d.at, wanted)
           m == N
<1>1. d.at \in [cluster : Cluster, entry : 0 .. m]
  BY Opened DEF Writable
<1>2. s.st \in {"ok", "not_found", "error"}
  <2>1. m \in {N - 1, N}
    OBVIOUS
  <2> HIDE DEF m, d, wanted
  <2> QED
    BY <1>1, <2>1, ScanEnds DEF ScanOutcome
<1>3. Rmdir(v, path) = IF d.st # "ok" THEN [st |-> d.st, v |-> v]
                       ELSE CASE s.st = "ok" -> [st |-> "end_of_dir", v |-> v]
                              [] s.st = "error" -> [st |-> "error", v |-> v]
                              [] s.st = "not_found" -> Unlink(v, path)
  BY DEF Rmdir
<1>4. Unlink(v, path).v \in Volumes
  BY Unlinked
<1> HIDE DEF d, s
<1> QED
  BY <1>2, <1>3, <1>4

-----------------------------------------------------------------------------
(* Files are resized and written. *)

LEMMA Divided ==
  ASSUME NEW a \in Nat
  PROVE  a \div N \in Nat /\ a % N \in 0 .. N - 1 /\ a = N * (a \div N) + (a % N)
<1> DEFINE q == a \div N
           r == a % N
<1>1. N \in Nat /\ N > 1
  BY OpsAssumption
<1>2. q \in Int /\ r \in 0 .. N - 1 /\ a = N * q + r
  BY <1>1
<1> HIDE DEF q, r
<1>3. CASE q < 0
  <2>1. N * q <= 0 - N
    BY <1>1, <1>2, <1>3
  <2> QED
    BY <1>1, <1>2, <2>1
<1> QED
  BY <1>2, <1>3 DEF q, r

LEMMA ChainCut ==
  ASSUME NEW f \in Step, f.st = "ok"
  PROVE  CutChain(f) \in Volumes
<1> DEFINE rest == NextCluster(f.v, f.cluster)
           w == IF rest # 0 THEN FreeChain(f.v, rest) ELSE f.v
<1>1. f.v \in Volumes /\ f.cluster \in Cluster
  BY DEF Step
<1>2. rest # 0 => rest \in Cluster
  BY <1>1, NextInChain
<1>3. CutChain(f) = MarkEnd(w, f.cluster)
  BY DEF CutChain
<1> HIDE DEF rest
<1>4. w \in Volumes
  BY <1>1, <1>2, ChainFreed
<1> HIDE DEF w
<1> QED
  BY <1>1, <1>3, <1>4, Ended

LEMMA Truncated ==
  ASSUME NEW v \in Volumes, NEW path, NEW n \in FileSize, n \in Nat
  PROVE  Truncate(v, path, n).v \in Volumes
<1> DEFINE a == GetAttr(v, path)
           k == IF n = 0 THEN 0 ELSE (n - 1) \div N
           f == Follow(v, a.attr.first, k, FALSE)
           b == [a.attr EXCEPT !.size = n]
<1>1. CASE a.st # "ok"
  <2>1. Truncate(v, path, n) = [st |-> a.st, v |-> v]
    BY <1>1 DEF Truncate
  <2> QED
    BY <2>1
<1>2. CASE a.st = "ok"
  <2>1. Truncate(v, path, n) = Resize(f, path, a.attr, n)
    BY <1>2 DEF Truncate
  <2>2. a.attr \in Block /\ a.attr.kind = "live" /\ a.attr.first \in Cluster
    BY <1>2, Got
  <2> HIDE DEF a
  <2>3. k \in Nat
    BY Divided
  <2> HIDE DEF k
  <2>4. f \in Step
    BY <2>2, <2>3, Followed
  <2> HIDE DEF f
  <2>5. b \in Block
    BY <2>2, Changed
  <2> HIDE DEF b
  <2>6. CASE f.st # "ok"
    BY <2>1, <2>4, <2>6 DEF Resize, Step
  <2>7. CASE f.st = "ok"
    <3>1. Resize(f, path, a.attr, n) = SetAttr(CutChain(f), path, b)
      BY <2>7 DEF Resize, b
    <3>2. CutChain(f) \in Volumes
      BY <2>4, <2>7, ChainCut
    <3> QED
      BY <2>1, <2>5, <3>1, <3>2, AttrSet
  <2> QED
    BY <2>6, <2>7
<1> QED
  BY <1>1, <1>2

LEMMA UnitsPut ==
  ASSUME NEW v \in Volumes, NEW c \in Cluster, NEW from, NEW to, NEW x \in Value
  PROVE  /\ PutUnits(v, c, from, to, x) \in Volumes
         /\ PutUnits(v, c, from, to, x).fat = v.fat
<1> DEFINE b == [e \in 0 .. N - 1 |-> IF from <= e /\ e < to THEN Unit(x) ELSE v.slot[c][e]]
<1>1. c \in 1 .. D + 1
  BY OpsAssumption DEF Cluster
<1>2. v.slot \in Slots /\ Unit(x) \in Block
  BY Blocks DEF Volumes, VolumeType
<1>3. b \in [0 .. N - 1 -> Block]
  BY <1>1, <1>2 DEF Slots
<1> DEFINE w == PutUnits(v, c, from, to, x)
<1>4. w = Do(v, DevWrite(c, b))
  BY DEF PutUnits
<1> HIDE DEF b, w
<1>5. w \in Volumes /\ w.fat = v.fat
  BY <1>1, <1>3, <1>4, ClusterWritten
<1> QED
  BY <1>5 DEF w

LEMMA StepFilled ==
  ASSUME NEW p \in Step, NEW from, NEW to, NEW x \in Value
  PROVE  Filled(p, from, to, x) \in Step
<1>1. CASE p.st # "ok"
  BY <1>1 DEF Filled
<1>2. CASE p.st = "ok"
  <2> DEFINE w == PutUnits(p.v, p.cluster, from, to, x)
  <2>1. p \in [st : {"ok", "error"}, v : Volumes, cluster : 0 .. D] /\ p.cluster \in Cluster
    BY <1>2 DEF Step
  <2>2. w \in Volumes
    BY <2>1, UnitsPut
  <2>3. Filled(p, from, to, x) = [p EXCEPT !.v = w]
    BY <1>2 DEF Filled
  <2> HIDE DEF w
  <2> QED
    BY <1>2, <2>1, <2>2, <2>3 DEF Step
<1> QED
  BY <1>1, <1>2

LEMMA StepWritten ==
  ASSUME NEW p \in Step, NEW to, NEW x \in Value
  PROVE  WriteNext(p, to, x) \in Step
<1>1. CASE p.st # "ok"
  BY <1>1 DEF WriteNext
<1>2. CASE p.st = "ok"
  <2> DEFINE c == NextCluster(p.v, p.cluster)
             q == NextToWrite(p, to)
  <2>1. p \in [st : {"ok", "error"}, v : Volumes, cluster : 0 .. D] /\ p.cluster \in Cluster
    BY <1>2 DEF Step
  <2>2. c # 0 => c \in Cluster /\ c \in 0 .. D
    BY <2>1, NextInChain, OpsAssumption DEF Cluster
  <2> DEFINE zero == to < N
  <2>4. q = IF c # 0 THEN [p EXCEPT !.cluster = c] ELSE Extend(p.v, p.cluster, zero)
    BY DEF NextToWrite
  <2> HIDE DEF c, q, zero
  <2>3. Extend(p.v, p.cluster, zero) \in Step
    BY <2>1, Extended
  <2>5. q \in Step
    BY <1>2, <2>1, <2>2, <2>3, <2>4 DEF Step
  <2>6. WriteNext(p, to, x) = Filled(q, 0, Min({N, to}), x)
    BY <1>2 DEF WriteNext, q
  <2> QED
    BY <2>5, <2>6, StepFilled
<1> QED
  BY <1>1, <1>2

(* The clusters of a write, one from the other. *)
Fills(v, first, from, to, x, step) ==
  LET k == (to - 1) \div N
  IN  /\ step[0] = Filled([st |-> "ok", v |-> v, cluster |-> first], from, Min({N, to}), x)
      /\ \A i \in 1 .. k : step[i] = WriteNext(step[i - 1], to - i * N, x)
      /\ WriteUnits(v, first, from, to, x) = step[k]

LEMMA WriteUnfolds ==
  ASSUME NEW v \in Volumes, NEW first \in Cluster, NEW from, NEW to \in Nat \ {0}, NEW x \in Value
  PROVE  \E step \in [0 .. (to - 1) \div N -> Step] : Fills(v, first, from, to, x, step)
<1> DEFINE k == (to - 1) \div N
           p0 == [st |-> "ok", v |-> v, cluster |-> first]
           a == Filled(p0, from, Min({N, to}), x)
           F == [i \in 1 .. k |-> [p \in Step |-> WriteNext(p, to - i * N, x)]]
           step == CHOOSE f : f = [i \in 0 .. k |-> IF i = 0 THEN a ELSE WriteNext(f[i - 1], to - i * N, x)]
<1>1. k \in Nat
  BY Divided
<1>2. a \in Step
  <2>1. p0 \in Step
    BY OpsAssumption DEF Step, Cluster
  <2> HIDE DEF p0
  <2> QED
    BY <2>1, StepFilled
<1>3. F \in [1 .. k -> [Step -> Step]]
  BY StepWritten
<1>4. WriteUnits(v, first, from, to, x) = step[k]
  BY DEF WriteUnits
<1> HIDE DEF a, k
<1>5. PICK f \in [0 .. k -> Step] : f[0] = a /\ \A i \in 1 .. k : f[i] = F[i][f[i - 1]]
  <2> HIDE DEF F
  <2> QED
    BY ONLY <1>1, <1>2, <1>3, Recursion
<1>6. ASSUME NEW i \in 1 .. k PROVE f[i] = WriteNext(f[i - 1], to - i * N, x)
  <2>1. i - 1 \in 0 .. k
    BY <1>1
  <2>2. f[i - 1] \in Step
    BY <1>5, <2>1
  <2> QED
    BY <1>5, <2>2
<1>7. f = [i \in 0 .. k |-> IF i = 0 THEN a ELSE WriteNext(f[i - 1], to - i * N, x)]
  BY <1>5, <1>6
<1>8. step = [i \in 0 .. k |-> IF i = 0 THEN a ELSE WriteNext(step[i - 1], to - i * N, x)]
  BY <1>7, Zenon
<1> HIDE DEF step
<1>9. \A i \in 0 .. k : step[i] = IF i = 0 THEN a ELSE WriteNext(step[i - 1], to - i * N, x)
  BY <1>8, Zenon
<1>10. step[0] = a /\ \A i \in 1 .. k : step[i] = WriteNext(step[i - 1], to - i * N, x)
  BY <1>1, <1>9
<1> DEFINE T == {i \in Nat : i <= k => step[i] \in Step}
<1>11. 0 \in T
  BY <1>2, <1>10
<1>12. ASSUME NEW i \in Nat, i \in T PROVE i + 1 \in T
  <2>1. ASSUME i + 1 <= k PROVE step[i + 1] \in Step
    <3>1. i + 1 \in 1 .. k /\ (i + 1) - 1 = i /\ step[i] \in Step
      BY <1>1, <1>12, <2>1
    <3>2. step[i + 1] = WriteNext(step[i], to - (i + 1) * N, x)
      BY ONLY <1>10, <3>1
    <3> QED
      BY <3>1, <3>2, StepWritten
  <2> QED
    BY <2>1
<1>13. Nat \subseteq T
  BY <1>11, <1>12, CountUp
<1>14. step \in [0 .. k -> Step]
  BY <1>1, <1>8, <1>13
<1>15. Fills(v, first, from, to, x, step)
  BY <1>4, <1>10 DEF Fills, k, a
<1> QED
  BY <1>14, <1>15 DEF k

LEMMA UnitsWritten ==
  ASSUME NEW v \in Volumes, NEW first \in Cluster, NEW from, NEW to \in Nat \ {0}, NEW x \in Value
  PROVE  WriteUnits(v, first, from, to, x) \in Step
<1>1. PICK step \in [0 .. (to - 1) \div N -> Step] : Fills(v, first, from, to, x, step)
  BY WriteUnfolds
<1>2. (to - 1) \div N \in Nat
  BY Divided
<1> QED
  BY <1>1, <1>2 DEF Fills

LEMMA SizeGrown ==
  ASSUME NEW w \in Step, NEW path, NEW attr \in Block, attr.kind = "live", NEW size \in FileSize
  PROVE  GrowSize(w, path, attr, size).v \in Volumes
<1> DEFINE b == [attr EXCEPT !.size = size]
<1>1. b \in Block /\ w.v \in Volumes
  BY Changed DEF Step
<1>2. SetAttr(w.v, path, b).v \in Volumes
  <2> HIDE DEF b
  <2> QED
    BY <1>1, AttrSet
<1>3. GrowSize(w, path, attr, size) =
        IF w.st # "ok" THEN [st |-> w.st, v |-> w.v]
        ELSE IF size > attr.size THEN SetAttr(w.v, path, b)
        ELSE [st |-> "ok", v |-> w.v]
  BY DEF GrowSize
<1> HIDE DEF b
<1> QED
  BY <1>1, <1>2, <1>3

LEMMA DataWritten ==
  ASSUME NEW t, t.v \in Volumes, NEW path, NEW w \in Writes, NEW x \in Value
  PROVE  Written(t, path, w[1], w[2], x).v \in Volumes
<1> DEFINE v == t.v
           offset == w[1]
           n == w[2]
           a == GetAttr(v, path)
           k == offset \div N
           o == offset % N
           to == o + n
           f == Follow(v, a.attr.first, k, TRUE)
           u == WriteUnits(f.v, f.cluster, o, to, x)
           g == GrowSize(u, path, a.attr, offset + n)
<1>1. offset \in Nat /\ n \in Nat \ {0} /\ offset + n \in FileSize
  BY VolumeAssumption DEF FileSize
<1> HIDE DEF offset, n
<1>2. k \in Nat /\ o \in Nat /\ to \in Nat \ {0}
  BY <1>1, Divided
<1>3. Written(t, path, offset, n, x) = WriteInto(t, path, a, offset, n, x)
  BY DEF Written
<1>4. CASE t.st # "ok" \/ a.st # "ok"
  <2>1. WriteInto(t, path, a, offset, n, x) \in {t, [st |-> a.st, v |-> t.v]}
    <3> HIDE DEF a
    <3> QED
      BY <1>4 DEF WriteInto
  <2> HIDE DEF a
  <2>2. Written(t, path, offset, n, x).v = t.v
    BY <1>3, <2>1
  <2> QED
    BY <2>2 DEF offset, n
<1>5. CASE t.st = "ok" /\ a.st = "ok"
  <2>1. a.attr \in Block /\ a.attr.kind = "live" /\ a.attr.first \in Cluster
    BY <1>5, Got
  <2>2. WriteInto(t, path, a, offset, n, x) = WriteAt(f, path, a.attr, offset, n, x)
    BY <1>5 DEF WriteInto
  <2> HIDE DEF a, k
  <2>3. f \in Step
    BY <1>2, <2>1, Followed
  <2>4. WriteAt(f, path, a.attr, offset, n, x) =
          IF f.st # "ok" THEN [st |-> "nothing_written", v |-> f.v] ELSE g
    BY DEF WriteAt
  <2> HIDE DEF f, o, to
  <2>5. f.st = "ok" => u \in Step
    BY <1>2, <2>3, UnitsWritten DEF Step
  <2> HIDE DEF u
  <2>6. f.st = "ok" => g.v \in Volumes
    BY <1>1, <2>1, <2>5, SizeGrown
  <2>7. f.v \in Volumes
    BY <2>3 DEF Step
  <2> HIDE DEF g
  <2> QED
    BY <1>3, <2>2, <2>4, <2>6, <2>7 DEF offset, n
<1> QED
  BY <1>4, <1>5

LEMMA FileWritten ==
  ASSUME NEW v \in Volumes, NEW path, NEW w \in Writes, NEW x \in Value
  PROVE  Write(v, path, w[1], w[2], x).v \in Volumes
<1> DEFINE a == GetAttr(v, path)
           t == Truncate(v, path, w[1] + 1)
           d == [st |-> "ok", v |-> v]
<1>1. w[1] + 1 \in FileSize /\ w[1] + 1 \in Nat
  BY VolumeAssumption DEF FileSize
<1>2. t.v \in Volumes
  BY <1>1, Truncated
<1>4. Written(t, path, w[1], w[2], x).v \in Volumes
  <2> HIDE DEF t
  <2> QED
    BY <1>2, DataWritten
<1>5. Written(d, path, w[1], w[2], x).v \in Volumes
  BY DataWritten
<1>6. Write(v, path, w[1], w[2], x) =
        IF a.st # "ok" THEN [st |-> a.st, v |-> v]
        ELSE IF w[1] > a.attr.size THEN Written(t, path, w[1], w[2], x)
        ELSE Written(d, path, w[1], w[2], x)
  BY DEF Write
<1> HIDE DEF a, t, d
<1> QED
  BY <1>4, <1>5, <1>6

-----------------------------------------------------------------------------
(* Nodes are renamed. *)

LEMMA Swapped ==
  ASSUME NEW v \in Volumes, NEW from \in Path, NEW to \in Path
  PROVE  AtomicSwap(v, from, to).v \in Volumes
<1> DEFINE l1 == Locate(v, from)
           l2 == Locate(v, to)
           p == l1.at
           q == l2.at
           b1 == [At(v, p) EXCEPT !.name = Basename(to)]
           b2 == [At(v, q) EXCEPT !.name = Basename(from)]
           w == Put(v, q, b1)
<1>1. AtomicSwap(v, from, to) = IF l1.st # "ok" THEN [st |-> l1.st, v |-> v]
                                ELSE IF l2.st # "ok" THEN [st |-> l2.st, v |-> v]
                                ELSE [st |-> "ok", v |-> Put(w, p, b2)]
  BY DEF AtomicSwap, SwapAt
<1>2. ASSUME l1.st = "ok", l2.st = "ok" PROVE Put(w, p, b2) \in Volumes
  <2>1. /\ p \in Places /\ At(v, p).kind = "live"
        /\ q \in Places /\ At(v, q).kind = "live"
    BY <1>2, Located
  <2> HIDE DEF l1, l2, p, q
  <2>2. p \in Writable /\ q \in Writable /\ At(v, p) \in Block /\ At(v, q) \in Block
    BY <2>1, LiveAt, PlacesAreWritable
  <2>3. b1 \in Block /\ b2 \in Block
    BY <2>1, <2>2, BasenameIsName, Changed
  <2> HIDE DEF b1, b2
  <2>4. w \in Volumes
    BY <2>2, <2>3, BlockPut DEF Writable
  <2> HIDE DEF w
  <2> QED
    BY <2>2, <2>3, <2>4, BlockPut DEF Writable
<1> HIDE DEF l1, l2, w, b2
<1> QED
  BY <1>1, <1>2

LEMMA SwappedAndUnlinked ==
  ASSUME NEW v \in Volumes, NEW from \in Path, NEW to \in Path
  PROVE  SwapAndUnlink(v, from, to).v \in Volumes
<1> DEFINE s == AtomicSwap(v, from, to)
<1>1. s.v \in Volumes
  BY Swapped
<1>2. SwapAndUnlink(v, from, to) = IF s.st # "ok" THEN s ELSE Unlink(s.v, from)
  BY DEF SwapAndUnlink
<1> HIDE DEF s
<1>3. Unlink(s.v, from).v \in Volumes
  BY <1>1, Unlinked
<1> QED
  BY <1>1, <1>2, <1>3

LEMMA NameSet ==
  ASSUME NEW r, r.v \in Volumes, NEW path, NEW attr \in Block, attr.kind = "live", NEW name \in Name
  PROVE  SetName(r, path, attr, name).v \in Volumes
<1> DEFINE b == [attr EXCEPT !.name = name]
<1>1. b \in Block
  BY Changed
<1>2. SetName(r, path, attr, name) = IF r.st # "ok" THEN r ELSE SetAttr(r.v, path, b)
  BY DEF SetName
<1> HIDE DEF b
<1>3. SetAttr(r.v, path, b).v \in Volumes
  BY <1>1, AttrSet
<1> QED
  BY <1>2, <1>3

LEMMA Moved ==
  ASSUME NEW v \in Volumes, NEW m, m.v \in Volumes, NEW from \in Path, NEW to \in Path,
         NEW attr \in Block, attr.kind = "live"
  PROVE  Move(v, m, from, to, attr).v \in Volumes
<1> DEFINE r == [st |-> "ok", v |-> v]
           n == SetName(r, from, attr, Basename(to))
<1>1. n.v \in Volumes
  BY BasenameIsName, NameSet
<1>2. SwapAndUnlink(m.v, from, to).v \in Volumes
  BY SwappedAndUnlinked
<1>3. Move(v, m, from, to, attr) = IF Dirname(from) = Dirname(to) THEN n
                                   ELSE IF m.st # "ok" THEN m
                                   ELSE SwapAndUnlink(m.v, from, to)
  BY DEF Move
<1> HIDE DEF n
<1> QED
  BY <1>1, <1>2, <1>3

LEMMA Replaced ==
  ASSUME NEW v \in Volumes, NEW from \in Path, NEW to \in Path,
         NEW attr \in Block, attr.kind = "live"
  PROVE  Replace(v, from, to, attr).v \in Volumes
<1> DEFINE u == Unlink(v, to)
           n == SetName(u, from, attr, Basename(to))
<1>1. u.v \in Volumes
  BY Unlinked
<1>2. Replace(v, from, to, attr) = IF Dirname(from) = Dirname(to) THEN n
                                   ELSE SwapAndUnlink(v, from, to)
  BY DEF Replace
<1> HIDE DEF u
<1>3. n.v \in Volumes
  BY <1>1, BasenameIsName, NameSet
<1> HIDE DEF n
<1> QED
  BY <1>2, <1>3, SwappedAndUnlinked

LEMMA NodeRenamed ==
  ASSUME NEW v \in Volumes, NEW from \in Path, NEW to \in Path, NEW mode
  PROVE  Rename(v, from, to, mode).v \in Volumes
<1> DEFINE a == GetAttr(v, from)
           b == GetAttr(v, to)
           refused == [st |-> "error", v |-> v]
           moved == Move(v, Mknod(v, to), from, to, a.attr)
           swapped == AtomicSwap(v, from, to)
           replaced == Replace(v, from, to, a.attr)
<1>1. CASE a.st # "ok"
  <2>1. Rename(v, from, to, mode) = [st |-> a.st, v |-> v]
    BY <1>1 DEF Rename
  <2> QED
    BY <2>1
<1>2. CASE a.st = "ok"
  <2>1. Rename(v, from, to, mode) =
          CASE b.st = "not_found" -> IF mode = "exchange" THEN refused ELSE moved
            [] b.st = "ok" -> IF mode = "no_replace" THEN refused
                              ELSE IF mode = "exchange" THEN swapped ELSE replaced
            [] b.st = "error" -> refused
    BY <1>2 DEF Rename
  <2>2. b.st \in {"ok", "not_found", "error"} /\ a.attr \in Block /\ a.attr.kind = "live"
    BY <1>2, Located, Got
  <2> HIDE DEF a, b
  <2>3. Mknod(v, to).v \in Volumes
    BY Created DEF Mknod
  <2>4. moved.v \in Volumes
    BY <2>2, <2>3, Moved
  <2>5. swapped.v \in Volumes
    BY Swapped
  <2>6. replaced.v \in Volumes
    BY <2>2, Replaced
  <2>7. refused.v \in Volumes
    OBVIOUS
  <2> HIDE DEF moved, swapped, replaced, refused
  <2> QED
    BY <2>1, <2>2, <2>4, <2>5, <2>6, <2>7
<1> QED
  BY <1>1, <1>2

-----------------------------------------------------------------------------
(* Every call. *)

LEMMA Forgotten ==
  ASSUME NEW v \in Volumes
  PROVE  Forget(v) \in Volumes /\ Forget(v).fat = v.fat
<1> DEFINE slot == [c \in DOMAIN v.slot |-> IF c \in Cluster /\ v.fat[c] = Available
                                            THEN Garbage ELSE v.slot[c]]
<1>1. v \in VolumeType /\ Ordered(v.fat) /\ v.slot \in Slots
  BY DEF Volumes, VolumeType
<1>2. slot \in Slots
  BY <1>1, GarbageIsBlocks DEF Slots
<1>3. Forget(v) = [v EXCEPT !.slot = slot, !.log = <<>>]
  BY DEF Forget
<1> HIDE DEF slot
<1>4. Forget(v) = [fat |-> v.fat, slot |-> slot, cursor |-> v.cursor, log |-> <<>>]
  BY <1>1, <1>3 DEF VolumeType
<1>5. <<>> \in Seq(LogWrite)
  OBVIOUS
<1> QED
  BY <1>1, <1>2, <1>4, <1>5 DEF Volumes, VolumeType

LEMMA VolumeFormatted == Formatted \in Volumes
<1> DEFINE fat == [c \in Cluster |-> IF c = Root THEN End ELSE Available]
           slot == [c \in 1 .. D + 1 |-> IF c = Root THEN [e \in 0 .. N - 1 |-> EndMark] ELSE Garbage]
           rank == [c \in Cluster |-> c - 1]
<1>1. Formatted = [fat |-> fat, slot |-> slot, cursor |-> 2, log |-> <<>>]
  BY DEF Formatted
<1>2. fat \in [Cluster -> Entry] /\ \A c \in Cluster : fat[c] \notin Cluster
  BY Entries
<1>3. slot \in Slots
  BY GarbageIsBlocks, Blocks DEF Slots
<1>4. Ordered(fat)
  <2>1. rank \in [Cluster -> 0 .. D - 1] /\ \A c, d \in Cluster : rank[c] = rank[d] => c = d
    BY OpsAssumption DEF Cluster
  <2> HIDE DEF rank, fat
  <2> QED
    BY <1>2, <2>1 DEF Ordered
<1> HIDE DEF fat, slot
<1>5. <<>> \in Seq(LogWrite)
  OBVIOUS
<1> QED
  BY <1>1, <1>2, <1>3, <1>4, <1>5 DEF Volumes, VolumeType

LEMMA CallKeeps ==
  ASSUME NEW op, NEW path, NEW arg, NEW r, r.v \in Volumes, Call(op, path, arg, r)
  PROVE  Inv'
BY Forgotten DEF Call, Inv

LEMMA NextKeeps ==
  ASSUME Inv, [Next]_vars
  PROVE  Inv'
<1>1. vol \in Volumes
  BY DEF Inv
<1>2. ASSUME NEW path \in Path, CreateNode(path) PROVE Inv'
  BY <1>1, <1>2, Created, CallKeeps DEF CreateNode, Mknod
<1>3. ASSUME NEW path \in Path, MakeDir(path) PROVE Inv'
  BY <1>1, <1>3, Mkdired, CallKeeps DEF MakeDir
<1>4. ASSUME NEW path \in Path, RemoveFile(path) PROVE Inv'
  BY <1>1, <1>4, Unlinked, CallKeeps DEF RemoveFile
<1>5. ASSUME NEW path \in Path, RemoveDir(path) PROVE Inv'
  BY <1>1, <1>5, Rmdired, CallKeeps DEF RemoveDir
<1>6. ASSUME NEW path \in Path, NEW n \in Sizes, TruncateFile(path, n) PROVE Inv'
  <2>1. n \in FileSize /\ n \in Nat
    BY VolumeAssumption DEF FileSize
  <2> QED
    BY <1>1, <1>6, <2>1, Truncated, CallKeeps DEF TruncateFile
<1>7. ASSUME NEW path \in Path, NEW w \in Writes, NEW x \in Value, WriteFile(path, w[1], w[2], x)
      PROVE  Inv'
  BY <1>1, <1>7, FileWritten, CallKeeps DEF WriteFile
<1>8. ASSUME NEW from \in Path, NEW to \in Path, NEW mode \in Modes, RenameNode(from, to, mode)
      PROVE  Inv'
  BY <1>1, <1>8, NodeRenamed, CallKeeps DEF RenameNode
<1>9. ASSUME UNCHANGED vars PROVE Inv'
  BY <1>1, <1>9 DEF vars, Inv
<1> QED
  BY <1>2, <1>3, <1>4, <1>5, <1>6, <1>7, <1>8, <1>9 DEF Next

LEMMA InvHolds == Spec => []Inv
<1>1. Init => Inv
  BY VolumeFormatted DEF Init, Inv
<1>2. Inv /\ [Next]_vars => Inv'
  BY NextKeeps
<1> QED
  BY <1>1, <1>2, PTL DEF Spec

(* Whatever the calls, and whether or not their callers looked first, the   *)
(* volume is well formed: no FAT entry is out of range, no entry of a       *)
(* directory names the root or a cluster off the volume, and the cursor of  *)
(* fatx_alloc_cluster stays on it.                                          *)
THEOREM VolumeTypeCorrect == Spec => []TypeOK
<1>1. Inv => TypeOK
  BY DEF Inv, Volumes, VolumeType, Slots, TypeOK
<1> QED
  BY <1>1, InvHolds, PTL

(* And no chain of the FAT is a cycle: fatx_alloc_cluster hands out only    *)
(* clusters that go on to none, so that the loops over a chain, of          *)
(* fatx_free_cluster_chain, the scans of directories and fatx_truncate, end *)
(* on whatever a sequence of calls leaves.                                  *)
THEOREM ChainsAreNoCycles == Spec => []Ordered(vol.fat)
<1>1. Inv => Ordered(vol.fat)
  BY DEF Inv, Volumes
<1> QED
  BY <1>1, InvHolds, PTL

-----------------------------------------------------------------------------
(* The parts of a sound volume. *)

BlockOf(v, q) == v.slot[q.cluster][q.entry]

First(v, q) == BlockOf(v, q).first

(* The entries of every directory there is, whoever can reach it. *)
Live(v) == {q \in Places : v.fat[q.cluster] # Available /\ BlockOf(v, q).kind = "live"}

DirClusters(v) == {Root} \cup {First(v, q) : q \in {r \in Live(v) : BlockOf(v, r).isDir}}

(* No two clusters go on to one, and none to a free one or to the root. *)
Links(fat) ==
  /\ fat[Root] = End
  /\ \A c, d \in Cluster : fat[c] \in Cluster /\ fat[c] = fat[d] => c = d
  /\ \A c \in Cluster : fat[c] \in Cluster => fat[c] # Root /\ fat[fat[c]] # Available

(* Each entry has a chain of its own, and all of it. *)
Heads(v) ==
  /\ \A q \in Live(v) :
       v.fat[First(v, q)] # Available /\ \A c \in Cluster : v.fat[c] # First(v, q)
  /\ \A p, q \in Live(v) : First(v, p) = First(v, q) => p = q

(* Directories are in the root, and of one cluster. *)
Nesting(v) ==
  \A q \in Live(v) :
    /\ q.cluster \in DirClusters(v)
    /\ BlockOf(v, q).isDir => q.cluster = Root /\ v.fat[First(v, q)] = End

(* The first u entries of a directory are in use or deleted, the others not *)
(* yet used.                                                                *)
Filling(blocks, u) ==
  \A i \in 0 .. N - 1 :
    IF i < u THEN blocks[i] = DeletedMark \/ blocks[i].kind = "live"
    ELSE blocks[i] \in {Blank, EndMark}

Dirs(v) ==
  /\ \A c \in DirClusters(v) :
       \E u \in 0 .. N - 1 : u <= Cardinality(Name) /\ Filling(v.slot[c], u)
  /\ \A p, q \in Live(v) :
       p.cluster = q.cluster /\ BlockOf(v, p).name = BlockOf(v, q).name => p = q

DataBlock == {Blank} \cup {Unit(x) : x \in Value}

(* The other clusters hold what users wrote, or nothing. *)
Data(v) ==
  \A c \in Cluster \ DirClusters(v) :
    v.fat[c] # Available => v.slot[c] \in [0 .. N - 1 -> DataBlock]

SizesFit(v) ==
  \A q \in Live(v) : ~BlockOf(v, q).isDir => BlockOf(v, q).size <= N * Len(Chain(v, First(v, q)))

Shaped == {v \in Volumes : Links(v.fat) /\ Heads(v) /\ Nesting(v) /\ Dirs(v) /\ Data(v)}

Sound == {v \in Shaped : SizesFit(v)}

-----------------------------------------------------------------------------
(* Chains. *)

LEMMA InChain ==
  ASSUME NEW v \in Volumes, NEW c \in Cluster
  PROVE  /\ ChainSet(v, c) \subseteq Cluster
         /\ \A d \in Cluster : d \in ChainSet(v, c) <=>
              \E i \in 1 .. Len(Chain(v, c)) : Chain(v, c)[i] = d
<1> DEFINE s == Chain(v, c)
<1>1. s \in Seq(Cluster)
  BY Chained
<1>2. ChainSet(v, c) = {s[i] : i \in DOMAIN s}
  BY DEF ChainSet, Range
<1> HIDE DEF s
<1>3. DOMAIN s = 1 .. Len(s) /\ \A i \in 1 .. Len(s) : s[i] \in Cluster
  BY <1>1
<1> QED
  BY <1>2, <1>3 DEF s

(* A chain goes on from its clusters to its clusters, and to each but the   *)
(* first from one of them.                                                  *)
LEMMA ChainLinks ==
  ASSUME NEW v \in Volumes, NEW c \in Cluster
  PROVE  /\ c \in ChainSet(v, c)
         /\ \A d \in ChainSet(v, c) : v.fat[d] \in Cluster => v.fat[d] \in ChainSet(v, c)
         /\ \A d \in ChainSet(v, c) : d = c \/ \E e \in ChainSet(v, c) : v.fat[e] = d
<1> DEFINE s == Chain(v, c)
           R == ChainSet(v, c)
<1>1. /\ s \in Seq(Cluster) /\ Len(s) \in Nat /\ Len(s) >= 1 /\ s[1] = c
      /\ \A i \in 1 .. Len(s) - 1 : v.fat[s[i]] = s[i + 1]
      /\ v.fat[s[Len(s)]] \notin Cluster
  BY Chained DEF IsChain
<1>2. /\ R \subseteq Cluster
      /\ \A d \in Cluster : d \in R <=> \E i \in 1 .. Len(s) : s[i] = d
  BY InChain
<1> HIDE DEF s, R
<1>3. \A i \in 1 .. Len(s) : s[i] \in Cluster /\ s[i] \in R
  BY <1>1, <1>2
<1>4. c \in R
  BY <1>1, <1>3
<1>5. ASSUME NEW d \in R, v.fat[d] \in Cluster PROVE v.fat[d] \in R
  <2>1. PICK i \in 1 .. Len(s) : s[i] = d
    BY <1>2
  <2>2. i # Len(s)
    BY <1>1, <1>5, <2>1
  <2>3. i \in 1 .. Len(s) - 1 /\ i + 1 \in 1 .. Len(s)
    BY <1>1, <2>2
  <2> QED
    BY <1>1, <1>3, <2>1, <2>3
<1>6. ASSUME NEW d \in R, d # c PROVE \E e \in R : v.fat[e] = d
  <2>1. PICK i \in 1 .. Len(s) : s[i] = d
    BY <1>2
  <2>2. i - 1 \in 1 .. Len(s) - 1 /\ i - 1 \in 1 .. Len(s) /\ (i - 1) + 1 = i
    BY <1>1, <1>6, <2>1
  <2>3. v.fat[s[i - 1]] = s[i]
    BY ONLY <1>1, <2>2
  <2> QED
    BY <1>3, <2>1, <2>2, <2>3
<1> QED
  BY <1>4, <1>5, <1>6 DEF R

(* There is one chain from a cluster. *)
LEMMA OneChain ==
  ASSUME NEW v \in Volumes, NEW c \in Cluster, NEW s \in Seq(Cluster), Len(s) >= 1, s[1] = c,
         IsChain(v.fat, s)
  PROVE  s = Chain(v, c)
<1> DEFINE t == Chain(v, c)
<1>1. /\ t \in Seq(Cluster) /\ Len(t) \in Nat /\ Len(t) >= 1 /\ t[1] = c
      /\ \A i \in 1 .. Len(t) - 1 : v.fat[t[i]] = t[i + 1]
      /\ v.fat[t[Len(t)]] \notin Cluster
  BY Chained DEF IsChain
<1>2. /\ s \in Seq(Cluster) /\ Len(s) \in Nat /\ Len(s) >= 1 /\ s[1] = c
      /\ \A i \in 1 .. Len(s) - 1 : v.fat[s[i]] = s[i + 1]
      /\ v.fat[s[Len(s)]] \notin Cluster
  BY DEF IsChain
<1> HIDE DEF t
<1> DEFINE T == {i \in Nat : i >= 1 /\ i <= Len(s) => i <= Len(t) /\ s[i] = t[i]}
<1>3. 0 \in T
  OBVIOUS
<1>4. ASSUME NEW i \in Nat, i \in T PROVE i + 1 \in T
  <2> SUFFICES ASSUME i + 1 <= Len(s) PROVE i + 1 <= Len(t) /\ s[i + 1] = t[i + 1]
    OBVIOUS
  <2>1. CASE i = 0
    BY <1>1, <1>2, <2>1
  <2>2. CASE i >= 1
    <3>1. i <= Len(t) /\ s[i] = t[i] /\ i \in 1 .. Len(s) - 1 /\ i + 1 \in 1 .. Len(s)
      BY <1>2, <1>4, <2>2
    <3>2. v.fat[t[i]] = s[i + 1] /\ s[i + 1] \in Cluster
      BY <1>2, <3>1
    <3>3. i # Len(t)
      BY <1>1, <3>2
    <3>4. i \in 1 .. Len(t) - 1
      BY <1>1, <2>2, <3>1, <3>3
    <3>5. v.fat[t[i]] = t[i + 1]
      BY <1>1, <3>4
    <3> QED
      BY <1>1, <3>2, <3>4, <3>5
  <2> QED
    BY <2>1, <2>2
<1>5. \A i \in 1 .. Len(s) : i <= Len(t) /\ s[i] = t[i]
  <2> HIDE DEF T
  <2>1. Nat \subseteq T
    BY <1>3, <1>4, CountUp
  <2>2. ASSUME NEW i \in 1 .. Len(s) PROVE i <= Len(t) /\ s[i] = t[i]
    <3>1. i \in T /\ i \in Nat /\ i >= 1 /\ i <= Len(s)
      BY <2>1
    <3> QED
      BY <3>1 DEF T
  <2> QED
    BY <2>2
<1>6. Len(s) <= Len(t) /\ s[Len(s)] = t[Len(s)]
  BY <1>2, <1>5
<1>7. Len(s) = Len(t)
  <2> SUFFICES ASSUME Len(s) < Len(t) PROVE FALSE
    BY <1>1, <1>2, <1>6
  <2>1. Len(s) \in 1 .. Len(t) - 1 /\ Len(s) + 1 \in 1 .. Len(t)
    BY <1>1, <1>2
  <2>2. v.fat[t[Len(s)]] = t[Len(s) + 1] /\ t[Len(s) + 1] \in Cluster
    BY <1>1, <2>1
  <2> QED
    BY <1>2, <1>6, <2>2
<1>8. s = t
  BY <1>1, <1>2, <1>5, <1>7, SeqEqual
<1> QED
  BY <1>8 DEF t

(* Chains from two heads are apart. *)
LEMMA ChainsApart ==
  ASSUME NEW v \in Volumes, Links(v.fat), NEW c \in Cluster, NEW d \in Cluster,
         \A e \in Cluster : v.fat[e] # c, \A e \in Cluster : v.fat[e] # d,
         c # d
  PROVE  ChainSet(v, c) \cap ChainSet(v, d) = {}
<1> DEFINE s == Chain(v, c)
           R == ChainSet(v, d)
<1>1. /\ s \in Seq(Cluster) /\ Len(s) \in Nat /\ Len(s) >= 1 /\ s[1] = c
      /\ \A i \in 1 .. Len(s) - 1 : v.fat[s[i]] = s[i + 1]
  BY Chained DEF IsChain
<1>2. /\ d \in R /\ R \subseteq Cluster
      /\ \A x \in R : x = d \/ \E e \in R : v.fat[e] = x
  BY ChainLinks, InChain
<1>3. \A x, y \in Cluster : v.fat[x] \in Cluster /\ v.fat[x] = v.fat[y] => x = y
  BY DEF Links
<1> HIDE DEF s, R
<1> DEFINE T == {i \in Nat : i >= 1 /\ i <= Len(s) => s[i] \notin R}
<1>4. 0 \in T
  OBVIOUS
<1>5. ASSUME NEW i \in Nat, i \in T PROVE i + 1 \in T
  <2> SUFFICES ASSUME i + 1 <= Len(s), s[i + 1] \in R PROVE FALSE
    OBVIOUS
  <2>1. s[i + 1] # d => \E e \in R : v.fat[e] = s[i + 1]
    BY <1>2
  <2>2. CASE i = 0
    BY <1>1, <1>2, <2>1, <2>2
  <2>3. CASE i >= 1
    <3>1. i \in 1 .. Len(s) - 1 /\ i \in 1 .. Len(s) /\ i + 1 \in 1 .. Len(s)
      BY <1>1, <2>3
    <3>2. v.fat[s[i]] = s[i + 1] /\ s[i] \in Cluster /\ s[i + 1] \in Cluster /\ s[i] \notin R
      BY <1>1, <1>5, <3>1
    <3>3. s[i + 1] # d
      BY <3>2
    <3> QED
      BY <1>2, <1>3, <2>1, <3>2, <3>3
  <2> QED
    BY <2>2, <2>3
<1>6. \A i \in 1 .. Len(s) : s[i] \notin R
  <2> HIDE DEF T
  <2>1. Nat \subseteq T
    BY <1>4, <1>5, CountUp
  <2>2. ASSUME NEW i \in 1 .. Len(s) PROVE s[i] \notin R
    <3>1. i \in T /\ i \in Nat /\ i >= 1 /\ i <= Len(s)
      BY <2>1
    <3> QED
      BY <3>1 DEF T
  <2> QED
    BY <2>2
<1>7. ASSUME NEW x \in ChainSet(v, c) PROVE x \notin R
  <2>1. PICK i \in 1 .. Len(s) : s[i] = x
    BY <1>7, InChain DEF s
  <2> QED
    BY <1>6, <2>1
<1> QED
  BY <1>7 DEF R

(* A chain is the same where the FAT is. *)
LEMMA ChainKept ==
  ASSUME NEW v \in Volumes, NEW w \in Volumes, NEW c \in Cluster,
         \A d \in ChainSet(v, c) : w.fat[d] = v.fat[d]
  PROVE  Chain(w, c) = Chain(v, c)
<1> DEFINE s == Chain(v, c)
<1>1. /\ s \in Seq(Cluster) /\ Len(s) \in Nat /\ Len(s) >= 1 /\ s[1] = c
      /\ \A i \in 1 .. Len(s) - 1 : v.fat[s[i]] = s[i + 1]
      /\ v.fat[s[Len(s)]] \notin Cluster
  BY Chained DEF IsChain
<1>2. \A i \in 1 .. Len(s) : s[i] \in ChainSet(v, c)
  BY InChain, <1>1
<1> HIDE DEF s
<1>3. \A i \in 1 .. Len(s) : w.fat[s[i]] = v.fat[s[i]]
  BY <1>2
<1>4. Len(s) \in 1 .. Len(s) /\ \A i \in 1 .. Len(s) - 1 : i \in 1 .. Len(s)
  BY <1>1
<1>5. IsChain(w.fat, s)
  BY <1>1, <1>3, <1>4 DEF IsChain
<1>6. s = Chain(w, c)
  BY <1>1, <1>5, OneChain
<1> QED
  BY <1>6 DEF s

(* A chain whose last cluster is linked to one more. *)
LEMMA ChainExtended ==
  ASSUME NEW v \in Volumes, NEW w \in Volumes, NEW c \in Cluster, NEW d \in Cluster,
         \A i \in 1 .. Len(Chain(v, c)) - 1 : w.fat[Chain(v, c)[i]] = v.fat[Chain(v, c)[i]],
         w.fat[Chain(v, c)[Len(Chain(v, c))]] = d,
         w.fat[d] \notin Cluster
  PROVE  Chain(w, c) = Append(Chain(v, c), d)
<1> DEFINE s == Chain(v, c)
           t == Append(s, d)
           n == Len(s)
<1>1. /\ s \in Seq(Cluster) /\ n \in Nat /\ n >= 1 /\ s[1] = c
      /\ \A i \in 1 .. n - 1 : v.fat[s[i]] = s[i + 1]
      /\ \A i \in 1 .. n - 1 : w.fat[s[i]] = v.fat[s[i]]
      /\ w.fat[s[n]] = d
  BY Chained DEF IsChain
<1> HIDE DEF s
<1>2. t \in Seq(Cluster) /\ Len(t) = n + 1 /\ t[n + 1] = d /\ \A i \in 1 .. n : t[i] = s[i]
  BY <1>1, AppendProperties
<1> HIDE DEF t, n
<1>3. ASSUME NEW i \in 1 .. Len(t) - 1 PROVE w.fat[t[i]] = t[i + 1]
  <2>1. i \in 1 .. n /\ t[i] = s[i]
    BY <1>1, <1>2
  <2>2. CASE i = n
    BY <1>1, <1>2, <2>1, <2>2
  <2>3. CASE i # n
    <3>1. i \in 1 .. n - 1 /\ i + 1 \in 1 .. n
      BY <1>1, <2>1, <2>3
    <3> QED
      BY <1>1, <1>2, <2>1, <3>1
  <2> QED
    BY <2>2, <2>3
<1>4. Len(t) >= 1 /\ t[1] = c
  BY <1>1, <1>2
<1>5. IsChain(w.fat, t)
  BY <1>2, <1>3 DEF IsChain
<1>6. t = Chain(w, c)
  BY <1>2, <1>4, <1>5, OneChain
<1> QED
  BY <1>6 DEF t, s

(* A chain that is ended at its k-th cluster. *)
LEMMA ChainShortened ==
  ASSUME NEW v \in Volumes, NEW w \in Volumes, NEW c \in Cluster,
         NEW k \in 1 .. Len(Chain(v, c)),
         \A i \in 1 .. k - 1 : w.fat[Chain(v, c)[i]] = v.fat[Chain(v, c)[i]],
         w.fat[Chain(v, c)[k]] \notin Cluster
  PROVE  Len(Chain(w, c)) = k /\ \A i \in 1 .. k : Chain(w, c)[i] = Chain(v, c)[i]
<1> DEFINE s == Chain(v, c)
           t == SubSeq(s, 1, k)
<1>1. /\ s \in Seq(Cluster) /\ Len(s) \in Nat /\ s[1] = c
      /\ \A i \in 1 .. Len(s) - 1 : v.fat[s[i]] = s[i + 1]
      /\ \A i \in 1 .. k - 1 : w.fat[s[i]] = v.fat[s[i]]
      /\ w.fat[s[k]] \notin Cluster
      /\ k \in 1 .. Len(s)
  BY Chained DEF IsChain
<1> HIDE DEF s
<1>2. t \in Seq(Cluster) /\ Len(t) = k /\ \A i \in 1 .. k : t[i] = s[i]
  BY <1>1
<1> HIDE DEF t
<1>3. ASSUME NEW i \in 1 .. Len(t) - 1 PROVE w.fat[t[i]] = t[i + 1]
  <2>1. i \in 1 .. k - 1 /\ i \in 1 .. Len(s) - 1 /\ i \in 1 .. k /\ i + 1 \in 1 .. k
    BY <1>1, <1>2
  <2> QED
    BY <1>1, <1>2, <2>1
<1>4. Len(t) >= 1 /\ t[1] = c /\ k \in 1 .. k
  BY <1>1, <1>2
<1>5. IsChain(w.fat, t)
  BY <1>1, <1>2, <1>3, <1>4 DEF IsChain
<1>6. t = Chain(w, c)
  BY <1>2, <1>4, <1>5, OneChain
<1> QED
  BY <1>2, <1>6 DEF s

-----------------------------------------------------------------------------
(* Directories, and what is found in them. *)

LEMMA LiveType ==
  ASSUME NEW v \in Volumes, NEW q \in Live(v)
  PROVE  /\ q \in Places /\ q \in Writable /\ q.cluster \in Cluster /\ q.entry \in 0 .. N - 1
         /\ q = Place(q.cluster, q.entry)
         /\ v.fat[q.cluster] # Available
         /\ BlockOf(v, q) = At(v, q) /\ BlockOf(v, q) \in Block /\ BlockOf(v, q).kind = "live"
         /\ BlockOf(v, q).name \in Name /\ BlockOf(v, q).isDir \in BOOLEAN
         /\ First(v, q) \in Cluster \ {Root} /\ BlockOf(v, q).size \in FileSize
         /\ BlockOf(v, q) = Dirent(BlockOf(v, q).name, BlockOf(v, q).isDir, First(v, q), BlockOf(v, q).size)
<1>1. q \in Places /\ v.fat[q.cluster] # Available /\ BlockOf(v, q).kind = "live"
  BY DEF Live
<1>2. q \in Writable /\ q.cluster \in Cluster /\ q.entry \in 0 .. N - 1 /\ q = Place(q.cluster, q.entry)
  BY <1>1, PlacesAreWritable DEF Places, Place
<1>3. BlockOf(v, q) = At(v, q)
  BY <1>1, <1>2, BlockAt DEF BlockOf
<1> QED
  BY <1>1, <1>2, <1>3, LiveAt DEF First

LEMMA IsLive ==
  ASSUME NEW v \in Volumes, NEW q \in Places, v.fat[q.cluster] # Available, At(v, q).kind = "live"
  PROVE  q \in Live(v) /\ BlockOf(v, q) = At(v, q)
BY BlockAt, PlacesAreWritable DEF Live, BlockOf

LEMMA DirCluster ==
  ASSUME NEW v \in Shaped, NEW c \in DirClusters(v)
  PROVE  /\ v \in Volumes
         /\ c \in Cluster /\ v.fat[c] = End /\ v.fat[c] # Available /\ NextCluster(v, c) = 0
         /\ \E u \in 0 .. N - 1 : u <= Cardinality(Name) /\ Filling(v.slot[c], u)
<1>1. v \in Volumes /\ Links(v.fat) /\ Nesting(v) /\ Dirs(v)
  BY DEF Shaped
<1>2. c \in Cluster /\ v.fat[c] = End
  <2>1. CASE c = Root
    BY <1>1, <2>1, Starts DEF Links
  <2>2. CASE c # Root
    <3>1. PICK q \in Live(v) : BlockOf(v, q).isDir /\ First(v, q) = c
      BY <2>2 DEF DirClusters
    <3> QED
      BY <1>1, <3>1, LiveType DEF Nesting
  <2> QED
    BY <2>1, <2>2
<1>3. v.fat[c] # Available /\ NextCluster(v, c) = 0
  BY <1>2, Entries, OpsAssumption DEF NextCluster, End, Available
<1> QED
  BY <1>1, <1>2, <1>3 DEF Dirs

LEMMA RootIsDir == \A v : Root \in DirClusters(v)
BY DEF DirClusters

LEMMA Statuses ==
  /\ ReadDir(DeletedMark) # "end_of_dir"
  /\ \A b : b.kind = "live" => ReadDir(b) # "end_of_dir"
  /\ \A b \in {Blank, EndMark} : ReadDir(b) = "end_of_dir" /\ b.kind # "live"
BY DEF ReadDir, DeletedMark, Blank, EndMark

(* A scan of a directory finds what is wanted, or there is none and it ends *)
(* at the first entry not yet used.                                         *)
LEMMA DirScan ==
  ASSUME NEW v \in Shaped, NEW c \in DirClusters(v), NEW u \in 0 .. N - 1,
         Filling(v.slot[c], u), NEW wanted,
         \A i \in u .. N - 1 : Place(c, i) \notin wanted
  PROVE  LET r == Scan(v, Place(c, 0), wanted)
         IN  \/ r.st = "ok" /\ r.at \in wanted /\ r.at.cluster = c
             \/ /\ r = [st |-> "not_found", at |-> Place(c, u)]
                /\ \A i \in 0 .. N - 1 : Place(c, i) \notin wanted
<1>1. v \in Volumes /\ c \in Cluster /\ NextCluster(v, c) = 0
  BY DirCluster
<1>2. PICK from \in [0 .. D * N -> [Looks -> Looks]] : Scans(v, wanted, from)
  BY <1>1, ScanUnfolds
<1>3. D \in Nat /\ D >= 1 /\ N \in Nat /\ N > 1 /\ u \in Nat /\ u < N
  BY OpsAssumption
<1> DEFINE k == D * N
           On(i) == [st |-> "on", at |-> Place(c, i)]
           Good(r) == \/ r.st = "ok" /\ r.at \in wanted /\ r.at.cluster = c
                      \/ /\ r = [st |-> "not_found", at |-> Place(c, u)]
                         /\ \A i \in 0 .. N - 1 : Place(c, i) \notin wanted
           T == {n \in Nat : n <= k => \A i \in 0 .. u :
                   (\A j \in 0 .. i - 1 : Place(c, j) \notin wanted) /\ u - i + 1 <= n
                     => Good(from[n][On(i)])}
<1>4. k \in Nat /\ k >= N
  <2>1. 1 * N <= D * N
    <3>1. CASE D = 1
      BY <1>3, <3>1
    <3>2. CASE D > 1
      BY <1>3, <3>2, Multiples
    <3> QED
      BY <1>3, <3>1, <3>2
  <2> QED
    BY <1>3, <2>1
<1>5. ASSUME NEW l \in Looks, l.st # "on", NEW n \in 0 .. k PROVE from[n][l] = l
  <2>1. CASE n = 0
    BY <1>2, <2>1 DEF Scans
  <2>2. CASE n # 0
    <3>1. n \in 1 .. k
      BY <1>4, <2>2
    <3> QED
      BY ONLY <1>2, <1>5, <3>1 DEF Scans
  <2> QED
    BY <2>1, <2>2
<1>6. ASSUME NEW i \in 0 .. u
      PROVE  /\ On(i) \in Looks /\ Place(c, i) \in Spots /\ Place(c, i) \in Writable /\ Place(c, i) \in Places
             /\ Place(c, i).cluster = c /\ Place(c, i).entry = i
             /\ At(v, Place(c, i)) = v.slot[c][i]
  <2>1. On(i) \in Looks /\ Place(c, i) \in Spots /\ Place(c, i) \in Writable /\ Place(c, i) \in Places
        /\ Place(c, i).cluster = c /\ Place(c, i).entry = i
    BY <1>1, <1>3 DEF Looks, Spots, Writable, Places, Place
  <2> QED
    BY <1>1, <2>1, BlockAt
<1>7. 0 \in T
  BY <1>3
<1>8. ASSUME NEW n \in Nat, n \in T PROVE n + 1 \in T
  <2> SUFFICES ASSUME n + 1 <= k, NEW i \in 0 .. u,
                      \A j \in 0 .. i - 1 : Place(c, j) \notin wanted, u - i + 1 <= n + 1
               PROVE  Good(from[n + 1][On(i)])
    OBVIOUS
  <2> DEFINE q == Place(c, i)
             r == Look(v, q, wanted)
             l == On(i)
  <2>1. n + 1 \in 1 .. k /\ (n + 1) - 1 = n /\ n \in 0 .. k
    BY <1>4
  <2>2. l \in Looks /\ l.st = "on" /\ l.at = q
    BY <1>6
  <2>3. from[n + 1][l] = from[n][r]
    <3> HIDE DEF l, q, k
    <3>1. from[n + 1][l] = IF l.st = "on" THEN from[(n + 1) - 1][Look(v, l.at, wanted)] ELSE l
      BY ONLY <1>2, <2>1, <2>2 DEF Scans, k
    <3> QED
      BY ONLY <2>1, <2>2, <3>1
  <2>4. q \in Spots /\ q.cluster = c /\ q.entry = i /\ At(v, q) = v.slot[c][i]
    BY <1>6
  <2> HIDE DEF q, l
  <2>5. r \in Looks
    BY <1>1, <2>4, LookOn
  <2>6. CASE q \in wanted
    <3>1. r = [st |-> "ok", at |-> q]
      BY <2>6 DEF Look
    <3> HIDE DEF r
    <3>2. from[n][r] = r
      BY <1>5, <2>1, <2>5, <3>1
    <3> QED
      BY <2>3, <2>4, <2>6, <3>1, <3>2 DEF l
  <2>7. CASE q \notin wanted /\ i = u
    <3>1. v.slot[c][i] \in {Blank, EndMark}
      BY <1>3, <2>7 DEF Filling
    <3>2. ReadDir(At(v, q)) = "end_of_dir"
      BY <2>4, <3>1, Statuses
    <3>3. r = [st |-> "not_found", at |-> q]
      BY <2>7, <3>2 DEF Look
    <3> HIDE DEF r
    <3>4. from[n][r] = r
      BY <1>5, <2>1, <2>5, <3>3
    <3>5. \A j \in 0 .. N - 1 : Place(c, j) \notin wanted
      BY <1>3, <2>7 DEF q
    <3> QED
      BY <2>3, <2>7, <3>3, <3>4, <3>5 DEF l, q
  <2>8. CASE q \notin wanted /\ i # u
    <3>1. i \in 0 .. N - 1 /\ i < u /\ i + 1 \in 0 .. u /\ i + 1 < N
      BY <1>3, <2>8
    <3>2. v.slot[c][i] = DeletedMark \/ v.slot[c][i].kind = "live"
      BY <3>1 DEF Filling
    <3>3. ReadDir(At(v, q)) # "end_of_dir"
      BY <2>4, <3>2, Statuses
    <3>4. NextDirEntry(v, q) = [st |-> "ok", at |-> Place(c, i + 1)]
      BY <2>4, <3>1 DEF NextDirEntry
    <3>5. Look(v, q, wanted) = Onto(NextDirEntry(v, q))
      BY <2>8, <3>3 DEF Look
    <3>6. r = On(i + 1)
      BY <3>4, <3>5 DEF Onto
    <3> HIDE DEF r
    <3>7. \A j \in 0 .. (i + 1) - 1 : Place(c, j) \notin wanted
      BY <2>8 DEF q
    <3>8. u - (i + 1) + 1 <= n /\ n <= k
      BY <1>3, <1>4
    <3>9. Good(from[n][On(i + 1)])
      <4> HIDE DEF Good, On
      <4> QED
        BY <1>8, <3>1, <3>7, <3>8
    <3> QED
      BY <2>3, <3>6, <3>9 DEF l
  <2> QED
    BY <2>6, <2>7, <2>8
<1>9. k \in T
  <2> HIDE DEF T
  <2> QED
    BY <1>4, <1>7, <1>8, CountUp
<1>10. Good(from[k][On(0)])
  <2>1. 0 \in 0 .. u /\ u - 0 + 1 <= k /\ \A j \in 0 .. 0 - 1 : Place(c, j) \notin wanted
    BY <1>3, <1>4
  <2> HIDE DEF Good, On
  <2> QED
    BY <1>4, <1>9, <2>1
<1>11. Scan(v, Place(c, 0), wanted) = from[k][On(0)]
  <2>1. Place(c, 0) \in Spots
    BY <1>1 DEF Spots, Place
  <2> QED
    BY ONLY <1>2, <2>1 DEF Scans, k, On
<1> QED
  BY <1>10, <1>11

LEMMA FindLive ==
  ASSUME NEW v \in Shaped, NEW c \in DirClusters(v), NEW wanted \in SUBSET Places,
         \A q \in wanted : At(v, q).kind = "live"
  PROVE  LET r == Scan(v, Place(c, 0), wanted)
         IN  \/ r.st = "ok" /\ r.at \in wanted /\ r.at \in Live(v) /\ r.at.cluster = c
             \/ r.st = "not_found" /\ \A q \in Live(v) : q.cluster = c => q \notin wanted
<1> DEFINE r == Scan(v, Place(c, 0), wanted)
<1>1. v \in Volumes /\ c \in Cluster /\ v.fat[c] # Available
  BY DirCluster
<1>2. PICK u \in 0 .. N - 1 : Filling(v.slot[c], u)
  BY DirCluster
<1>3. N \in Nat
  BY OpsAssumption
<1>4. ASSUME NEW i \in u .. N - 1 PROVE Place(c, i) \notin wanted
  <2>1. i \in 0 .. N - 1 /\ ~ (i < u)
    BY <1>3
  <2>2. v.slot[c][i] \in {Blank, EndMark}
    BY <1>2, <2>1 DEF Filling
  <2>3. Place(c, i) \in Places /\ At(v, Place(c, i)) = v.slot[c][i]
    BY <1>1, <2>1, BlockAt, PlacesAreWritable DEF Places, Place
  <2>4. v.slot[c][i].kind # "live"
    BY <2>2, Statuses
  <2> QED
    BY <2>3, <2>4
<1>5. \/ r.st = "ok" /\ r.at \in wanted /\ r.at.cluster = c
      \/ /\ r = [st |-> "not_found", at |-> Place(c, u)]
         /\ \A i \in 0 .. N - 1 : Place(c, i) \notin wanted
  BY <1>2, <1>4, DirScan
<1> HIDE DEF r
<1>6. CASE r.st = "ok" /\ r.at \in wanted /\ r.at.cluster = c
  BY <1>1, <1>6, IsLive DEF r
<1>7. CASE /\ r = [st |-> "not_found", at |-> Place(c, u)]
           /\ \A i \in 0 .. N - 1 : Place(c, i) \notin wanted
  <2>1. \A q \in Live(v) : q.cluster = c => q \notin wanted
    BY <1>1, <1>7, LiveType
  <2> QED
    BY <1>7, <2>1 DEF r
<1> QED
  BY <1>5, <1>6, <1>7

(* The entry of a directory that is opened. *)
DirNamed(v, name) ==
  {d \in Live(v) : d.cluster = Root /\ BlockOf(v, d).isDir /\ BlockOf(v, d).name = name}

LEMMA OpenedDir ==
  ASSUME NEW v \in Shaped, NEW path
  PROVE  LET r == OpenDir(v, path)
         IN  /\ path = <<>> => r.st = "ok" /\ r.at = Place(Root, 0)
             /\ path # <<>> =>
                  \/ r.st = "ok" /\ \E d \in DirNamed(v, path[1]) : r.at = Place(First(v, d), 0)
                  \/ r.st = "not_found" /\ DirNamed(v, path[1]) = {}
             /\ r.st = "ok" => r.at.cluster \in DirClusters(v) /\ r.at = Place(r.at.cluster, 0)
<1> DEFINE r == OpenDir(v, path)
           wanted == {q \in Named(v, path[1]) : At(v, q).isDir}
           s == Scan(v, Place(Root, 0), wanted)
<1>1. CASE path = <<>>
  <2>1. r = [st |-> "ok", at |-> Place(Root, 0)]
    BY <1>1 DEF OpenDir
  <2> HIDE DEF r
  <2> QED
    BY <1>1, <2>1, RootIsDir DEF r, Place
<1>2. CASE path # <<>>
  <2>1. r = Enter(v, s)
    BY <1>2 DEF OpenDir
  <2>2. v \in Volumes
    BY DEF Shaped
  <2>3. wanted \in SUBSET Places /\ \A q \in wanted : At(v, q).kind = "live"
    BY DEF Named
  <2>4. \A q \in Live(v) : q \in wanted <=> BlockOf(v, q).name = path[1] /\ BlockOf(v, q).isDir
    BY <2>2, LiveType DEF Named
  <2> HIDE DEF wanted
  <2>5. \/ s.st = "ok" /\ s.at \in wanted /\ s.at \in Live(v) /\ s.at.cluster = Root
        \/ s.st = "not_found" /\ \A q \in Live(v) : q.cluster = Root => q \notin wanted
    BY <2>3, RootIsDir, FindLive
  <2> HIDE DEF s
  <2>6. CASE s.st = "ok" /\ s.at \in wanted /\ s.at \in Live(v) /\ s.at.cluster = Root
    <3>1. s.at \in DirNamed(v, path[1])
      BY <2>4, <2>6 DEF DirNamed
    <3>2. r = [st |-> "ok", at |-> Place(First(v, s.at), 0)]
      BY <2>1, <2>2, <2>6, LiveType DEF Enter, First
    <3>3. First(v, s.at) \in DirClusters(v)
      BY <3>1 DEF DirNamed, DirClusters
    <3> HIDE DEF r
    <3> QED
      BY <1>2, <3>1, <3>2, <3>3 DEF r, Place
  <2>7. CASE s.st = "not_found" /\ \A q \in Live(v) : q.cluster = Root => q \notin wanted
    <3>1. r = s
      BY <2>1, <2>7 DEF Enter
    <3>2. DirNamed(v, path[1]) = {}
      BY <2>4, <2>7 DEF DirNamed
    <3> HIDE DEF r
    <3> QED
      BY <1>2, <2>7, <3>1, <3>2 DEF r
  <2> QED
    BY <2>5, <2>6, <2>7
<1> QED
  BY <1>1, <1>2

LEMMA LocatedIn ==
  ASSUME NEW v \in Shaped, NEW path
  PROVE  LET l == Locate(v, path)
             d == OpenDir(v, Dirname(path))
         IN  /\ l.st \in {"ok", "not_found"}
             /\ l.st = "ok" =>
                  /\ d.st = "ok" /\ l.at \in Live(v) /\ l.at.cluster = d.at.cluster
                  /\ BlockOf(v, l.at).name = Basename(path)
             /\ l.st # "ok" /\ d.st = "ok" =>
                  \A q \in Live(v) : q.cluster = d.at.cluster => BlockOf(v, q).name # Basename(path)
<1> DEFINE l == Locate(v, path)
           d == OpenDir(v, Dirname(path))
           wanted == Named(v, Basename(path))
           s == Scan(v, d.at, wanted)
<1>1. l = IF d.st # "ok" THEN d ELSE s
  BY DEF Locate
<1>2. /\ d.st \in {"ok", "not_found"}
      /\ d.st = "ok" => d.at.cluster \in DirClusters(v) /\ d.at = Place(d.at.cluster, 0)
  BY OpenedDir
<1>3. v \in Volumes
  BY DEF Shaped
<1>4. wanted \in SUBSET Places /\ \A q \in wanted : At(v, q).kind = "live"
  BY DEF Named
<1>5. \A q \in Live(v) : q \in wanted <=> BlockOf(v, q).name = Basename(path)
  BY <1>3, LiveType DEF Named
<1> HIDE DEF wanted, d, l
<1>6. CASE d.st # "ok"
  BY <1>1, <1>2, <1>6 DEF d, l
<1>7. CASE d.st = "ok"
  <2> DEFINE c == d.at.cluster
  <2>1. s = Scan(v, Place(c, 0), wanted) /\ c \in DirClusters(v)
    BY <1>2, <1>7
  <2> HIDE DEF c
  <2>2. \/ s.st = "ok" /\ s.at \in wanted /\ s.at \in Live(v) /\ s.at.cluster = c
        \/ s.st = "not_found" /\ \A q \in Live(v) : q.cluster = c => q \notin wanted
    BY <1>4, <2>1, FindLive
  <2>3. l = s
    BY <1>1, <1>7
  <2> HIDE DEF s
  <2> QED
    BY <1>5, <1>7, <2>2, <2>3 DEF d, l, c
<1> QED
  BY <1>6, <1>7

(* Where the entry of a path is. *)
IsAt(v, path, q) ==
  /\ q \in Live(v) /\ BlockOf(v, q).name = Basename(path)
  /\ Dirname(path) = <<>> => q.cluster = Root
  /\ Dirname(path) # <<>> => \E d \in DirNamed(v, Dirname(path)[1]) : q.cluster = First(v, d)

LEMMA OneDirNamed ==
  ASSUME NEW v \in Shaped, NEW name, NEW d \in DirNamed(v, name), NEW e \in DirNamed(v, name)
  PROVE  d = e
BY DEF DirNamed, Shaped, Dirs

LEMMA LocatedThere ==
  ASSUME NEW v \in Shaped, NEW path
  PROVE  /\ Locate(v, path).st = "ok" => IsAt(v, path, Locate(v, path).at)
         /\ \A q : IsAt(v, path, q) => Locate(v, path).st = "ok" /\ Locate(v, path).at = q
<1> DEFINE l == Locate(v, path)
           d == OpenDir(v, Dirname(path))
           m == Dirname(path)
<1>1. /\ l.st = "ok" =>
           /\ d.st = "ok" /\ l.at \in Live(v) /\ l.at.cluster = d.at.cluster
           /\ BlockOf(v, l.at).name = Basename(path)
      /\ l.st # "ok" /\ d.st = "ok" =>
           \A q \in Live(v) : q.cluster = d.at.cluster => BlockOf(v, q).name # Basename(path)
  BY LocatedIn
<1>2. /\ m = <<>> => d.st = "ok" /\ d.at = Place(Root, 0)
      /\ m # <<>> =>
           \/ d.st = "ok" /\ \E e \in DirNamed(v, m[1]) : d.at = Place(First(v, e), 0)
           \/ d.st = "not_found" /\ DirNamed(v, m[1]) = {}
  BY OpenedDir
<1> HIDE DEF l, d, m
<1>3. ASSUME l.st = "ok" PROVE IsAt(v, path, l.at)
  <2>1. m = <<>> => l.at.cluster = Root
    BY <1>1, <1>2, <1>3 DEF Place
  <2>2. ASSUME m # <<>> PROVE \E e \in DirNamed(v, m[1]) : l.at.cluster = First(v, e)
    <3>1. d.st = "ok" /\ l.at.cluster = d.at.cluster
      BY <1>1, <1>3
    <3>2. PICK e \in DirNamed(v, m[1]) : d.at = Place(First(v, e), 0)
      BY <1>2, <2>2, <3>1
    <3>3. d.at.cluster = First(v, e)
      BY <3>2 DEF Place
    <3> QED
      BY <3>1, <3>3
  <2> QED
    BY <1>1, <1>3, <2>1, <2>2 DEF IsAt, m
<1>4. ASSUME NEW q, IsAt(v, path, q) PROVE l.st = "ok" /\ l.at = q
  <2>1. q \in Live(v) /\ BlockOf(v, q).name = Basename(path)
    BY <1>4 DEF IsAt
  <2>2. d.st = "ok" /\ d.at.cluster = q.cluster
    <3>1. CASE m = <<>>
      BY <1>2, <1>4, <3>1 DEF IsAt, m, Place
    <3>2. CASE m # <<>>
      <4>1. PICK e \in DirNamed(v, m[1]) : q.cluster = First(v, e)
        BY <1>4, <3>2 DEF IsAt, m
      <4>2. d.st = "ok" /\ \E f \in DirNamed(v, m[1]) : d.at = Place(First(v, f), 0)
        BY <1>2, <3>2, <4>1
      <4> QED
        BY <4>1, <4>2, OneDirNamed DEF Place
    <3> QED
      BY <3>1, <3>2
  <2>3. l.st = "ok"
    BY <1>1, <2>1, <2>2
  <2>4. l.at \in Live(v) /\ l.at.cluster = q.cluster /\ BlockOf(v, l.at).name = BlockOf(v, q).name
    BY <1>1, <2>1, <2>2, <2>3
  <2> QED
    BY <2>1, <2>3, <2>4 DEF Shaped, Dirs
<1> QED
  BY <1>3, <1>4 DEF l

-----------------------------------------------------------------------------
(* Changes to a volume. *)

LEMMA DataIsNoEntry ==
  /\ DataBlock \subseteq Block
  /\ \A b \in DataBlock : b.kind # "live"
<1>1. \A b \in DataBlock : b.kind # "live"
  BY DEF DataBlock, Blank, Unit
<1>2. DataBlock \subseteq Block
  BY Blocks DEF DataBlock
<1> QED
  BY <1>1, <1>2

(* Links are taken away, and not those to clusters that stay allocated.     *)
LEMMA LinksTakenAway ==
  ASSUME NEW f, NEW g, Links(f), g[Root] = End,
         \A c \in Cluster : g[c] \in {Available, End, f[c]},
         \A c \in Cluster : g[c] \in Cluster => g[g[c]] # Available
  PROVE  Links(g)
<1>1. \A c \in Cluster : g[c] \in Cluster => g[c] = f[c]
  BY Entries
<1> QED
  BY <1>1 DEF Links

(* A free cluster is linked to the end of a chain. *)
LEMMA LinkAdded ==
  ASSUME NEW f \in [Cluster -> Entry], Links(f), NEW t \in Cluster, NEW c \in Cluster,
         f[t] = End, f[c] = Available, t # Root, NEW g, g = [[f EXCEPT ![t] = c] EXCEPT ![c] = End]
  PROVE  /\ Links(g)
         /\ g \in [Cluster -> Entry]
         /\ c # t /\ c # Root /\ g[t] = c /\ g[c] = End /\ \A d \in Cluster \ {c, t} : g[d] = f[d]
         /\ \A d \in Cluster : f[d] # Available => g[d] # Available
         /\ \A d, h \in Cluster : f[h] # Available /\ f[d] # h => g[d] # h
<1>1. Available # End /\ Available \notin Cluster /\ End \notin Cluster /\ Root \in Cluster
  BY Entries, Starts DEF End, Available
<1>2. c # t /\ c # Root
  BY <1>1 DEF Links
<1>3. g[t] = c /\ g[c] = End /\ \A d \in Cluster \ {c, t} : g[d] = f[d]
  BY <1>2
<1>4. \A d \in Cluster : f[d] # c
  BY DEF Links
<1>5. \A d \in Cluster : f[d] # Available => g[d] # Available
  BY <1>1, <1>3
<1>6. Links(g)
  <2>1. g[Root] = End
    BY <1>1, <1>2, <1>3 DEF Links
  <2>2. ASSUME NEW d \in Cluster, NEW e \in Cluster, g[d] \in Cluster, g[d] = g[e] PROVE d = e
    BY <1>1, <1>3, <1>4, <2>2 DEF Links
  <2>3. ASSUME NEW d \in Cluster, g[d] \in Cluster PROVE g[d] # Root /\ g[g[d]] # Available
    BY <1>1, <1>2, <1>3, <1>5, <2>3 DEF Links
  <2> QED
    BY <2>1, <2>2, <2>3 DEF Links
<1>7. \A d, h \in Cluster : f[h] # Available /\ f[d] # h => g[d] # h
  BY <1>1, <1>3
<1>8. g \in [Cluster -> Entry]
  BY Entries
<1> QED
  BY <1>2, <1>3, <1>5, <1>6, <1>7, <1>8

(* The entries of two volumes are the same. *)
SameEntries(v, w) ==
  /\ Live(w) = Live(v)
  /\ \A q \in Live(v) : BlockOf(w, q) = BlockOf(v, q)

(* What changes is none of the directories. *)
LEMMA FilesChanged ==
  ASSUME NEW v \in Shaped, NEW w \in Volumes, Links(w.fat),
         \A c \in DirClusters(v) : w.slot[c] = v.slot[c] /\ w.fat[c] = v.fat[c],
         \A c \in Cluster \ DirClusters(v) :
           w.fat[c] # Available => w.slot[c] \in [0 .. N - 1 -> DataBlock],
         \A q \in Live(v) :
           w.fat[First(v, q)] # Available /\ \A c \in Cluster : w.fat[c] # First(v, q)
  PROVE  w \in Shaped /\ SameEntries(v, w) /\ DirClusters(w) = DirClusters(v)
<1>1. v \in Volumes /\ Heads(v) /\ Nesting(v) /\ Dirs(v)
  BY DEF Shaped
<1>2. ASSUME NEW q \in Live(v) PROVE q \in Live(w) /\ BlockOf(w, q) = BlockOf(v, q)
  <2>1. /\ q \in Places /\ q.cluster \in DirClusters(v)
        /\ v.fat[q.cluster] # Available /\ BlockOf(v, q).kind = "live"
    BY <1>1, LiveType DEF Nesting
  <2>2. w.fat[q.cluster] # Available /\ BlockOf(w, q) = BlockOf(v, q)
    BY <2>1 DEF BlockOf
  <2> QED
    BY <2>1, <2>2 DEF Live
<1>3. ASSUME NEW q \in Live(w) PROVE q \in Live(v)
  <2>1. /\ q \in Places /\ q.cluster \in Cluster /\ q.entry \in 0 .. N - 1
        /\ w.fat[q.cluster] # Available /\ BlockOf(w, q).kind = "live"
    BY LiveType
  <2>2. q.cluster \in DirClusters(v)
    <3> SUFFICES ASSUME q.cluster \notin DirClusters(v) PROVE FALSE
      OBVIOUS
    <3>1. BlockOf(w, q) \in DataBlock
      BY <2>1 DEF BlockOf
    <3> QED
      BY <2>1, <3>1, DataIsNoEntry
  <2>3. v.fat[q.cluster] # Available /\ BlockOf(w, q) = BlockOf(v, q)
    BY <2>1, <2>2 DEF BlockOf
  <2> QED
    BY <2>1, <2>3 DEF Live
<1>4. SameEntries(v, w) /\ \A q \in Live(v) : First(w, q) = First(v, q)
  BY <1>2, <1>3 DEF SameEntries, First
<1>5. DirClusters(w) = DirClusters(v)
  BY <1>4 DEF DirClusters, SameEntries
<1>6. Heads(w)
  BY <1>1, <1>4 DEF Heads, SameEntries
<1>7. Nesting(w)
  <2> SUFFICES ASSUME NEW q \in Live(w)
               PROVE  /\ q.cluster \in DirClusters(w)
                      /\ BlockOf(w, q).isDir => q.cluster = Root /\ w.fat[First(w, q)] = End
    BY DEF Nesting
  <2>1. q \in Live(v) /\ BlockOf(w, q) = BlockOf(v, q) /\ First(w, q) = First(v, q)
    BY <1>4 DEF SameEntries
  <2>2. BlockOf(v, q).isDir => First(v, q) \in DirClusters(v)
    BY <2>1 DEF DirClusters
  <2> QED
    BY <1>1, <1>5, <2>1, <2>2 DEF Nesting
<1>8. Dirs(w)
  BY <1>1, <1>4, <1>5 DEF Dirs, SameEntries
<1>9. Data(w)
  BY <1>5 DEF Data
<1> QED
  BY <1>4, <1>5, <1>6, <1>7, <1>8, <1>9 DEF Shaped

(* What changes is entries, which exchange their chains. *)
LEMMA EntriesChanged ==
  ASSUME NEW v \in Shaped, NEW w \in Volumes, w.fat = v.fat,
         \A c \in Cluster : \A e \in 0 .. N - 1 :
           \/ w.slot[c][e] = v.slot[c][e]
           \/ Place(c, e) \in Live(v) /\ w.slot[c][e].kind = "live",
         NEW s \in [Live(v) -> Live(v)],
         \A p, q \in Live(v) : s[p] = s[q] => p = q,
         \A q \in Live(v) : \E p \in Live(v) : s[p] = q,
         \A q \in Live(v) : First(w, q) = First(v, s[q])
                            /\ BlockOf(w, q).isDir = BlockOf(v, s[q]).isDir,
         \A q \in Live(v) : BlockOf(w, q).isDir => q.cluster = Root,
         \A p, q \in Live(v) :
           p.cluster = q.cluster /\ BlockOf(w, p).name = BlockOf(w, q).name => p = q
  PROVE  w \in Shaped /\ Live(w) = Live(v) /\ DirClusters(w) = DirClusters(v)
<1>1. v \in Volumes /\ Links(v.fat) /\ Heads(v) /\ Nesting(v) /\ Dirs(v) /\ Data(v)
  BY DEF Shaped
<1>2. ASSUME NEW q \in Places, v.fat[q.cluster] # Available
      PROVE  q \in Live(v) <=> q \in Live(w)
  <2>1. q.cluster \in Cluster /\ q.entry \in 0 .. N - 1 /\ q = Place(q.cluster, q.entry)
    BY DEF Places, Place
  <2>2. BlockOf(w, q) = BlockOf(v, q) \/ (q \in Live(v) /\ BlockOf(w, q).kind = "live")
    BY <2>1 DEF BlockOf
  <2>3. q \in Live(v) => BlockOf(v, q).kind = "live"
    BY DEF Live
  <2> QED
    BY <1>2, <2>2, <2>3 DEF Live
<1>3. Live(w) = Live(v)
  BY <1>2 DEF Live
<1>4. DirClusters(w) = DirClusters(v)
  <2>1. ASSUME NEW q \in Live(v), BlockOf(w, q).isDir PROVE First(w, q) \in DirClusters(v)
    BY <2>1 DEF DirClusters
  <2>2. ASSUME NEW q \in Live(v), BlockOf(v, q).isDir PROVE First(v, q) \in DirClusters(w)
    <3>1. PICK p \in Live(v) : s[p] = q
      OBVIOUS
    <3>2. p \in Live(w) /\ BlockOf(w, p).isDir /\ First(w, p) = First(v, q)
      BY <1>3, <2>2, <3>1
    <3> QED
      BY <3>2 DEF DirClusters
  <2>3. Root \in DirClusters(v) /\ Root \in DirClusters(w)
    BY RootIsDir
  <2> QED
    BY <1>3, <2>1, <2>2, <2>3 DEF DirClusters
<1>5. Heads(w)
  <2>1. \A q \in Live(v) : s[q] \in Live(v) /\ First(w, q) = First(v, s[q])
    OBVIOUS
  <2>2. \A q \in Live(v) :
          w.fat[First(w, q)] # Available /\ \A c \in Cluster : w.fat[c] # First(w, q)
    BY <1>1, <2>1 DEF Heads
  <2>3. ASSUME NEW p \in Live(v), NEW q \in Live(v), First(w, p) = First(w, q) PROVE p = q
    <3>1. s[p] = s[q]
      BY <1>1, <2>1, <2>3 DEF Heads
    <3> QED
      BY <3>1
  <2> QED
    BY <1>3, <2>2, <2>3 DEF Heads
<1>6. Nesting(w)
  <2> SUFFICES ASSUME NEW q \in Live(v)
               PROVE  /\ q.cluster \in DirClusters(w)
                      /\ BlockOf(w, q).isDir => q.cluster = Root /\ w.fat[First(w, q)] = End
    BY <1>3 DEF Nesting
  <2>1. s[q] \in Live(v)
    OBVIOUS
  <2> QED
    BY <1>1, <1>4, <2>1 DEF Nesting
<1>7. Dirs(w)
  <2>1. ASSUME NEW c \in DirClusters(v)
        PROVE  \E u \in 0 .. N - 1 : u <= Cardinality(Name) /\ Filling(w.slot[c], u)
    <3>1. c \in Cluster
      BY DirCluster
    <3>2. PICK u \in 0 .. N - 1 : u <= Cardinality(Name) /\ Filling(v.slot[c], u)
      BY DirCluster
    <3>3. ASSUME NEW i \in 0 .. N - 1
          PROVE  IF i < u THEN w.slot[c][i] = DeletedMark \/ w.slot[c][i].kind = "live"
                 ELSE w.slot[c][i] \in {Blank, EndMark}
      <4>1. CASE w.slot[c][i] = v.slot[c][i]
        BY <3>2, <4>1 DEF Filling
      <4>2. CASE Place(c, i) \in Live(v) /\ w.slot[c][i].kind = "live"
        <5>1. v.slot[c][i].kind = "live"
          BY <4>2 DEF Live, BlockOf, Place
        <5>2. v.slot[c][i] \notin {Blank, EndMark}
          BY <5>1, Statuses
        <5> QED
          BY <3>2, <4>2, <5>2 DEF Filling
      <4> QED
        BY <3>1, <4>1, <4>2
    <3> QED
      BY <3>2, <3>3 DEF Filling
  <2> QED
    BY <1>3, <1>4, <2>1 DEF Dirs
<1>8. Data(w)
  <2> SUFFICES ASSUME NEW c \in Cluster \ DirClusters(v), v.fat[c] # Available
               PROVE  w.slot[c] \in [0 .. N - 1 -> DataBlock]
    BY <1>4 DEF Data
  <2>1. v.slot[c] \in [0 .. N - 1 -> DataBlock]
    BY <1>1 DEF Data
  <2>2. ASSUME NEW e \in 0 .. N - 1 PROVE w.slot[c][e] = v.slot[c][e]
    <3>1. Place(c, e) \in Live(v) => c \in DirClusters(v)
      BY <1>1 DEF Nesting, Place
    <3> QED
      BY <3>1
  <2>3. w.slot[c] \in [0 .. N - 1 -> Block]
    BY OpsAssumption DEF Volumes, VolumeType, Slots, Cluster
  <2>4. \A e \in 0 .. N - 1 : w.slot[c][e] \in DataBlock
    BY ONLY <2>1, <2>2
  <2> QED
    BY ONLY <2>3, <2>4
<1> QED
  BY <1>1, <1>3, <1>4, <1>5, <1>6, <1>7, <1>8 DEF Shaped

-----------------------------------------------------------------------------
(* The chains of entries. *)

LEMMA SoundIsShaped == ASSUME NEW v \in Sound PROVE v \in Shaped /\ v \in Volumes /\ SizesFit(v)
BY DEF Sound, Shaped

LEMMA ChainOfEntry ==
  ASSUME NEW v \in Shaped, NEW q \in Live(v)
  PROVE  /\ First(v, q) \in Cluster
         /\ \A d \in ChainSet(v, First(v, q)) :
              /\ d \in Cluster /\ d # Root /\ v.fat[d] # Available
              /\ NextCluster(v, d) = 0 => v.fat[d] = End
         /\ \A p \in Live(v) :
              p # q => /\ ChainSet(v, First(v, p)) \cap ChainSet(v, First(v, q)) = {}
                       /\ First(v, p) \notin ChainSet(v, First(v, q))
<1> DEFINE f == First(v, q)
<1>1. v \in Volumes /\ Links(v.fat) /\ Heads(v)
  BY DEF Shaped
<1>2. /\ f \in Cluster /\ f # Root /\ v.fat[f] # Available
      /\ \A c \in Cluster : v.fat[c] # f
  BY <1>1, LiveType DEF Heads
<1>3. v.fat \in [Cluster -> Entry]
  BY <1>1 DEF Volumes, VolumeType
<1>4. ASSUME NEW d \in ChainSet(v, f)
      PROVE  /\ d \in Cluster /\ d # Root /\ v.fat[d] # Available
             /\ NextCluster(v, d) = 0 => v.fat[d] = End
  <2>1. d \in Cluster
    BY <1>1, <1>2, InChain
  <2>2. d = f \/ \E e \in Cluster : v.fat[e] = d
    BY <1>1, <1>2, ChainLinks, InChain
  <2>3. d # Root /\ v.fat[d] # Available
    BY <1>1, <1>2, <2>1, <2>2 DEF Links
  <2>4. NextCluster(v, d) = 0 => v.fat[d] = End
    BY <1>1, <1>3, <2>1, <2>3, NextInChain DEF Entry
  <2> QED
    BY <2>1, <2>3, <2>4
<1>5. ASSUME NEW p \in Live(v), p # q
      PROVE  ChainSet(v, First(v, p)) \cap ChainSet(v, f) = {} /\ First(v, p) \in ChainSet(v, First(v, p))
  <2>1. First(v, p) \in Cluster /\ First(v, p) # f /\ \A c \in Cluster : v.fat[c] # First(v, p)
    BY <1>1, <1>5, LiveType DEF Heads
  <2> QED
    BY <1>1, <1>2, <2>1, ChainsApart, ChainLinks
<1> QED
  BY <1>2, <1>4, <1>5

(* A file's clusters are no directory's. *)
LEMMA ChainOfFile ==
  ASSUME NEW v \in Shaped, NEW q \in Live(v), ~BlockOf(v, q).isDir,
         NEW d \in ChainSet(v, First(v, q))
  PROVE  d \in Cluster \ DirClusters(v) /\ v.fat[d] # Available
<1>1. d \in Cluster /\ d # Root /\ v.fat[d] # Available
  BY ChainOfEntry
<1>2. ASSUME NEW p \in Live(v), BlockOf(v, p).isDir PROVE First(v, p) # d
  BY <1>2, ChainOfEntry
<1> QED
  BY <1>1, <1>2 DEF DirClusters

LEMMA LastOfChain ==
  ASSUME NEW v \in Volumes, NEW c \in Cluster, NEW k \in 1 .. Len(Chain(v, c))
  PROVE  /\ Chain(v, c)[k] \in ChainSet(v, c) /\ Chain(v, c)[k] \in Cluster
         /\ v.fat[Chain(v, c)[k]] \in Cluster =>
              k + 1 \in 1 .. Len(Chain(v, c)) /\ Chain(v, c)[k + 1] = v.fat[Chain(v, c)[k]]
         /\ v.fat[Chain(v, c)[k]] \notin Cluster => k = Len(Chain(v, c))
<1> DEFINE s == Chain(v, c)
<1>1. /\ s \in Seq(Cluster) /\ Len(s) \in Nat
      /\ \A i \in 1 .. Len(s) - 1 : v.fat[s[i]] = s[i + 1]
      /\ v.fat[s[Len(s)]] \notin Cluster
  BY Chained DEF IsChain
<1>2. s[k] \in ChainSet(v, c) /\ s[k] \in Cluster
  BY <1>1, InChain
<1> HIDE DEF s
<1>3. k \in 1 .. Len(s)
  BY DEF s
<1>4. v.fat[s[k]] \in Cluster => k + 1 \in 1 .. Len(s) /\ s[k + 1] = v.fat[s[k]]
  <2> SUFFICES ASSUME v.fat[s[k]] \in Cluster PROVE k + 1 \in 1 .. Len(s) /\ s[k + 1] = v.fat[s[k]]
    OBVIOUS
  <2>1. k # Len(s)
    BY <1>1
  <2>2. k \in 1 .. Len(s) - 1
    BY <1>1, <1>3, <2>1
  <2> QED
    BY <1>1, <2>2
<1>5. v.fat[s[k]] \notin Cluster => k = Len(s)
  <2> SUFFICES ASSUME k # Len(s) PROVE v.fat[s[k]] \in Cluster
    OBVIOUS
  <2>1. k \in 1 .. Len(s) - 1 /\ k + 1 \in 1 .. Len(s)
    BY <1>1, <1>3
  <2> QED
    BY <1>1, <2>1
<1> QED
  BY <1>2, <1>4, <1>5 DEF s

-----------------------------------------------------------------------------
(* A file is given one more cluster. *)

(* The clusters of file q and the free ones, which calls on it pass to and  *)
(* fro.                                                                     *)
Mine(v, q) == FreeClusters(v) \cup ChainSet(v, First(v, q))

OthersKept(v, q, w) ==
  /\ Mine(w, q) = Mine(v, q)
  /\ \A c \in Cluster \ Mine(v, q) : w.fat[c] = v.fat[c] /\ w.slot[c] = v.slot[c]

Longer(s, t) == Len(s) <= Len(t) /\ \A i \in 1 .. Len(s) : t[i] = s[i]

(* What is done to the data of a file, and may make its chain longer.       *)
Along(v, q, w) ==
  /\ SameEntries(v, w)
  /\ OthersKept(v, q, w)
  /\ Longer(Chain(v, First(v, q)), Chain(w, First(v, q)))

LEMMA AlongAgain ==
  ASSUME NEW u, NEW v, NEW w, NEW q \in Live(u), Along(u, q, v), Along(v, q, w),
         Chain(u, First(u, q)) \in Seq(Cluster), Chain(v, First(u, q)) \in Seq(Cluster),
         Chain(w, First(u, q)) \in Seq(Cluster)
  PROVE  Along(u, q, w)
<1>1. SameEntries(u, w) /\ First(v, q) = First(u, q)
  BY DEF Along, SameEntries, First
<1>2. OthersKept(u, q, w)
  BY DEF Along, OthersKept
<1> DEFINE r == Chain(u, First(u, q))
           s == Chain(v, First(u, q))
           t == Chain(w, First(u, q))
<1>3. Longer(r, s) /\ Longer(s, t)
  BY <1>1 DEF Along
<1> HIDE DEF r, s, t
<1>4. Len(r) \in Nat /\ Len(s) \in Nat /\ Len(t) \in Nat
  BY DEF r, s, t
<1>5. Longer(r, t)
  BY <1>3, <1>4 DEF Longer
<1> QED
  BY <1>1, <1>2, <1>5 DEF Along, r, t

LEMMA AlongItself ==
  ASSUME NEW v \in Volumes, NEW q \in Live(v)
  PROVE  Along(v, q, v)
<1>1. Chain(v, First(v, q)) \in Seq(Cluster)
  BY Chained, LiveType
<1> QED
  BY <1>1 DEF Along, SameEntries, OthersKept, Longer

LEMMA SizesAreNat == FileSize \subseteq Nat
<1>1. Sizes \subseteq Nat /\ \A w \in Writes : w[1] \in Nat /\ w[2] \in Nat
  BY VolumeAssumption
<1>2. ASSUME NEW n \in FileSize PROVE n \in Nat
  <2>1. CASE n \in {w[1] + w[2] : w \in Writes}
    BY <1>1, <2>1
  <2>2. CASE n \in {w[1] + 1 : w \in Writes}
    BY <1>1, <2>2
  <2> QED
    BY <1>1, <1>2, <2>1, <2>2 DEF FileSize
<1> QED
  BY <1>2

LEMMA FileGrown ==
  ASSUME NEW v \in Sound, NEW q \in Live(v), ~BlockOf(v, q).isDir,
         NEW t \in ChainSet(v, First(v, q)), v.fat[t] = End,
         NEW c \in Cluster, v.fat[c] = Available,
         NEW w \in Volumes, w.fat[t] = c, w.fat[c] = End,
         \A d \in Cluster \ {c, t} : w.fat[d] = v.fat[d],
         \A d \in Cluster \ {c} : w.slot[d] = v.slot[d],
         w.slot[c] \in [0 .. N - 1 -> DataBlock]
  PROVE  /\ w \in Sound /\ Along(v, q, w)
         /\ Chain(w, First(v, q)) = Append(Chain(v, First(v, q)), c)
<1> DEFINE f == First(v, q)
<1>1. v \in Shaped /\ v \in Volumes /\ SizesFit(v) /\ Links(v.fat) /\ Heads(v) /\ Data(v)
  BY SoundIsShaped DEF Shaped
<1>2. t \in Cluster \ DirClusters(v) /\ t # Root /\ f \in Cluster
  BY <1>1, ChainOfFile, ChainOfEntry
<1>3. v.fat \in [Cluster -> Entry]
  BY <1>1 DEF Volumes, VolumeType
<1>4. /\ Links(w.fat)
      /\ c # t /\ w.fat[t] = c /\ w.fat[c] = End /\ \A d \in Cluster \ {c, t} : w.fat[d] = v.fat[d]
      /\ \A d \in Cluster : v.fat[d] # Available => w.fat[d] # Available
      /\ \A d, h \in Cluster : v.fat[h] # Available /\ v.fat[d] # h => w.fat[d] # h
  <2>1. c # t /\ w.fat \in [Cluster -> Entry]
    BY Entries DEF Volumes, VolumeType, Available, End
  <2>2. w.fat = [[v.fat EXCEPT ![t] = c] EXCEPT ![c] = End]
    BY <1>2, <1>3, <2>1
  <2> QED
    BY <1>1, <1>2, <1>3, <2>2, LinkAdded
<1>5. c \notin DirClusters(v)
  BY <1>1, DirCluster
<1>6. \A d \in DirClusters(v) : w.slot[d] = v.slot[d] /\ w.fat[d] = v.fat[d]
  BY <1>1, <1>2, <1>4, <1>5, DirCluster
<1>7. \A d \in Cluster \ DirClusters(v) : w.fat[d] # Available => w.slot[d] \in [0 .. N - 1 -> DataBlock]
  <2> SUFFICES ASSUME NEW d \in Cluster \ DirClusters(v), w.fat[d] # Available, d # c
               PROVE  w.slot[d] \in [0 .. N - 1 -> DataBlock]
    OBVIOUS
  <2>1. v.fat[d] # Available
    BY <1>4, Entries DEF End, Available
  <2> QED
    BY <1>1, <2>1 DEF Data
<1>8. \A p \in Live(v) :
        w.fat[First(v, p)] # Available /\ \A d \in Cluster : w.fat[d] # First(v, p)
  BY <1>1, <1>4, LiveType DEF Heads
<1>9. w \in Shaped /\ SameEntries(v, w)
  BY <1>1, <1>4, <1>6, <1>7, <1>8, FilesChanged
<1>10. Chain(w, f) = Append(Chain(v, f), c)
  <2> DEFINE s == Chain(v, f)
  <2>1. s \in Seq(Cluster) /\ Len(s) \in Nat /\ Len(s) >= 1
    BY <1>1, <1>2, Chained
  <2>2. ASSUME NEW i \in 1 .. Len(s)
        PROVE  /\ s[i] \in ChainSet(v, f) /\ s[i] \in Cluster
               /\ v.fat[s[i]] \in Cluster \/ i = Len(s)
    BY <1>1, <1>2, LastOfChain
  <2>3. PICK i \in 1 .. Len(s) : s[i] = t
    BY <1>1, <1>2, InChain
  <2>4. End \notin Cluster
    BY Entries
  <2>5. i = Len(s)
    BY <2>2, <2>3, <2>4
  <2>6. ASSUME NEW j \in 1 .. Len(s) - 1 PROVE w.fat[s[j]] = v.fat[s[j]]
    <3>1. j \in 1 .. Len(s) /\ j # Len(s)
      BY <2>1
    <3>2. s[j] \in Cluster /\ v.fat[s[j]] \in Cluster
      BY <1>1, <1>2, <3>1, LastOfChain
    <3>3. s[j] # t /\ s[j] # c
      BY <2>4, <3>2, Entries
    <3> QED
      BY <1>4, <3>2, <3>3
  <2>7. w.fat[s[Len(s)]] = c /\ w.fat[c] \notin Cluster
    BY <1>4, <2>3, <2>4, <2>5
  <2>8. f \in Cluster /\ c \in Cluster /\ v \in Volumes /\ w \in Volumes
    BY <1>1, <1>2
  <2> HIDE DEF f
  <2> QED
    BY ONLY <2>6, <2>7, <2>8, ChainExtended, Zenon
<1>11. ASSUME NEW p \in Live(v), p # q PROVE Chain(w, First(v, p)) = Chain(v, First(v, p))
  <2>1. First(v, p) \in Cluster /\ \A d \in ChainSet(v, First(v, p)) : d \in Cluster /\ v.fat[d] # Available
    BY <1>1, ChainOfEntry
  <2>2. t \notin ChainSet(v, First(v, p))
    BY <1>1, <1>11, ChainOfEntry
  <2>3. \A d \in ChainSet(v, First(v, p)) : w.fat[d] = v.fat[d]
    BY <1>4, <2>1, <2>2
  <2> QED
    BY <1>1, <2>1, <2>3, ChainKept
<1>12. SizesFit(w)
  <2> SUFFICES ASSUME NEW p \in Live(v), ~BlockOf(v, p).isDir
               PROVE  BlockOf(v, p).size <= N * Len(Chain(w, First(v, p)))
    BY <1>9 DEF SizesFit, SameEntries, First
  <2>1. BlockOf(v, p).size <= N * Len(Chain(v, First(v, p)))
    BY <1>1 DEF SizesFit
  <2>2. CASE p # q
    BY <1>11, <2>1, <2>2
  <2>3. CASE p = q
    <3> DEFINE s == Chain(v, f)
               a == N * Len(s)
               b == N * (Len(s) + 1)
    <3>1. s \in Seq(Cluster) /\ Len(s) \in Nat
      BY <1>1, <1>2, Chained
    <3>2. Len(Chain(w, f)) = Len(s) + 1
      BY <1>2, <1>10, <3>1, AppendProperties
    <3>3. a \in Nat /\ b \in Nat /\ b = a + N /\ N \in Nat
      BY <3>1, OpsAssumption
    <3>4. BlockOf(v, p).size \in Nat
      BY <1>1, LiveType, SizesAreNat
    <3>5. BlockOf(v, p).size <= a
      BY <2>1, <2>3
    <3> HIDE DEF a, b
    <3>6. BlockOf(v, p).size <= b
      BY <3>3, <3>4, <3>5
    <3> QED
      BY <2>3, <3>2, <3>6 DEF b
  <2> QED
    BY <2>2, <2>3
<1>13. /\ ChainSet(w, f) = ChainSet(v, f) \cup {c}
       /\ Longer(Chain(v, f), Chain(w, f))
  <2> DEFINE s == Chain(v, f)
             long == Chain(w, f)
  <2>1. s \in Seq(Cluster) /\ long = Append(s, c)
    BY <1>1, <1>2, <1>10, Chained
  <2>2. ChainSet(v, f) = {s[i] : i \in DOMAIN s} /\ ChainSet(w, f) = {long[i] : i \in DOMAIN long}
    BY DEF ChainSet, Range
  <2> HIDE DEF s, long, f
  <2>3. /\ Len(s) \in Nat /\ DOMAIN s = 1 .. Len(s) /\ DOMAIN long = 1 .. Len(s) + 1 /\ Len(long) = Len(s) + 1
        /\ long[Len(s) + 1] = c /\ \A i \in 1 .. Len(s) : long[i] = s[i]
    BY <2>1, AppendProperties
  <2>4. Longer(s, long)
    BY <2>3 DEF Longer
  <2>5. ChainSet(w, f) = ChainSet(v, f) \cup {c}
    BY <2>2, <2>3
  <2> QED
    BY <2>4, <2>5 DEF s, long
<1>14. First(w, q) = f
  BY <1>9 DEF SameEntries, First
<1>15. OthersKept(v, q, w)
  <2> HIDE DEF f
  <2>1. t \in ChainSet(v, f)
    BY DEF f
  <2>2. \A d \in Cluster : (w.fat[d] = Available \/ d \in ChainSet(w, f)) <=> (v.fat[d] = Available \/ d \in ChainSet(v, f))
    BY <1>4, <1>13, <2>1
  <2>3. ChainSet(w, f) \subseteq Cluster /\ ChainSet(v, f) \subseteq Cluster
    BY <1>1, <1>2, <1>9, InChain DEF Shaped
  <2>4. Mine(w, q) = Mine(v, q)
    BY <1>14, <2>2, <2>3 DEF Mine, FreeClusters, f
  <2>5. \A d \in Cluster \ Mine(v, q) : d # c /\ d # t
    BY <2>1 DEF Mine, FreeClusters, f
  <2> QED
    BY <1>4, <2>4, <2>5 DEF OthersKept
<1> QED
  BY <1>9, <1>10, <1>12, <1>13, <1>15 DEF Sound, Along

NoneLeft(v) == \A c \in 2 .. D : v.fat[c] # Available

LEMMA TailExtended ==
  ASSUME NEW v \in Volumes, NEW t \in Cluster, v.fat[t] = End, NEW zero
  PROVE  LET r == Extend(v, t, zero)
         IN  /\ r \in Step
             /\ r.st # "ok" => r.v = v /\ NoneLeft(v)
             /\ r.st = "ok" =>
                  /\ r.cluster \in Cluster /\ v.fat[r.cluster] = Available
                  /\ r.v.fat = [[v.fat EXCEPT ![t] = r.cluster] EXCEPT ![r.cluster] = End]
                  /\ r.v.slot = IF zero THEN [v.slot EXCEPT ![r.cluster] = Cleared] ELSE v.slot
<1> DEFINE a == AllocCluster(v, zero)
           u == a.v
           c == a.cluster
           b == AttachCluster(u, t, c)
           r == Extend(v, t, zero)
<1>1. /\ a.st \in {"ok", "error"} /\ a.v \in Volumes
      /\ a.st = "error" => a.v = v /\ NoneLeft(v)
      /\ a.st = "ok" => /\ c \in 2 .. D /\ v.fat[c] = Available
                        /\ a.v.fat = [v.fat EXCEPT ![c] = End]
                        /\ a.v.slot = IF zero THEN [v.slot EXCEPT ![c] = Cleared] ELSE v.slot
  BY Allocated DEF NoneLeft
<1>2. r \in Step
  BY Extended
<1>3. r = IF a.st # "ok" THEN a ELSE b
  BY DEF Extend
<1>4. 2 .. D \subseteq Cluster /\ v.fat \in [Cluster -> Entry] /\ Available # End
  BY Entries, OpsAssumption DEF Cluster, Volumes, VolumeType, Available, End
<1>5. CASE a.st # "ok"
  BY <1>1, <1>2, <1>3, <1>5
<1>6. CASE a.st = "ok"
  <2> HIDE DEF a
  <2>1. c \in Cluster /\ c # t /\ a.v.fat[t] = End
    BY <1>1, <1>4, <1>6
  <2> HIDE DEF c
  <2>2. /\ b = [st |-> b.st, v |-> b.v, cluster |-> c]
        /\ b.st \in {"ok", "error"}
        /\ b.v.slot = u.slot
        /\ b.st = "error" => u.fat[t] # End
        /\ b.st = "ok" => b.v.fat = [[u.fat EXCEPT ![t] = c] EXCEPT ![c] = End]
    <3>1. u \in Volumes /\ t \in Cluster /\ c \in Cluster
      BY <1>1, <2>1
    <3> HIDE DEF u
    <3> QED
      BY <3>1, Attached
  <2> HIDE DEF b
  <2>3. r = b /\ b.st = "ok" /\ b.cluster = c
    BY <1>3, <1>6, <2>1, <2>2
  <2>4. b.v.fat = [[v.fat EXCEPT ![t] = c] EXCEPT ![c] = End]
    BY <1>1, <1>4, <1>6, <2>1, <2>2, <2>3
  <2> HIDE DEF r
  <2> QED
    BY <1>1, <1>2, <1>6, <2>1, <2>2, <2>3, <2>4 DEF r
<1> QED
  BY <1>5, <1>6

Full(v) == FreeClusters(v) = {}

(* A step on the chain of file q: at its k-th cluster, or failed on a full  *)
(* volume.                                                                  *)
OnChain(v, q, k, p) ==
  /\ p \in Step /\ p.v \in Sound /\ Along(v, q, p.v)
  /\ p.st # "ok" => Full(p.v)
  /\ p.st = "ok" =>
       k \in 1 .. Len(Chain(p.v, First(v, q))) /\ Chain(p.v, First(v, q))[k] = p.cluster

LEMMA SameAgain ==
  ASSUME NEW u, NEW v, NEW w, SameEntries(u, v), SameEntries(v, w)
  PROVE  SameEntries(u, w)
BY DEF SameEntries

LEMMA NoneFree ==
  ASSUME NEW v \in Sound, NoneLeft(v)
  PROVE  Full(v)
<1>1. v.fat[Root] # Available
  BY SoundIsShaped, RootIsDir, DirCluster
<1> QED
  BY <1>1 DEF Full, FreeClusters, NoneLeft, Cluster, Root

LEMMA OnFile ==
  ASSUME NEW v \in Sound, NEW q \in Live(v), ~BlockOf(v, q).isDir, NEW k \in Nat, NEW p,
         OnChain(v, q, k, p), p.st = "ok"
  PROVE  /\ p.v \in Sound /\ p.v \in Shaped /\ p.v \in Volumes /\ p.cluster \in Cluster
         /\ q \in Live(p.v) /\ BlockOf(p.v, q) = BlockOf(v, q) /\ First(p.v, q) = First(v, q)
         /\ p.cluster \in ChainSet(p.v, First(p.v, q))
         /\ p.cluster \in Cluster \ DirClusters(p.v) /\ p.v.fat[p.cluster] # Available
         /\ NextCluster(p.v, p.cluster) = 0 =>
              p.v.fat[p.cluster] = End /\ k = Len(Chain(p.v, First(v, q)))
<1>1. p.v \in Sound /\ p.v \in Shaped /\ p.v \in Volumes
  BY SoundIsShaped DEF OnChain
<1>2. q \in Live(p.v) /\ BlockOf(p.v, q) = BlockOf(v, q) /\ First(p.v, q) = First(v, q)
  BY DEF OnChain, Along, SameEntries, First
<1>3. First(v, q) \in Cluster
  BY <1>1, <1>2, ChainOfEntry
<1>4. /\ p.cluster \in ChainSet(p.v, First(v, q)) /\ p.cluster \in Cluster
      /\ p.v.fat[p.cluster] \notin Cluster => k = Len(Chain(p.v, First(v, q)))
  BY <1>1, <1>3, LastOfChain DEF OnChain
<1>5. p.cluster \in Cluster \ DirClusters(p.v) /\ p.v.fat[p.cluster] # Available
  BY <1>1, <1>2, <1>4, ChainOfFile
<1>6. NextCluster(p.v, p.cluster) = 0 => p.v.fat[p.cluster] = End
  BY <1>1, <1>2, <1>4, ChainOfEntry
<1>7. NextCluster(p.v, p.cluster) = 0 => p.v.fat[p.cluster] \notin Cluster
  BY <1>1, <1>4, NextInChain
<1> QED
  BY <1>1, <1>2, <1>4, <1>5, <1>6, <1>7

(* Down the chain to the next cluster there is. *)
LEMMA NextOnChain ==
  ASSUME NEW v \in Sound, NEW q \in Live(v), ~BlockOf(v, q).isDir, NEW k \in Nat, NEW p,
         OnChain(v, q, k, p), p.st = "ok", NextCluster(p.v, p.cluster) # 0
  PROVE  OnChain(v, q, k + 1, [p EXCEPT !.cluster = NextCluster(p.v, p.cluster)])
<1> DEFINE c == NextCluster(p.v, p.cluster)
           r == [p EXCEPT !.cluster = c]
           f == First(v, q)
<1>1. /\ p.v \in Volumes /\ p.cluster \in Cluster
      /\ f \in Cluster
  BY OnFile, ChainOfEntry
<1>2. c \in Cluster /\ p.v.fat[p.cluster] = c
  BY <1>1, NextInChain
<1>3. p \in [st : {"ok", "error"}, v : Volumes, cluster : 0 .. D]
      /\ p.v \in Sound /\ Along(v, q, p.v)
      /\ k \in 1 .. Len(Chain(p.v, f)) /\ Chain(p.v, f)[k] = p.cluster
  BY DEF OnChain, Step
<1> HIDE DEF c, f
<1>4. k + 1 \in 1 .. Len(Chain(p.v, f)) /\ Chain(p.v, f)[k + 1] = c
  BY <1>1, <1>2, <1>3, LastOfChain
<1>5. c \in 0 .. D
  BY <1>2, OpsAssumption DEF Cluster
<1>6. r \in Step /\ r.v = p.v /\ r.cluster = c /\ r.st = "ok"
  BY <1>2, <1>3, <1>5 DEF Step
<1> HIDE DEF r
<1>7. OnChain(v, q, k + 1, r)
  BY <1>3, <1>4, <1>6 DEF OnChain, f
<1> QED
  BY <1>7 DEF r, c

(* Off its end into a new cluster, which is given data. *)
LEMMA NewOnChain ==
  ASSUME NEW v \in Sound, NEW q \in Live(v), ~BlockOf(v, q).isDir, NEW k \in Nat, NEW p,
         OnChain(v, q, k, p), p.st = "ok", NextCluster(p.v, p.cluster) = 0, NEW zero
  PROVE  LET r == Extend(p.v, p.cluster, zero)
         IN  /\ r \in Step
             /\ r.st # "ok" => OnChain(v, q, k + 1, r)
             /\ r.st = "ok" => /\ r.cluster \in Cluster
                               /\ r.v.slot = IF zero THEN [p.v.slot EXCEPT ![r.cluster] = Cleared] ELSE p.v.slot
             /\ \A w \in Volumes :
                  /\ r.st = "ok" /\ w.fat = r.v.fat
                  /\ \A d \in Cluster \ {r.cluster} : w.slot[d] = p.v.slot[d]
                  /\ w.slot[r.cluster] \in [0 .. N - 1 -> DataBlock]
                  => OnChain(v, q, k + 1, [r EXCEPT !.v = w])
<1> DEFINE r == Extend(p.v, p.cluster, zero)
           f == First(v, q)
           t == p.cluster
           c == r.cluster
           u == p.v
<1>1. /\ u \in Sound /\ u \in Shaped /\ u \in Volumes /\ t \in Cluster
      /\ q \in Live(u) /\ BlockOf(u, q) = BlockOf(v, q) /\ First(u, q) = f
      /\ t \in ChainSet(u, f) /\ u.fat[t] = End /\ k = Len(Chain(u, f))
      /\ Along(v, q, u)
  BY OnFile DEF OnChain
<1>2. /\ r \in Step
      /\ r.st # "ok" => r.v = u /\ NoneLeft(u)
      /\ r.st = "ok" =>
           /\ c \in Cluster /\ u.fat[c] = Available
           /\ r.v.fat = [[u.fat EXCEPT ![t] = c] EXCEPT ![c] = End]
           /\ r.v.slot = IF zero THEN [u.slot EXCEPT ![c] = Cleared] ELSE u.slot
  <2>1. u \in Volumes /\ t \in Cluster /\ u.fat[t] = End
    BY <1>1
  <2>2. r = Extend(u, t, zero)
    OBVIOUS
  <2> HIDE DEF r, u, t
  <2> QED
    BY ONLY <2>1, <2>2, TailExtended
<1>3. r.st # "ok" => OnChain(v, q, k + 1, r)
  <2>1. r.st # "ok" => Full(u)
    BY <1>1, <1>2, NoneFree
  <2> HIDE DEF u, r
  <2> QED
    BY <1>1, <1>2, <2>1 DEF OnChain
<1>4. f \in Cluster
  BY <1>1, ChainOfEntry
<1>5. Chain(u, f) \in Seq(Cluster) /\ Chain(v, f) \in Seq(Cluster)
  BY <1>1, <1>4, Chained, SoundIsShaped
<1> HIDE DEF r, u, t, f
<1>6. ASSUME NEW w \in Volumes, r.st = "ok", w.fat = r.v.fat,
             \A d \in Cluster \ {c} : w.slot[d] = u.slot[d],
             w.slot[c] \in [0 .. N - 1 -> DataBlock]
      PROVE  OnChain(v, q, k + 1, [r EXCEPT !.v = w])
  <2> HIDE DEF c
  <2>1. w \in Sound /\ Along(u, q, w) /\ Chain(w, f) = Append(Chain(u, f), c)
    <3>1. /\ u \in Sound /\ q \in Live(u) /\ ~BlockOf(u, q).isDir /\ First(u, q) = f
          /\ t \in ChainSet(u, First(u, q)) /\ u.fat[t] = End
          /\ c \in Cluster /\ u.fat[c] = Available
          /\ w \in Volumes /\ w.fat[t] = c /\ w.fat[c] = End
          /\ \A d \in Cluster \ {c, t} : w.fat[d] = u.fat[d]
          /\ \A d \in Cluster \ {c} : w.slot[d] = u.slot[d]
          /\ w.slot[c] \in [0 .. N - 1 -> DataBlock]
      <4>1. u.fat \in [Cluster -> Entry] /\ w.fat = [[u.fat EXCEPT ![t] = c] EXCEPT ![c] = End]
        BY <1>1, <1>2, <1>6 DEF Volumes, VolumeType
      <4>2. c # t
        BY <1>1, <1>2, <1>6, Entries DEF Available, End
      <4> QED
        BY <1>1, <1>2, <1>6, <4>1, <4>2
    <3>2. w \in Sound /\ Along(u, q, w)
          /\ Chain(w, First(u, q)) = Append(Chain(u, First(u, q)), c)
      BY ONLY <3>1, FileGrown
    <3> QED
      BY <3>1, <3>2
  <2>2. Along(v, q, w)
    <3>1. Chain(w, f) \in Seq(Cluster)
      BY <1>4, Chained
    <3> QED
      BY <1>1, <1>5, <2>1, <3>1, AlongAgain DEF f
  <2>3. Len(Chain(w, f)) = k + 1 /\ Chain(w, f)[k + 1] = c
    BY <1>1, <1>2, <1>5, <1>6, <2>1, AppendProperties
  <2>4. r \in [st : {"ok", "error"}, v : Volumes, cluster : 0 .. D]
    BY <1>2 DEF Step
  <2> DEFINE s == [r EXCEPT !.v = w]
  <2>5. s \in [st : {"ok", "error"}, v : Volumes, cluster : 0 .. D] /\ s.v = w /\ s.cluster = c /\ s.st = "ok"
    BY <1>6, <2>4 DEF c
  <2> HIDE DEF s
  <2>6. s \in Step
    BY <1>2, <1>6, <2>5 DEF Step
  <2>7. k + 1 \in 1 .. Len(Chain(w, f))
    BY <2>3
  <2>8. OnChain(v, q, k + 1, s)
    BY <2>1, <2>2, <2>3, <2>5, <2>6, <2>7 DEF OnChain, f
  <2> QED
    BY <2>8 DEF s
<1> QED
  BY <1>2, <1>3, <1>6 DEF r, u, t

LEMMA ClearedIsData == Cleared \in [0 .. N - 1 -> DataBlock]
BY DEF Cleared, DataBlock

LEMMA OnwardOnChain ==
  ASSUME NEW v \in Sound, NEW q \in Live(v), ~BlockOf(v, q).isDir, NEW k \in Nat, NEW p,
         OnChain(v, q, k, p), NEW checked
  PROVE  OnChain(v, q, k + 1, Onward(p, checked))
<1> DEFINE c == NextCluster(p.v, p.cluster)
           zero == TRUE
           r == Extend(p.v, p.cluster, zero)
<1>1. CASE p.st # "ok"
  BY <1>1 DEF Onward, OnChain
<1>2. CASE p.st = "ok" /\ c # 0
  <2>1. OnChain(v, q, k + 1, [p EXCEPT !.cluster = c])
    BY <1>2, NextOnChain
  <2>2. Onward(p, checked) = [p EXCEPT !.cluster = c]
    BY <1>2 DEF Onward
  <2> HIDE DEF c
  <2> QED
    BY <2>1, <2>2
<1>3. CASE p.st = "ok" /\ c = 0
  <2>1. p.v.fat[p.cluster] = End /\ p.v \in Volumes
    BY <1>3, OnFile
  <2>2. Onward(p, checked) = r
    BY <1>3, <2>1 DEF Onward
  <2> HIDE DEF zero
  <2>3. /\ r \in Step
        /\ r.st # "ok" => OnChain(v, q, k + 1, r)
        /\ r.st = "ok" => r.cluster \in Cluster
                         /\ r.v.slot = IF zero THEN [p.v.slot EXCEPT ![r.cluster] = Cleared] ELSE p.v.slot
        /\ \A w \in Volumes :
             /\ r.st = "ok" /\ w.fat = r.v.fat
             /\ \A d \in Cluster \ {r.cluster} : w.slot[d] = p.v.slot[d]
             /\ w.slot[r.cluster] \in [0 .. N - 1 -> DataBlock]
             => OnChain(v, q, k + 1, [r EXCEPT !.v = w])
    BY <1>3, NewOnChain
  <2> HIDE DEF r
  <2>4. r \in [st : {"ok", "error"}, v : Volumes, cluster : 0 .. D] /\ r.v \in Volumes
        /\ [r EXCEPT !.v = r.v] = r
    BY <2>3 DEF Step
  <2>5. p.v.slot \in Slots /\ Cluster \subseteq 1 .. D + 1
    BY <2>1, Entries DEF Volumes, VolumeType
  <2>6. ASSUME r.st = "ok" PROVE OnChain(v, q, k + 1, r)
    <3>1. \A d \in Cluster \ {r.cluster} : r.v.slot[d] = p.v.slot[d]
      BY <2>3, <2>5, <2>6 DEF Slots, zero
    <3>2. r.v.slot[r.cluster] = Cleared
      BY <2>3, <2>5, <2>6 DEF Slots, zero
    <3> QED
      BY <2>3, <2>4, <2>6, <3>1, <3>2, ClearedIsData
  <2> QED
    BY <2>2, <2>3, <2>6
<1> QED
  BY <1>1, <1>2, <1>3

LEMMA FollowOnChain ==
  ASSUME NEW v \in Sound, NEW q \in Live(v), ~BlockOf(v, q).isDir, NEW k \in Nat, NEW checked
  PROVE  OnChain(v, q, k + 1, Follow(v, First(v, q), k, checked))
<1> DEFINE f == First(v, q)
           p0 == [st |-> "ok", v |-> v, cluster |-> f]
<1>1. v \in Volumes /\ v \in Shaped /\ f \in Cluster
  BY SoundIsShaped, ChainOfEntry
<1> HIDE DEF f
<1>2. PICK step \in [0 .. k -> Step] : Follows(v, f, k, checked, step)
  BY <1>1, FollowUnfolds
<1>3. /\ step[0] = p0
      /\ \A i \in 1 .. k : step[i] = Onward(step[i - 1], checked)
      /\ Follow(v, f, k, checked) = step[k]
  BY <1>2 DEF Follows
<1>4. OnChain(v, q, 1, p0)
  <2>1. f \in 0 .. D
    BY <1>1, OpsAssumption DEF Cluster
  <2>2. p0 \in Step /\ p0.v = v /\ p0.cluster = f
    BY <1>1, <2>1 DEF Step
  <2>3. 1 \in 1 .. Len(Chain(v, f)) /\ Chain(v, f)[1] = f
    BY <1>1, Chained
  <2>4. Along(v, q, v) /\ p0.st = "ok"
    BY <1>1, AlongItself
  <2> HIDE DEF p0
  <2> QED
    BY <2>2, <2>3, <2>4 DEF OnChain, f
<1> DEFINE T == {i \in Nat : i <= k => OnChain(v, q, i + 1, step[i])}
<1>5. 0 \in T
  BY <1>3, <1>4
<1>6. ASSUME NEW i \in Nat, i \in T PROVE i + 1 \in T
  <2> SUFFICES ASSUME i + 1 <= k PROVE OnChain(v, q, (i + 1) + 1, step[i + 1])
    OBVIOUS
  <2>1. OnChain(v, q, i + 1, step[i]) /\ i + 1 \in Nat
    BY <1>6
  <2>2. step[i + 1] = Onward(step[i], checked)
    <3>1. i + 1 \in 1 .. k /\ (i + 1) - 1 = i
      OBVIOUS
    <3> QED
      BY <1>3, <3>1
  <2>3. OnChain(v, q, (i + 1) + 1, Onward(step[i], checked))
    BY <2>1, OnwardOnChain
  <2> QED
    BY <2>2, <2>3
<1>7. k \in T
  BY <1>5, <1>6, CountUp
<1> QED
  BY <1>3, <1>7 DEF f

-----------------------------------------------------------------------------
(* Data is written to files. *)

LEMMA ChainsStay ==
  ASSUME NEW v \in Volumes, NEW w \in Volumes, w.fat = v.fat, NEW c \in Cluster
  PROVE  Chain(w, c) = Chain(v, c)
<1>1. \A d \in ChainSet(v, c) : w.fat[d] = v.fat[d]
  OBVIOUS
<1> QED
  BY <1>1, ChainKept

LEMMA DataChanged ==
  ASSUME NEW v \in Sound, NEW c \in Cluster \ DirClusters(v), NEW w \in Volumes,
         w.fat = v.fat, \A d \in Cluster \ {c} : w.slot[d] = v.slot[d],
         w.slot[c] \in [0 .. N - 1 -> DataBlock]
  PROVE  w \in Sound /\ SameEntries(v, w)
<1>1. v \in Shaped /\ v \in Volumes /\ SizesFit(v) /\ Links(v.fat) /\ Heads(v) /\ Data(v)
  BY SoundIsShaped DEF Shaped
<1>2. \A d \in DirClusters(v) : w.slot[d] = v.slot[d] /\ w.fat[d] = v.fat[d]
  BY <1>1, DirCluster
<1>3. \A d \in Cluster \ DirClusters(v) : w.fat[d] # Available => w.slot[d] \in [0 .. N - 1 -> DataBlock]
  BY <1>1 DEF Data
<1>4. \A p \in Live(v) : w.fat[First(v, p)] # Available /\ \A d \in Cluster : w.fat[d] # First(v, p)
  BY <1>1 DEF Heads
<1>5. w \in Shaped /\ SameEntries(v, w)
  BY <1>1, <1>2, <1>3, <1>4, FilesChanged
<1>6. \A p \in Live(v) : First(v, p) \in Cluster /\ Chain(w, First(v, p)) = Chain(v, First(v, p))
  BY <1>1, ChainOfEntry, ChainsStay
<1>7. SizesFit(w)
  BY <1>1, <1>5, <1>6 DEF SizesFit, SameEntries, First
<1> QED
  BY <1>5, <1>7 DEF Sound

LEMMA FileChanged ==
  ASSUME NEW v \in Sound, NEW q \in Live(v), NEW c \in ChainSet(v, First(v, q)),
         c \notin DirClusters(v), NEW w \in Volumes,
         w.fat = v.fat, \A d \in Cluster \ {c} : w.slot[d] = v.slot[d],
         w.slot[c] \in [0 .. N - 1 -> DataBlock]
  PROVE  w \in Sound /\ Along(v, q, w) /\ Chain(w, First(v, q)) = Chain(v, First(v, q))
<1> DEFINE f == First(v, q)
<1>1. v \in Volumes /\ f \in Cluster /\ c \in Cluster
  BY SoundIsShaped, ChainOfEntry
<1>2. w \in Sound /\ SameEntries(v, w) /\ Chain(w, f) = Chain(v, f)
  BY <1>1, DataChanged, ChainsStay
<1>3. First(w, q) = f /\ Chain(v, f) \in Seq(Cluster)
  BY <1>1, <1>2, Chained DEF SameEntries, First
<1>4. OthersKept(v, q, w)
  <2>1. Mine(w, q) = Mine(v, q)
    BY <1>2, <1>3 DEF Mine, FreeClusters, ChainSet
  <2>2. c \in Mine(v, q)
    BY DEF Mine
  <2> QED
    BY <2>1, <2>2 DEF OthersKept
<1>5. Longer(Chain(v, f), Chain(w, f))
  BY <1>2, <1>3 DEF Longer
<1> QED
  BY <1>2, <1>4, <1>5 DEF Along

(* What fatx_write puts into a cluster. *)
UnitsIn(v, c, from, to, x) ==
  [e \in 0 .. N - 1 |-> IF from <= e /\ e < to THEN Unit(x) ELSE v.slot[c][e]]

LEMMA UnitsAre ==
  ASSUME NEW v \in Volumes, NEW c \in Cluster, NEW from, NEW to, NEW x \in Value
  PROVE  LET w == PutUnits(v, c, from, to, x)
         IN  /\ w \in Volumes /\ w.fat = v.fat
             /\ \A d \in Cluster \ {c} : w.slot[d] = v.slot[d]
             /\ w.slot[c] = UnitsIn(v, c, from, to, x)
<1> DEFINE b == UnitsIn(v, c, from, to, x)
           w == PutUnits(v, c, from, to, x)
<1>1. c \in 1 .. D + 1 /\ Cluster \subseteq 1 .. D + 1
  BY OpsAssumption DEF Cluster
<1>2. v.slot \in Slots /\ Unit(x) \in Block
  BY Blocks DEF Volumes, VolumeType
<1>3. b \in [0 .. N - 1 -> Block]
  BY <1>1, <1>2 DEF Slots, UnitsIn
<1>4. w = Do(v, DevWrite(c, b))
  BY DEF PutUnits, UnitsIn
<1> HIDE DEF b, w
<1>5. w \in Volumes /\ w.fat = v.fat /\ w.slot = [v.slot EXCEPT ![c] = b]
  BY <1>1, <1>3, <1>4, ClusterWritten
<1>6. w.slot[c] = b /\ \A d \in Cluster \ {c} : w.slot[d] = v.slot[d]
  BY <1>1, <1>2, <1>5 DEF Slots
<1> QED
  BY <1>5, <1>6 DEF w, b

LEMMA UnitsAreData ==
  ASSUME NEW v, NEW c, NEW from, NEW to, NEW x \in Value,
         v.slot[c] \in [0 .. N - 1 -> DataBlock]
  PROVE  UnitsIn(v, c, from, to, x) \in [0 .. N - 1 -> DataBlock]
<1>1. Unit(x) \in DataBlock
  BY DEF DataBlock
<1> QED
  BY <1>1 DEF UnitsIn

LEMMA FilledOnChain ==
  ASSUME NEW v \in Sound, NEW q \in Live(v), ~BlockOf(v, q).isDir, NEW k \in Nat, NEW p,
         OnChain(v, q, k, p), NEW from, NEW to, NEW x \in Value
  PROVE  OnChain(v, q, k, Filled(p, from, to, x))
<1>1. CASE p.st # "ok"
  BY <1>1 DEF Filled
<1>2. CASE p.st = "ok"
  <2> DEFINE u == p.v
             c == p.cluster
             w == PutUnits(u, c, from, to, x)
             f == First(v, q)
             r == Filled(p, from, to, x)
  <2>1. /\ u \in Sound /\ u \in Shaped /\ u \in Volumes /\ c \in Cluster /\ First(u, q) = f
        /\ c \in Cluster \ DirClusters(u) /\ u.fat[c] # Available /\ q \in Live(u)
        /\ c \in ChainSet(u, First(u, q))
    BY <1>2, OnFile
  <2>2. f \in Cluster
    BY <2>1, ChainOfEntry
  <2>3. /\ w \in Volumes /\ w.fat = u.fat
        /\ \A d \in Cluster \ {c} : w.slot[d] = u.slot[d]
        /\ w.slot[c] = UnitsIn(u, c, from, to, x)
    BY <2>1, UnitsAre
  <2>4. u.slot[c] \in [0 .. N - 1 -> DataBlock]
    BY <2>1 DEF Shaped, Data
  <2>5. r = [p EXCEPT !.v = w]
    BY <1>2 DEF Filled
  <2>6. /\ p \in [st : {"ok", "error"}, v : Volumes, cluster : 0 .. D]
        /\ Along(v, q, u) /\ k \in 1 .. Len(Chain(u, f)) /\ Chain(u, f)[k] = c
    BY <1>2 DEF OnChain, Step
  <2> HIDE DEF u, c, w, f
  <2>7. w.slot[c] \in [0 .. N - 1 -> DataBlock]
    BY <2>3, <2>4, UnitsAreData
  <2>8. w \in Sound /\ Along(u, q, w) /\ Chain(w, f) = Chain(u, f)
    BY <2>1, <2>3, <2>7, FileChanged
  <2>9. Along(v, q, w)
    <3>1. Chain(u, f) \in Seq(Cluster) /\ Chain(v, f) \in Seq(Cluster)
      BY <2>1, <2>2, Chained, SoundIsShaped
    <3> QED
      BY <2>6, <2>8, <3>1, AlongAgain DEF f
  <2>10. /\ r \in [st : {"ok", "error"}, v : Volumes, cluster : 0 .. D] /\ r.v = w /\ r.cluster = c
         /\ r.st = "ok"
    BY <1>2, <2>3, <2>5, <2>6 DEF c
  <2> HIDE DEF r
  <2>11. OnChain(v, q, k, r)
    BY <2>1, <2>6, <2>8, <2>9, <2>10 DEF OnChain, Step, f
  <2> QED
    BY <2>11 DEF r
<1> QED
  BY <1>1, <1>2

LEMMA WholeCluster ==
  ASSUME NEW to \in Int, ~ (to < N), NEW v, NEW c, NEW x \in Value
  PROVE  UnitsIn(v, c, 0, Min({N, to}), x) \in [0 .. N - 1 -> DataBlock]
<1>1. N \in Nat
  BY OpsAssumption
<1>2. Min({N, to}) = N
  <2> DEFINE P(m) == m \in {N, to} /\ \A y \in {N, to} : m <= y
  <2>1. P(N)
    BY <1>1
  <2>2. \A m : P(m) => m = N
    BY <1>1
  <2> QED
    BY <2>1, <2>2 DEF Min
<1>3. UnitsIn(v, c, 0, N, x) = [e \in 0 .. N - 1 |-> Unit(x)]
  BY <1>1 DEF UnitsIn
<1>4. Unit(x) \in DataBlock
  BY DEF DataBlock
<1> QED
  BY <1>2, <1>3, <1>4

LEMMA WriteNextOnChain ==
  ASSUME NEW v \in Sound, NEW q \in Live(v), ~BlockOf(v, q).isDir, NEW k \in Nat, NEW p,
         OnChain(v, q, k, p), NEW to \in Int, NEW x \in Value
  PROVE  OnChain(v, q, k + 1, WriteNext(p, to, x))
<1> DEFINE c == NextCluster(p.v, p.cluster)
           zero == to < N
           r == Extend(p.v, p.cluster, zero)
           m == Min({N, to})
<1>1. CASE p.st # "ok"
  BY <1>1 DEF WriteNext, OnChain
<1>2. CASE p.st = "ok" /\ c # 0
  <2> DEFINE n == [p EXCEPT !.cluster = c]
  <2>1. OnChain(v, q, k + 1, n)
    BY <1>2, NextOnChain
  <2>2. WriteNext(p, to, x) = Filled(n, 0, m, x)
    BY <1>2 DEF WriteNext, NextToWrite
  <2> HIDE DEF n, m, c
  <2> QED
    BY <2>1, <2>2, FilledOnChain
<1>3. CASE p.st = "ok" /\ c = 0
  <2>2. WriteNext(p, to, x) = Filled(r, 0, m, x)
    BY <1>3 DEF WriteNext, NextToWrite
  <2> HIDE DEF zero
  <2>3. /\ r \in Step
        /\ r.st # "ok" => OnChain(v, q, k + 1, r)
        /\ r.st = "ok" => r.cluster \in Cluster
                         /\ r.v.slot = IF zero THEN [p.v.slot EXCEPT ![r.cluster] = Cleared] ELSE p.v.slot
        /\ \A w \in Volumes :
             /\ r.st = "ok" /\ w.fat = r.v.fat
             /\ \A d \in Cluster \ {r.cluster} : w.slot[d] = p.v.slot[d]
             /\ w.slot[r.cluster] \in [0 .. N - 1 -> DataBlock]
             => OnChain(v, q, k + 1, [r EXCEPT !.v = w])
    BY <1>3, NewOnChain
  <2>4. p.v \in Volumes
    BY <1>3, OnFile
  <2> HIDE DEF r, m
  <2>5. CASE r.st # "ok"
    BY <2>2, <2>3, <2>5 DEF Filled
  <2>6. CASE r.st = "ok"
    <3> DEFINE u == r.v
               d == r.cluster
               w == PutUnits(u, d, 0, m, x)
    <3>1. r.v \in Volumes /\ d \in Cluster
      BY <2>3, <2>6 DEF Step
    <3>2. /\ w \in Volumes /\ w.fat = u.fat
          /\ \A e \in Cluster \ {d} : w.slot[e] = u.slot[e]
          /\ w.slot[d] = UnitsIn(u, d, 0, m, x)
      BY <3>1, UnitsAre
    <3>3. Filled(r, 0, m, x) = [r EXCEPT !.v = w]
      BY <2>6 DEF Filled
    <3> HIDE DEF w
    <3>4. p.v.slot \in Slots /\ Cluster \subseteq 1 .. D + 1
      BY <2>4, Entries DEF Volumes, VolumeType
    <3>5. \A e \in Cluster \ {d} : w.slot[e] = p.v.slot[e]
      BY <2>3, <2>6, <3>2, <3>4 DEF Slots
    <3>6. w.slot[d] \in [0 .. N - 1 -> DataBlock]
      <4>1. CASE zero
        <5>1. u.slot[d] = Cleared
          BY <2>3, <2>6, <3>1, <3>4, <4>1 DEF Slots
        <5> QED
          BY <3>2, <5>1, ClearedIsData, UnitsAreData
      <4>2. CASE ~zero
        BY <3>2, <4>2, WholeCluster DEF zero, m
      <4> QED
        BY <4>1, <4>2
    <3> QED
      BY <2>2, <2>3, <2>6, <3>2, <3>3, <3>5, <3>6
  <2> QED
    BY <2>5, <2>6
<1> QED
  BY <1>1, <1>2, <1>3

LEMMA UnitsOnChain ==
  ASSUME NEW v \in Sound, NEW q \in Live(v), ~BlockOf(v, q).isDir, NEW k \in Nat, NEW p,
         OnChain(v, q, k, p), p.st = "ok", NEW from, NEW to \in Nat \ {0}, NEW x \in Value
  PROVE  OnChain(v, q, k + ((to - 1) \div N), WriteUnits(p.v, p.cluster, from, to, x))
<1> DEFINE n == (to - 1) \div N
           u == p.v
           c == p.cluster
<1>1. u \in Volumes /\ c \in Cluster
  BY OnFile
<1>2. p = [st |-> "ok", v |-> u, cluster |-> c]
  BY DEF OnChain, Step
<1>3. n \in Nat
  <2>1. to - 1 \in Nat
    OBVIOUS
  <2> QED
    BY <2>1, Divided
<1>4. PICK step \in [0 .. n -> Step] : Fills(u, c, from, to, x, step)
  <2> HIDE DEF u, c
  <2> QED
    BY <1>1, WriteUnfolds
<1> DEFINE m == Min({N, to})
<1>5. /\ step[0] = Filled(p, from, m, x)
      /\ \A i \in 1 .. n : step[i] = WriteNext(step[i - 1], to - i * N, x)
      /\ WriteUnits(u, c, from, to, x) = step[n]
  BY <1>2, <1>4 DEF Fills
<1> HIDE DEF n, m, u, c
<1> DEFINE T == {i \in Nat : i <= n => OnChain(v, q, k + i, step[i])}
<1>6. 0 \in T
  <2>1. OnChain(v, q, k, step[0]) /\ k + 0 = k
    BY <1>5, FilledOnChain
  <2> QED
    BY <2>1
<1>7. ASSUME NEW i \in Nat, i \in T PROVE i + 1 \in T
  <2> SUFFICES ASSUME i + 1 <= n PROVE OnChain(v, q, k + (i + 1), step[i + 1])
    OBVIOUS
  <2>1. OnChain(v, q, k + i, step[i]) /\ k + i \in Nat /\ k + (i + 1) = (k + i) + 1
    BY <1>3, <1>7
  <2> DEFINE left == to - (i + 1) * N
  <2>2. left \in Int
    BY OpsAssumption
  <2>3. step[i + 1] = WriteNext(step[i], left, x)
    <3>1. i + 1 \in 1 .. n /\ (i + 1) - 1 = i
      BY <1>3
    <3> QED
      BY <1>5, <3>1
  <2> HIDE DEF left
  <2>4. OnChain(v, q, (k + i) + 1, WriteNext(step[i], left, x))
    BY <2>1, <2>2, WriteNextOnChain
  <2> QED
    BY <2>1, <2>3, <2>4
<1>8. n \in T
  BY <1>3, <1>6, <1>7, CountUp
<1> QED
  BY <1>3, <1>5, <1>8 DEF n, u, c

-----------------------------------------------------------------------------
(* A chain is cut. *)

LEMMA NoRepeats ==
  ASSUME NEW v \in Volumes, NEW c \in Cluster,
         NEW i \in 1 .. Len(Chain(v, c)), NEW j \in 1 .. Len(Chain(v, c)), i < j
  PROVE  Chain(v, c)[i] # Chain(v, c)[j]
<1> DEFINE s == Chain(v, c)
<1>1. /\ s \in Seq(Cluster) /\ Len(s) \in Nat
      /\ \A n \in 1 .. Len(s) - 1 : v.fat[s[n]] = s[n + 1]
  BY Chained DEF IsChain
<1>2. Ordered(v.fat)
  BY DEF Volumes
<1>3. PICK rank \in [Cluster -> 0 .. D - 1] :
        \A d \in Cluster : v.fat[d] \in Cluster => rank[v.fat[d]] < rank[d]
  BY <1>2 DEF Ordered
<1>4. i \in 1 .. Len(s) /\ j \in 1 .. Len(s)
  OBVIOUS
<1> HIDE DEF s
<1>5. \A n \in 1 .. Len(s) : s[n] \in Cluster /\ rank[s[n]] \in Int
  BY <1>1, <1>3, OpsAssumption
<1> DEFINE T == {m \in Nat : i + m + 1 <= Len(s) => rank[s[i + m + 1]] < rank[s[i]]}
<1>6. ASSUME NEW n \in 1 .. Len(s) - 1 PROVE rank[s[n + 1]] < rank[s[n]]
  <2>1. n \in 1 .. Len(s) /\ n + 1 \in 1 .. Len(s)
    BY <1>1
  <2> QED
    BY <1>1, <1>3, <1>5, <2>1
<1>7. 0 \in T
  <2>1. i + 0 + 1 = i + 1
    OBVIOUS
  <2> QED
    BY <1>1, <1>6, <2>1
<1>8. ASSUME NEW m \in Nat, m \in T PROVE m + 1 \in T
  <2> SUFFICES ASSUME i + (m + 1) + 1 <= Len(s) PROVE rank[s[i + (m + 1) + 1]] < rank[s[i]]
    OBVIOUS
  <2>1. rank[s[i + m + 1]] < rank[s[i]]
    BY <1>1, <1>8
  <2>2. i + m + 1 \in 1 .. Len(s) - 1 /\ (i + m + 1) + 1 = i + (m + 1) + 1
        /\ i + m + 1 \in 1 .. Len(s) /\ i + (m + 1) + 1 \in 1 .. Len(s)
    BY <1>1
  <2>3. rank[s[i + (m + 1) + 1]] < rank[s[i + m + 1]]
    BY <1>6, <2>2
  <2> QED
    BY <1>4, <1>5, <2>1, <2>2, <2>3
<1>9. j - i - 1 \in T
  <2>1. j - i - 1 \in Nat
    BY <1>4
  <2> QED
    BY <1>7, <1>8, <2>1, CountUp
<1>10. rank[s[j]] < rank[s[i]]
  <2>1. i + (j - i - 1) + 1 = j /\ j <= Len(s)
    BY <1>4
  <2> QED
    BY <1>9, <2>1
<1> QED
  BY <1>4, <1>5, <1>10 DEF s

(* A chain stays within what it starts in and does not lead out of. *)
LEMMA ChainWithin ==
  ASSUME NEW v \in Volumes, NEW S \in SUBSET Cluster, NEW c \in S,
         \A d \in S : v.fat[d] \in Cluster => v.fat[d] \in S
  PROVE  ChainSet(v, c) \subseteq S
<1> DEFINE s == Chain(v, c)
<1>1. /\ s \in Seq(Cluster) /\ Len(s) \in Nat /\ s[1] = c
      /\ \A n \in 1 .. Len(s) - 1 : v.fat[s[n]] = s[n + 1]
  BY Chained DEF IsChain
<1>2. ChainSet(v, c) \subseteq Cluster
      /\ \A d \in Cluster : d \in ChainSet(v, c) <=> \E n \in 1 .. Len(s) : s[n] = d
  BY InChain
<1> HIDE DEF s
<1> DEFINE T == {n \in Nat : n + 1 <= Len(s) => s[n + 1] \in S}
<1>3. 0 \in T
  BY <1>1
<1>4. ASSUME NEW n \in Nat, n \in T PROVE n + 1 \in T
  <2> SUFFICES ASSUME (n + 1) + 1 <= Len(s) PROVE s[(n + 1) + 1] \in S
    OBVIOUS
  <2>1. s[n + 1] \in S /\ n + 1 \in 1 .. Len(s) - 1 /\ (n + 1) + 1 \in 1 .. Len(s)
    BY <1>1, <1>4
  <2>2. v.fat[s[n + 1]] = s[(n + 1) + 1] /\ s[(n + 1) + 1] \in Cluster
    BY <1>1, <2>1
  <2> QED
    BY <2>1, <2>2
<1>5. ASSUME NEW n \in 1 .. Len(s) PROVE s[n] \in S
  <2>1. n - 1 \in Nat /\ (n - 1) + 1 = n /\ n <= Len(s)
    BY <1>1
  <2>2. n - 1 \in T
    BY <1>3, <1>4, <2>1, CountUp
  <2> QED
    BY <2>1, <2>2
<1> QED
  BY <1>2, <1>5

(* What fatx_truncate leaves of a file's chain: its first k clusters. *)
LEMMA ChainCutShort ==
  ASSUME NEW u \in Shaped, NEW q \in Live(u), ~BlockOf(u, q).isDir,
         NEW k \in 1 .. Len(Chain(u, First(u, q))), NEW p \in Step, p.st = "ok", p.v = u,
         p.cluster = Chain(u, First(u, q))[k]
  PROVE  LET w == CutChain(p)
         IN  /\ w \in Shaped /\ SameEntries(u, w)
             /\ OthersKept(u, q, w) /\ w.slot = u.slot
             /\ Len(Chain(w, First(u, q))) = k
             /\ \A i \in 1 .. k : Chain(w, First(u, q))[i] = Chain(u, First(u, q))[i]
             /\ \A r \in Live(u) : r # q => Chain(w, First(u, r)) = Chain(u, First(u, r))
<1> DEFINE f == First(u, q)
           s == Chain(u, f)
           c == p.cluster
           rest == NextCluster(u, c)
           x == IF rest # 0 THEN FreeChain(u, rest) ELSE u
           w == CutChain(p)
           R == IF rest # 0 THEN ChainSet(u, rest) ELSE {}
           C == ChainSet(u, f)
<1>1. u \in Volumes /\ Links(u.fat) /\ Heads(u) /\ Data(u) /\ u.fat \in [Cluster -> Entry]
  BY DEF Shaped, Volumes, VolumeType
<1>2. /\ f \in Cluster
      /\ \A d \in C : d \in Cluster /\ d # Root /\ u.fat[d] # Available
      /\ \A r \in Live(u) : r # q => ChainSet(u, First(u, r)) \cap C = {} /\ First(u, r) \notin C
  BY ChainOfEntry
<1>3. \A d \in C : d \in Cluster \ DirClusters(u)
  BY ChainOfFile
<1>4. /\ s \in Seq(Cluster) /\ Len(s) \in Nat /\ s[1] = f
      /\ \A n \in 1 .. Len(s) - 1 : u.fat[s[n]] = s[n + 1]
  BY <1>1, <1>2, Chained DEF IsChain
<1>5. /\ \A n \in 1 .. Len(s) : s[n] \in C /\ s[n] \in Cluster
      /\ \A d \in Cluster : d \in C <=> \E n \in 1 .. Len(s) : s[n] = d
  BY <1>1, <1>2, InChain, LastOfChain
<1>6. \A m, n \in 1 .. Len(s) : m < n => s[m] # s[n]
  BY <1>1, <1>2, NoRepeats
<1>7. /\ k \in 1 .. Len(s) /\ c = s[k] /\ c \in Cluster /\ c \in C
  BY <1>5
<1>8. /\ rest # 0 => rest \in Cluster /\ u.fat[c] = rest
      /\ rest = 0 => u.fat[c] \notin Cluster
  BY <1>1, <1>7, NextInChain
<1>9. w = MarkEnd(x, c)
  BY DEF CutChain
<1>10. /\ x \in Volumes /\ x.slot = u.slot
       /\ \A d \in Cluster : x.fat[d] = IF d \in R THEN Available ELSE u.fat[d]
  <2>1. CASE rest = 0
    BY <1>1, <2>1
  <2>2. CASE rest # 0
    <3>1. rest \in Cluster
      BY <1>8, <2>2
    <3> HIDE DEF rest
    <3>2. /\ FreeChain(u, rest) \in Volumes /\ FreeChain(u, rest).slot = u.slot
          /\ FreeChain(u, rest).fat = [d \in Cluster |-> IF d \in ChainSet(u, rest) THEN Available ELSE u.fat[d]]
      BY <1>1, <3>1, ChainFreed
    <3> QED
      BY <2>2, <3>2
  <2> QED
    BY <2>1, <2>2
<1> HIDE DEF s, c, C, f, w, x
<1>11. k = Len(s) => rest = 0
  <2>1. u.fat[s[Len(s)]] \notin Cluster
    BY <1>1, <1>2, Chained DEF IsChain, s
  <2> QED
    BY <1>7, <1>8, <2>1
(* The clusters after the k-th are what is freed. *)
<1>12. \A d \in R : \E n \in k + 1 .. Len(s) : s[n] = d
  <2>1. CASE rest = 0
    BY <2>1
  <2>2. CASE rest # 0
    <3> DEFINE S == {d \in Cluster : \E n \in k + 1 .. Len(s) : s[n] = d}
    <3>1. k \in 1 .. Len(s) - 1 /\ rest \in Cluster /\ rest = s[k + 1]
      BY <1>4, <1>7, <1>8, <1>11, <2>2
    <3>2. rest \in S
      <4>1. k + 1 \in k + 1 .. Len(s)
        BY <1>4, <3>1
      <4> HIDE DEF rest
      <4> QED
        BY <3>1, <4>1
    <3>3. ASSUME NEW d \in S, u.fat[d] \in Cluster PROVE u.fat[d] \in S
      <4>1. PICK n \in k + 1 .. Len(s) : s[n] = d
        OBVIOUS
      <4>2. n # Len(s)
        <5>1. u.fat[s[Len(s)]] \notin Cluster
          BY <1>1, <1>2, Chained DEF IsChain, s
        <5> QED
          BY <3>3, <4>1, <5>1
      <4>3. n \in 1 .. Len(s) - 1 /\ n + 1 \in k + 1 .. Len(s)
        BY <1>4, <3>1, <4>2
      <4>4. u.fat[d] = s[n + 1]
        BY <1>4, <4>1, <4>3
      <4> QED
        BY <3>3, <4>3, <4>4
    <3>4. S \in SUBSET Cluster
      OBVIOUS
    <3> HIDE DEF S, rest
    <3>5. ChainSet(u, rest) \subseteq S
      BY <1>1, <3>2, <3>3, <3>4, ChainWithin
    <3> QED
      BY <2>2, <3>5 DEF S
  <2> QED
    BY <2>1, <2>2
(* And they all are. *)
<1>26. \A n \in 1 .. Len(s) : n \notin 1 .. k => s[n] \in R
  <2> DEFINE T == {i \in Nat : k + 1 + i <= Len(s) => s[k + 1 + i] \in R}
  <2>1. 0 \in T
    <3> SUFFICES ASSUME k + 1 <= Len(s) PROVE s[k + 1] \in R
      BY <1>4, <1>7
    <3>1. k \in 1 .. Len(s) - 1 /\ k + 1 \in 1 .. Len(s)
      BY <1>4, <1>7
    <3>2. u.fat[c] = s[k + 1] /\ s[k + 1] \in Cluster
      BY <1>4, <1>5, <1>7, <3>1
    <3>3. rest # 0 /\ rest \in Cluster /\ rest = s[k + 1]
      BY <1>8, <3>2
    <3>4. rest \in ChainSet(u, rest)
      <4> HIDE DEF rest
      <4> QED
        BY <1>1, <3>3, ChainLinks
    <3> QED
      BY <3>3, <3>4
  <2>2. ASSUME NEW i \in Nat, i \in T PROVE i + 1 \in T
    <3> SUFFICES ASSUME k + 1 + (i + 1) <= Len(s) PROVE s[k + 1 + (i + 1)] \in R
      OBVIOUS
    <3> DEFINE m == k + 1 + i
    <3>1. m \in 1 .. Len(s) - 1 /\ m + 1 \in 1 .. Len(s) /\ m + 1 = k + 1 + (i + 1) /\ m <= Len(s)
      BY <1>4, <1>7
    <3>2. s[m] \in R
      BY <2>2, <3>1
    <3> HIDE DEF m
    <3>3. u.fat[s[m]] = s[m + 1] /\ s[m + 1] \in Cluster
      BY <1>4, <1>5, <3>1
    <3>4. rest # 0 /\ rest \in Cluster /\ R = ChainSet(u, rest)
      BY <1>8, <3>2
    <3>5. s[m + 1] \in R
      <4> HIDE DEF rest, R
      <4> QED
        BY <1>1, <3>2, <3>3, <3>4, ChainLinks
    <3> QED
      BY <3>1, <3>5
  <2>3. Nat \subseteq T
    <3> HIDE DEF T
    <3> QED
      BY <2>1, <2>2, CountUp
  <2> SUFFICES ASSUME NEW n \in 1 .. Len(s), n \notin 1 .. k PROVE s[n] \in R
    OBVIOUS
  <2>4. n - (k + 1) \in Nat /\ k + 1 + (n - (k + 1)) = n /\ n <= Len(s)
    BY <1>4, <1>7
  <2>5. n - (k + 1) \in T
    BY <2>3, <2>4
  <2> QED
    BY <2>4, <2>5
<1>13. \A d \in R : d \in C /\ d \in Cluster /\ d # c /\ \A n \in 1 .. k : d # s[n]
  <2> SUFFICES ASSUME NEW d \in R PROVE d \in C /\ d \in Cluster /\ d # c /\ \A n \in 1 .. k : d # s[n]
    OBVIOUS
  <2> HIDE DEF R, rest
  <2>1. PICK n \in k + 1 .. Len(s) : s[n] = d
    BY <1>12
  <2>2. n \in 1 .. Len(s)
    BY <1>4, <1>7
  <2>3. ASSUME NEW m \in 1 .. k PROVE s[m] # d
    <3>1. m < n /\ m \in 1 .. Len(s)
      BY <1>4, <1>7
    <3> QED
      BY <1>6, <2>1, <2>2, <3>1
  <2>4. k \in 1 .. k
    BY <1>4, <1>7
  <2>5. d \in C /\ d \in Cluster
    BY <1>5, <2>1, <2>2
  <2> QED
    BY <1>7, <2>3, <2>4, <2>5
<1>14. \A d \in Cluster : u.fat[d] \in R => d = c \/ d \in R
  <2> SUFFICES ASSUME NEW d \in Cluster, u.fat[d] \in R PROVE d = c \/ d \in R
    OBVIOUS
  <2>1. rest # 0 /\ rest \in Cluster /\ u.fat[c] = rest /\ u.fat[d] \in ChainSet(u, rest)
    BY <1>8
  <2>2. u.fat[d] \in Cluster
    BY <1>13
  <2>3. R = ChainSet(u, rest)
    BY <2>1
  <2> HIDE DEF rest, R
  <2>4. u.fat[d] = rest \/ \E e \in ChainSet(u, rest) : u.fat[e] = u.fat[d]
    BY <1>1, <2>1, ChainLinks
  <2>5. \A e \in ChainSet(u, rest) : e \in Cluster
    BY <1>13, <2>3
  <2> QED
    BY <1>1, <1>7, <2>1, <2>2, <2>3, <2>4, <2>5 DEF Links
<1> HIDE DEF R, rest
<1>15. /\ w \in Volumes /\ w.slot = u.slot
       /\ \A d \in Cluster : w.fat[d] = IF d = c THEN End ELSE IF d \in R THEN Available ELSE u.fat[d]
  <2>1. w \in Volumes /\ w.fat = [x.fat EXCEPT ![c] = End] /\ w.slot = x.slot
    BY <1>7, <1>9, <1>10, Ended
  <2>2. x.fat \in [Cluster -> Entry]
    BY <1>10 DEF Volumes, VolumeType
  <2> QED
    BY <1>7, <1>10, <2>1, <2>2
<1>16. End \notin Cluster /\ Available \notin Cluster /\ Available # End
  BY Entries, OpsAssumption DEF End, Available
<1>17. Root \notin R /\ Root # c /\ Root \in Cluster
  BY <1>2, <1>7, <1>13, Starts
<1>18. Links(w.fat)
  <2>1. w.fat[Root] = End
    BY <1>1, <1>15, <1>17 DEF Links
  <2>2. \A d \in Cluster : w.fat[d] \in {Available, End, u.fat[d]}
    BY <1>15
  <2>3. ASSUME NEW d \in Cluster, w.fat[d] \in Cluster PROVE w.fat[w.fat[d]] # Available
    <3>1. w.fat[d] = u.fat[d] /\ d # c /\ d \notin R
      BY <1>15, <1>16, <2>3
    <3>2. u.fat[d] \notin R /\ u.fat[u.fat[d]] # Available
      BY <1>1, <1>14, <2>3, <3>1 DEF Links
    <3> QED
      BY <1>15, <1>16, <2>3, <3>1, <3>2
  <2> QED
    BY <1>1, <2>1, <2>2, <2>3, LinksTakenAway
<1>19. \A d \in DirClusters(u) : w.slot[d] = u.slot[d] /\ w.fat[d] = u.fat[d]
  <2>1. \A d \in DirClusters(u) : d \in Cluster /\ d # c /\ d \notin R
    BY <1>3, <1>7, <1>13, DirCluster
  <2> QED
    BY <1>15, <2>1
<1>20. \A d \in Cluster \ DirClusters(u) : w.fat[d] # Available => w.slot[d] \in [0 .. N - 1 -> DataBlock]
  <2>1. \A d \in Cluster : w.fat[d] # Available => u.fat[d] # Available
    BY <1>2, <1>7, <1>15
  <2> QED
    BY <1>1, <1>15, <2>1 DEF Data
<1>21. \A r \in Live(u) : w.fat[First(u, r)] # Available /\ \A d \in Cluster : w.fat[d] # First(u, r)
  <2> SUFFICES ASSUME NEW r \in Live(u)
               PROVE  w.fat[First(u, r)] # Available /\ \A d \in Cluster : w.fat[d] # First(u, r)
    OBVIOUS
  <2>1. First(u, r) \in Cluster
    BY <1>1, LiveType
  <2>2. First(u, r) \notin R
    <3>1. CASE r # q
      BY <1>2, <1>13, <3>1
    <3>2. CASE r = q
      <4>1. First(u, r) = s[1] /\ 1 \in 1 .. k
        BY <1>4, <3>2 DEF f
      <4> QED
        BY <1>13, <4>1
    <3> QED
      BY <3>1, <3>2
  <2>3. u.fat[First(u, r)] # Available /\ \A d \in Cluster : u.fat[d] # First(u, r)
    BY <1>1 DEF Heads
  <2> QED
    BY <1>15, <1>16, <2>1, <2>2, <2>3
<1>22. w \in Shaped /\ SameEntries(u, w)
  BY <1>15, <1>18, <1>19, <1>20, <1>21, FilesChanged
<1>23. Len(Chain(w, f)) = k /\ \A i \in 1 .. k : Chain(w, f)[i] = s[i]
  <2>1. \A i \in 1 .. k - 1 : w.fat[s[i]] = u.fat[s[i]]
    <3> SUFFICES ASSUME NEW i \in 1 .. k - 1 PROVE w.fat[s[i]] = u.fat[s[i]]
      OBVIOUS
    <3>1. i \in 1 .. k /\ i \in 1 .. Len(s) /\ i < k
      BY <1>4, <1>7
    <3>2. s[i] \in Cluster /\ s[i] # c /\ s[i] \notin R
      BY <1>5, <1>6, <1>7, <1>13, <3>1
    <3> QED
      BY <1>15, <3>2
  <2>2. w.fat[s[k]] \notin Cluster
    BY <1>7, <1>15, <1>16
  <2> QED
    BY <1>1, <1>2, <1>7, <1>15, <2>1, <2>2, ChainShortened DEF s
<1>24. ASSUME NEW r \in Live(u), r # q PROVE Chain(w, First(u, r)) = Chain(u, First(u, r))
  <2>1. First(u, r) \in Cluster /\ \A d \in ChainSet(u, First(u, r)) : d \in Cluster
    BY ChainOfEntry
  <2>2. \A d \in ChainSet(u, First(u, r)) : d \notin C
    BY <1>2, <1>24
  <2>3. \A d \in ChainSet(u, First(u, r)) : w.fat[d] = u.fat[d]
    BY <1>7, <1>13, <1>15, <2>1, <2>2
  <2> QED
    BY <1>1, <1>15, <2>1, <2>3, ChainKept
<1>25. OthersKept(u, q, w)
  <2>1. First(w, q) = f /\ ChainSet(w, f) \subseteq Cluster /\ C \subseteq Cluster
    BY <1>2, <1>15, <1>22, InChain DEF SameEntries, First, f
  <2>2. ASSUME NEW d \in Cluster PROVE d \in ChainSet(w, f) <=> \E n \in 1 .. k : s[n] = d
    <3>1. d \in ChainSet(w, f) <=> \E n \in 1 .. Len(Chain(w, f)) : Chain(w, f)[n] = d
      BY <1>2, <1>15, InChain
    <3> QED
      BY <1>23, <3>1
  <2>3. ASSUME NEW d \in Cluster
        PROVE  w.fat[d] = Available \/ d \in ChainSet(w, f) <=> u.fat[d] = Available \/ d \in C
    <3>1. CASE d \in R
      BY <1>13, <1>15, <3>1
    <3>2. CASE d \notin R
      <4>1. w.fat[d] = Available <=> u.fat[d] = Available
        BY <1>2, <1>7, <1>15, <1>16, <3>2
      <4>2. d \in C <=> \E n \in 1 .. k : s[n] = d
        <5>1. ASSUME d \in C PROVE \E n \in 1 .. k : s[n] = d
          <6>1. PICK n \in 1 .. Len(s) : s[n] = d
            BY <1>5, <5>1
          <6>2. CASE n \in 1 .. k
            BY <6>1, <6>2
          <6>3. CASE n \notin 1 .. k
            BY <1>26, <3>2, <6>1, <6>3
          <6> QED
            BY <6>2, <6>3
        <5>2. 1 .. k \subseteq 1 .. Len(s)
          BY <1>4, <1>7
        <5> QED
          BY <1>5, <5>1, <5>2
      <4> QED
        BY <2>2, <4>1, <4>2
    <3> QED
      BY <3>1, <3>2
  <2>4. Mine(w, q) = Mine(u, q)
    BY <2>1, <2>3 DEF Mine, FreeClusters, f, C
  <2>5. \A d \in Cluster \ Mine(u, q) : d # c /\ d \notin R
    BY <1>7, <1>13 DEF Mine, f, C
  <2> QED
    BY <1>15, <2>4, <2>5 DEF OthersKept
<1> QED
  BY <1>15, <1>22, <1>23, <1>24, <1>25 DEF w, f, s

-----------------------------------------------------------------------------
(* What is written where in a file. *)

(* The unit that is block e of the k-th cluster of a file, and whether it   *)
(* is one of n from o on.                                                   *)
Nth(k, e) == N * (k - 1) + e

Hit(k, e, o, n) == o <= Nth(k, e) /\ Nth(k, e) < o + n

LEMMA NthIsNat ==
  ASSUME NEW k \in Nat \ {0}, NEW e \in 0 .. N - 1
  PROVE  Nth(k, e) \in Nat
<1>1. N \in Nat /\ k - 1 \in Nat
  BY OpsAssumption
<1>2. N * (k - 1) \in Nat
  BY <1>1
<1> QED
  BY <1>1, <1>2 DEF Nth

LEMMA HitsInCluster ==
  ASSUME NEW k \in Nat \ {0}, NEW j \in Nat \ {0}, NEW e \in 0 .. N - 1,
         NEW from \in 0 .. N, NEW to \in 0 .. N
  PROVE  Hit(k, e, N * (j - 1) + from, to - from) <=> k = j /\ from <= e /\ e < to
<1> DEFINE a == k - 1
           b == j - 1
           A == a * N
           B == b * N
<1>1. a \in Nat /\ b \in Nat /\ N \in Nat
  BY OpsAssumption
<1>2. /\ a < b => A + N <= B
      /\ b < a => B + N <= A
      /\ A \in Nat /\ B \in Nat
  BY <1>1, Multiples
<1>3. N * (k - 1) = A /\ N * (j - 1) = B /\ (a = b => A = B) /\ (k = j <=> a = b)
  BY <1>1
<1> HIDE DEF A, B
<1>4. A + e \in Int /\ B + from \in Int /\ (B + from) + (to - from) = B + to
  BY <1>1, <1>2
<1>5. (B + from <= A + e /\ A + e < B + to) <=> (a = b /\ from <= e /\ e < to)
  <2> HIDE DEF a, b
  <2>1. CASE a < b
    BY <1>1, <1>2, <2>1
  <2>2. CASE b < a
    BY <1>1, <1>2, <2>2
  <2>3. CASE a = b
    BY <1>1, <1>2, <1>3, <2>3
  <2> QED
    BY <1>1, <2>1, <2>2, <2>3
<1> QED
  BY <1>3, <1>4, <1>5 DEF Hit, Nth

(* The file q, which may have grown, has x in its n units from o on, and in *)
(* its other units what it had.                                             *)
Covers(v, q, w, o, n, x) ==
  LET s == Chain(v, First(v, q))
      t == Chain(w, First(v, q))
  IN  \A k \in 1 .. Len(t), e \in 0 .. N - 1 :
        /\ Hit(k, e, o, n) => w.slot[t[k]][e] = Unit(x)
        /\ ~Hit(k, e, o, n) /\ k <= Len(s) => w.slot[t[k]][e] = v.slot[s[k]][e]

LEMMA NothingCovered ==
  ASSUME NEW v, NEW q, NEW w, NEW o \in Nat, NEW x,
         Len(Chain(v, First(v, q))) \in Nat, Len(Chain(w, First(v, q))) \in Nat,
         \A k \in 1 .. Len(Chain(w, First(v, q))) :
           k <= Len(Chain(v, First(v, q))) =>
             w.slot[Chain(w, First(v, q))[k]] = v.slot[Chain(v, First(v, q))[k]]
  PROVE  Covers(v, q, w, o, 0, x)
<1> DEFINE t == Chain(w, First(v, q))
<1>1. ASSUME NEW k \in 1 .. Len(t), NEW e \in 0 .. N - 1 PROVE ~Hit(k, e, o, 0)
  <2>1. Nth(k, e) \in Nat
    BY NthIsNat
  <2> QED
    BY <2>1 DEF Hit
<1> QED
  BY <1>1 DEF Covers

LEMMA CoversMore ==
  ASSUME NEW u, NEW q, NEW v, NEW w, NEW o \in Nat, NEW m \in Nat, NEW n \in Nat, NEW x,
         First(v, q) = First(u, q), Covers(u, q, v, o, m, x), Covers(v, q, w, o + m, n, x),
         Len(Chain(u, First(u, q))) \in Nat, Len(Chain(v, First(u, q))) \in Nat,
         Len(Chain(w, First(u, q))) \in Nat,
         Len(Chain(u, First(u, q))) <= Len(Chain(v, First(u, q))),
         \A k \in 1 .. Len(Chain(w, First(u, q))), e \in 0 .. N - 1 :
           Hit(k, e, o, m) => k <= Len(Chain(v, First(u, q)))
  PROVE  Covers(u, q, w, o, m + n, x)
<1> DEFINE r == Chain(u, First(u, q))
           s == Chain(v, First(u, q))
           t == Chain(w, First(u, q))
<1> SUFFICES ASSUME NEW k \in 1 .. Len(t), NEW e \in 0 .. N - 1
             PROVE  /\ Hit(k, e, o, m + n) => w.slot[t[k]][e] = Unit(x)
                    /\ ~Hit(k, e, o, m + n) /\ k <= Len(r) => w.slot[t[k]][e] = u.slot[r[k]][e]
  BY DEF Covers
<1>0. k \in Nat \ {0} /\ e \in 0 .. N - 1
  OBVIOUS
<1>1. /\ Hit(k, e, o + m, n) => w.slot[t[k]][e] = Unit(x)
      /\ ~Hit(k, e, o + m, n) /\ k <= Len(s) => w.slot[t[k]][e] = v.slot[s[k]][e]
  BY DEF Covers
<1>2. k <= Len(s) =>
        /\ Hit(k, e, o, m) => v.slot[s[k]][e] = Unit(x)
        /\ ~Hit(k, e, o, m) /\ k <= Len(r) => v.slot[s[k]][e] = u.slot[r[k]][e]
  <2>1. k <= Len(s) => k \in 1 .. Len(s)
    OBVIOUS
  <2> QED
    BY <2>1 DEF Covers
<1>3. Hit(k, e, o, m + n) <=> Hit(k, e, o, m) \/ Hit(k, e, o + m, n)
  <2>1. Nth(k, e) \in Nat
    BY <1>0, NthIsNat
  <2> QED
    BY <2>1 DEF Hit
<1>4. ~(Hit(k, e, o, m) /\ Hit(k, e, o + m, n))
  <2>1. Nth(k, e) \in Nat
    BY <1>0, NthIsNat
  <2> QED
    BY <2>1 DEF Hit
<1>5. Hit(k, e, o, m) => k <= Len(s)
  OBVIOUS
<1>6. k <= Len(r) => k <= Len(s)
  OBVIOUS
<1> HIDE DEF r, s, t
<1> QED
  BY <1>1, <1>2, <1>3, <1>4, <1>5, <1>6

LEMMA ChainIsSeq ==
  ASSUME NEW v \in Volumes, NEW c \in Cluster
  PROVE  Chain(v, c) \in Seq(Cluster) /\ Len(Chain(v, c)) \in Nat
<1>1. Chain(v, c) \in Seq(Cluster)
  BY Chained
<1> QED
  BY <1>1

(* A write into one cluster of the chain, which may be its last and new.    *)
LEMMA OneCovered ==
  ASSUME NEW u \in Volumes, NEW w \in Volumes, NEW q, First(u, q) \in Cluster,
         Longer(Chain(u, First(u, q)), Chain(w, First(u, q))),
         NEW j \in 1 .. Len(Chain(w, First(u, q))), NEW c, c = Chain(w, First(u, q))[j],
         \A d \in Cluster \ {c} : w.slot[d] = u.slot[d],
         NEW from \in 0 .. N, NEW to \in 0 .. N, NEW x,
         \A e \in 0 .. N - 1 :
           /\ from <= e /\ e < to => w.slot[c][e] = Unit(x)
           /\ ~(from <= e /\ e < to) /\ j <= Len(Chain(u, First(u, q))) => w.slot[c][e] = u.slot[c][e]
  PROVE  Covers(u, q, w, N * (j - 1) + from, to - from, x)
<1> DEFINE f == First(u, q)
           s == Chain(u, f)
           t == Chain(w, f)
           o == N * (j - 1) + from
           n == to - from
<1>1. s \in Seq(Cluster) /\ Len(s) \in Nat /\ t \in Seq(Cluster) /\ Len(t) \in Nat
  BY ChainIsSeq
<1>2. \A k \in 1 .. Len(t) : k # j => t[k] # c
  <2> SUFFICES ASSUME NEW k \in 1 .. Len(t), k # j PROVE t[k] # t[j]
    OBVIOUS
  <2>1. CASE k < j
    BY <2>1, NoRepeats
  <2>2. CASE j < k
    BY <2>2, NoRepeats
  <2> QED
    BY <1>1, <2>1, <2>2
<1>3. \A k \in 1 .. Len(t) : k <= Len(s) => t[k] = s[k]
  <2>1. \A k \in 1 .. Len(s) : t[k] = s[k]
    BY DEF Longer
  <2> QED
    BY <1>1, <2>1
<1>4. j \in 1 .. Len(t)
  OBVIOUS
<1> SUFFICES ASSUME NEW k \in 1 .. Len(t), NEW e \in 0 .. N - 1
             PROVE  /\ Hit(k, e, o, n) => w.slot[t[k]][e] = Unit(x)
                    /\ ~Hit(k, e, o, n) /\ k <= Len(s) => w.slot[t[k]][e] = u.slot[s[k]][e]
  BY DEF Covers
<1>5. Hit(k, e, o, n) <=> k = j /\ from <= e /\ e < to
  <2>1. k \in Nat \ {0} /\ j \in Nat \ {0}
    BY <1>1
  <2> QED
    BY <2>1, HitsInCluster
<1>6. CASE k = j
  BY <1>3, <1>5, <1>6
<1>7. CASE k # j
  <2>1. t[k] \in Cluster
    BY <1>1
  <2>2. w.slot[t[k]] = u.slot[t[k]]
    BY <1>2, <1>7, <2>1
  <2> QED
    BY <1>3, <1>5, <1>7, <2>2
<1> QED
  BY <1>6, <1>7

LEMMA OnItself ==
  ASSUME NEW v \in Sound, NEW q \in Live(v), ~BlockOf(v, q).isDir, NEW k \in Nat, NEW p,
         OnChain(v, q, k, p), p.st = "ok"
  PROVE  OnChain(p.v, q, k, p)
<1>1. q \in Live(p.v) /\ First(p.v, q) = First(v, q) /\ p.v \in Volumes
  BY OnFile
<1> QED
  BY <1>1, AlongItself DEF OnChain

(* The clusters of the file hold what they held. *)
HoldsStill(v, q, w) ==
  \A d \in ChainSet(v, First(v, q)) : w.slot[d] = v.slot[d]

LEMMA StillIsCovered ==
  ASSUME NEW v \in Volumes, NEW w \in Volumes, NEW q, First(v, q) \in Cluster, HoldsStill(v, q, w),
         \A k \in 1 .. Len(Chain(w, First(v, q))) :
           k <= Len(Chain(v, First(v, q))) => Chain(w, First(v, q))[k] = Chain(v, First(v, q))[k],
         NEW o \in Nat, NEW x
  PROVE  Covers(v, q, w, o, 0, x)
<1> DEFINE s == Chain(v, First(v, q))
           t == Chain(w, First(v, q))
<1>1. Len(s) \in Nat /\ Len(t) \in Nat
  BY ChainIsSeq
<1>2. \A k \in 1 .. Len(s) : s[k] \in ChainSet(v, First(v, q))
  BY LastOfChain
<1>3. \A k \in 1 .. Len(t) : k <= Len(s) => w.slot[t[k]] = v.slot[s[k]]
  BY <1>1, <1>2 DEF HoldsStill
<1> QED
  BY <1>1, <1>3, NothingCovered

LEMMA SetOfLonger ==
  ASSUME NEW v \in Volumes, NEW w \in Volumes, NEW c \in Cluster, Longer(Chain(v, c), Chain(w, c))
  PROVE  ChainSet(v, c) \subseteq ChainSet(w, c)
<1> SUFFICES ASSUME NEW d \in ChainSet(v, c) PROVE d \in ChainSet(w, c)
  OBVIOUS
<1>1. d \in Cluster /\ Len(Chain(v, c)) \in Nat /\ Len(Chain(w, c)) \in Nat
  BY InChain, ChainIsSeq
<1>2. PICK i \in 1 .. Len(Chain(v, c)) : Chain(v, c)[i] = d
  BY <1>1, InChain
<1>3. i \in 1 .. Len(Chain(w, c)) /\ Chain(w, c)[i] = d
  BY <1>1, <1>2 DEF Longer
<1> QED
  BY <1>1, <1>3, InChain

LEMMA OnwardHoldsStill ==
  ASSUME NEW v \in Sound, NEW q \in Live(v), ~BlockOf(v, q).isDir, NEW k \in Nat, NEW p,
         OnChain(v, q, k, p), HoldsStill(v, q, p.v), NEW checked
  PROVE  HoldsStill(v, q, Onward(p, checked).v)
<1> DEFINE c == NextCluster(p.v, p.cluster)
           zero == TRUE
           r == Extend(p.v, p.cluster, zero)
           u == p.v
           f == First(v, q)
<1>1. CASE p.st # "ok"
  BY <1>1 DEF Onward
<1>2. CASE p.st = "ok" /\ c # 0
  <2>1. Onward(p, checked) = [p EXCEPT !.cluster = c]
    BY <1>2 DEF Onward
  <2>2. p \in [st : {"ok", "error"}, v : Volumes, cluster : 0 .. D]
    BY DEF OnChain, Step
  <2> HIDE DEF c
  <2>3. [p EXCEPT !.cluster = c].v = p.v
    BY <2>2
  <2> QED
    BY <2>1, <2>3
<1>3. CASE p.st = "ok" /\ c = 0
  <2>1. /\ u.fat[p.cluster] = End /\ u \in Volumes /\ u \in Shaped /\ p.cluster \in Cluster
        /\ q \in Live(u) /\ First(u, q) = f
    BY <1>3, OnFile
  <2>2. Onward(p, checked) = r
    BY <1>3, <2>1 DEF Onward
  <2> HIDE DEF zero
  <2>3. /\ r \in Step
        /\ r.st # "ok" => r.v = u /\ NoneLeft(u)
        /\ r.st = "ok" =>
             /\ r.cluster \in Cluster /\ u.fat[r.cluster] = Available
             /\ r.v.fat = [[u.fat EXCEPT ![p.cluster] = r.cluster] EXCEPT ![r.cluster] = End]
             /\ r.v.slot = IF zero THEN [u.slot EXCEPT ![r.cluster] = Cleared] ELSE u.slot
    <3> HIDE DEF u
    <3> QED
      BY <2>1, TailExtended DEF u
  <2> HIDE DEF r
  <2>4. CASE r.st # "ok"
    BY <2>2, <2>3, <2>4
  <2>5. CASE r.st = "ok"
    <3>1. u.slot \in Slots /\ Cluster \subseteq 1 .. D + 1
      BY <2>1, Entries DEF Volumes, VolumeType
    <3>2. ASSUME NEW d \in ChainSet(v, f) PROVE r.v.slot[d] = v.slot[d]
      <4>1. d \in ChainSet(u, f)
        <5>1. Longer(Chain(v, f), Chain(u, f)) /\ v \in Volumes /\ f \in Cluster
          BY SoundIsShaped, ChainOfEntry DEF OnChain, Along
        <5> QED
          BY <2>1, <5>1, SetOfLonger
      <4>2. d \in Cluster /\ u.fat[d] # Available
        BY <2>1, <4>1, ChainOfEntry
      <4>3. r.v.slot[d] = u.slot[d]
        BY <2>3, <2>5, <3>1, <4>2 DEF Slots, zero
      <4> QED
        BY <4>3 DEF HoldsStill
    <3> QED
      BY <2>2, <3>2 DEF HoldsStill
  <2> QED
    BY <2>4, <2>5
<1> QED
  BY <1>1, <1>2, <1>3

LEMMA FollowHoldsStill ==
  ASSUME NEW v \in Sound, NEW q \in Live(v), ~BlockOf(v, q).isDir, NEW k \in Nat, NEW checked
  PROVE  HoldsStill(v, q, Follow(v, First(v, q), k, checked).v)
<1> DEFINE f == First(v, q)
           p0 == [st |-> "ok", v |-> v, cluster |-> f]
<1>1. v \in Volumes /\ v \in Shaped /\ f \in Cluster
  BY SoundIsShaped, ChainOfEntry
<1>2. PICK step \in [0 .. k -> Step] : Follows(v, f, k, checked, step)
  <2> HIDE DEF f
  <2> QED
    BY <1>1, FollowUnfolds
<1>3. /\ step[0] = p0
      /\ \A i \in 1 .. k : step[i] = Onward(step[i - 1], checked)
      /\ Follow(v, f, k, checked) = step[k]
  BY <1>2 DEF Follows
<1>4. OnChain(v, q, 1, p0) /\ HoldsStill(v, q, p0.v)
  <2>1. f \in 0 .. D
    BY <1>1, OpsAssumption DEF Cluster
  <2>2. p0 \in Step /\ p0.v = v /\ p0.cluster = f
    BY <1>1, <2>1 DEF Step
  <2>3. 1 \in 1 .. Len(Chain(v, f)) /\ Chain(v, f)[1] = f
    BY <1>1, Chained
  <2>4. Along(v, q, v) /\ p0.st = "ok"
    BY <1>1, AlongItself
  <2> HIDE DEF p0
  <2> QED
    BY <2>2, <2>3, <2>4 DEF OnChain, HoldsStill
<1> HIDE DEF f, p0
<1> DEFINE T == {i \in Nat : i <= k => OnChain(v, q, i + 1, step[i]) /\ HoldsStill(v, q, step[i].v)}
<1>5. 0 \in T
  BY <1>3, <1>4
<1>6. ASSUME NEW i \in Nat, i \in T PROVE i + 1 \in T
  <2> SUFFICES ASSUME i + 1 <= k
               PROVE  OnChain(v, q, (i + 1) + 1, step[i + 1]) /\ HoldsStill(v, q, step[i + 1].v)
    OBVIOUS
  <2>1. OnChain(v, q, i + 1, step[i]) /\ HoldsStill(v, q, step[i].v) /\ i + 1 \in Nat
    BY <1>6
  <2>2. step[i + 1] = Onward(step[i], checked)
    <3>1. i + 1 \in 1 .. k /\ (i + 1) - 1 = i
      OBVIOUS
    <3> QED
      BY <1>3, <3>1
  <2>3. OnChain(v, q, (i + 1) + 1, Onward(step[i], checked)) /\ HoldsStill(v, q, Onward(step[i], checked).v)
    BY <2>1, OnwardOnChain, OnwardHoldsStill
  <2> QED
    BY <2>2, <2>3
<1>7. k \in T
  BY <1>5, <1>6, CountUp
<1> QED
  BY <1>3, <1>7 DEF f

(* One block of the data is written into the k-th cluster. *)
LEMMA FilledCovers ==
  ASSUME NEW v \in Sound, NEW q \in Live(v), ~BlockOf(v, q).isDir, NEW k \in Nat, NEW p,
         OnChain(v, q, k, p), p.st = "ok", NEW from \in 0 .. N, NEW to \in 0 .. N, NEW x \in Value
  PROVE  LET r == Filled(p, from, to, x)
         IN  r.st = "ok" /\ Covers(p.v, q, r.v, N * (k - 1) + from, to - from, x)
<1> DEFINE u == p.v
           c == p.cluster
           w == PutUnits(u, c, from, to, x)
           f == First(u, q)
           r == Filled(p, from, to, x)
<1>1. /\ u \in Volumes /\ u \in Shaped /\ q \in Live(u) /\ f = First(v, q) /\ c \in Cluster
  BY OnFile
<1>2. f \in Cluster
  BY <1>1, ChainOfEntry
<1>3. k \in 1 .. Len(Chain(u, f)) /\ Chain(u, f)[k] = c
  BY <1>1 DEF OnChain
<1>4. /\ w \in Volumes /\ w.fat = u.fat
      /\ \A d \in Cluster \ {c} : w.slot[d] = u.slot[d]
      /\ w.slot[c] = UnitsIn(u, c, from, to, x)
  BY <1>1, UnitsAre
<1>5. r.st = "ok" /\ r.v = w
  <2>1. r = [p EXCEPT !.v = w]
    BY DEF Filled
  <2>2. p \in [st : {"ok", "error"}, v : Volumes, cluster : 0 .. D]
    BY DEF OnChain, Step
  <2> HIDE DEF r, w
  <2> QED
    BY <2>1, <2>2
<1> HIDE DEF u, c, w, r
<1>6. Chain(w, f) = Chain(u, f)
  BY <1>1, <1>2, <1>4, ChainsStay
<1>7. Longer(Chain(u, f), Chain(w, f))
  BY <1>1, <1>2, <1>6, ChainIsSeq DEF Longer
<1>8. \A e \in 0 .. N - 1 :
        /\ from <= e /\ e < to => w.slot[c][e] = Unit(x)
        /\ ~(from <= e /\ e < to) => w.slot[c][e] = u.slot[c][e]
  BY <1>4 DEF UnitsIn
<1>9. Covers(u, q, w, N * (k - 1) + from, to - from, x)
  BY <1>1, <1>2, <1>3, <1>4, <1>6, <1>7, <1>8, OneCovered
<1> QED
  BY <1>5, <1>9 DEF u, r

LEMMA LeastIs ==
  ASSUME NEW a \in Int, NEW b \in Int
  PROVE  Min({a, b}) = IF a <= b THEN a ELSE b
<1> DEFINE P(m) == m \in {a, b} /\ \A y \in {a, b} : m <= y
           n == IF a <= b THEN a ELSE b
<1>1. P(n)
  OBVIOUS
<1>2. \A m : P(m) => m = n
  OBVIOUS
<1> QED
  BY <1>1, <1>2 DEF Min

(* The units that fit in a cluster, and the next cluster of the chain, or a *)
(* new one, written into.                                                   *)
Fit(n) == Min({N, n})

NextCovers(q, k, p, to, x) ==
  LET r == WriteNext(p, to, x)
  IN  /\ r.st = "ok" => Covers(p.v, q, r.v, N * k, Fit(to), x)
      /\ r.st # "ok" => r.v = p.v

LEMMA WriteNextCovers ==
  ASSUME NEW v \in Sound, NEW q \in Live(v), ~BlockOf(v, q).isDir, NEW k \in Nat, NEW p,
         OnChain(v, q, k, p), p.st = "ok", NEW to \in Nat \ {0}, NEW x \in Value
  PROVE  NextCovers(q, k, p, to, x)
<1> DEFINE c == NextCluster(p.v, p.cluster)
           zero == to < N
           r == Extend(p.v, p.cluster, zero)
           m == Fit(to)
           u == p.v
           f == First(u, q)
<1>1. /\ u \in Volumes /\ u \in Sound /\ u \in Shaped /\ q \in Live(u) /\ f = First(v, q)
      /\ p.cluster \in Cluster /\ ~BlockOf(u, q).isDir
      /\ OnChain(u, q, k, p)
  BY OnFile, OnItself
<1>2. f \in Cluster
  BY <1>1, ChainOfEntry
<1>3. m \in 0 .. N /\ m \in Nat /\ N \in Nat
  BY LeastIs, OpsAssumption DEF Fit
<1>4. N * ((k + 1) - 1) + 0 = N * k /\ m - 0 = m /\ k + 1 \in Nat
  <2>1. (k + 1) - 1 = k /\ N * k \in Nat
    BY <1>3
  <2> QED
    BY <1>3, <2>1
<1> HIDE DEF m
<1>5. CASE c # 0
  <2> DEFINE n == [p EXCEPT !.cluster = c]
             y == Filled(n, 0, m, x)
  <2>1. OnChain(u, q, k + 1, n)
    BY <1>1, <1>5, NextOnChain
  <2>2. WriteNext(p, to, x) = y
    BY <1>5 DEF WriteNext, NextToWrite, m, Fit
  <2>3. n.v = u /\ n.st = "ok"
    <3>1. p \in [st : {"ok", "error"}, v : Volumes, cluster : 0 .. D]
      BY DEF OnChain, Step
    <3> HIDE DEF c
    <3> QED
      BY <3>1
  <2> HIDE DEF n
  <2>4. y.st = "ok" /\ Covers(n.v, q, y.v, N * ((k + 1) - 1) + 0, m - 0, x)
    <3>1. 0 \in 0 .. N
      BY <1>3
    <3> HIDE DEF u
    <3> QED
      BY <1>1, <1>3, <1>4, <2>1, <2>3, <3>1, FilledCovers
  <2> HIDE DEF y
  <2> QED
    BY <1>4, <2>2, <2>3, <2>4 DEF m, NextCovers
<1>6. CASE c = 0
  <2>1. WriteNext(p, to, x) = Filled(r, 0, m, x)
    BY <1>6 DEF WriteNext, NextToWrite, m, Fit
  <2> HIDE DEF zero
  <2>2. /\ r \in Step
        /\ r.st # "ok" => OnChain(u, q, k + 1, r)
        /\ r.st = "ok" => r.cluster \in Cluster
                         /\ r.v.slot = IF zero THEN [p.v.slot EXCEPT ![r.cluster] = Cleared] ELSE p.v.slot
        /\ \A w \in Volumes :
             /\ r.st = "ok" /\ w.fat = r.v.fat
             /\ \A d \in Cluster \ {r.cluster} : w.slot[d] = p.v.slot[d]
             /\ w.slot[r.cluster] \in [0 .. N - 1 -> DataBlock]
             => OnChain(u, q, k + 1, [r EXCEPT !.v = w])
    BY <1>1, <1>6, NewOnChain
  <2>3. r.st # "ok" => r.v = u
    <3>1. u.fat[p.cluster] = End
      BY <1>6, OnFile
    <3> DEFINE t == p.cluster
    <3>2. /\ r \in Step
          /\ r.st # "ok" => r.v = u /\ NoneLeft(u)
          /\ r.st = "ok" =>
               /\ r.cluster \in Cluster /\ u.fat[r.cluster] = Available
               /\ r.v.fat = [[u.fat EXCEPT ![t] = r.cluster] EXCEPT ![r.cluster] = End]
               /\ r.v.slot = IF zero THEN [u.slot EXCEPT ![r.cluster] = Cleared] ELSE u.slot
      <4>1. u \in Volumes /\ t \in Cluster /\ u.fat[t] = End
        BY <1>1, <3>1
      <4>2. r = Extend(u, t, zero)
        OBVIOUS
      <4> HIDE DEF r, u, t
      <4> QED
        BY ONLY <4>1, <4>2, TailExtended
    <3> QED
      BY <3>2
  <2> HIDE DEF r
  <2>4. CASE r.st # "ok"
    BY <2>1, <2>3, <2>4 DEF Filled, NextCovers
  <2>5. CASE r.st = "ok"
    <3> DEFINE d == r.cluster
               w == PutUnits(r.v, d, 0, m, x)
    <3>0. r.v \in Volumes /\ d \in Cluster
      BY <2>2, <2>5 DEF Step
    <3>1. d \in Cluster /\ u.slot \in Slots /\ Cluster \subseteq 1 .. D + 1
      BY <1>1, <3>0, Entries DEF Volumes, VolumeType
    <3>2. /\ w \in Volumes /\ w.fat = r.v.fat
          /\ \A e \in Cluster \ {d} : w.slot[e] = r.v.slot[e]
          /\ w.slot[d] = UnitsIn(r.v, d, 0, m, x)
      BY <3>0, UnitsAre
    <3>3. Filled(r, 0, m, x) = [r EXCEPT !.v = w]
      BY <2>5 DEF Filled
    <3> HIDE DEF w
    <3>4. \A e \in Cluster \ {d} : w.slot[e] = u.slot[e]
      BY <2>2, <2>5, <3>1, <3>2 DEF Slots
    <3>5. w.slot[d] \in [0 .. N - 1 -> DataBlock]
      <4>1. CASE zero
        <5>1. r.v.slot[d] = Cleared
          BY <2>2, <2>5, <3>1, <4>1 DEF Slots
        <5> QED
          BY <3>2, <5>1, ClearedIsData, UnitsAreData
      <4>2. CASE ~zero
        <5>1. UnitsIn(r.v, d, 0, Min({N, to}), x) \in [0 .. N - 1 -> DataBlock]
          BY <4>2, WholeCluster DEF zero
        <5> QED
          BY <3>2, <5>1 DEF m, Fit
      <4> QED
        BY <4>1, <4>2
    <3> DEFINE y == [r EXCEPT !.v = w]
    <3>6. OnChain(u, q, k + 1, y)
      BY <2>2, <2>5, <3>2, <3>4, <3>5
    <3>7. y.v = w /\ y.cluster = d /\ y.st = "ok"
      BY <2>2, <2>5 DEF Step
    <3> HIDE DEF y
    <3>8. /\ Longer(Chain(u, f), Chain(w, f))
          /\ k + 1 \in 1 .. Len(Chain(w, f)) /\ d = Chain(w, f)[k + 1]
      BY <3>6, <3>7 DEF OnChain, Along
    <3>9. k = Len(Chain(u, f))
      BY <1>6, <1>1, OnFile
    <3>10. \A e \in 0 .. N - 1 :
             /\ 0 <= e /\ e < m => w.slot[d][e] = Unit(x)
             /\ ~(0 <= e /\ e < m) /\ k + 1 <= Len(Chain(u, f)) => w.slot[d][e] = u.slot[d][e]
      BY <3>2, <3>9 DEF UnitsIn
    <3>11. Covers(u, q, w, N * ((k + 1) - 1) + 0, m - 0, x)
      <4>1. 0 \in 0 .. N
        BY <1>3
      <4> HIDE DEF u, d, f
      <4> QED
        BY <1>1, <1>2, <1>3, <3>2, <3>4, <3>8, <3>10, <4>1, OneCovered DEF f
    <3> QED
      BY <1>4, <2>1, <3>3, <3>7, <3>11 DEF y, m, NextCovers
  <2> QED
    BY <2>4, <2>5
<1> QED
  BY <1>5, <1>6 DEF NextCovers

(* The m units from o on that are written by now, of n; or fewer than n,    *)
(* if no cluster was found for the next.                                    *)
Spread(v, q, p, o, m, n, x) ==
  IF p.st = "ok" THEN Covers(v, q, p.v, o, m, x)
  ELSE \E j \in 0 .. n - 1 : Covers(v, q, p.v, o, j, x)

LEMMA MoreSpread ==
  ASSUME NEW u \in Sound, NEW q \in Live(u), ~BlockOf(u, q).isDir, NEW k \in Nat \ {0}, NEW p,
         OnChain(u, q, k, p), p.st = "ok", NEW h \in Nat, h = N * k,
         NEW o \in Nat, NEW m \in Nat, o + m = h, NEW n \in Nat, m < n,
         NEW x \in Value, Covers(u, q, p.v, o, m, x), NEW to \in Nat \ {0}
  PROVE  Spread(u, q, WriteNext(p, to, x), o, m + Fit(to), n, x)
<1> DEFINE v == p.v
           r == WriteNext(p, to, x)
           w == r.v
           f == First(u, q)
           e == Fit(to)
<1>1. v \in Sound /\ v \in Volumes /\ f \in Cluster /\ First(v, q) = f /\ u \in Volumes
  BY OnFile, SoundIsShaped, ChainOfEntry
<1>2. e \in Nat /\ N \in Nat
  BY LeastIs, OpsAssumption DEF Fit
<1>3. (r.st = "ok" => Covers(v, q, w, h, e, x)) /\ (r.st # "ok" => w = v)
  <2>1. (r.st = "ok" => Covers(v, q, w, N * k, e, x)) /\ (r.st # "ok" => w = v)
    <3>1. /\ u \in Sound /\ q \in Live(u) /\ ~BlockOf(u, q).isDir /\ k \in Nat /\ OnChain(u, q, k, p)
          /\ p.st = "ok" /\ to \in Nat \ {0} /\ x \in Value
      OBVIOUS
    <3>2. NextCovers(q, k, p, to, x)
      BY ONLY <3>1, WriteNextCovers
    <3> QED
      BY <3>2 DEF NextCovers
  <2> HIDE DEF v, w, r, e
  <2> QED
    BY <2>1
<1>4. OnChain(u, q, k + 1, r)
  BY WriteNextOnChain
<1> HIDE DEF v, r, e
<1>5. CASE r.st # "ok"
  <2>1. m \in 0 .. n - 1 /\ Covers(u, q, w, o, m, x)
    BY <1>3, <1>5 DEF v
  <2>2. \E j \in 0 .. n - 1 : Covers(u, q, w, o, j, x)
    BY <2>1
  <2>3. Spread(u, q, r, o, m + e, n, x)
    BY <1>5, <2>2 DEF Spread
  <2> QED
    BY <2>3 DEF r, e
<1>6. CASE r.st = "ok"
  <2>1. w \in Volumes /\ Longer(Chain(u, f), Chain(v, f)) /\ k \in 1 .. Len(Chain(v, f))
    BY <1>4, SoundIsShaped DEF OnChain, Along, v
  <2> HIDE DEF w
  <2>2. Len(Chain(u, f)) \in Nat /\ Len(Chain(v, f)) \in Nat /\ Len(Chain(w, f)) \in Nat
    BY <1>1, <2>1, ChainIsSeq
  <2>3. Len(Chain(u, f)) <= Len(Chain(v, f))
    BY <2>1 DEF Longer
  <2>4. ASSUME NEW j \in 1 .. Len(Chain(w, f)), NEW d \in 0 .. N - 1, Hit(j, d, o, m)
        PROVE  j <= Len(Chain(v, f))
    <3> DEFINE i == j - 1
               J == i * N
               K == k * N
    <3>1. j \in Nat \ {0} /\ i \in Nat /\ k \in Nat
      BY <2>2
    <3>2. k < i => K + N <= J
      BY <1>2, <3>1, Multiples
    <3>3. N * (j - 1) = J /\ h = K /\ J \in Nat /\ K \in Nat /\ (i = k => J = K)
      BY <1>2, <3>1
    <3> HIDE DEF J, K
    <3>4. J + d < h /\ d \in Nat
      BY <1>2, <2>4, <3>3 DEF Hit, Nth
    <3>5. i < k
      <4> HIDE DEF i
      <4> QED
        BY <1>2, <3>1, <3>2, <3>3, <3>4
    <3> QED
      BY <2>1, <2>2, <3>1, <3>5
  <2>5. Covers(v, q, w, o + m, e, x)
    BY <1>3, <1>6
  <2> HIDE DEF f
  <2>6. Covers(u, q, w, o, m + e, x)
    BY <1>1, <1>2, <2>2, <2>3, <2>4, <2>5, CoversMore DEF f, v
  <2> QED
    BY <1>6, <2>6 DEF Spread, w, r, e
<1> QED
  BY <1>5, <1>6

LEMMA UnitsCover ==
  ASSUME NEW v \in Sound, NEW q \in Live(v), ~BlockOf(v, q).isDir, NEW k \in Nat \ {0}, NEW p,
         OnChain(v, q, k, p), p.st = "ok", NEW from \in 0 .. N - 1, NEW n \in Nat \ {0}, NEW x \in Value
  PROVE  Spread(p.v, q, WriteUnits(p.v, p.cluster, from, from + n, x), N * (k - 1) + from, n, n, x)
<1> DEFINE to == from + n
           l == (to - 1) \div N
           u == p.v
           c == p.cluster
           B == N * (k - 1)
           o == B + from
           far(i) == Min({N * (i + 1), to}) - from
<1>1. /\ u \in Volumes /\ u \in Sound /\ q \in Live(u) /\ ~BlockOf(u, q).isDir
      /\ c \in Cluster /\ OnChain(u, q, k, p)
  BY OnFile, OnItself
<1>2. p = [st |-> "ok", v |-> u, cluster |-> c]
  BY DEF OnChain, Step
<1>3. N \in Nat /\ N > 1 /\ to \in Nat \ {0} /\ to - 1 \in Nat /\ from \in Nat /\ from < to /\ from < N
  BY OpsAssumption
<1>4. B \in Nat /\ o \in Nat
  <2>1. k - 1 \in Nat
    OBVIOUS
  <2>2. B \in Nat
    BY <1>3, <2>1
  <2> QED
    BY <1>3, <2>2
<1>5. l \in Nat /\ (to - 1) % N \in 0 .. N - 1 /\ to - 1 = N * l + ((to - 1) % N)
  BY <1>3, Divided
<1>6. PICK step \in [0 .. l -> Step] : Fills(u, c, from, to, x, step)
  <2> HIDE DEF u, c, to
  <2> QED
    BY <1>1, <1>3, WriteUnfolds
<1> DEFINE a == Min({N, to})
<1>7. /\ step[0] = Filled(p, from, a, x)
      /\ \A i \in 1 .. l : step[i] = WriteNext(step[i - 1], to - i * N, x)
      /\ WriteUnits(u, c, from, to, x) = step[l]
  BY <1>2, <1>6 DEF Fills
(* Up to the last cluster all of it is written. *)
<1>8. ASSUME NEW i \in Nat, i + 1 <= l
      PROVE  /\ far(i) = N * (i + 1) - from /\ far(i) \in Nat /\ far(i) < n
             /\ to - (i + 1) * N \in Nat \ {0}
             /\ far(i + 1) = far(i) + Fit(to - (i + 1) * N)
             /\ N * (k + i) = o + far(i) /\ N * (k + i) \in Nat
  <2> DEFINE I == N * (i + 1)
             L == N * l
             e == (to - 1) % N
  <2>1. I \in Nat /\ L \in Nat /\ I <= L /\ (i + 1) * N = I /\ N * ((i + 1) + 1) = I + N /\ N <= I
    <3> DEFINE A == i * N
               J == (i + 1) * N
               M == l * N
    <3>1. CASE i + 1 < l
      <4>1. J \in Nat /\ M \in Nat /\ J + N <= M
        BY <1>3, <1>5, <3>1, Multiples
      <4>2. I = J /\ L = M
        BY <1>3, <1>5
      <4>3. J = A + N /\ A \in Nat /\ N * ((i + 1) + 1) = J + N
        BY <1>3
      <4> HIDE DEF A, J, M, I, L
      <4> QED
        BY <1>3, <4>1, <4>2, <4>3 DEF J
    <3>2. CASE i + 1 = l
      <4>1. I = J /\ L = I
        BY <1>3, <1>5, <3>2
      <4>2. J = A + N /\ A \in Nat /\ N * ((i + 1) + 1) = J + N
        BY <1>3
      <4> HIDE DEF A, J, I, L
      <4> QED
        BY <1>3, <4>1, <4>2 DEF J
    <3> QED
      BY <1>5, <1>8, <3>1, <3>2
  <2>2. N * (k + i) = B + I
    <3>1. k - 1 \in Nat /\ k + i = (k - 1) + (i + 1)
      OBVIOUS
    <3> DEFINE d == k - 1
    <3>2. N * (d + (i + 1)) = N * d + N * (i + 1)
      <4> HIDE DEF d
      <4> QED
        BY <1>3, <3>1 DEF d
    <3> QED
      BY <3>1, <3>2
  <2>3. to - 1 = L + e /\ e \in Nat
    BY <1>3, <1>5
  <2> HIDE DEF I, L, e, B
  <2>4. I < to /\ from < I
    BY <1>3, <2>1, <2>3
  <2>5. Min({I, to}) = I
    BY <1>3, <2>1, <2>4, LeastIs
  <2>6. Min({I + N, to}) = I + Min({N, to - I})
    <3>1. Min({I + N, to}) = IF I + N <= to THEN I + N ELSE to
      BY <1>3, <2>1, LeastIs
    <3>2. Min({N, to - I}) = IF N <= to - I THEN N ELSE to - I
      BY <1>3, <2>1, LeastIs
    <3> HIDE DEF to
    <3> QED
      BY <1>3, <2>1, <3>1, <3>2
  <2>7. Min({N, to - I}) \in Int
    BY <1>3, <2>1, LeastIs
  <2>8. far(i) = I - from
    BY <2>5 DEF I
  <2>9. far(i + 1) = (I + Min({N, to - I})) - from
    BY <2>1, <2>6
  <2> DEFINE r == Min({N, to - I})
  <2> HIDE DEF r, far
  <2>10. far(i) \in Nat /\ far(i) < n /\ to - I \in Nat \ {0} /\ B + I = o + far(i) /\ B + I \in Nat
    BY <1>3, <1>4, <2>1, <2>4, <2>8
  <2>11. far(i + 1) = far(i) + r
    BY <1>3, <2>1, <2>7, <2>8, <2>9 DEF r
  <2> QED
    BY <2>1, <2>2, <2>8, <2>10, <2>11 DEF r, I, Fit
<1> HIDE DEF l, a, u, c, to, o, far
<1> DEFINE T == {i \in Nat : i <= l => OnChain(u, q, k + i, step[i]) /\ Spread(u, q, step[i], o, far(i), n, x)}
<1>9. 0 \in T
  <2>1. OnChain(u, q, k, step[0]) /\ k + 0 = k
    BY <1>1, <1>7, FilledOnChain
  <2>2. a \in 0 .. N /\ far(0) = a - from /\ from \in 0 .. N
    <3>1. N * (0 + 1) = N
      BY <1>3
    <3> QED
      BY <1>3, <3>1, LeastIs DEF a, far
  <2> DEFINE r == Filled(p, from, a, x)
  <2>3. r.st = "ok" /\ Covers(p.v, q, r.v, N * (k - 1) + from, a - from, x)
    BY <2>2, FilledCovers
  <2> HIDE DEF r
  <2>4. Spread(u, q, r, o, far(0), n, x)
    BY <2>2, <2>3 DEF Spread, u, o
  <2> QED
    BY <1>7, <2>1, <2>4 DEF r
<1>10. ASSUME NEW i \in Nat, i \in T PROVE i + 1 \in T
  <2> SUFFICES ASSUME i + 1 <= l
               PROVE  OnChain(u, q, k + (i + 1), step[i + 1]) /\ Spread(u, q, step[i + 1], o, far(i + 1), n, x)
    OBVIOUS
  <2>1. /\ OnChain(u, q, k + i, step[i]) /\ Spread(u, q, step[i], o, far(i), n, x)
        /\ k + i \in Nat \ {0} /\ k + (i + 1) = (k + i) + 1
    BY <1>5, <1>10
  <2> DEFINE left == to - (i + 1) * N
             m == far(i)
             h == N * (k + i)
  <2>2. /\ m \in Nat /\ m < n /\ left \in Nat \ {0}
        /\ far(i + 1) = m + Fit(left) /\ h = o + m /\ h \in Nat
    BY <1>8
  <2>3. step[i + 1] = WriteNext(step[i], left, x)
    <3>1. i + 1 \in 1 .. l /\ (i + 1) - 1 = i
      BY <1>5
    <3> QED
      BY <1>7, <3>1
  <2> HIDE DEF left, m
  <2>4. OnChain(u, q, (k + i) + 1, WriteNext(step[i], left, x))
    BY <1>1, <2>1, <2>2, WriteNextOnChain
  <2>5. Spread(u, q, WriteNext(step[i], left, x), o, m + Fit(left), n, x)
    <3>1. CASE step[i].st = "ok"
      <4>1. Covers(u, q, step[i].v, o, m, x)
        BY <2>1, <3>1 DEF Spread, m
      <4>2. h = N * (k + i)
        OBVIOUS
      <4> DEFINE g == k + i
                 s == step[i]
      <4>3. /\ u \in Sound /\ q \in Live(u) /\ ~BlockOf(u, q).isDir /\ g \in Nat \ {0}
            /\ OnChain(u, q, g, s) /\ s.st = "ok" /\ h \in Nat /\ h = N * g
            /\ o \in Nat /\ m \in Nat /\ o + m = h /\ n \in Nat /\ m < n
            /\ x \in Value /\ Covers(u, q, s.v, o, m, x) /\ left \in Nat \ {0}
        BY <1>1, <1>4, <2>1, <2>2, <3>1, <4>1, <4>2 DEF o
      <4> HIDE DEF g, s, h
      <4> DEFINE r == Spread(u, q, WriteNext(s, left, x), o, m + Fit(left), n, x)
      <4>4. r
        BY ONLY <4>3, MoreSpread
      <4> QED
        BY <4>4 DEF s
    <3>2. CASE step[i].st # "ok"
      <4>1. WriteNext(step[i], left, x) = step[i]
        BY <3>2 DEF WriteNext
      <4> QED
        BY <2>1, <3>2, <4>1 DEF Spread
    <3> QED
      BY <3>1, <3>2
  <2> QED
    BY <2>1, <2>2, <2>3, <2>4, <2>5
<1>11. l \in T
  BY <1>5, <1>9, <1>10, CountUp
<1>12. far(l) = n
  <2> DEFINE L == N * l
             e == (to - 1) % N
  <2>1. N * (l + 1) = L + N /\ L \in Nat
    BY <1>3, <1>5
  <2>2. to - 1 = L + e /\ e \in Nat /\ e <= N - 1
    BY <1>3, <1>5
  <2> HIDE DEF L, e
  <2>3. to <= L + N /\ L + N \in Int /\ to \in Int
    BY <1>3, <2>1, <2>2
  <2>4. Min({L + N, to}) = to
    BY <2>3, LeastIs
  <2>5. far(l) = Min({N * (l + 1), to}) - from
    BY DEF far
  <2>6. far(l) = to - from
    BY <2>1, <2>4, <2>5
  <2>7. to - from = n
    BY <1>3 DEF to
  <2> QED
    BY <2>6, <2>7
<1> QED
  BY <1>5, <1>7, <1>11, <1>12 DEF u, c, to, o

(* The i-th unit of the file q. *)
UnitOf(v, q, i) == v.slot[Chain(v, First(v, q))[((i - 1) \div N) + 1]][(i - 1) % N]

(* Each unit of a file is in a block of its chain. *)
LEMMA InFile ==
  ASSUME NEW v \in Sound, NEW q \in Live(v), ~BlockOf(v, q).isDir,
         NEW i \in 1 .. BlockOf(v, q).size
  PROVE  LET k == ((i - 1) \div N) + 1
             e == (i - 1) % N
         IN  /\ k \in 1 .. Len(Chain(v, First(v, q))) /\ e \in 0 .. N - 1
             /\ i - 1 = N * (k - 1) + e
<1> DEFINE f == First(v, q)
           size == BlockOf(v, q).size
           n == Len(Chain(v, f))
           m == N * n
           g == (i - 1) \div N
           e == (i - 1) % N
<1>1. v \in Volumes /\ f \in Cluster /\ size \in Nat /\ size <= m
  BY SoundIsShaped, LiveType, ChainOfEntry, SizesAreNat DEF SizesFit
<1>2. n \in Nat /\ N \in Nat \ {0}
  BY <1>1, Chained, OpsAssumption
<1>3. i \in 1 .. size
  OBVIOUS
<1> HIDE DEF f, size, n
<1>4. m \in Nat
  BY <1>2
<1>5. i - 1 \in Nat /\ i - 1 < m
  <2> HIDE DEF m
  <2> QED
    BY <1>1, <1>3, <1>4
<1>6. g \in Nat /\ e \in 0 .. N - 1 /\ i - 1 = N * g + e
  BY <1>5, Divided
<1> HIDE DEF g, e
<1>7. g < n
  <2> SUFFICES ASSUME n <= g PROVE FALSE
    BY <1>2, <1>6
  <2>1. N * n <= N * g
    BY <1>2, <1>6
  <2> DEFINE a == N * g
  <2>2. a \in Nat /\ e \in Nat /\ i - 1 = a + e /\ m <= a
    BY <1>2, <1>6, <2>1
  <2> HIDE DEF a, m
  <2> QED
    BY <1>4, <1>5, <2>2
<1>8. g + 1 \in 1 .. n /\ (g + 1) - 1 = g
  BY <1>2, <1>6, <1>7
<1> QED
  BY <1>6, <1>8 DEF g, e, n, f

(* The file has been given a size, and keeps what it had of its data; or    *)
(* the n units after the first o are now x.                                 *)
DataKept(v, q, w, size) ==
  /\ BlockOf(w, q).size = size
  /\ \A i \in 1 .. size : i <= BlockOf(v, q).size => UnitOf(w, q, i) = UnitOf(v, q, i)

Wrote(v, q, w, o, n, x, size) ==
  /\ BlockOf(w, q).size = size
  /\ \A i \in 1 .. size :
       /\ o < i /\ i <= o + n => UnitOf(w, q, i) = Unit(x)
       /\ ~(o < i /\ i <= o + n) /\ i <= BlockOf(v, q).size => UnitOf(w, q, i) = UnitOf(v, q, i)

(* What the units of a file are, by what its clusters hold. *)
LEMMA CoveredIsWritten ==
  ASSUME NEW v \in Sound, NEW w \in Sound, NEW q \in Live(v), q \in Live(w), First(w, q) = First(v, q),
         ~BlockOf(v, q).isDir, ~BlockOf(w, q).isDir, NEW o \in Nat, NEW n \in Nat, NEW x,
         Covers(v, q, w, o, n, x)
  PROVE  Wrote(v, q, w, o, n, x, BlockOf(w, q).size)
<1> DEFINE f == First(v, q)
           s == Chain(v, f)
           t == Chain(w, f)
<1>1. f \in Cluster /\ Len(s) \in Nat /\ Len(t) \in Nat
  BY SoundIsShaped, ChainOfEntry, ChainIsSeq
<1>2. BlockOf(v, q).size \in Nat /\ BlockOf(w, q).size \in Nat
  BY SoundIsShaped, LiveType, SizesAreNat
<1> SUFFICES ASSUME NEW i \in 1 .. BlockOf(w, q).size
             PROVE  /\ o < i /\ i <= o + n => UnitOf(w, q, i) = Unit(x)
                    /\ ~(o < i /\ i <= o + n) /\ i <= BlockOf(v, q).size => UnitOf(w, q, i) = UnitOf(v, q, i)
  BY DEF Wrote
<1> DEFINE k == ((i - 1) \div N) + 1
           e == (i - 1) % N
<1>3. k \in 1 .. Len(t) /\ e \in 0 .. N - 1 /\ i - 1 = N * (k - 1) + e
  BY InFile
<1>4. i <= BlockOf(v, q).size => k \in 1 .. Len(s)
  <2>1. i <= BlockOf(v, q).size => i \in 1 .. BlockOf(v, q).size
    BY <1>2
  <2> QED
    BY <2>1, InFile
<1>5. UnitOf(w, q, i) = w.slot[t[k]][e] /\ UnitOf(v, q, i) = v.slot[s[k]][e]
  BY DEF UnitOf
<1> HIDE DEF k, e, s, t
<1>6. Nth(k, e) = i - 1
  BY <1>3 DEF Nth
<1>7. Hit(k, e, o, n) <=> o < i /\ i <= o + n
  <2>1. i \in Nat
    BY <1>2
  <2> QED
    BY <1>6, <2>1 DEF Hit
<1>8. /\ Hit(k, e, o, n) => w.slot[t[k]][e] = Unit(x)
      /\ ~Hit(k, e, o, n) /\ k <= Len(s) => w.slot[t[k]][e] = v.slot[s[k]][e]
  BY <1>3 DEF Covers, s, t, f
<1> QED
  BY <1>1, <1>4, <1>5, <1>7, <1>8

LEMMA KeptIsWritten ==
  ASSUME NEW v, NEW q, NEW w, NEW o \in Nat, NEW x, NEW size \in Nat
  PROVE  DataKept(v, q, w, size) <=> Wrote(v, q, w, o, 0, x, size)
<1>1. \A i \in 1 .. size : ~(o < i /\ i <= o + 0)
  OBVIOUS
<1> QED
  BY <1>1 DEF DataKept, Wrote

LEMMA WrittenAfter ==
  ASSUME NEW u, NEW q, NEW v, NEW w, NEW o, NEW n, NEW x, NEW size \in Nat, NEW k \in Nat,
         BlockOf(u, q).size \in Nat, BlockOf(u, q).size <= k,
         DataKept(u, q, v, k), Wrote(v, q, w, o, n, x, size)
  PROVE  Wrote(u, q, w, o, n, x, size)
<1>1. BlockOf(v, q).size = k
  BY DEF DataKept
<1> SUFFICES ASSUME NEW i \in 1 .. size
             PROVE  /\ o < i /\ i <= o + n => UnitOf(w, q, i) = Unit(x)
                    /\ ~(o < i /\ i <= o + n) /\ i <= BlockOf(u, q).size => UnitOf(w, q, i) = UnitOf(u, q, i)
  BY DEF Wrote
<1>2. /\ o < i /\ i <= o + n => UnitOf(w, q, i) = Unit(x)
      /\ ~(o < i /\ i <= o + n) /\ i <= k => UnitOf(w, q, i) = UnitOf(v, q, i)
  BY <1>1 DEF Wrote
<1>3. i <= BlockOf(u, q).size => i <= k /\ UnitOf(v, q, i) = UnitOf(u, q, i)
  <2>1. i <= BlockOf(u, q).size => i \in 1 .. k
    OBVIOUS
  <2> QED
    BY <2>1 DEF DataKept
<1> QED
  BY <1>2, <1>3

(* A new size in its directory entry leaves the data of a file. *)
LEMMA CoveredStill ==
  ASSUME NEW v, NEW q, NEW u \in Volumes, NEW w \in Volumes, First(v, q) \in Cluster, w.fat = u.fat,
         \A d \in ChainSet(u, First(v, q)) : w.slot[d] = u.slot[d],
         NEW o, NEW n, NEW x, Covers(v, q, u, o, n, x)
  PROVE  Covers(v, q, w, o, n, x)
<1> DEFINE f == First(v, q)
<1>1. Chain(w, f) = Chain(u, f)
  BY ChainsStay
<1>2. \A k \in 1 .. Len(Chain(u, f)) : w.slot[Chain(u, f)[k]] = u.slot[Chain(u, f)[k]]
  BY LastOfChain
<1> QED
  BY <1>1, <1>2 DEF Covers

LEMMA StillIsKept ==
  ASSUME NEW v \in Sound, NEW w \in Sound, NEW q \in Live(v), q \in Live(w), First(w, q) = First(v, q),
         ~BlockOf(v, q).isDir, ~BlockOf(w, q).isDir, HoldsStill(v, q, w),
         \A k \in 1 .. Len(Chain(w, First(v, q))) :
           k <= Len(Chain(v, First(v, q))) => Chain(w, First(v, q))[k] = Chain(v, First(v, q))[k]
  PROVE  DataKept(v, q, w, BlockOf(w, q).size)
<1> DEFINE o == 0
<1>1. v \in Volumes /\ w \in Volumes /\ First(v, q) \in Cluster /\ o \in Nat
  BY SoundIsShaped, ChainOfEntry
<1>2. BlockOf(w, q).size \in Nat
  BY SoundIsShaped, LiveType, SizesAreNat
<1> HIDE DEF o
<1>3. Covers(v, q, w, o, 0, Stale)
  BY <1>1, StillIsCovered
<1>4. Wrote(v, q, w, o, 0, Stale, BlockOf(w, q).size)
  BY <1>1, <1>3, CoveredIsWritten
<1> QED
  BY <1>1, <1>2, <1>4, KeptIsWritten

(* Along the chain that a file now has, it holds what it held. *)
LEMMA AlongIsKept ==
  ASSUME NEW v \in Sound, NEW q \in Live(v), ~BlockOf(v, q).isDir, NEW w \in Sound,
         Along(v, q, w), HoldsStill(v, q, w)
  PROVE  /\ DataKept(v, q, w, BlockOf(v, q).size)
         /\ \A o \in Nat : \A x : Covers(v, q, w, o, 0, x)
<1> DEFINE s == Chain(v, First(v, q))
           t == Chain(w, First(v, q))
<1>1. /\ q \in Live(w) /\ First(w, q) = First(v, q) /\ BlockOf(w, q) = BlockOf(v, q)
      /\ v \in Volumes /\ w \in Volumes /\ First(v, q) \in Cluster
  BY SoundIsShaped, ChainOfEntry DEF Along, SameEntries, First
<1>2. \A k \in 1 .. Len(t) : k <= Len(s) => t[k] = s[k]
  <2>1. Len(s) \in Nat /\ Len(t) \in Nat /\ \A k \in 1 .. Len(s) : t[k] = s[k]
    BY <1>1, ChainIsSeq DEF Along, Longer
  <2> QED
    BY <2>1
<1> QED
  BY <1>1, <1>2, StillIsKept, StillIsCovered

(* The data goes on from the chain that was found for the offset. *)
LEMMA SpreadFrom ==
  ASSUME NEW v \in Sound, NEW q \in Live(v), ~BlockOf(v, q).isDir, NEW u \in Sound,
         Along(v, q, u), HoldsStill(v, q, u), NEW g, g.v \in Volumes,
         NEW o \in Nat, NEW n \in Nat, NEW x, Spread(u, q, g, o, n, n, x)
  PROVE  Spread(v, q, g, o, n, n, x)
<1> DEFINE f == First(v, q)
<1>1. /\ First(u, q) = f /\ f \in Cluster /\ v \in Volumes /\ u \in Volumes
      /\ Longer(Chain(v, f), Chain(u, f))
  BY SoundIsShaped, ChainOfEntry DEF Along, SameEntries, First
<1>2. Len(Chain(v, f)) \in Nat /\ Len(Chain(u, f)) \in Nat /\ Len(Chain(g.v, f)) \in Nat
  BY <1>1, ChainIsSeq
<1>3. Len(Chain(v, f)) <= Len(Chain(u, f))
  BY <1>1 DEF Longer
<1>4. Covers(v, q, u, o, 0, x)
  BY AlongIsKept
<1>5. ASSUME NEW j \in 1 .. Len(Chain(g.v, f)), NEW e \in 0 .. N - 1 PROVE ~Hit(j, e, o, 0)
  <2>1. j \in Nat \ {0}
    BY <1>2
  <2>2. Nth(j, e) \in Nat
    BY <2>1, NthIsNat
  <2> QED
    BY <2>2 DEF Hit
<1> HIDE DEF f
<1>6. ASSUME NEW m \in Nat, Covers(u, q, g.v, o, m, x) PROVE Covers(v, q, g.v, o, m, x)
  <2> DEFINE d == 0
  <2>1. d \in Nat /\ o + d = o /\ d + m = m
    OBVIOUS
  <2>2. Covers(v, q, u, o, d, x) /\ Covers(u, q, g.v, o + d, m, x)
    BY <1>4, <1>6
  <2>3. ASSUME NEW j \in 1 .. Len(Chain(g.v, f)), NEW e \in 0 .. N - 1 PROVE ~Hit(j, e, o, d)
    BY <1>5
  <2> HIDE DEF d
  <2>4. Covers(v, q, g.v, o, d + m, x)
    BY <1>1, <1>2, <1>3, <2>1, <2>2, <2>3, CoversMore DEF f
  <2> QED
    BY <2>1, <2>4
<1>7. CASE g.st = "ok"
  BY <1>6, <1>7 DEF Spread
<1>8. CASE g.st # "ok"
  <2>1. PICK j \in 0 .. n - 1 : Covers(u, q, g.v, o, j, x)
    BY <1>8 DEF Spread
  <2>2. Covers(v, q, g.v, o, j, x)
    BY <1>6, <2>1
  <2> QED
    BY <1>8, <2>2 DEF Spread
<1> QED
  BY <1>7, <1>8

(* What a write to a file that reaches its offset comes to: all of it, or   *)
(* less, and then the size is as it was.                                    *)
WrittenTo(v, q, r, o, n, x) ==
  LET size == BlockOf(v, q).size
  IN  /\ r.st = "ok" => Wrote(v, q, r.v, o, n, x, IF o + n > size THEN o + n ELSE size)
      /\ r.st # "ok" => \E j \in 0 .. n - 1 : Wrote(v, q, r.v, o, j, x, size)

-----------------------------------------------------------------------------
(* An entry is written over. *)

Overwritten(v, q, b, w) ==
  \A p \in Places : BlockOf(w, p) = IF p = q THEN b ELSE BlockOf(v, p)

LEMMA EntryPut ==
  ASSUME NEW v \in Volumes, NEW q \in Places, NEW b \in Block
  PROVE  LET w == Put(v, q, b)
         IN  /\ w \in Volumes /\ w.fat = v.fat
             /\ \A c \in Cluster : c # q.cluster => w.slot[c] = v.slot[c]
             /\ w.slot[q.cluster] = [v.slot[q.cluster] EXCEPT ![q.entry] = b]
             /\ Overwritten(v, q, b, w)
<1> DEFINE w == Put(v, q, b)
<1>1. /\ q.cluster \in Cluster /\ q.entry \in 0 .. N - 1
      /\ q \in [cluster : Cluster, entry : 0 .. N] /\ q = Place(q.cluster, q.entry)
  BY OpsAssumption DEF Places, Place
<1>2. q.entry \in 0 .. N /\ q.entry < N
  BY <1>1, OpsAssumption
<1>3. q.entry \div N = 0 /\ q.entry % N = q.entry
  BY <1>2, EntryInCluster
<1>4. q.cluster + 0 = q.cluster
  BY <1>1, OpsAssumption DEF Cluster
<1>5. /\ w \in Volumes /\ w.fat = v.fat
      /\ w.slot = [v.slot EXCEPT ![q.cluster + (q.entry \div N)] = [@ EXCEPT ![q.entry % N] = b]]
  BY <1>1, BlockPut
<1> HIDE DEF w
<1>6. w.slot = [v.slot EXCEPT ![q.cluster] = [@ EXCEPT ![q.entry] = b]]
  BY <1>3, <1>4, <1>5
<1>7. v.slot \in Slots /\ Cluster \subseteq 1 .. D + 1
  BY Entries DEF Volumes, VolumeType
<1>8. /\ \A c \in Cluster : c # q.cluster => w.slot[c] = v.slot[c]
      /\ w.slot[q.cluster] = [v.slot[q.cluster] EXCEPT ![q.entry] = b]
  BY <1>1, <1>6, <1>7 DEF Slots
<1>9. ASSUME NEW p \in Places PROVE BlockOf(w, p) = IF p = q THEN b ELSE BlockOf(v, p)
  <2>1. p.cluster \in Cluster /\ p.entry \in 0 .. N - 1 /\ p = Place(p.cluster, p.entry)
    BY DEF Places, Place
  <2>2. v.slot[q.cluster] \in [0 .. N - 1 -> Block]
    BY <1>1, <1>7 DEF Slots
  <2>3. CASE p.cluster = q.cluster
    <3>1. p = q <=> p.entry = q.entry
      BY <1>1, <2>1, <2>3
    <3>2. w.slot[p.cluster][p.entry] = IF p.entry = q.entry THEN b ELSE v.slot[p.cluster][p.entry]
      BY <1>1, <1>8, <2>1, <2>2, <2>3
    <3> QED
      BY <3>1, <3>2 DEF BlockOf
  <2>4. CASE p.cluster # q.cluster
    BY <1>8, <2>1, <2>4 DEF BlockOf
  <2> QED
    BY <2>3, <2>4
<1> QED
  BY <1>5, <1>8, <1>9 DEF w, Overwritten

(* The directories list the same names, in the same places. *)
SameNames(v, w) ==
  /\ Live(w) = Live(v)
  /\ \A q \in Live(v) : /\ First(w, q) = First(v, q)
                        /\ BlockOf(w, q).isDir = BlockOf(v, q).isDir
                        /\ BlockOf(w, q).name = BlockOf(v, q).name

(* What a call on the file q leaves: of the entries, its size may be        *)
(* another; of the clusters, those of other files are as they were.         *)
FileCalled(v, q, w) ==
  /\ SameNames(v, w)
  /\ \A p \in Live(v) : p # q => BlockOf(w, p) = BlockOf(v, p)
  /\ Mine(w, q) = Mine(v, q)
  /\ \A c \in Cluster \ Mine(v, q) :
       w.fat[c] = v.fat[c] /\ (c \notin DirClusters(v) => w.slot[c] = v.slot[c])

LEMMA AlongIsACall ==
  ASSUME NEW v, NEW q, NEW w, Along(v, q, w)
  PROVE  FileCalled(v, q, w)
<1>1. SameEntries(v, w) /\ OthersKept(v, q, w)
  BY DEF Along
<1>2. SameNames(v, w) /\ \A p \in Live(v) : BlockOf(w, p) = BlockOf(v, p)
  BY <1>1 DEF SameEntries, SameNames, First
<1> QED
  BY <1>1, <1>2 DEF FileCalled, OthersKept

LEMMA CallsOnAFile ==
  ASSUME NEW u, NEW v, NEW w, NEW q, FileCalled(u, q, v), FileCalled(v, q, w)
  PROVE  FileCalled(u, q, w)
<1>1. SameNames(u, v) /\ SameNames(v, w)
  BY DEF FileCalled
<1>2. SameNames(u, w)
  BY <1>1 DEF SameNames
<1>3. DirClusters(v) = DirClusters(u)
  BY <1>1 DEF DirClusters, SameNames
<1>4. Live(v) = Live(u)
  BY <1>1 DEF SameNames
<1>5. /\ \A p \in Live(u) : p # q => BlockOf(v, p) = BlockOf(u, p)
      /\ \A p \in Live(u) : p # q => BlockOf(w, p) = BlockOf(v, p)
      /\ Mine(v, q) = Mine(u, q) /\ Mine(w, q) = Mine(v, q)
      /\ \A c \in Cluster \ Mine(u, q) :
           v.fat[c] = u.fat[c] /\ (c \notin DirClusters(u) => v.slot[c] = u.slot[c])
      /\ \A c \in Cluster \ Mine(u, q) :
           w.fat[c] = v.fat[c] /\ (c \notin DirClusters(u) => w.slot[c] = v.slot[c])
  BY <1>3, <1>4 DEF FileCalled
<1> QED
  BY <1>2, <1>5 DEF FileCalled

LEMMA IsAtKept ==
  ASSUME NEW v, NEW w, SameEntries(v, w) \/ SameNames(v, w), NEW path, NEW q, IsAt(v, path, q)
  PROVE  IsAt(w, path, q)
<1>1. /\ Live(w) = Live(v)
      /\ \A p \in Live(v) : /\ First(w, p) = First(v, p)
                            /\ BlockOf(w, p).isDir = BlockOf(v, p).isDir
                            /\ BlockOf(w, p).name = BlockOf(v, p).name
  BY DEF SameEntries, SameNames, First
<1>2. \A name : DirNamed(w, name) = DirNamed(v, name)
  BY <1>1 DEF DirNamed
<1>3. \A name : \A d \in DirNamed(v, name) : First(w, d) = First(v, d)
  BY <1>1 DEF DirNamed
<1> QED
  BY <1>1, <1>2, <1>3 DEF IsAt

(* What fatx_set_attr does to the entry of a path. *)
LEMMA AttrPut ==
  ASSUME NEW v \in Shaped, NEW path, NEW q, IsAt(v, path, q), NEW attr
  PROVE  /\ SetAttr(v, path, attr) = [st |-> "ok", v |-> Put(v, q, attr)]
         /\ GetAttr(v, path) = [st |-> "ok", attr |-> BlockOf(v, q)]
<1>1. Locate(v, path).st = "ok" /\ Locate(v, path).at = q
  BY LocatedThere
<1>2. q \in Live(v) /\ v \in Volumes
  BY DEF IsAt, Shaped
<1>3. BlockOf(v, q) = At(v, q)
  BY <1>2, LiveType
<1> QED
  BY <1>1, <1>3 DEF SetAttr, GetAttr

(* A file is given a size that its chain has room for. *)
LEMMA FileSized ==
  ASSUME NEW v \in Shaped, NEW path, NEW q, IsAt(v, path, q), ~BlockOf(v, q).isDir,
         NEW n \in FileSize, n <= N * Len(Chain(v, First(v, q))),
         \A p \in Live(v) : p # q /\ ~BlockOf(v, p).isDir =>
                              BlockOf(v, p).size <= N * Len(Chain(v, First(v, p)))
  PROVE  LET r == SetAttr(v, path, [BlockOf(v, q) EXCEPT !.size = n])
         IN  /\ r.st = "ok" /\ r.v \in Sound /\ r.v.fat = v.fat /\ FileCalled(v, q, r.v)
             /\ BlockOf(r.v, q).size = n
             /\ \A c \in Cluster \ DirClusters(v) : r.v.slot[c] = v.slot[c]
<1> DEFINE b == [BlockOf(v, q) EXCEPT !.size = n]
           w == Put(v, q, b)
           s == [p \in Live(v) |-> p]
<1>1. v \in Volumes /\ Heads(v) /\ Nesting(v) /\ Dirs(v)
  BY DEF Shaped
<1>2. /\ q \in Live(v) /\ q \in Places
      /\ BlockOf(v, q) \in Block /\ BlockOf(v, q).kind = "live"
      /\ BlockOf(v, q) = Dirent(BlockOf(v, q).name, BlockOf(v, q).isDir, First(v, q), BlockOf(v, q).size)
  BY <1>1, LiveType DEF IsAt
<1>3. b \in Block
  BY <1>2, Changed
<1>4. /\ b.kind = "live" /\ b.name = BlockOf(v, q).name /\ b.isDir = BlockOf(v, q).isDir
      /\ b.first = First(v, q) /\ b.size = n
  <2> DEFINE a == BlockOf(v, q)
  <2>1. a = Dirent(a.name, a.isDir, a.first, a.size)
    BY <1>2 DEF First
  <2>2. b = [a EXCEPT !.size = n] /\ First(v, q) = a.first
    BY DEF First
  <2> HIDE DEF a, b
  <2>3. a.kind = "live"
    BY <1>2 DEF a
  <2> QED
    BY <2>1, <2>2, <2>3 DEF Dirent, a
<1> HIDE DEF b
<1>5. /\ w \in Volumes /\ w.fat = v.fat
      /\ \A c \in Cluster : c # q.cluster => w.slot[c] = v.slot[c]
      /\ \A p \in Places : BlockOf(w, p) = IF p = q THEN b ELSE BlockOf(v, p)
  <2>1. /\ w \in Volumes /\ w.fat = v.fat
        /\ \A c \in Cluster : c # q.cluster => w.slot[c] = v.slot[c]
        /\ Overwritten(v, q, b, w)
    BY <1>1, <1>2, <1>3, EntryPut
  <2> QED
    BY <2>1 DEF Overwritten
<1> HIDE DEF w
<1>6. \A p \in Live(v) : p \in Places
  BY DEF Live
<1>7. \A p \in Live(v) :
        /\ First(w, p) = First(v, p)
        /\ BlockOf(w, p).isDir = BlockOf(v, p).isDir /\ BlockOf(w, p).name = BlockOf(v, p).name
        /\ BlockOf(w, p).size = IF p = q THEN n ELSE BlockOf(v, p).size
  BY <1>4, <1>5, <1>6 DEF First
<1>8. w \in Shaped /\ Live(w) = Live(v)
  <2>1. ASSUME NEW c \in Cluster, NEW e \in 0 .. N - 1
        PROVE  \/ w.slot[c][e] = v.slot[c][e]
               \/ Place(c, e) \in Live(v) /\ w.slot[c][e].kind = "live"
    <3>1. Place(c, e) \in Places /\ Place(c, e).cluster = c /\ Place(c, e).entry = e
      BY DEF Place, Places
    <3>2. w.slot[c][e] = IF Place(c, e) = q THEN b ELSE v.slot[c][e]
      BY <1>5, <3>1 DEF BlockOf
    <3> QED
      BY <1>2, <1>4, <3>2
  <2>2. s \in [Live(v) -> Live(v)] /\ \A p \in Live(v) : s[p] = p
    OBVIOUS
  <2> HIDE DEF s
  <2>3. /\ \A p, r \in Live(v) : s[p] = s[r] => p = r
        /\ \A r \in Live(v) : \E p \in Live(v) : s[p] = r
    BY <2>2
  <2>4. \A p \in Live(v) : First(w, p) = First(v, s[p]) /\ BlockOf(w, p).isDir = BlockOf(v, s[p]).isDir
    BY <1>7, <2>2
  <2>5. \A p \in Live(v) : BlockOf(w, p).isDir => p.cluster = Root
    BY <1>1, <1>7 DEF Nesting
  <2>6. \A p, r \in Live(v) : p.cluster = r.cluster /\ BlockOf(w, p).name = BlockOf(w, r).name => p = r
    BY <1>1, <1>7 DEF Dirs
  <2> QED
    BY <1>5, <2>1, <2>2, <2>3, <2>4, <2>5, <2>6, EntriesChanged
<1>9. \A p \in Live(v) : Chain(w, First(w, p)) = Chain(v, First(v, p))
  BY <1>1, <1>5, <1>7, LiveType, ChainsStay
<1>10. SizesFit(w)
  <2> SUFFICES ASSUME NEW p \in Live(v), ~BlockOf(w, p).isDir
               PROVE  BlockOf(w, p).size <= N * Len(Chain(w, First(w, p)))
    BY <1>8 DEF SizesFit
  <2>1. CASE p = q
    BY <1>7, <1>9, <2>1
  <2>2. CASE p # q
    BY <1>7, <1>9, <2>2
  <2> QED
    BY <2>1, <2>2
<1>11. SetAttr(v, path, b) = [st |-> "ok", v |-> w]
  BY AttrPut DEF w
<1>12. SameNames(v, w)
  BY <1>7, <1>8 DEF SameNames
<1>13. FileCalled(v, q, w)
  <2>1. Mine(w, q) = Mine(v, q)
    <3>1. First(w, q) \in Cluster /\ First(w, q) = First(v, q) /\ Chain(w, First(w, q)) = Chain(v, First(v, q))
      BY <1>1, <1>2, <1>7, <1>9, LiveType
    <3> QED
      BY <1>5, <3>1 DEF Mine, FreeClusters, ChainSet
  <2>2. q.cluster \in DirClusters(v)
    BY <1>1, <1>2 DEF Nesting
  <2> QED
    BY <1>5, <1>6, <1>12, <2>1, <2>2 DEF FileCalled
<1>14. BlockOf(w, q).size = n /\ \A c \in Cluster \ DirClusters(v) : w.slot[c] = v.slot[c]
  <2>1. q.cluster \in DirClusters(v)
    BY <1>1, <1>2 DEF Nesting
  <2> QED
    BY <1>2, <1>5, <1>7, <2>1
<1> QED
  BY <1>5, <1>8, <1>10, <1>11, <1>13, <1>14 DEF b, Sound

LEMMA TruncateIsSound ==
  ASSUME NEW v \in Sound, NEW path, NEW q, IsAt(v, path, q), ~BlockOf(v, q).isDir,
         NEW n \in FileSize
  PROVE  LET r == Truncate(v, path, n)
         IN  /\ r.v \in Sound /\ FileCalled(v, q, r.v)
             /\ r.st = "ok" => DataKept(v, q, r.v, n)
             /\ r.st # "ok" => Full(r.v) /\ DataKept(v, q, r.v, BlockOf(v, q).size)
<1> DEFINE f == First(v, q)
           k == IF n = 0 THEN 0 ELSE (n - 1) \div N
           p == Follow(v, f, k, FALSE)
           b == [BlockOf(v, q) EXCEPT !.size = n]
           w == CutChain(p)
           r == Truncate(v, path, n)
<1>1. v \in Shaped /\ v \in Volumes /\ q \in Live(v) /\ f \in Cluster
  BY SoundIsShaped, ChainOfEntry DEF IsAt
<1>2. n \in Nat
  BY SizesAreNat
<1>3. k \in Nat /\ n <= N * (k + 1)
  <2>1. CASE n = 0
    BY <2>1, OpsAssumption
  <2>2. CASE n # 0
    <3> DEFINE a == n - 1
               d == a \div N
               m == N * d
               o == (a % N)
    <3>1. a \in Nat /\ k = d
      BY <1>2, <2>2
    <3> HIDE DEF a
    <3>2. d \in Nat /\ o \in 0 .. N - 1 /\ a = m + o
      BY <3>1, Divided
    <3> HIDE DEF d, o
    <3>3. N * (d + 1) = m + N /\ m \in Nat /\ N \in Nat
      BY <3>2, OpsAssumption
    <3> HIDE DEF m, k
    <3>4. n = a + 1
      BY <1>2 DEF a
    <3> QED
      BY <3>1, <3>2, <3>3, <3>4, <1>2
  <2> QED
    BY <2>1, <2>2
<1>4. GetAttr(v, path) = [st |-> "ok", attr |-> BlockOf(v, q)]
  BY <1>1, AttrPut
<1>5. r = Resize(p, path, BlockOf(v, q), n)
  BY <1>4 DEF Truncate, First
<1> HIDE DEF k, r
<1>6. OnChain(v, q, k + 1, p)
  BY <1>1, <1>3, FollowOnChain
<1>9. HoldsStill(v, q, p.v)
  BY <1>1, <1>3, FollowHoldsStill
<1> HIDE DEF p, f
<1>7. CASE p.st # "ok"
  <2>1. r = [st |-> p.st, v |-> p.v]
    BY <1>5, <1>7 DEF Resize
  <2>2. DataKept(v, q, p.v, BlockOf(v, q).size)
    BY <1>1, <1>6, <1>9, AlongIsKept DEF OnChain
  <2> QED
    BY <1>6, <1>7, <2>1, <2>2, AlongIsACall DEF OnChain, r
<1>8. CASE p.st = "ok"
  <2> DEFINE u == p.v
  <2>1. /\ u \in Sound /\ u \in Shaped /\ q \in Live(u) /\ ~BlockOf(u, q).isDir /\ First(u, q) = f
        /\ Along(v, q, u) /\ SameEntries(v, u) /\ SizesFit(u) /\ p \in Step
        /\ k + 1 \in 1 .. Len(Chain(u, f)) /\ p.cluster = Chain(u, f)[k + 1]
    BY <1>1, <1>3, <1>6, <1>8, OnFile, SoundIsShaped DEF OnChain, Along, f
  <2>2. /\ w \in Shaped /\ SameEntries(u, w)
        /\ OthersKept(u, q, w) /\ w.slot = u.slot
        /\ Len(Chain(w, f)) = k + 1
        /\ \A i \in 1 .. k + 1 : Chain(w, f)[i] = Chain(u, f)[i]
        /\ \A i \in Live(u) : i # q => Chain(w, First(u, i)) = Chain(u, First(u, i))
    BY <1>8, <2>1, ChainCutShort
  <2>3. SameEntries(v, w)
    BY <2>1, <2>2, SameAgain
  <2> HIDE DEF w
  <2>4. IsAt(w, path, q)
    BY <2>3, IsAtKept
  <2>5. BlockOf(w, q) = BlockOf(v, q) /\ First(w, q) = f
    BY <1>1, <2>3 DEF SameEntries, First, f
  <2>6. n <= N * Len(Chain(w, First(w, q)))
    BY <1>3, <2>2, <2>5
  <2>7. ASSUME NEW i \in Live(w), i # q, ~BlockOf(w, i).isDir
        PROVE  BlockOf(w, i).size <= N * Len(Chain(w, First(w, i)))
    <3>1. i \in Live(u) /\ BlockOf(w, i) = BlockOf(u, i) /\ First(w, i) = First(u, i)
      BY <2>2 DEF SameEntries, First
    <3>2. Chain(w, First(w, i)) = Chain(u, First(u, i))
      BY <2>2, <2>7, <3>1
    <3>3. BlockOf(u, i).size <= N * Len(Chain(u, First(u, i)))
      BY <2>1, <2>7, <3>1 DEF SizesFit
    <3> QED
      BY <3>1, <3>2, <3>3
  <2> DEFINE z == SetAttr(w, path, [BlockOf(w, q) EXCEPT !.size = n])
  <2>8. /\ z.st = "ok" /\ z.v \in Sound /\ z.v.fat = w.fat /\ FileCalled(w, q, z.v)
        /\ BlockOf(z.v, q).size = n
        /\ \A c \in Cluster \ DirClusters(w) : z.v.slot[c] = w.slot[c]
    BY <2>2, <2>4, <2>5, <2>6, <2>7, FileSized
  <2>9. r = z
    BY <1>5, <1>8, <2>5 DEF Resize, w
  <2> HIDE DEF z
  <2>10. FileCalled(u, q, w)
    <3>1. SameNames(u, w) /\ \A i \in Live(u) : BlockOf(w, i) = BlockOf(u, i)
      BY <2>2 DEF SameEntries, SameNames, First
    <3> QED
      BY <2>2, <3>1 DEF FileCalled, OthersKept
  <2>11. FileCalled(v, q, z.v)
    <3>1. FileCalled(v, q, u)
      BY <2>1, AlongIsACall
    <3> QED
      BY <2>8, <2>10, <3>1, CallsOnAFile
  <2>12. DataKept(v, q, z.v, n)
    <3>1. /\ q \in Live(z.v) /\ First(z.v, q) = f /\ ~BlockOf(z.v, q).isDir
      BY <1>1, <2>11 DEF FileCalled, SameNames, f
    <3>2. HoldsStill(v, q, z.v)
      <4> SUFFICES ASSUME NEW d \in ChainSet(v, f) PROVE z.v.slot[d] = v.slot[d]
        BY DEF HoldsStill, f
      <4>1. d \in Cluster \ DirClusters(v)
        BY <1>1, ChainOfFile DEF f
      <4>2. DirClusters(w) = DirClusters(v)
        BY <2>3 DEF SameEntries, DirClusters, First
      <4> QED
        BY <1>9, <2>2, <2>8, <4>1, <4>2 DEF HoldsStill, f
    <3> DEFINE R == Chain(v, f)
               S == Chain(u, f)
               X == Chain(w, f)
    <3>3. Chain(z.v, f) = X
      BY <1>1, <2>2, <2>8, SoundIsShaped, ChainsStay DEF Shaped
    <3>4. \A i \in 1 .. Len(X) : i <= Len(R) => X[i] = R[i]
      <4>1. Len(R) \in Nat /\ \A i \in 1 .. Len(R) : S[i] = R[i]
        BY <1>1, <2>1, ChainIsSeq DEF Along, Longer, f
      <4>2. Len(X) = k + 1 /\ \A i \in 1 .. k + 1 : X[i] = S[i]
        BY <2>2
      <4> HIDE DEF R, S, X
      <4> QED
        BY <1>3, <4>1, <4>2
    <3>5. DataKept(v, q, z.v, BlockOf(z.v, q).size)
      <4> HIDE DEF X, R
      <4> QED
        BY <1>1, <2>8, <3>1, <3>2, <3>3, <3>4, StillIsKept DEF f, X, R
    <3> QED
      BY <2>8, <3>5
  <2> QED
    BY <2>8, <2>9, <2>11, <2>12 DEF r
<1> QED
  BY <1>7, <1>8

LEMMA WrittenIsSound ==
  ASSUME NEW t, t.v \in Sound, NEW path, NEW q,
         t.st = "ok" => IsAt(t.v, path, q) /\ ~BlockOf(t.v, q).isDir,
         t.st # "ok" => FileCalled(t.v, q, t.v) /\ Full(t.v),
         NEW y \in Writes, NEW x \in Value
  PROVE  LET r == Written(t, path, y[1], y[2], x)
         IN  /\ r.v \in Sound /\ FileCalled(t.v, q, r.v) /\ (r.st # "ok" => Full(r.v))
             /\ t.st = "ok" => WrittenTo(t.v, q, r, y[1], y[2], x)
<1> DEFINE v == t.v
           b == BlockOf(v, q)
           f == First(v, q)
           o == y[1]
           n == y[2]
           k == o \div N
           to == (o % N) + n
           j == (to - 1) \div N
           p == Follow(v, f, k, TRUE)
           g == WriteUnits(p.v, p.cluster, o % N, to, x)
           r == Written(t, path, o, n, x)
<1>1. CASE t.st # "ok"
  BY <1>1 DEF Written, WriteInto
<1>2. CASE t.st = "ok"
  <2>1. v \in Sound /\ v \in Shaped /\ v \in Volumes /\ q \in Live(v) /\ f \in Cluster /\ ~b.isDir
        /\ IsAt(v, path, q)
    BY <1>2, SoundIsShaped, ChainOfEntry DEF IsAt
  <2>2. o \in Nat /\ n \in Nat \ {0} /\ o + n \in FileSize
    BY VolumeAssumption DEF FileSize
  <2>3. k \in Nat /\ (o % N) \in 0 .. N - 1 /\ o = N * k + (o % N)
    BY <2>2, Divided
  <2>4. to \in Nat \ {0} /\ to - 1 \in Nat
    BY <2>2, <2>3
  <2>5. j \in Nat /\ ((to - 1) % N) \in 0 .. N - 1 /\ to - 1 = N * j + ((to - 1) % N)
    BY <2>4, Divided
  <2>6. o + n <= N * ((k + 1) + j)
    <3> DEFINE e == o % N
               h == (to - 1) % N
               K == N * k
               J == N * j
    <3>1. N * ((k + 1) + j) = K + N + J /\ K \in Nat /\ J \in Nat /\ N \in Nat
      <4>1. k \in Nat /\ j \in Nat /\ N \in Nat
        BY <2>3, <2>5, OpsAssumption
      <4> HIDE DEF k, j
      <4> QED
        BY <4>1
    <3>2. o = K + e /\ to = e + n /\ to - 1 = J + h /\ h <= N - 1 /\ e \in Nat /\ h \in Nat
      BY <2>3, <2>5
    <3> HIDE DEF e, h, K, J, to, k, j
    <3>3. o + n <= K + N + J
      BY <2>2, <2>4, <3>1, <3>2
    <3> QED
      BY <3>1, <3>3
  <2>7. GetAttr(v, path) = [st |-> "ok", attr |-> b]
    BY <2>1, AttrPut
  <2>8. r = WriteAt(p, path, b, o, n, x)
    BY <1>2, <2>7 DEF Written, WriteInto, First
  <2>12. b.size \in Nat
    BY <2>1, LiveType, SizesAreNat
  <2> HIDE DEF k, j, to, r, o, n
  <2>9. OnChain(v, q, k + 1, p)
    BY <2>1, <2>3, FollowOnChain
  <2>13. HoldsStill(v, q, p.v)
    BY <2>1, <2>3, FollowHoldsStill
  <2> HIDE DEF p
  <2>10. CASE p.st # "ok"
    <3>1. r = [st |-> "nothing_written", v |-> p.v]
      BY <2>8, <2>10 DEF WriteAt
    <3>2. DataKept(v, q, p.v, b.size)
      BY <2>1, <2>9, <2>13, AlongIsKept DEF OnChain
    <3>3. Wrote(v, q, p.v, o, 0, x, b.size)
      BY <2>2, <2>12, <3>2, KeptIsWritten
    <3>4. 0 \in 0 .. n - 1
      BY <2>2
    <3>5. WrittenTo(v, q, r, o, n, x)
      BY <3>1, <3>3, <3>4 DEF WrittenTo
    <3> QED
      BY <2>9, <2>10, <3>1, <3>5, AlongIsACall DEF OnChain, r, o, n
  <2>11. CASE p.st = "ok"
    <3>1. r = GrowSize(g, path, b, o + n)
      BY <2>8, <2>11 DEF WriteAt, to
    <3>2. OnChain(v, q, (k + 1) + j, g)
      <4>1. k + 1 \in Nat
        BY <2>3
      <4> QED
        BY <2>1, <2>4, <2>9, <2>11, <4>1, UnitsOnChain DEF j
    <3> DEFINE e == o % N
    <3>6. Spread(p.v, q, g, o, n, n, x)
      <4> DEFINE h == k + 1
      <4>1. h \in Nat \ {0} /\ e \in 0 .. N - 1 /\ N * (h - 1) + e = o /\ OnChain(v, q, h, p)
        <5>1. h - 1 = k
          BY <2>3
        <5> QED
          BY <2>3, <2>9, <5>1
      <4> HIDE DEF h, e
      <4>2. Spread(p.v, q, WriteUnits(p.v, p.cluster, e, e + n, x), N * (h - 1) + e, n, n, x)
        BY <2>1, <2>2, <2>11, <4>1, UnitsCover
      <4> QED
        BY <4>1, <4>2 DEF to, e
    <3> HIDE DEF g, e
    <3>7. Spread(v, q, g, o, n, n, x)
      <4>1. g.v \in Volumes
        BY <3>2, SoundIsShaped DEF OnChain
      <4>2. p.v \in Sound /\ Along(v, q, p.v)
        BY <2>9 DEF OnChain
      <4> QED
        BY <2>1, <2>2, <2>13, <3>6, <4>1, <4>2, SpreadFrom
    <3>8. ASSUME NEW m \in Nat, Covers(v, q, g.v, o, m, x)
          PROVE  Wrote(v, q, g.v, o, m, x, b.size)
      <4>1. q \in Live(g.v) /\ First(g.v, q) = First(v, q) /\ BlockOf(g.v, q) = b /\ g.v \in Sound
        BY <2>1, <3>2 DEF OnChain, Along, SameEntries, First
      <4> HIDE DEF b
      <4>2. ~BlockOf(g.v, q).isDir /\ ~BlockOf(v, q).isDir
        BY <2>1, <4>1 DEF b
      <4> QED
        BY <2>1, <2>2, <3>8, <4>1, <4>2, CoveredIsWritten
    <3>3. g.v \in Sound /\ FileCalled(v, q, g.v) /\ (g.st # "ok" => Full(g.v))
      BY <3>2, AlongIsACall DEF OnChain
    <3>4. CASE g.st # "ok" \/ ~(o + n > b.size)
      <4>1. r.v = g.v /\ (r.st = "ok" \/ r.st = g.st)
        BY <3>1, <3>4 DEF GrowSize
      <4>2. r.st = "ok" <=> g.st = "ok"
        BY <3>1, <3>4 DEF GrowSize
      <4>3. WrittenTo(v, q, r, o, n, x)
        <5>1. CASE g.st = "ok"
          <6>1. Wrote(v, q, g.v, o, n, x, b.size)
            BY <2>2, <3>7, <3>8, <5>1 DEF Spread
          <6>2. ~(o + n > b.size)
            BY <3>4, <5>1
          <6> QED
            BY <4>1, <4>2, <5>1, <6>1, <6>2 DEF WrittenTo
        <5>2. CASE g.st # "ok"
          <6>1. PICK i \in 0 .. n - 1 : Covers(v, q, g.v, o, i, x)
            BY <3>7, <5>2 DEF Spread
          <6>2. Wrote(v, q, g.v, o, i, x, b.size)
            BY <3>8, <6>1
          <6> QED
            BY <4>1, <4>2, <5>2, <6>2 DEF WrittenTo
        <5> QED
          BY <5>1, <5>2
      <4> QED
        BY <3>3, <4>1, <4>3 DEF r, o, n
    <3>5. CASE g.st = "ok" /\ o + n > b.size
      <4> DEFINE u == g.v
                 z == SetAttr(u, path, [b EXCEPT !.size = o + n])
      <4>1. r = z
        BY <3>1, <3>5 DEF GrowSize
      <4>2. /\ u \in Shaped /\ SizesFit(u) /\ SameEntries(v, u)
            /\ (k + 1) + j \in 1 .. Len(Chain(u, f))
        BY <3>2, <3>5, SoundIsShaped DEF OnChain, Along
      <4>3. IsAt(u, path, q) /\ BlockOf(u, q) = b /\ First(u, q) = f
        BY <2>1, <4>2, IsAtKept DEF SameEntries, First
      <4>4. u \in Volumes
        BY <4>2 DEF Shaped
      <4> HIDE DEF u
      <4>5. o + n <= N * Len(Chain(u, f))
        <5> DEFINE L == Len(Chain(u, f))
                   K == (k + 1) + j
        <5>1. L \in Nat /\ K \in Nat /\ K <= L
          BY <2>1, <2>3, <2>5, <4>2, <4>4, Chained
        <5> HIDE DEF L, K
        <5>2. N * K <= N * L /\ N * K \in Nat /\ N * L \in Nat
          <6>1. N \in Nat
            BY OpsAssumption
          <6>2. CASE K = L
            BY <5>1, <6>1, <6>2
          <6>3. CASE K < L
            <7>1. K * N \in Nat /\ L * N \in Nat /\ K * N + N <= L * N
              BY <5>1, <6>1, <6>3, Multiples
            <7>2. K * N = N * K /\ L * N = N * L
              BY <5>1, <6>1
            <7> QED
              BY <6>1, <7>1, <7>2
          <6> QED
            BY <5>1, <6>2, <6>3
        <5> DEFINE A == N * K
                   B == N * L
        <5>3. o + n <= A /\ o + n \in Int
          BY <2>2, <2>6 DEF K
        <5>4. A <= B /\ A \in Nat /\ B \in Nat
          BY <5>2
        <5> HIDE DEF A, B
        <5>5. o + n <= B
          BY <5>3, <5>4
        <5> QED
          BY <5>5 DEF B, L
      <4>6. \A i \in Live(u) : i # q /\ ~BlockOf(u, i).isDir =>
                                  BlockOf(u, i).size <= N * Len(Chain(u, First(u, i)))
        BY <4>2 DEF SizesFit
      <4>7. /\ z.v \in Sound /\ z.st = "ok" /\ FileCalled(u, q, z.v)
            /\ z.v.fat = u.fat /\ BlockOf(z.v, q).size = o + n
            /\ \A c \in Cluster \ DirClusters(u) : z.v.slot[c] = u.slot[c]
        <5>1. ~BlockOf(u, q).isDir /\ o + n <= N * Len(Chain(u, First(u, q)))
          BY <2>1, <4>3, <4>5
        <5> DEFINE m == o + n
        <5>2. m \in FileSize
          BY <2>2
        <5> HIDE DEF m
        <5> DEFINE a == SetAttr(u, path, [BlockOf(u, q) EXCEPT !.size = m])
        <5>3. /\ a.st = "ok" /\ a.v \in Sound /\ a.v.fat = u.fat /\ FileCalled(u, q, a.v)
              /\ BlockOf(a.v, q).size = m
              /\ \A c \in Cluster \ DirClusters(u) : a.v.slot[c] = u.slot[c]
          BY <4>2, <4>3, <4>6, <5>1, <5>2, FileSized DEF m
        <5> QED
          BY <4>3, <5>3 DEF m
      <4>8. FileCalled(v, q, z.v)
        BY <3>3, <4>7, CallsOnAFile DEF u
      <4> HIDE DEF z
      <4>9. WrittenTo(v, q, r, o, n, x)
        <5>1. Covers(v, q, u, o, n, x)
          BY <3>5, <3>7 DEF Spread, u
        <5>2. \A d \in ChainSet(u, f) : z.v.slot[d] = u.slot[d]
          <6>1. \A d \in ChainSet(u, f) : d \in Cluster \ DirClusters(u)
            BY <2>1, <4>2, <4>3, ChainOfFile DEF IsAt
          <6> QED
            BY <4>7, <6>1
        <5>3. z.v \in Volumes
          BY <4>7, SoundIsShaped
        <5>4. Covers(v, q, z.v, o, n, x)
          BY <2>1, <4>4, <4>7, <5>1, <5>2, <5>3, CoveredStill
        <5>5. q \in Live(z.v) /\ First(z.v, q) = First(v, q) /\ ~BlockOf(z.v, q).isDir
          BY <2>1, <4>8 DEF FileCalled, SameNames
        <5>6. Wrote(v, q, z.v, o, n, x, BlockOf(z.v, q).size)
          BY <2>1, <2>2, <4>7, <5>4, <5>5, CoveredIsWritten
        <5> HIDE DEF b
        <5> QED
          BY <3>5, <4>1, <4>7, <5>6 DEF WrittenTo, b
      <4> QED
        BY <4>1, <4>7, <4>8, <4>9 DEF r, o, n
    <3> QED
      BY <3>4, <3>5
  <2> QED
    BY <2>10, <2>11
<1> QED
  BY <1>1, <1>2

(* What fatx_write comes to: a file that does not reach the offset may have *)
(* been extended to it before the data is refused.                          *)
WroteOut(v, q, r, o, n, x) ==
  LET size == BlockOf(v, q).size
  IN  /\ r.st = "ok" => Wrote(v, q, r.v, o, n, x, IF o + n > size THEN o + n ELSE size)
      /\ r.st # "ok" => \E j \in 0 .. n - 1, k \in {size, o + 1} :
                          /\ k >= size /\ (j > 0 => k >= o)
                          /\ Wrote(v, q, r.v, o, j, x, k)

(* Data written to a file that has been extended to the offset first. *)
LEMMA ExtendedFirst ==
  ASSUME NEW u, NEW q, NEW t, NEW r, NEW o \in Nat, NEW n \in Nat \ {0}, NEW x,
         BlockOf(u, q).size \in Nat, o > BlockOf(u, q).size,
         DataKept(u, q, t, o + 1), WrittenTo(t, q, r, o, n, x)
  PROVE  WroteOut(u, q, r, o, n, x)
<1> DEFINE size == BlockOf(u, q).size
           k == o + 1
<1>1. k \in Nat /\ size \in Nat /\ size <= k /\ k >= size /\ k >= o /\ o + n > size /\ o + n \in Nat
  OBVIOUS
<1>2. BlockOf(t, q).size = k /\ DataKept(u, q, t, k)
  BY DEF DataKept
<1>3. (IF o + n > k THEN o + n ELSE k) = o + n
  OBVIOUS
<1> HIDE DEF size, k
<1>4. ASSUME r.st = "ok" PROVE Wrote(u, q, r.v, o, n, x, o + n)
  <2>1. Wrote(t, q, r.v, o, n, x, o + n)
    BY <1>2, <1>3, <1>4 DEF WrittenTo
  <2> QED
    BY <1>1, <1>2, <2>1, WrittenAfter DEF size
<1>5. ASSUME r.st # "ok" PROVE \E j \in 0 .. n - 1 : Wrote(u, q, r.v, o, j, x, k)
  <2>1. PICK j \in 0 .. n - 1 : Wrote(t, q, r.v, o, j, x, k)
    BY <1>2, <1>5 DEF WrittenTo
  <2>2. Wrote(u, q, r.v, o, j, x, k)
    BY <1>1, <1>2, <2>1, WrittenAfter DEF size
  <2> QED
    BY <2>2
<1>6. (IF o + n > size THEN o + n ELSE size) = o + n
  BY <1>1
<1>7. k \in {size, o + 1}
  BY DEF k
<1> QED
  BY <1>1, <1>4, <1>5, <1>6, <1>7 DEF WroteOut, size

LEMMA WriteIsSound ==
  ASSUME NEW v \in Sound, NEW path, NEW q, IsAt(v, path, q), ~BlockOf(v, q).isDir,
         NEW y \in Writes, NEW x \in Value
  PROVE  LET r == Write(v, path, y[1], y[2], x)
         IN  /\ r.v \in Sound /\ FileCalled(v, q, r.v) /\ (r.st # "ok" => Full(r.v))
             /\ WroteOut(v, q, r, y[1], y[2], x)
<1> DEFINE o == y[1]
           n == y[2]
           t == Truncate(v, path, o + 1)
           s == [st |-> "ok", v |-> v]
<1>1. v \in Shaped /\ v \in Volumes
  BY SoundIsShaped
<1>2. GetAttr(v, path) = [st |-> "ok", attr |-> BlockOf(v, q)]
  BY <1>1, AttrPut
<1>3. o + 1 \in FileSize /\ o \in Nat /\ n \in Nat \ {0} /\ BlockOf(v, q).size \in Nat
  <2>1. o \in Nat /\ n \in Nat \ {0}
    BY VolumeAssumption
  <2>2. BlockOf(v, q).size \in Nat
    <3>1. q \in Live(v)
      BY DEF IsAt
    <3> QED
      BY <1>1, <3>1, LiveType, SizesAreNat
  <2> QED
    BY <2>1, <2>2 DEF FileSize
<1>4. CASE o > BlockOf(v, q).size
  <2>1. Write(v, path, o, n, x) = Written(t, path, o, n, x)
    BY <1>2, <1>4 DEF Write
  <2> DEFINE m == o + 1
             u == Truncate(v, path, m)
  <2>10. /\ u.v \in Sound /\ FileCalled(v, q, u.v)
         /\ u.st = "ok" => DataKept(v, q, u.v, m)
         /\ u.st # "ok" => Full(u.v) /\ DataKept(v, q, u.v, BlockOf(v, q).size)
    <3> HIDE DEF m
    <3>1. m \in FileSize
      BY <1>3 DEF m
    <3> QED
      BY <3>1, TruncateIsSound
  <2>2. /\ t.v \in Sound /\ FileCalled(v, q, t.v)
        /\ t.st = "ok" => DataKept(v, q, t.v, o + 1)
        /\ t.st # "ok" => Full(t.v) /\ DataKept(v, q, t.v, BlockOf(v, q).size)
    BY <2>10
  <2> HIDE DEF t, u, m
  <2>3. ASSUME t.st = "ok" PROVE IsAt(t.v, path, q) /\ ~BlockOf(t.v, q).isDir
    <3>1. SameNames(v, t.v)
      BY <2>2 DEF FileCalled
    <3>2. IsAt(t.v, path, q)
      BY <3>1, IsAtKept
    <3>3. q \in Live(v)
      BY DEF IsAt
    <3> QED
      BY <3>1, <3>2, <3>3 DEF SameNames
  <2> DEFINE r == Written(t, path, y[1], y[2], x)
  <2>4. FileCalled(t.v, q, t.v)
    BY DEF FileCalled, SameNames
  <2>5. /\ r.v \in Sound /\ FileCalled(t.v, q, r.v) /\ (r.st # "ok" => Full(r.v))
        /\ t.st = "ok" => WrittenTo(t.v, q, r, y[1], y[2], x)
    BY <2>2, <2>3, <2>4, WrittenIsSound
  <2>6. FileCalled(v, q, r.v)
    BY <2>2, <2>5, CallsOnAFile
  <2>7. WroteOut(v, q, r, o, n, x)
    <3>1. CASE t.st = "ok"
      <4> HIDE DEF o, n, r
      <4>1. WrittenTo(t.v, q, r, o, n, x)
        BY <2>5, <3>1 DEF o, n
      <4> QED
        BY <1>3, <1>4, <2>2, <3>1, <4>1, ExtendedFirst
    <3>2. CASE t.st # "ok"
      <4>1. r = t
        BY <3>2 DEF Written, WriteInto
      <4> HIDE DEF r, o, n
      <4> DEFINE size == BlockOf(v, q).size
                 none == 0
      <4>2. size \in Nat /\ none \in 0 .. n - 1 /\ size \in {size, o + 1} /\ ~(none > 0) /\ size >= size
        BY <1>3
      <4>3. DataKept(v, q, r.v, size)
        BY <2>2, <3>2, <4>1
      <4> HIDE DEF size
      <4>4. Wrote(v, q, r.v, o, 0, x, size)
        BY <1>3, <4>2, <4>3, KeptIsWritten
      <4>5. Wrote(v, q, r.v, o, none, x, size)
        BY <4>4
      <4> HIDE DEF none
      <4>6. \E j \in 0 .. n - 1, k \in {size, o + 1} :
              k >= size /\ (j > 0 => k >= o) /\ Wrote(v, q, r.v, o, j, x, k)
        BY <4>2, <4>5
      <4> QED
        BY <3>2, <4>1, <4>6 DEF WroteOut, size
    <3> QED
      BY <3>1, <3>2
  <2> QED
    BY <2>1, <2>5, <2>6, <2>7
<1>5. CASE ~(o > BlockOf(v, q).size)
  <2>1. Write(v, path, o, n, x) = Written(s, path, o, n, x)
    BY <1>2, <1>5 DEF Write
  <2>2. s.st = "ok" /\ s.v = v
    OBVIOUS
  <2> HIDE DEF s
  <2> DEFINE r == Written(s, path, y[1], y[2], x)
  <2>3. /\ r.v \in Sound /\ FileCalled(s.v, q, r.v) /\ (r.st # "ok" => Full(r.v))
        /\ s.st = "ok" => WrittenTo(s.v, q, r, y[1], y[2], x)
    BY <2>2, WrittenIsSound
  <2>4. WroteOut(v, q, r, o, n, x)
    <3> HIDE DEF r, o, n
    <3> DEFINE size == BlockOf(v, q).size
    <3>1. WrittenTo(v, q, r, o, n, x)
      BY <2>2, <2>3 DEF o, n
    <3>2. size \in Nat /\ size >= size /\ size >= o
      BY <1>3, <1>5
    <3>3. r.st = "ok" => Wrote(v, q, r.v, o, n, x, IF o + n > size THEN o + n ELSE size)
      BY <3>1 DEF WrittenTo
    <3>4. ASSUME r.st # "ok"
          PROVE  \E j \in 0 .. n - 1, k \in {size, o + 1} :
                   k >= size /\ (j > 0 => k >= o) /\ Wrote(v, q, r.v, o, j, x, k)
      <4>1. PICK j \in 0 .. n - 1 : Wrote(v, q, r.v, o, j, x, size)
        BY <3>1, <3>4 DEF WrittenTo
      <4> HIDE DEF size
      <4> QED
        BY <3>2, <4>1
    <3> QED
      BY <3>3, <3>4 DEF WroteOut
  <2> QED
    BY <2>1, <2>2, <2>3, <2>4
<1> QED
  BY <1>4, <1>5

-----------------------------------------------------------------------------
(* An entry is removed: with it go the entries of a directory.  Its chain   *)
(* is freed; other chains, and data, are as they were.                      *)

Without(v, q, w) ==
  /\ Live(w) = {r \in Live(v) : r # q /\ r.cluster # First(v, q)}
  /\ \A r \in Live(w) : BlockOf(w, r) = BlockOf(v, r)
  /\ \A c \in Cluster :
       w.fat[c] = IF c \in ChainSet(v, First(v, q)) THEN Available ELSE v.fat[c]
  /\ \A c \in Cluster \ DirClusters(v) : w.slot[c] = v.slot[c]

LEMMA EntryRemoved ==
  ASSUME NEW v \in Sound, NEW q \in Live(v)
  PROVE  LET w == Put(FreeChain(v, First(v, q)), q, DeletedMark)
         IN  w \in Sound /\ Without(v, q, w)
<1> DEFINE f == First(v, q)
           C == ChainSet(v, f)
           x == FreeChain(v, f)
           w == Put(x, q, DeletedMark)
<1>1. /\ v \in Shaped /\ v \in Volumes /\ SizesFit(v)
      /\ Links(v.fat) /\ Heads(v) /\ Nesting(v) /\ Dirs(v) /\ Data(v)
  BY SoundIsShaped DEF Shaped
<1>2. /\ q \in Places /\ q.cluster \in Cluster /\ q.entry \in 0 .. N - 1
      /\ q = Place(q.cluster, q.entry) /\ BlockOf(v, q).kind = "live"
      /\ f \in Cluster /\ f # Root
  BY <1>1, LiveType
<1>3. /\ \A d \in C : d \in Cluster /\ d # Root /\ v.fat[d] # Available
      /\ \A r \in Live(v) : r # q =>
           /\ ChainSet(v, First(v, r)) \cap C = {} /\ First(v, r) \notin C
  BY <1>1, ChainOfEntry
<1>4. f \in C /\ C \subseteq Cluster
  BY <1>1, <1>2, <1>3, ChainLinks
(* Of the directories, only what q names is in the chain. *)
<1>5. \A d \in DirClusters(v) : d \in C => d = f
  <2>1. CASE ~BlockOf(v, q).isDir
    BY <1>1, <2>1, ChainOfFile
  <2>2. CASE BlockOf(v, q).isDir
    <3>1. v.fat[f] = End
      BY <1>1, <2>2 DEF Nesting
    <3> DEFINE S == {f}
    <3>2. S \in SUBSET Cluster /\ f \in S /\ \A d \in S : v.fat[d] \in Cluster => v.fat[d] \in S
      BY <1>2, <3>1, Entries
    <3>3. C \subseteq S
      <4> HIDE DEF S, f
      <4> QED
        BY <1>1, <3>2, ChainWithin
    <3> QED
      BY <3>3
  <2> QED
    BY <2>1, <2>2
<1>6. q.cluster \in DirClusters(v) /\ q.cluster # f
  <2>1. q.cluster \in DirClusters(v)
    BY <1>1 DEF Nesting
  <2>2. CASE BlockOf(v, q).isDir
    BY <1>1, <1>2, <2>1, <2>2 DEF Nesting
  <2>3. CASE ~BlockOf(v, q).isDir
    BY <1>1, <1>4, <2>1, <2>3, ChainOfFile
  <2> QED
    BY <2>1, <2>2, <2>3
<1>7. /\ x \in Volumes /\ x.slot = v.slot
      /\ x.fat = [d \in Cluster |-> IF d \in C THEN Available ELSE v.fat[d]]
  BY <1>1, <1>2, ChainFreed
<1>8. DeletedMark \in Block /\ DeletedMark.kind # "live"
  BY Blocks DEF DeletedMark
<1> HIDE DEF f, C, x
<1>9. /\ w \in Volumes /\ w.fat = x.fat
      /\ \A c \in Cluster : c # q.cluster => w.slot[c] = x.slot[c]
      /\ w.slot[q.cluster] = [x.slot[q.cluster] EXCEPT ![q.entry] = DeletedMark]
      /\ \A r \in Places : BlockOf(w, r) = IF r = q THEN DeletedMark ELSE BlockOf(x, r)
  BY <1>2, <1>7, <1>8, EntryPut DEF Overwritten
<1> HIDE DEF w
<1>10. /\ \A r \in Places : BlockOf(w, r) = IF r = q THEN DeletedMark ELSE BlockOf(v, r)
       /\ \A d \in Cluster : w.fat[d] = IF d \in C THEN Available ELSE v.fat[d]
  BY <1>7, <1>9 DEF BlockOf
<1>11. Live(w) = {r \in Live(v) : r # q /\ r.cluster # f}
  <2>1. ASSUME NEW r \in Places PROVE r \in Live(w) <=> r \in Live(v) /\ r # q /\ r.cluster # f
    <3>1. r.cluster \in Cluster
      BY DEF Places
    <3>2. r \in Live(v) => r.cluster \in DirClusters(v)
      BY <1>1 DEF Nesting
    <3>3. r \in Live(w) <=> w.fat[r.cluster] # Available /\ BlockOf(w, r).kind = "live"
      BY DEF Live
    <3>4. r \in Live(v) <=> v.fat[r.cluster] # Available /\ BlockOf(v, r).kind = "live"
      BY DEF Live
    <3> QED
      BY <1>4, <1>5, <1>8, <1>10, <3>1, <3>2, <3>3, <3>4
  <2>2. Live(w) \subseteq Places /\ Live(v) \subseteq Places
    BY DEF Live
  <2> QED
    BY <2>1, <2>2
<1>12. \A r \in Live(w) : /\ r \in Live(v) /\ r # q /\ r.cluster # f
                          /\ BlockOf(w, r) = BlockOf(v, r) /\ First(w, r) = First(v, r)
  BY <1>10, <1>11 DEF Live, First
<1>13. DirClusters(w) = DirClusters(v) \ {f}
  <2>1. ASSUME NEW c \in DirClusters(w) PROVE c \in DirClusters(v) /\ c # f
    <3>1. CASE c = Root
      BY <1>2, <3>1, RootIsDir
    <3>2. CASE c # Root
      <4>1. PICK r \in Live(w) : BlockOf(w, r).isDir /\ c = First(w, r)
        BY <3>2 DEF DirClusters
      <4>2. c = First(v, r) /\ r \in Live(v) /\ BlockOf(v, r).isDir /\ r # q
        BY <1>12, <4>1
      <4> QED
        BY <1>1, <4>2 DEF DirClusters, Heads, f
    <3> QED
      BY <3>1, <3>2
  <2>2. ASSUME NEW c \in DirClusters(v), c # f PROVE c \in DirClusters(w)
    <3>1. CASE c = Root
      BY <3>1, RootIsDir
    <3>2. CASE c # Root
      <4>1. PICK r \in Live(v) : BlockOf(v, r).isDir /\ c = First(v, r)
        BY <3>2 DEF DirClusters
      <4>2. r # q /\ r.cluster = Root
        BY <1>1, <2>2, <4>1 DEF Nesting, f
      <4>3. r \in Live(w)
        BY <1>2, <1>11, <4>2
      <4>4. First(w, r) = c /\ BlockOf(w, r).isDir
        BY <1>12, <4>1, <4>3
      <4> QED
        BY <4>3, <4>4 DEF DirClusters
    <3> QED
      BY <3>1, <3>2
  <2> QED
    BY <2>1, <2>2
<1>14. End \notin Cluster /\ Available \notin Cluster /\ Root \in Cluster
  BY Entries, Starts
<1>15. Links(w.fat)
  <2>1. w.fat[Root] = End /\ \A d \in Cluster : w.fat[d] \in {Available, End, v.fat[d]}
    BY <1>1, <1>3, <1>10, <1>14 DEF Links
  <2>2. ASSUME NEW d \in Cluster, w.fat[d] \in Cluster PROVE w.fat[w.fat[d]] # Available
    <3> DEFINE e == v.fat[d]
    <3>1. w.fat[d] = e /\ d \notin C /\ e \in Cluster /\ v.fat[e] # Available
      BY <1>1, <1>10, <1>14, <2>2 DEF Links
    <3>2. e \notin C
      <4> SUFFICES ASSUME e \in C PROVE FALSE
        OBVIOUS
      <4>1. e = f \/ \E g \in C : v.fat[g] = e
        BY <1>1, <1>2, ChainLinks DEF C
      <4>2. e # f
        BY <1>1 DEF Heads, f
      <4>3. PICK g \in C : v.fat[g] = e
        BY <4>1, <4>2
      <4>4. g = d
        BY <1>1, <1>4, <3>1, <4>3 DEF Links
      <4> QED
        BY <3>1, <4>4
    <3> QED
      BY <1>10, <3>1, <3>2
  <2> QED
    BY <1>1, <2>1, <2>2, LinksTakenAway
<1>16. Heads(w)
  <2>1. ASSUME NEW r \in Live(w)
        PROVE  w.fat[First(w, r)] # Available /\ \A c \in Cluster : w.fat[c] # First(w, r)
    <3>1. First(w, r) = First(v, r) /\ First(v, r) \notin C /\ First(v, r) \in Cluster
      BY <1>1, <1>3, <1>12, LiveType
    <3>2. v.fat[First(v, r)] # Available /\ \A c \in Cluster : v.fat[c] # First(v, r)
      BY <1>1, <1>12 DEF Heads
    <3> QED
      BY <1>10, <1>14, <3>1, <3>2
  <2> QED
    BY <1>1, <1>12, <2>1 DEF Heads
<1>17. Nesting(w)
  <2> SUFFICES ASSUME NEW r \in Live(w)
               PROVE  /\ r.cluster \in DirClusters(w)
                      /\ BlockOf(w, r).isDir => r.cluster = Root /\ w.fat[First(w, r)] = End
    BY DEF Nesting
  <2>1. First(v, r) \notin C /\ First(v, r) \in Cluster
    BY <1>1, <1>3, <1>12, LiveType
  <2> QED
    BY <1>1, <1>10, <1>12, <1>13, <2>1 DEF Nesting
<1>18. Dirs(w)
  <2>1. ASSUME NEW c \in DirClusters(w)
        PROVE  \E u \in 0 .. N - 1 : u <= Cardinality(Name) /\ Filling(w.slot[c], u)
    <3>1. c \in DirClusters(v) /\ c \in Cluster
      BY <1>1, <1>13, DirCluster
    <3>2. PICK u \in 0 .. N - 1 : u <= Cardinality(Name) /\ Filling(v.slot[c], u)
      BY <1>1, <3>1, DirCluster
    <3>3. CASE c # q.cluster
      BY <1>7, <1>9, <3>1, <3>2, <3>3
    <3>4. CASE c = q.cluster
      <4>1. v.slot[c] \in [0 .. N - 1 -> Block]
        BY <1>1, <3>1, Entries DEF Volumes, VolumeType, Slots
      <4>2. \A i \in 0 .. N - 1 : w.slot[c][i] = IF i = q.entry THEN DeletedMark ELSE v.slot[c][i]
        BY <1>7, <1>9, <3>4, <4>1
      <4>3. q.entry < u
        <5>1. v.slot[c][q.entry].kind = "live"
          BY <1>2, <3>4 DEF BlockOf
        <5> QED
          BY <1>2, <3>2, <5>1, Statuses DEF Filling
      <4>4. Filling(w.slot[c], u)
        BY <3>2, <4>2, <4>3 DEF Filling
      <4> QED
        BY <3>2, <4>4
    <3> QED
      BY <3>3, <3>4
  <2>2. \A p, r \in Live(w) :
          p.cluster = r.cluster /\ BlockOf(w, p).name = BlockOf(w, r).name => p = r
    BY <1>1, <1>12 DEF Dirs
  <2> QED
    BY <2>1, <2>2 DEF Dirs
<1>19. Data(w)
  <2> SUFFICES ASSUME NEW c \in Cluster \ DirClusters(w), w.fat[c] # Available
               PROVE  w.slot[c] \in [0 .. N - 1 -> DataBlock]
    BY DEF Data
  <2>1. c \notin C /\ v.fat[c] # Available
    BY <1>10
  <2>2. c \notin DirClusters(v) /\ c # q.cluster
    BY <1>4, <1>6, <1>13, <2>1
  <2> QED
    BY <1>1, <1>7, <1>9, <2>1, <2>2 DEF Data
<1>20. SizesFit(w)
  <2> SUFFICES ASSUME NEW r \in Live(w), ~BlockOf(w, r).isDir
               PROVE  BlockOf(w, r).size <= N * Len(Chain(w, First(w, r)))
    BY DEF SizesFit
  <2>1. r \in Live(v) /\ First(w, r) = First(v, r) /\ BlockOf(w, r) = BlockOf(v, r)
        /\ First(v, r) \in Cluster
    BY <1>1, <1>12, LiveType
  <2>2. \A d \in ChainSet(v, First(v, r)) : d \in Cluster /\ d \notin C
    BY <1>1, <1>3, <1>12, ChainOfEntry
  <2>3. \A d \in ChainSet(v, First(v, r)) : w.fat[d] = v.fat[d]
    BY <1>10, <2>2
  <2>4. Chain(w, First(v, r)) = Chain(v, First(v, r))
    BY <1>1, <1>9, <2>1, <2>3, ChainKept
  <2> QED
    BY <1>1, <2>1, <2>4 DEF SizesFit
<1>21. w \in Sound
  BY <1>9, <1>15, <1>16, <1>17, <1>18, <1>19, <1>20 DEF Sound, Shaped
<1>22. \A c \in Cluster \ DirClusters(v) : w.slot[c] = v.slot[c]
  BY <1>6, <1>7, <1>9
<1>23. Without(v, q, w)
  BY <1>10, <1>11, <1>12, <1>22 DEF Without, f, C
<1> QED
  BY <1>21, <1>23 DEF f, x, w

LEMMA UnlinkIsSound ==
  ASSUME NEW v \in Sound, NEW path, NEW q, IsAt(v, path, q)
  PROVE  LET r == Unlink(v, path)
         IN  r.st = "ok" /\ r.v \in Sound /\ Without(v, q, r.v)
<1> DEFINE w == Put(FreeChain(v, First(v, q)), q, DeletedMark)
<1>1. v \in Shaped /\ v \in Volumes
  BY SoundIsShaped
<1>2. q \in Live(v) /\ Locate(v, path).st = "ok" /\ Locate(v, path).at = q
  BY <1>1, LocatedThere DEF IsAt
<1>3. First(v, q) = At(v, q).first
  BY <1>1, <1>2, LiveType DEF First
<1>4. Unlink(v, path) = [st |-> "ok", v |-> w]
  BY <1>2, <1>3 DEF Unlink
<1>5. w \in Sound /\ Without(v, q, w)
  BY <1>2, EntryRemoved
<1> QED
  BY <1>4, <1>5

(* A directory in the root is opened at its first entry. *)
LEMMA DirOpened ==
  ASSUME NEW v \in Shaped, NEW path, NEW q, IsAt(v, path, q), BlockOf(v, q).isDir,
         path # <<>>, Dirname(path) = <<>>, Basename(path) = path[1]
  PROVE  OpenDir(v, path).st = "ok" /\ OpenDir(v, path).at = Place(First(v, q), 0)
<1> DEFINE d == OpenDir(v, path)
<1>1. q \in DirNamed(v, path[1])
  BY DEF IsAt, DirNamed
<1>2. \/ d.st = "ok" /\ \E h \in DirNamed(v, path[1]) : d.at = Place(First(v, h), 0)
      \/ d.st = "not_found" /\ DirNamed(v, path[1]) = {}
  BY OpenedDir
<1> HIDE DEF d
<1>3. d.st = "ok" /\ \E h \in DirNamed(v, path[1]) : d.at = Place(First(v, h), 0)
  BY <1>1, <1>2
<1>4. d.at = Place(First(v, q), 0)
  BY <1>1, <1>3, OneDirNamed
<1> QED
  BY <1>3, <1>4 DEF d

(* Something is in the directory that q names. *)
Occupied(v, q) == \E r \in Live(v) : r.cluster = First(v, q)

LEMMA RmdirIsSound ==
  ASSUME NEW v \in Sound, NEW path, NEW q, IsAt(v, path, q), BlockOf(v, q).isDir,
         path # <<>>, Dirname(path) = <<>>, Basename(path) = path[1]
  PROVE  LET r == Rmdir(v, path)
         IN  /\ r.v \in Sound
             /\ r.st = "ok" => Without(v, q, r.v) /\ ~Occupied(v, q)
             /\ r.st # "ok" => r.v = v /\ Occupied(v, q)
<1> DEFINE d == OpenDir(v, path)
           c == First(v, q)
           wanted == {h \in Places : ReadDir(At(v, h)) = "ok"}
           s == Scan(v, Place(c, 0), wanted)
           r == Rmdir(v, path)
<1>1. v \in Shaped /\ v \in Volumes /\ q \in Live(v)
  BY SoundIsShaped DEF IsAt
<1>2. d.st = "ok" /\ d.at = Place(c, 0)
  BY <1>1, DirOpened
<1>3. r = CASE s.st = "ok" -> [st |-> "end_of_dir", v |-> v]
            [] s.st = "error" -> [st |-> "error", v |-> v]
            [] s.st = "not_found" -> Unlink(v, path)
  BY <1>2 DEF Rmdir
<1>4. c \in DirClusters(v) /\ c \in Cluster /\ v.fat[c] # Available
  <2>1. c \in DirClusters(v)
    BY <1>1 DEF DirClusters
  <2> QED
    BY <1>1, <2>1, DirCluster
<1>5. PICK u \in 0 .. N - 1 : Filling(v.slot[c], u)
  BY <1>1, <1>4, DirCluster
<1>6. ASSUME NEW i \in 0 .. N - 1
      PROVE  /\ Place(c, i) \in Places /\ Place(c, i).cluster = c /\ Place(c, i).entry = i
             /\ At(v, Place(c, i)) = v.slot[c][i]
  <2>1. Place(c, i) \in Places /\ Place(c, i).cluster = c /\ Place(c, i).entry = i
    BY <1>4 DEF Place, Places
  <2> QED
    BY <1>1, <2>1, BlockAt, PlacesAreWritable
<1>7. ASSUME NEW i \in u .. N - 1 PROVE Place(c, i) \notin wanted
  <2>1. i \in 0 .. N - 1 /\ ~(i < u)
    BY OpsAssumption
  <2>2. v.slot[c][i] \in {Blank, EndMark}
    BY <1>5, <2>1 DEF Filling
  <2>3. ReadDir(v.slot[c][i]) = "end_of_dir"
    BY <2>2, Statuses
  <2> QED
    BY <1>6, <2>1, <2>3
<1>8. \/ s.st = "ok" /\ s.at \in wanted /\ s.at.cluster = c
      \/ /\ s = [st |-> "not_found", at |-> Place(c, u)]
         /\ \A i \in 0 .. N - 1 : Place(c, i) \notin wanted
  <2> HIDE DEF wanted, c
  <2> QED
    BY <1>1, <1>4, <1>5, <1>7, DirScan
<1> HIDE DEF s, r
<1>9. CASE s.st = "ok" /\ s.at \in wanted /\ s.at.cluster = c
  <2> DEFINE h == s.at
             i == h.entry
  <2>1. h \in Places /\ i \in 0 .. N - 1 /\ h = Place(c, i) /\ ReadDir(At(v, h)) = "ok"
    BY <1>9 DEF Places, Place
  <2>2. At(v, h) = v.slot[c][i]
    BY <1>6, <2>1
  <2>3. i < u
    BY <1>7, <1>9, <2>1, OpsAssumption
  <2>4. v.slot[c][i] = DeletedMark \/ v.slot[c][i].kind = "live"
    BY <1>5, <2>1, <2>3 DEF Filling
  <2>5. ReadDir(DeletedMark) # "ok"
    BY DEF ReadDir, DeletedMark
  <2>6. h \in Live(v) /\ h.cluster = c
    BY <1>1, <1>4, <1>9, <2>1, <2>2, <2>4, <2>5, IsLive
  <2>7. Occupied(v, q)
    BY <2>6 DEF Occupied
  <2>8. r = [st |-> "end_of_dir", v |-> v]
    BY <1>3, <1>9
  <2> QED
    BY <2>7, <2>8 DEF r
<1>10. CASE /\ s = [st |-> "not_found", at |-> Place(c, u)]
            /\ \A i \in 0 .. N - 1 : Place(c, i) \notin wanted
  <2>1. r = Unlink(v, path)
    BY <1>3, <1>10
  <2>2. r.st = "ok" /\ r.v \in Sound /\ Without(v, q, r.v)
    BY <2>1, UnlinkIsSound
  <2>3. ~Occupied(v, q)
    <3> SUFFICES ASSUME NEW h \in Live(v), h.cluster = c PROVE FALSE
      BY DEF Occupied
    <3>1. /\ h \in Places /\ h.entry \in 0 .. N - 1 /\ h = Place(c, h.entry)
          /\ At(v, h).kind = "live"
      BY <1>1, LiveType
    <3>2. ReadDir(At(v, h)) = "ok"
      BY <3>1 DEF ReadDir
    <3> QED
      BY <1>10, <3>1, <3>2
  <2> QED
    BY <2>2, <2>3 DEF r
<1> QED
  BY <1>8, <1>9, <1>10

-----------------------------------------------------------------------------
(* Entries change their names, or their places. *)

LEMMA EntriesMoved ==
  ASSUME NEW v \in Sound, NEW w \in Volumes, w.fat = v.fat,
         NEW s \in [Live(v) -> Live(v)],
         \A p, q \in Live(v) : s[p] = s[q] => p = q,
         \A q \in Live(v) : \E p \in Live(v) : s[p] = q,
         \A p \in Places \ Live(v) : BlockOf(w, p) = BlockOf(v, p),
         \A q \in Live(v) : /\ BlockOf(w, q).kind = "live"
                            /\ First(w, q) = First(v, s[q])
                            /\ BlockOf(w, q).isDir = BlockOf(v, s[q]).isDir
                            /\ BlockOf(w, q).size = BlockOf(v, s[q]).size,
         \A q \in Live(v) : BlockOf(w, q).isDir => q.cluster = Root,
         \A p, q \in Live(v) :
           p.cluster = q.cluster /\ BlockOf(w, p).name = BlockOf(w, q).name => p = q
  PROVE  w \in Sound /\ Live(w) = Live(v)
<1>1. v \in Shaped /\ v \in Volumes /\ SizesFit(v)
  BY SoundIsShaped
<1>2. ASSUME NEW c \in Cluster, NEW e \in 0 .. N - 1
      PROVE  \/ w.slot[c][e] = v.slot[c][e]
             \/ Place(c, e) \in Live(v) /\ w.slot[c][e].kind = "live"
  <2>1. Place(c, e) \in Places /\ Place(c, e).cluster = c /\ Place(c, e).entry = e
    BY DEF Place, Places
  <2>2. BlockOf(w, Place(c, e)) = w.slot[c][e] /\ BlockOf(v, Place(c, e)) = v.slot[c][e]
    BY <2>1 DEF BlockOf
  <2> QED
    BY <2>1, <2>2
<1>3. w \in Shaped /\ Live(w) = Live(v) /\ DirClusters(w) = DirClusters(v)
  <2>1. /\ v \in Shaped /\ w \in Volumes /\ w.fat = v.fat
        /\ \A c \in Cluster : \A e \in 0 .. N - 1 :
             \/ w.slot[c][e] = v.slot[c][e]
             \/ Place(c, e) \in Live(v) /\ w.slot[c][e].kind = "live"
        /\ s \in [Live(v) -> Live(v)]
        /\ \A p, q \in Live(v) : s[p] = s[q] => p = q
        /\ \A q \in Live(v) : \E p \in Live(v) : s[p] = q
        /\ \A q \in Live(v) : First(w, q) = First(v, s[q])
                               /\ BlockOf(w, q).isDir = BlockOf(v, s[q]).isDir
        /\ \A q \in Live(v) : BlockOf(w, q).isDir => q.cluster = Root
        /\ \A p, q \in Live(v) :
             p.cluster = q.cluster /\ BlockOf(w, p).name = BlockOf(w, q).name => p = q
    BY <1>1, <1>2
  <2> QED
    BY ONLY <2>1, EntriesChanged
<1>4. SizesFit(w)
  <2> SUFFICES ASSUME NEW q \in Live(v), ~BlockOf(w, q).isDir
               PROVE  BlockOf(w, q).size <= N * Len(Chain(w, First(w, q)))
    BY <1>3 DEF SizesFit
  <2>1. s[q] \in Live(v) /\ First(w, q) = First(v, s[q]) /\ First(v, s[q]) \in Cluster
        /\ ~BlockOf(v, s[q]).isDir /\ BlockOf(w, q).size = BlockOf(v, s[q]).size
    BY <1>1, LiveType
  <2>2. Chain(w, First(v, s[q])) = Chain(v, First(v, s[q]))
    BY <1>1, <2>1, ChainsStay
  <2> QED
    BY <1>1, <2>1, <2>2 DEF SizesFit
<1> QED
  BY <1>3, <1>4 DEF Sound

LEMMA BlockRenamed ==
  ASSUME NEW b \in Block, b.kind = "live", NEW n \in Name
  PROVE  LET c == [b EXCEPT !.name = n]
         IN  /\ c \in Block /\ c.kind = "live" /\ c.name = n
             /\ c.isDir = b.isDir /\ c.first = b.first /\ c.size = b.size
<1> DEFINE c == [b EXCEPT !.name = n]
<1>1. c \in Block
  BY Changed
<1>2. b = Dirent(b.name, b.isDir, b.first, b.size)
  BY Blocks
<1>3. b = [kind |-> "live", name |-> b.name, isDir |-> b.isDir, first |-> b.first, size |-> b.size]
  BY <1>2 DEF Dirent
<1> QED
  BY <1>1, <1>3

(* The entries change, but for the chains between them. *)
EntriesOnly(v, w) ==
  /\ w.fat = v.fat /\ Live(w) = Live(v)
  /\ \A c \in Cluster \ DirClusters(v) : w.slot[c] = v.slot[c]

NameChanged(v, q, n, w) ==
  /\ EntriesOnly(v, w)
  /\ \A p \in Live(v) : BlockOf(w, p) = IF p = q THEN [BlockOf(v, q) EXCEPT !.name = n]
                                        ELSE BlockOf(v, p)

LEMMA EntryRenamed ==
  ASSUME NEW v \in Sound, NEW q \in Live(v), NEW n \in Name,
         \A p \in Live(v) : p.cluster = q.cluster /\ BlockOf(v, p).name = n => p = q
  PROVE  LET w == Put(v, q, [BlockOf(v, q) EXCEPT !.name = n])
         IN  w \in Sound /\ NameChanged(v, q, n, w)
<1> DEFINE b == [BlockOf(v, q) EXCEPT !.name = n]
           w == Put(v, q, b)
           s == [p \in Live(v) |-> p]
<1>1. v \in Shaped /\ v \in Volumes /\ Nesting(v) /\ Dirs(v)
  BY SoundIsShaped DEF Shaped
<1>2. q \in Places /\ BlockOf(v, q) \in Block /\ BlockOf(v, q).kind = "live"
  BY <1>1, LiveType
<1>3. /\ b \in Block /\ b.kind = "live" /\ b.name = n
      /\ b.isDir = BlockOf(v, q).isDir /\ b.first = First(v, q) /\ b.size = BlockOf(v, q).size
  BY <1>2, BlockRenamed DEF First
<1> HIDE DEF b
<1>4. /\ w \in Volumes /\ w.fat = v.fat
      /\ \A p \in Places : BlockOf(w, p) = IF p = q THEN b ELSE BlockOf(v, p)
      /\ \A c \in Cluster : c # q.cluster => w.slot[c] = v.slot[c]
  <2>1. v \in Volumes /\ q \in Places /\ b \in Block
    BY <1>1, <1>2, <1>3
  <2>2. /\ w \in Volumes /\ w.fat = v.fat /\ Overwritten(v, q, b, w)
        /\ \A c \in Cluster : c # q.cluster => w.slot[c] = v.slot[c]
    BY <2>1, EntryPut
  <2> HIDE DEF w
  <2> QED
    BY <2>2 DEF Overwritten
<1> HIDE DEF w
<1>5. s \in [Live(v) -> Live(v)] /\ \A p \in Live(v) : s[p] = p
  OBVIOUS
<1> HIDE DEF s
<1>6. /\ \A p, r \in Live(v) : s[p] = s[r] => p = r
      /\ \A r \in Live(v) : \E p \in Live(v) : s[p] = r
  BY <1>5
<1>7. \A p \in Live(v) : p \in Places /\ BlockOf(v, p).kind = "live"
  BY DEF Live
<1>8. \A p \in Live(v) : /\ BlockOf(w, p).kind = "live"
                         /\ First(w, p) = First(v, p)
                         /\ BlockOf(w, p).isDir = BlockOf(v, p).isDir
                         /\ BlockOf(w, p).size = BlockOf(v, p).size
                         /\ BlockOf(w, p).name = IF p = q THEN n ELSE BlockOf(v, p).name
  BY <1>3, <1>4, <1>7 DEF First
<1>9. \A p \in Places \ Live(v) : BlockOf(w, p) = BlockOf(v, p)
  BY <1>4
<1>10. \A p \in Live(v) : BlockOf(w, p).isDir => p.cluster = Root
  BY <1>1, <1>8 DEF Nesting
<1>11. ASSUME NEW p \in Live(v), NEW r \in Live(v),
              p.cluster = r.cluster, BlockOf(w, p).name = BlockOf(w, r).name
       PROVE  p = r
  BY <1>1, <1>8, <1>11 DEF Dirs
<1>12. \A p \in Live(v) : /\ BlockOf(w, p).kind = "live"
                         /\ First(w, p) = First(v, s[p])
                         /\ BlockOf(w, p).isDir = BlockOf(v, s[p]).isDir
                         /\ BlockOf(w, p).size = BlockOf(v, s[p]).size
  BY <1>5, <1>8
<1>13. w \in Sound /\ Live(w) = Live(v)
  BY <1>4, <1>5, <1>6, <1>9, <1>10, <1>11, <1>12, EntriesMoved
<1>14. \A c \in Cluster \ DirClusters(v) : w.slot[c] = v.slot[c]
  BY <1>1, <1>4 DEF Nesting
<1>15. NameChanged(v, q, n, w)
  BY <1>4, <1>7, <1>13, <1>14 DEF NameChanged, EntriesOnly, b
<1> QED
  BY <1>13, <1>15 DEF w, b

(* Two entries change places, each under the name of its place. *)
Exchanged(v, p, q, w) ==
  /\ EntriesOnly(v, w)
  /\ BlockOf(w, p) = [BlockOf(v, q) EXCEPT !.name = BlockOf(v, p).name]
  /\ BlockOf(w, q) = [BlockOf(v, p) EXCEPT !.name = BlockOf(v, q).name]
  /\ \A r \in Live(v) \ {p, q} : BlockOf(w, r) = BlockOf(v, r)

LEMMA EntriesSwapped ==
  ASSUME NEW v \in Sound, NEW p \in Live(v), NEW q \in Live(v),
         NEW from, NEW to, Basename(from) = BlockOf(v, p).name, Basename(to) = BlockOf(v, q).name,
         BlockOf(v, p).isDir \/ BlockOf(v, q).isDir => p.cluster = Root /\ q.cluster = Root
  PROVE  LET w == SwapAt(v, p, q, from, to)
         IN  w \in Sound /\ Exchanged(v, p, q, w)
<1> DEFINE a == [BlockOf(v, p) EXCEPT !.name = Basename(to)]
           b == [BlockOf(v, q) EXCEPT !.name = Basename(from)]
           u == Put(v, q, a)
           w == Put(u, p, b)
           s == [r \in Live(v) |-> IF r = p THEN q ELSE IF r = q THEN p ELSE r]
<1>1. v \in Shaped /\ v \in Volumes /\ Nesting(v) /\ Dirs(v)
  BY SoundIsShaped DEF Shaped
<1>2. /\ p \in Places /\ BlockOf(v, p) \in Block /\ BlockOf(v, p).kind = "live"
      /\ q \in Places /\ BlockOf(v, q) \in Block /\ BlockOf(v, q).kind = "live"
      /\ Basename(from) \in Name /\ Basename(to) \in Name
      /\ At(v, p) = BlockOf(v, p) /\ At(v, q) = BlockOf(v, q)
  BY <1>1, LiveType
<1>3. SwapAt(v, p, q, from, to) = w
  BY <1>2 DEF SwapAt
<1>4. /\ a \in Block /\ a.kind = "live" /\ a.name = BlockOf(v, q).name
      /\ a.isDir = BlockOf(v, p).isDir /\ a.first = First(v, p) /\ a.size = BlockOf(v, p).size
  BY <1>2, BlockRenamed DEF First
<1>5. /\ b \in Block /\ b.kind = "live" /\ b.name = BlockOf(v, p).name
      /\ b.isDir = BlockOf(v, q).isDir /\ b.first = First(v, q) /\ b.size = BlockOf(v, q).size
  BY <1>2, BlockRenamed DEF First
<1> HIDE DEF a, b
<1>6. /\ u \in Volumes /\ u.fat = v.fat
      /\ \A r \in Places : BlockOf(u, r) = IF r = q THEN a ELSE BlockOf(v, r)
      /\ \A c \in Cluster : c # q.cluster => u.slot[c] = v.slot[c]
  <2>1. v \in Volumes /\ q \in Places /\ a \in Block
    BY <1>1, <1>2, <1>4
  <2>2. /\ u \in Volumes /\ u.fat = v.fat /\ Overwritten(v, q, a, u)
        /\ \A c \in Cluster : c # q.cluster => u.slot[c] = v.slot[c]
    BY <2>1, EntryPut
  <2> HIDE DEF u
  <2> QED
    BY <2>2 DEF Overwritten
<1> HIDE DEF u
<1>7. /\ w \in Volumes /\ w.fat = u.fat
      /\ \A r \in Places : BlockOf(w, r) = IF r = p THEN b ELSE BlockOf(u, r)
      /\ \A c \in Cluster : c # p.cluster => w.slot[c] = u.slot[c]
  <2>1. u \in Volumes /\ p \in Places /\ b \in Block
    BY <1>2, <1>5, <1>6
  <2>2. /\ w \in Volumes /\ w.fat = u.fat /\ Overwritten(u, p, b, w)
        /\ \A c \in Cluster : c # p.cluster => w.slot[c] = u.slot[c]
    BY <2>1, EntryPut
  <2> HIDE DEF w
  <2> QED
    BY <2>2 DEF Overwritten
<1> HIDE DEF w
<1>8. \A r \in Live(v) : r \in Places /\ BlockOf(v, r).kind = "live"
  BY DEF Live
<1>9. s \in [Live(v) -> Live(v)]
      /\ \A r \in Live(v) : s[r] = IF r = p THEN q ELSE IF r = q THEN p ELSE r
  OBVIOUS
<1> HIDE DEF s
<1>10. \A r, t \in Live(v) : s[r] = s[t] => r = t
  BY <1>9
<1>11. \A t \in Live(v) : \E r \in Live(v) : s[r] = t
  <2> SUFFICES ASSUME NEW t \in Live(v) PROVE \E r \in Live(v) : s[r] = t
    OBVIOUS
  <2>1. s[s[t]] = t /\ s[t] \in Live(v)
    BY <1>9
  <2> QED
    BY <2>1
<1>12. \A r \in Places \ Live(v) : BlockOf(w, r) = BlockOf(v, r)
  BY <1>6, <1>7
<1>13. ASSUME NEW r \in Live(v)
       PROVE  /\ BlockOf(w, r).kind = "live"
              /\ First(w, r) = First(v, s[r])
              /\ BlockOf(w, r).isDir = BlockOf(v, s[r]).isDir
              /\ BlockOf(w, r).size = BlockOf(v, s[r]).size
              /\ BlockOf(w, r).name = BlockOf(v, r).name
  <2>1. CASE r = p
    BY <1>5, <1>7, <1>8, <1>9, <2>1 DEF First
  <2>2. CASE r # p /\ r = q
    BY <1>4, <1>6, <1>7, <1>8, <1>9, <2>2 DEF First
  <2>3. CASE r # p /\ r # q
    BY <1>6, <1>7, <1>8, <1>9, <2>3 DEF First
  <2> QED
    BY <2>1, <2>2, <2>3
<1>14. \A r \in Live(v) : BlockOf(w, r).isDir => r.cluster = Root
  <2>1. ASSUME NEW r \in Live(v), BlockOf(v, s[r]).isDir PROVE r.cluster = Root
    BY <1>1, <1>9, <2>1 DEF Nesting
  <2> QED
    BY <1>13, <2>1
<1>15. \A r, t \in Live(v) :
         r.cluster = t.cluster /\ BlockOf(w, r).name = BlockOf(w, t).name => r = t
  BY <1>1, <1>13 DEF Dirs
<1>16. w.fat = v.fat
  BY <1>6, <1>7
<1>17. w \in Sound /\ Live(w) = Live(v)
  BY <1>7, <1>9, <1>10, <1>11, <1>12, <1>13, <1>14, <1>15, <1>16, EntriesMoved
<1>18. \A c \in Cluster \ DirClusters(v) : w.slot[c] = v.slot[c]
  BY <1>1, <1>6, <1>7 DEF Nesting
<1>19. /\ BlockOf(w, p) = b /\ (p # q => BlockOf(w, q) = a)
       /\ \A r \in Live(v) \ {p, q} : BlockOf(w, r) = BlockOf(v, r)
  BY <1>2, <1>6, <1>7, <1>8
<1>20. p = q => a = b
  BY DEF a, b
<1>21. Exchanged(v, p, q, w)
  BY <1>16, <1>17, <1>18, <1>19, <1>20 DEF Exchanged, EntriesOnly, a, b
<1> QED
  BY <1>3, <1>17, <1>21 DEF w

LEMMA SwapIsSound ==
  ASSUME NEW v \in Sound, NEW from, NEW to, NEW p, NEW q, IsAt(v, from, p), IsAt(v, to, q),
         BlockOf(v, p).isDir \/ BlockOf(v, q).isDir => p.cluster = Root /\ q.cluster = Root
  PROVE  LET r == AtomicSwap(v, from, to)
         IN  r.st = "ok" /\ r.v \in Sound /\ Exchanged(v, p, q, r.v)
<1>1. v \in Shaped
  BY SoundIsShaped
<1>2. /\ Locate(v, from).st = "ok" /\ Locate(v, from).at = p
      /\ Locate(v, to).st = "ok" /\ Locate(v, to).at = q
  BY <1>1, LocatedThere
<1>3. AtomicSwap(v, from, to) = [st |-> "ok", v |-> SwapAt(v, p, q, from, to)]
  BY <1>2 DEF AtomicSwap
<1>4. /\ p \in Live(v) /\ BlockOf(v, p).name = Basename(from)
      /\ q \in Live(v) /\ BlockOf(v, q).name = Basename(to)
  BY DEF IsAt
<1> DEFINE w == SwapAt(v, p, q, from, to)
<1>5. w \in Sound /\ Exchanged(v, p, q, w)
  BY <1>4, EntriesSwapped
<1> QED
  BY <1>3, <1>5

(* Two files change places: each path is where it was. *)
LEMMA FilesSwapped ==
  ASSUME NEW v, NEW p \in Live(v), NEW q \in Live(v), ~BlockOf(v, p).isDir, ~BlockOf(v, q).isDir,
         BlockOf(v, p) \in Block, BlockOf(v, q) \in Block,
         NEW w, Exchanged(v, p, q, w), NEW path, NEW r, IsAt(v, path, r)
  PROVE  IsAt(w, path, r) /\ ~BlockOf(w, p).isDir /\ ~BlockOf(w, q).isDir
<1>1. BlockOf(v, p).kind = "live" /\ BlockOf(v, q).kind = "live"
  BY DEF Live
<1>2. BlockOf(v, p).name \in Name /\ BlockOf(v, q).name \in Name
  BY <1>1, Blocks
<1>3. /\ BlockOf(w, p).name = BlockOf(v, p).name /\ ~BlockOf(w, p).isDir
      /\ BlockOf(w, q).name = BlockOf(v, q).name /\ ~BlockOf(w, q).isDir
  BY <1>1, <1>2, BlockRenamed DEF Exchanged
<1>4. Live(w) = Live(v) /\ \A h \in Live(v) \ {p, q} : BlockOf(w, h) = BlockOf(v, h)
  BY DEF Exchanged, EntriesOnly
<1>5. ASSUME NEW n, NEW d \in DirNamed(v, n) PROVE d \in DirNamed(w, n) /\ First(w, d) = First(v, d)
  BY <1>4 DEF DirNamed, First
<1>6. r \in Live(w) /\ BlockOf(w, r).name = Basename(path)
  BY <1>3, <1>4 DEF IsAt
<1>7. ASSUME Dirname(path) # <<>>
      PROVE  \E d \in DirNamed(w, Dirname(path)[1]) : r.cluster = First(w, d)
  BY <1>5, <1>7 DEF IsAt
<1> QED
  BY <1>3, <1>6, <1>7 DEF IsAt

(* What fatx_rename does across directories: the entries are swapped, and   *)
(* the one left at the old path is removed.                                 *)
SwappedOut(v, p, q, w) ==
  \E u \in Sound : Exchanged(v, p, q, u) /\ ~BlockOf(u, p).isDir /\ Without(u, p, w)

LEMMA SwapAndUnlinkIsSound ==
  ASSUME NEW v \in Sound, NEW from, NEW to, NEW p, NEW q, IsAt(v, from, p), IsAt(v, to, q),
         ~BlockOf(v, p).isDir, ~BlockOf(v, q).isDir
  PROVE  LET r == SwapAndUnlink(v, from, to)
         IN  r.st = "ok" /\ r.v \in Sound /\ SwappedOut(v, p, q, r.v)
<1> DEFINE s == AtomicSwap(v, from, to)
           u == s.v
           r == Unlink(u, from)
<1>1. s.st = "ok" /\ u \in Sound /\ Exchanged(v, p, q, u)
  BY SwapIsSound
<1>2. SwapAndUnlink(v, from, to) = r
  BY <1>1 DEF SwapAndUnlink
<1> HIDE DEF s, u
<1>3. p \in Live(v) /\ q \in Live(v) /\ BlockOf(v, p) \in Block /\ BlockOf(v, q) \in Block
  BY SoundIsShaped, LiveType DEF IsAt
<1>4. IsAt(u, from, p) /\ ~BlockOf(u, p).isDir
  BY <1>1, <1>3, FilesSwapped
<1>5. r.st = "ok" /\ r.v \in Sound /\ Without(u, p, r.v)
  BY <1>1, <1>4, UnlinkIsSound
<1> HIDE DEF r
<1>6. SwappedOut(v, p, q, r.v)
  BY <1>1, <1>4, <1>5 DEF SwappedOut
<1> QED
  BY <1>2, <1>5, <1>6

-----------------------------------------------------------------------------
(* A node is made. *)

(* The entries of a directory have names of their own: as long as one name  *)
(* is not among them, they are fewer than the names.                        *)
LEMMA RoomFor ==
  ASSUME IsFiniteSet(Name), NEW v \in Shaped, NEW c \in DirClusters(v), NEW u \in 0 .. N - 1,
         \A i \in 0 .. u - 1 : v.slot[c][i].kind = "live",
         NEW n \in Name, \A q \in Live(v) : q.cluster = c => BlockOf(v, q).name # n
  PROVE  u + 1 <= Cardinality(Name)
<1> DEFINE I == 0 .. u - 1
           T == Name \ {n}
           f == [i \in I |-> v.slot[c][i].name]
<1>1. v \in Volumes /\ Dirs(v) /\ c \in Cluster /\ v.fat[c] # Available
  BY DirCluster DEF Shaped
<1>2. u \in Nat /\ u \in Int /\ u - 1 \in Int /\ I \subseteq 0 .. N - 1
  BY OpsAssumption
<1>3. ASSUME NEW i \in I
      PROVE  /\ Place(c, i) \in Live(v) /\ Place(c, i).cluster = c
             /\ BlockOf(v, Place(c, i)).name = f[i] /\ f[i] \in T
  <2>1. i \in 0 .. N - 1
    BY <1>2
  <2>2. /\ Place(c, i) \in Places /\ Place(c, i).cluster = c
        /\ BlockOf(v, Place(c, i)) = v.slot[c][i]
    BY <1>1, <2>1 DEF Place, Places, BlockOf
  <2>3. Place(c, i) \in Live(v)
    BY <1>1, <2>2 DEF Live
  <2>4. BlockOf(v, Place(c, i)).name \in Name
    BY <1>1, <2>3, LiveType
  <2> QED
    BY <2>2, <2>3, <2>4
<1>4. f \in [I -> T]
  BY <1>3
<1>5. ASSUME NEW i \in I, NEW j \in I, f[i] = f[j] PROVE i = j
  <2>1. Place(c, i) = Place(c, j)
    BY <1>1, <1>3, <1>5 DEF Dirs
  <2> QED
    BY <2>1 DEF Place
<1> HIDE DEF f
<1>6. IsFiniteSet(T) /\ Cardinality(T) = Cardinality(Name) - 1
  BY FS_RemoveElement
<1>7. Cardinality(I) = u
  <2>1. Cardinality(I) = IF 0 > u - 1 THEN 0 ELSE (u - 1) - 0 + 1
    BY <1>2, FS_Interval
  <2> QED
    BY <1>2, <2>1
<1>8. Cardinality(Name) \in Nat
  BY FS_CardinalityType
<1> HIDE DEF I, T
<1>9. f \in Injection(I, T)
  BY <1>4, <1>5 DEF Injection, IsInjective
<1>10. Cardinality(I) <= Cardinality(T)
  BY <1>6, <1>9, FS_Injection
<1> QED
  BY <1>2, <1>6, <1>7, <1>8, <1>10

(* A free cluster is no one's. *)
LEMMA FreeIsFree ==
  ASSUME NEW v \in Shaped, NEW c \in Cluster, v.fat[c] = Available
  PROVE  /\ c # Root /\ c \notin DirClusters(v)
         /\ \A d \in Cluster : v.fat[d] # c
         /\ \A q \in Live(v) : First(v, q) # c /\ q.cluster # c
<1>1. v \in Volumes /\ Links(v.fat) /\ Heads(v) /\ Nesting(v) /\ Root \in Cluster
  BY Starts DEF Shaped
<1>2. Available # End
  BY Entries, OpsAssumption DEF Available, End
<1>3. \A q \in Live(v) : First(v, q) # c /\ q.cluster # c
  BY <1>1, LiveType DEF Heads
<1>4. c # Root /\ c \notin DirClusters(v)
  BY <1>2, DirCluster, RootIsDir
<1> QED
  BY <1>1, <1>3, <1>4 DEF Links

LEMMA AllocIsSound ==
  ASSUME NEW v \in Sound
  PROVE  LET a == AllocCluster(v, TRUE)
         IN  /\ a.st # "ok" => Full(v)
             /\ a.st = "ok" =>
                  /\ v.fat[a.cluster] = Available
                  /\ \A d \in Cluster \ {a.cluster} : a.v.fat[d] = v.fat[d] /\ a.v.slot[d] = v.slot[d]
                  /\ a.v \in Sound /\ SameEntries(v, a.v) /\ DirClusters(a.v) = DirClusters(v)
                  /\ a.cluster \in Cluster \ DirClusters(v) /\ a.cluster # Root
                  /\ a.v.fat[a.cluster] = End /\ a.v.slot[a.cluster] = Cleared
                  /\ \A d \in Cluster : a.v.fat[d] # a.cluster
                  /\ \A q \in Live(v) : First(v, q) # a.cluster
<1> DEFINE a == AllocCluster(v, TRUE)
           w == a.v
           c == a.cluster
<1>1. v \in Shaped /\ v \in Volumes /\ SizesFit(v)
  BY SoundIsShaped
<1>2. /\ a.st \in {"ok", "error"} /\ w \in Volumes
      /\ a.st = "error" => NoneLeft(v)
      /\ a.st = "ok" =>
           /\ c \in 2 .. D /\ v.fat[c] = Available
           /\ w.fat = [v.fat EXCEPT ![c] = End]
           /\ w.slot = [v.slot EXCEPT ![c] = Cleared]
  <2> DEFINE zero == TRUE
             r == AllocCluster(v, zero)
  <2>1. zero /\ r = a
    OBVIOUS
  <2> HIDE DEF zero
  <2>2. /\ r.st \in {"ok", "error"} /\ r.v \in Volumes
        /\ r.st = "error" => NoneLeft(v)
        /\ r.st = "ok" =>
             /\ r.cluster \in 2 .. D /\ v.fat[r.cluster] = Available
             /\ r.v.fat = [v.fat EXCEPT ![r.cluster] = End]
             /\ r.v.slot = IF zero THEN [v.slot EXCEPT ![r.cluster] = Cleared] ELSE v.slot
    BY <1>1, Allocated DEF NoneLeft
  <2> HIDE DEF r
  <2> QED
    BY <2>1, <2>2
<1> HIDE DEF a
<1> SUFFICES ASSUME a.st = "ok"
             PROVE  /\ v.fat[c] = Available
                    /\ \A d \in Cluster \ {c} : w.fat[d] = v.fat[d] /\ w.slot[d] = v.slot[d]
                    /\ w \in Sound /\ SameEntries(v, w) /\ DirClusters(w) = DirClusters(v)
                    /\ c \in Cluster \ DirClusters(v) /\ c # Root
                    /\ w.fat[c] = End /\ w.slot[c] = Cleared
                    /\ \A d \in Cluster : w.fat[d] # c
                    /\ \A q \in Live(v) : First(v, q) # c
  BY <1>2, NoneFree DEF a
<1>3. c \in Cluster /\ v.fat[c] = Available
  BY <1>2 DEF Cluster
<1>4. /\ c # Root /\ c \notin DirClusters(v)
      /\ \A d \in Cluster : v.fat[d] # c
      /\ \A q \in Live(v) : First(v, q) # c
  BY <1>1, <1>3, FreeIsFree
<1>5. /\ v.fat \in [Cluster -> Entry] /\ v.slot \in Slots
      /\ c \in 1 .. D + 1 /\ Cluster \subseteq 1 .. D + 1
  BY <1>1, <1>3, Entries DEF Volumes, VolumeType
<1>6. /\ w.fat[c] = End /\ w.slot[c] = Cleared
      /\ \A d \in Cluster \ {c} : w.fat[d] = v.fat[d] /\ w.slot[d] = v.slot[d]
  BY <1>2, <1>3, <1>5 DEF Slots
<1>7. End \notin Cluster /\ Available # End /\ Root \in Cluster
  BY Entries, Starts, OpsAssumption DEF Available, End
<1> HIDE DEF w, c
<1>8. Links(w.fat)
  <2>1. Links(v.fat)
    BY <1>1 DEF Shaped
  <2>2. w.fat[Root] = End /\ \A d \in Cluster : w.fat[d] \in {Available, End, v.fat[d]}
    BY <1>4, <1>6, <1>7, <2>1 DEF Links
  <2>3. \A d \in Cluster : w.fat[d] \in Cluster => w.fat[w.fat[d]] # Available
    BY <1>4, <1>6, <1>7, <2>1 DEF Links
  <2> QED
    BY <2>1, <2>2, <2>3, LinksTakenAway
<1>9. \A d \in DirClusters(v) : w.slot[d] = v.slot[d] /\ w.fat[d] = v.fat[d]
  BY <1>1, <1>4, <1>6, DirCluster
<1>10. ASSUME NEW d \in Cluster \ DirClusters(v), w.fat[d] # Available
       PROVE  w.slot[d] \in [0 .. N - 1 -> DataBlock]
  <2>1. CASE d = c
    BY <1>6, <2>1, ClearedIsData
  <2>2. CASE d # c
    BY <1>1, <1>6, <1>10, <2>2 DEF Shaped, Data
  <2> QED
    BY <2>1, <2>2
<1>11. ASSUME NEW q \in Live(v)
       PROVE  /\ First(v, q) \in Cluster
              /\ w.fat[First(v, q)] # Available /\ \A d \in Cluster : w.fat[d] # First(v, q)
  <2>1. First(v, q) \in Cluster
    BY <1>1, LiveType
  <2>2. v.fat[First(v, q)] # Available /\ \A d \in Cluster : v.fat[d] # First(v, q)
    BY <1>1 DEF Shaped, Heads
  <2> QED
    BY <1>4, <1>6, <1>7, <2>1, <2>2
<1>12. w \in Shaped /\ SameEntries(v, w) /\ DirClusters(w) = DirClusters(v)
  <2>1. w \in Volumes /\ \A q \in Live(v) :
          w.fat[First(v, q)] # Available /\ \A d \in Cluster : w.fat[d] # First(v, q)
    BY <1>2, <1>11 DEF w
  <2> QED
    BY <1>1, <1>8, <1>9, <1>10, <2>1, FilesChanged
<1>13. SizesFit(w)
  <2> SUFFICES ASSUME NEW q \in Live(w), ~BlockOf(w, q).isDir
               PROVE  BlockOf(w, q).size <= N * Len(Chain(w, First(w, q)))
    BY DEF SizesFit
  <2>1. q \in Live(v) /\ BlockOf(w, q) = BlockOf(v, q) /\ First(w, q) = First(v, q)
    BY <1>12 DEF SameEntries, First
  <2>2. \A d \in ChainSet(v, First(v, q)) : d \in Cluster /\ v.fat[d] # Available
    BY <1>1, <2>1, ChainOfEntry
  <2>3. \A d \in ChainSet(v, First(v, q)) : w.fat[d] = v.fat[d]
    BY <1>3, <1>6, <2>2
  <2>4. Chain(w, First(v, q)) = Chain(v, First(v, q))
    <3>1. w \in Volumes /\ First(v, q) \in Cluster
      BY <1>2, <1>11, <2>1 DEF w
    <3> QED
      BY <1>1, <2>3, <3>1, ChainKept
  <2> QED
    BY <1>1, <2>1, <2>4 DEF SizesFit
<1>14. \A d \in Cluster : w.fat[d] # c
  BY <1>3, <1>4, <1>6, <1>7
<1> QED
  BY <1>3, <1>4, <1>6, <1>12, <1>13, <1>14 DEF Sound

(* Block b is put at r, and the end marker moved on if need be. *)
EntryIn(v, r, b, w) ==
  /\ w \in Volumes /\ w.fat = v.fat
  /\ \A c \in Cluster \ {r.cluster} : w.slot[c] = v.slot[c]
  /\ \E u \in 0 .. N - 1 : u <= Cardinality(Name) /\ Filling(w.slot[r.cluster], u)
  /\ BlockOf(w, r) = b
  /\ \A p \in Places \ {r} :
       \/ BlockOf(w, p) = BlockOf(v, p)
       \/ BlockOf(w, p).kind # "live" /\ BlockOf(v, p).kind # "live"

(* fatx_alloc_dir_entry finds an entry, and keeps the end marker inside.    *)
LEMMA EntryMade ==
  ASSUME IsFiniteSet(Name), Cardinality(Name) < N,
         NEW v \in Shaped, NEW k \in DirClusters(v), NEW b \in Block, b.kind = "live",
         \A q \in Live(v) : q.cluster = k => BlockOf(v, q).name # b.name
  PROVE  LET e == AllocDirEntry(v, Place(k, 0))
         IN  /\ e.st = "ok" /\ e.at \in Places \ Live(v) /\ e.at.cluster = k
             /\ EntryIn(v, e.at, b, Put(e.v, e.at, b))
<1> DEFINE wanted == {q \in Places : At(v, q).kind = "deleted"}
           s == Scan(v, Place(k, 0), wanted)
           e == AllocDirEntry(v, Place(k, 0))
<1>1. v \in Volumes /\ k \in Cluster
  BY DirCluster
<1>2. PICK u \in 0 .. N - 1 : u <= Cardinality(Name) /\ Filling(v.slot[k], u)
  BY DirCluster
<1>3. ASSUME NEW i \in 0 .. N - 1
      PROVE  /\ Place(k, i) \in Places /\ Place(k, i).cluster = k /\ Place(k, i).entry = i
             /\ BlockOf(v, Place(k, i)) = v.slot[k][i] /\ At(v, Place(k, i)) = v.slot[k][i]
  <2>1. Place(k, i) \in Places /\ Place(k, i).cluster = k /\ Place(k, i).entry = i
    BY <1>1 DEF Place, Places
  <2> QED
    BY <1>1, <2>1, BlockAt, PlacesAreWritable DEF BlockOf
<1>4. v.slot[k] \in [0 .. N - 1 -> Block]
  BY <1>1, Entries DEF Volumes, VolumeType, Slots
<1>5. /\ Blank.kind # "deleted" /\ EndMark.kind # "deleted"
      /\ Blank.kind # "live" /\ EndMark.kind # "live" /\ DeletedMark.kind # "live"
      /\ EndMark \in Block /\ u \in Nat
  BY Blocks DEF Blank, EndMark, DeletedMark
<1>6. \A i \in u .. N - 1 : i \in 0 .. N - 1 /\ ~(i < u) /\ v.slot[k][i] \in {Blank, EndMark}
  BY <1>2 DEF Filling
<1>7. \A i \in u .. N - 1 : Place(k, i) \notin wanted
  BY <1>3, <1>5, <1>6
<1>8. \/ s.st = "ok" /\ s.at \in wanted /\ s.at.cluster = k
      \/ /\ s = [st |-> "not_found", at |-> Place(k, u)]
         /\ \A i \in 0 .. N - 1 : Place(k, i) \notin wanted
  <2> HIDE DEF wanted
  <2> QED
    BY <1>2, <1>7, DirScan
<1>9. e = TakeDirEntry(v, s)
  BY DEF AllocDirEntry, Place
<1> HIDE DEF s, e
<1>10. CASE s.st = "ok" /\ s.at \in wanted /\ s.at.cluster = k
  <2> DEFINE r == s.at
             i == r.entry
             w == Put(v, r, b)
  <2>1. e.st = "ok" /\ e.v = v /\ e.at = r
    BY <1>9, <1>10 DEF TakeDirEntry
  <2>2. r \in Places /\ i \in 0 .. N - 1 /\ r = Place(k, i) /\ At(v, r).kind = "deleted"
    BY <1>10 DEF Places, Place
  <2>3. BlockOf(v, r).kind = "deleted" /\ v.slot[k][i].kind = "deleted"
    BY <1>3, <2>2
  <2>4. r \notin Live(v) /\ i < u
    BY <1>5, <2>2, <2>3, <1>2 DEF Live, Filling
  <2>5. /\ w \in Volumes /\ w.fat = v.fat
        /\ \A c \in Cluster : c # r.cluster => w.slot[c] = v.slot[c]
        /\ w.slot[r.cluster] = [v.slot[r.cluster] EXCEPT ![r.entry] = b]
        /\ Overwritten(v, r, b, w)
    BY <1>1, <2>2, EntryPut
  <2> HIDE DEF r, i, w
  <2>6. r.cluster = k /\ r.entry = i
    BY <1>10 DEF r, i
  <2>7. Filling(w.slot[k], u)
    <3> SUFFICES ASSUME NEW j \in 0 .. N - 1
                 PROVE  IF j < u THEN w.slot[k][j] = DeletedMark \/ w.slot[k][j].kind = "live"
                        ELSE w.slot[k][j] \in {Blank, EndMark}
      BY DEF Filling
    <3>1. w.slot[k][j] = IF j = i THEN b ELSE v.slot[k][j]
      BY <1>4, <2>2, <2>5, <2>6
    <3> QED
      BY <1>2, <2>4, <3>1 DEF Filling
  <2>8. /\ BlockOf(w, r) = b
        /\ \A p \in Places \ {r} : BlockOf(w, p) = BlockOf(v, p)
    BY <2>2, <2>5 DEF Overwritten
  <2>9. EntryIn(v, r, b, w)
    BY <1>2, <2>5, <2>6, <2>7, <2>8 DEF EntryIn
  <2> QED
    BY <2>1, <2>2, <2>4, <2>6, <2>9 DEF w, e
<1>11. CASE s = [st |-> "not_found", at |-> Place(k, u)] /\ \A i \in 0 .. N - 1 : Place(k, i) \notin wanted
  <2> DEFINE r == Place(k, u)
             x == Place(k, u + 1)
             z == Put(v, x, EndMark)
             w == Put(z, r, b)
  <2>1. \A i \in 0 .. u - 1 : v.slot[k][i].kind = "live"
    <3> SUFFICES ASSUME NEW i \in 0 .. u - 1 PROVE v.slot[k][i].kind = "live"
      OBVIOUS
    <3>1. i \in 0 .. N - 1 /\ i < u
      BY <1>5, OpsAssumption
    <3>2. v.slot[k][i].kind # "deleted"
      BY <1>3, <1>11, <3>1
    <3>3. DeletedMark.kind = "deleted"
      BY DEF DeletedMark
    <3> QED
      BY <1>2, <3>1, <3>2, <3>3 DEF Filling
  <2>2. u + 1 <= Cardinality(Name)
    <3>1. b.name \in Name
      BY Blocks
    <3> QED
      BY <2>1, <3>1, RoomFor
  <2>3. u + 1 \in 0 .. N - 1
    <3>1. Cardinality(Name) \in Nat
      BY FS_CardinalityType
    <3> QED
      BY <1>5, <2>2, <3>1, OpsAssumption
  <2>4. /\ r \in Places /\ r.cluster = k /\ r.entry = u
        /\ x \in Places /\ x.cluster = k /\ x.entry = u + 1
    BY <1>3, <2>3
  <2>5. e.st = "ok" /\ e.v = z /\ e.at = r
    BY <1>9, <1>11, <2>4 DEF TakeDirEntry
  <2> HIDE DEF r, x
  <2>6. /\ z \in Volumes /\ z.fat = v.fat
        /\ \A c \in Cluster : c # x.cluster => z.slot[c] = v.slot[c]
        /\ z.slot[x.cluster] = [v.slot[x.cluster] EXCEPT ![x.entry] = EndMark]
        /\ Overwritten(v, x, EndMark, z)
    BY <1>1, <1>5, <2>4, EntryPut
  <2> HIDE DEF z
  <2>7. /\ w \in Volumes /\ w.fat = z.fat
        /\ \A c \in Cluster : c # r.cluster => w.slot[c] = z.slot[c]
        /\ w.slot[r.cluster] = [z.slot[r.cluster] EXCEPT ![r.entry] = b]
        /\ Overwritten(z, r, b, w)
    BY <2>4, <2>6, EntryPut
  <2> HIDE DEF w
  <2>8. v.slot[k][u] \in {Blank, EndMark} /\ v.slot[k][u + 1] \in {Blank, EndMark}
    BY <1>6, <2>3
  <2>9. BlockOf(v, r) = v.slot[k][u] /\ BlockOf(v, x) = v.slot[k][u + 1]
    BY <1>3, <2>3 DEF r, x
  <2>10. Filling(w.slot[k], u + 1)
    <3> SUFFICES ASSUME NEW j \in 0 .. N - 1
                 PROVE  IF j < u + 1 THEN w.slot[k][j] = DeletedMark \/ w.slot[k][j].kind = "live"
                        ELSE w.slot[k][j] \in {Blank, EndMark}
      BY DEF Filling
    <3>1. z.slot[k][j] = IF j = u + 1 THEN EndMark ELSE v.slot[k][j]
      BY <1>4, <2>3, <2>4, <2>6
    <3>2. w.slot[k][j] = IF j = u THEN b ELSE z.slot[k][j]
      <4>1. z.slot[k] \in [0 .. N - 1 -> Block]
        BY <1>1, <2>6, Entries DEF Volumes, VolumeType, Slots
      <4> QED
        BY <2>4, <2>7, <4>1
    <3> QED
      BY <1>2, <1>5, <3>1, <3>2 DEF Filling
  <2>11. /\ BlockOf(w, r) = b
         /\ \A p \in Places \ {r} :
              \/ BlockOf(w, p) = BlockOf(v, p)
              \/ BlockOf(w, p).kind # "live" /\ BlockOf(v, p).kind # "live"
    BY <1>5, <2>4, <2>6, <2>7, <2>8, <2>9 DEF Overwritten
  <2>12. EntryIn(v, r, b, w)
    <3>1. w.fat = v.fat /\ \A c \in Cluster \ {k} : w.slot[c] = v.slot[c]
      BY <2>4, <2>6, <2>7
    <3> QED
      BY <2>2, <2>3, <2>4, <2>7, <2>10, <2>11, <3>1 DEF EntryIn
  <2>13. r \notin Live(v)
    BY <1>5, <2>8, <2>9 DEF Live
  <2> QED
    BY <2>4, <2>5, <2>12, <2>13 DEF w, e
<1> QED
  BY <1>8, <1>10, <1>11 DEF e

(* Besides what v has there is a live entry at r. *)
With(v, r, w) ==
  /\ Live(w) = Live(v) \cup {r}
  /\ \A q \in Live(v) : BlockOf(w, q) = BlockOf(v, q)

LEMMA EntryAdded ==
  ASSUME IsFiniteSet(Name), NEW v \in Sound, NEW c \in Cluster \ DirClusters(v), c # Root,
         v.fat[c] = End, v.slot[c] = Cleared, \A d \in Cluster : v.fat[d] # c,
         \A q \in Live(v) : First(v, q) # c,
         NEW r \in Places \ Live(v), r.cluster \in DirClusters(v),
         NEW n \in Name, NEW isDir \in BOOLEAN, isDir => r.cluster = Root,
         \A q \in Live(v) : q.cluster = r.cluster => BlockOf(v, q).name # n,
         NEW w, EntryIn(v, r, Dirent(n, isDir, c, 0), w)
  PROVE  w \in Sound /\ With(v, r, w)
<1> DEFINE b == Dirent(n, isDir, c, 0)
<1>1. /\ v \in Shaped /\ v \in Volumes /\ SizesFit(v)
      /\ Links(v.fat) /\ Heads(v) /\ Nesting(v) /\ Dirs(v) /\ Data(v)
  BY SoundIsShaped DEF Shaped
<1>2. /\ w \in Volumes /\ w.fat = v.fat
      /\ \A d \in Cluster \ {r.cluster} : w.slot[d] = v.slot[d]
      /\ \E u \in 0 .. N - 1 : u <= Cardinality(Name) /\ Filling(w.slot[r.cluster], u)
      /\ BlockOf(w, r) = b
      /\ \A p \in Places \ {r} :
           \/ BlockOf(w, p) = BlockOf(v, p)
           \/ BlockOf(w, p).kind # "live" /\ BlockOf(v, p).kind # "live"
  BY DEF EntryIn
<1>3. /\ b.kind = "live" /\ b.name = n /\ b.isDir = isDir /\ b.first = c /\ b.size = 0
  BY DEF Dirent
<1> HIDE DEF b
<1>4. r.cluster \in Cluster /\ r.cluster # c /\ v.fat[r.cluster] # Available
  BY <1>1, DirCluster
<1>5. Live(w) = Live(v) \cup {r}
  <2>1. r \in Live(w)
    BY <1>2, <1>3, <1>4 DEF Live
  <2>2. \A p \in Places \ {r} : p \in Live(w) <=> p \in Live(v)
    BY <1>2 DEF Live
  <2> QED
    BY <2>1, <2>2 DEF Live
<1>6. \A q \in Live(v) : q # r /\ BlockOf(w, q) = BlockOf(v, q) /\ First(w, q) = First(v, q)
  BY <1>2 DEF Live, First
<1>7. First(w, r) = c /\ BlockOf(w, r).isDir = isDir /\ BlockOf(w, r).name = n /\ BlockOf(w, r).size = 0
  BY <1>2, <1>3 DEF First
<1>8. /\ \A d \in DirClusters(v) : d \in DirClusters(w)
      /\ \A d \in DirClusters(w) : d \in DirClusters(v) \/ (isDir /\ d = c)
  BY <1>5, <1>6, <1>7 DEF DirClusters
<1>9. Available # End /\ End \notin Cluster
  BY Entries, OpsAssumption DEF Available, End
<1>10. Heads(w)
  <2>1. \A q \in Live(w) : w.fat[First(w, q)] # Available /\ \A d \in Cluster : w.fat[d] # First(w, q)
    BY <1>1, <1>2, <1>5, <1>6, <1>7, <1>9 DEF Heads
  <2>2. ASSUME NEW p \in Live(w), NEW q \in Live(w), First(w, p) = First(w, q) PROVE p = q
    BY <1>1, <1>5, <1>6, <1>7, <2>2 DEF Heads
  <2> QED
    BY <2>1, <2>2 DEF Heads
<1>11. Nesting(w)
  BY <1>1, <1>2, <1>5, <1>6, <1>7, <1>8 DEF Nesting
<1>12. Dirs(w)
  <2>1. ASSUME NEW d \in DirClusters(w)
        PROVE  \E u \in 0 .. N - 1 : u <= Cardinality(Name) /\ Filling(w.slot[d], u)
    <3>1. CASE d = r.cluster
      BY <1>2, <3>1
    <3>2. CASE d # r.cluster /\ d \in DirClusters(v)
      <4>1. d \in Cluster /\ \E u \in 0 .. N - 1 : u <= Cardinality(Name) /\ Filling(v.slot[d], u)
        BY <1>1, <3>2, DirCluster
      <4> QED
        BY <1>2, <3>2, <4>1
    <3>3. CASE d = c
      <4>1. w.slot[d] = Cleared
        BY <1>2, <1>4, <3>3
      <4>2. Filling(w.slot[d], 0)
        BY <4>1 DEF Filling, Cleared
      <4>3. 0 \in 0 .. N - 1 /\ 0 <= Cardinality(Name)
        <5>1. Cardinality(Name) \in Nat
          BY FS_CardinalityType
        <5> QED
          BY <5>1, OpsAssumption
      <4> QED
        BY <4>2, <4>3
    <3> QED
      BY <1>8, <3>1, <3>2, <3>3
  <2>2. ASSUME NEW p \in Live(w), NEW q \in Live(w),
               p.cluster = q.cluster, BlockOf(w, p).name = BlockOf(w, q).name
        PROVE  p = q
    BY <1>1, <1>5, <1>6, <1>7, <2>2 DEF Dirs
  <2> QED
    BY <2>1, <2>2 DEF Dirs
<1>13. Data(w)
  BY <1>1, <1>2, <1>8 DEF Data
<1>14. SizesFit(w)
  <2> SUFFICES ASSUME NEW q \in Live(w), ~BlockOf(w, q).isDir
               PROVE  BlockOf(w, q).size <= N * Len(Chain(w, First(w, q)))
    BY DEF SizesFit
  <2>1. CASE q = r
    <3> DEFINE m == Len(Chain(w, c))
    <3>1. m \in 1 .. D
      BY <1>2, Chained
    <3>2. m \in Nat
      BY <3>1
    <3> HIDE DEF m
    <3>3. 0 <= N * m
      BY <3>2, OpsAssumption
    <3> QED
      BY <1>7, <2>1, <3>3 DEF m
  <2>2. CASE q # r
    <3>1. q \in Live(v) /\ BlockOf(w, q) = BlockOf(v, q) /\ First(w, q) = First(v, q)
      BY <1>5, <1>6, <2>2
    <3>2. First(v, q) \in Cluster
      BY <1>1, <3>1, LiveType
    <3>3. Chain(w, First(v, q)) = Chain(v, First(v, q))
      BY <1>1, <1>2, <3>2, ChainsStay
    <3> QED
      BY <1>1, <3>1, <3>3 DEF SizesFit
  <2> QED
    BY <2>1, <2>2
<1>15. w \in Shaped
  BY <1>1, <1>2, <1>10, <1>11, <1>12, <1>13 DEF Shaped
<1> QED
  BY <1>5, <1>6, <1>14, <1>15 DEF Sound, With

(* A node of no size is made at a path, of a cluster that was free. *)
Made(v, path, isDir, q, w) ==
  /\ q \notin Live(v) /\ With(v, q, w) /\ IsAt(w, path, q)
  /\ BlockOf(w, q).isDir = isDir /\ BlockOf(w, q).size = 0
  /\ v.fat[First(w, q)] = Available
  /\ \A c \in Cluster \ {First(w, q)} :
       w.fat[c] = v.fat[c] /\ (c \notin DirClusters(v) => w.slot[c] = v.slot[c])

(* Nothing is at the path, in a directory that is there. *)
CanMake(v, path) == Locate(v, path).st # "ok" /\ OpenDir(v, Dirname(path)).st = "ok"

LEMMA CreateIsSound ==
  ASSUME IsFiniteSet(Name), Cardinality(Name) < N,
         NEW v \in Sound, NEW path, Basename(path) \in Name, NEW isDir \in BOOLEAN,
         isDir => Dirname(path) = <<>>, CanMake(v, path)
  PROVE  LET r == Create(v, path, isDir)
         IN  /\ r.v \in Sound
             /\ r.st # "ok" => r.v = v /\ Full(v)
             /\ r.st = "ok" =>
                  \E q : Made(v, path, isDir, q, r.v) /\ r.v.slot[First(r.v, q)] = Cleared
<1> DEFINE d == OpenDir(v, Dirname(path))
           a == AllocCluster(v, TRUE)
           y == a.v
           c == a.cluster
           k == d.at.cluster
           n == Basename(path)
           b == Dirent(n, isDir, c, 0)
           e == AllocDirEntry(y, d.at)
           w == Put(e.v, e.at, b)
           r == Create(v, path, isDir)
<1>1. v \in Shaped /\ v \in Volumes
  BY SoundIsShaped
<1>0. GetAttr(v, path).st # "ok" /\ d.st = "ok"
  BY <1>1, Got DEF CanMake
<1>2. CASE a.st # "ok"
  <2>1. r.v = v /\ r.st # "ok"
    BY <1>0, <1>2 DEF Create, CreateDirent
  <2>2. Full(v)
    BY <1>2, AllocIsSound
  <2> QED
    BY <2>1, <2>2
<1>3. CASE GetAttr(v, path).st # "ok" /\ d.st = "ok" /\ a.st = "ok"
  <2>1. /\ v.fat[c] = Available
        /\ \A h \in Cluster \ {c} : y.fat[h] = v.fat[h] /\ y.slot[h] = v.slot[h]
        /\ y \in Sound /\ SameEntries(v, y) /\ DirClusters(y) = DirClusters(v)
        /\ c \in Cluster \ DirClusters(v) /\ c # Root
        /\ y.fat[c] = End /\ y.slot[c] = Cleared
        /\ \A h \in Cluster : y.fat[h] # c
        /\ \A q \in Live(v) : First(v, q) # c
    BY <1>3, AllocIsSound
  <2>2. /\ k \in DirClusters(v) /\ d.at = Place(k, 0)
        /\ Dirname(path) = <<>> => k = Root
        /\ Dirname(path) # <<>> => \E h \in DirNamed(v, Dirname(path)[1]) : k = First(v, h)
    <3> DEFINE D1 == Dirname(path)
    <3> HIDE DEF D1
    <3>1. LET o == OpenDir(v, D1)
          IN  /\ D1 = <<>> => o.st = "ok" /\ o.at = Place(Root, 0)
              /\ D1 # <<>> =>
                   \/ o.st = "ok" /\ \E h \in DirNamed(v, D1[1]) : o.at = Place(First(v, h), 0)
                   \/ o.st = "not_found" /\ DirNamed(v, D1[1]) = {}
              /\ o.st = "ok" => o.at.cluster \in DirClusters(v) /\ o.at = Place(o.at.cluster, 0)
      BY <1>1, OpenedDir
    <3>2. d = OpenDir(v, D1)
      BY DEF D1
    <3>3. \A x : Place(x, 0).cluster = x
      BY DEF Place
    <3> DEFINE g == d.at
    <3>4. g = d.at /\ k = g.cluster /\ d.st = "ok"
      BY <1>3
    <3> HIDE DEF d, k
    <3>5. /\ D1 = <<>> => d.at = Place(Root, 0)
          /\ D1 # <<>> => \E h \in DirNamed(v, D1[1]) : d.at = Place(First(v, h), 0)
          /\ d.at.cluster \in DirClusters(v) /\ d.at = Place(d.at.cluster, 0)
      BY <3>1, <3>2, <3>4
    <3> HIDE DEF g
    <3>6. D1 # <<>> => \E h \in DirNamed(v, D1[1]) : k = First(v, h)
      BY <3>3, <3>4, <3>5
    <3>7. k \in DirClusters(v) /\ d.at = Place(k, 0) /\ (D1 = <<>> => k = Root)
      BY <3>3, <3>4, <3>5
    <3> QED
      BY <3>6, <3>7 DEF D1
  <2>3. \A q \in Live(v) : q.cluster = k => BlockOf(v, q).name # n
    <3>1. Locate(v, path).st # "ok"
      BY <1>1, <1>3, Got
    <3> QED
      BY <1>1, <1>3, <3>1, LocatedIn
  <2>4. r = FillDirEntry(e, n, isDir, c)
    BY <1>3 DEF Create, CreateDirent
  <2> HIDE DEF d, y, c, k, n, r
  <2>5. y \in Shaped /\ y \in Volumes
    BY <2>1, SoundIsShaped
  <2>6. b \in Block /\ b.kind = "live" /\ b.name = n /\ n \in Name
    <3>1. 0 \in FileSize
      BY DEF FileSize
    <3> QED
      BY <2>1, <3>1, Blocks DEF Dirent, n
  <2>7. \A q \in Live(y) : q.cluster = k => BlockOf(y, q).name # n
    BY <2>1, <2>3 DEF SameEntries
  <2>8. /\ e.st = "ok" /\ e.at \in Places \ Live(y) /\ e.at.cluster = k
        /\ EntryIn(y, e.at, b, w)
    <3> HIDE DEF b
    <3>1. k \in DirClusters(y) /\ \A q \in Live(y) : q.cluster = k => BlockOf(y, q).name # b.name
      BY <2>1, <2>2, <2>6, <2>7
    <3>2. LET g == AllocDirEntry(y, Place(k, 0))
          IN  /\ g.st = "ok" /\ g.at \in Places \ Live(y) /\ g.at.cluster = k
              /\ EntryIn(y, g.at, b, Put(g.v, g.at, b))
      BY <2>5, <2>6, <3>1, EntryMade
    <3> QED
      BY <2>2, <3>2
  <2>9. r = [st |-> "ok", v |-> w]
    BY <2>4, <2>8 DEF FillDirEntry
  <2> DEFINE q == e.at
  <2> HIDE DEF e, w
  <2>10. w \in Sound /\ With(y, q, w)
    <3>1. /\ q \in Places \ Live(y) /\ q.cluster \in DirClusters(y) /\ EntryIn(y, q, b, w)
          /\ isDir => q.cluster = Root
          /\ \A h \in Live(y) : h.cluster = q.cluster => BlockOf(y, h).name # n
          /\ c \in Cluster \ DirClusters(y)
          /\ \A h \in Live(y) : First(y, h) # c
      BY <2>1, <2>2, <2>7, <2>8 DEF SameEntries, First
    <3> HIDE DEF q
    <3> QED
      BY <2>1, <2>6, <3>1, EntryAdded
  <2>11. q \notin Live(v) /\ With(v, q, w)
    BY <2>1, <2>8, <2>10 DEF With, SameEntries
  <2>12. BlockOf(w, q) = b /\ q \in Live(w) /\ First(w, q) = c /\ w.slot[c] = Cleared
    BY <2>1, <2>2, <2>8, <2>10 DEF EntryIn, With, First, Dirent
  <2>13. \A h \in Cluster \ {c} :
           w.fat[h] = v.fat[h] /\ (h \notin DirClusters(v) => w.slot[h] = v.slot[h])
    BY <2>1, <2>2, <2>8 DEF EntryIn
  <2>14. IsAt(w, path, q)
    <3>1. ASSUME NEW m, NEW h \in DirNamed(v, m)
          PROVE  h \in DirNamed(w, m) /\ First(w, h) = First(v, h)
      BY <2>11 DEF DirNamed, With, First
    <3>2. q.cluster = k
      BY <2>8
    <3> QED
      BY <2>2, <2>6, <2>12, <3>1, <3>2 DEF IsAt, n
  <2>15. Made(v, path, isDir, q, w) /\ w.slot[First(w, q)] = Cleared
    BY <2>1, <2>11, <2>12, <2>13, <2>14 DEF Made, Dirent
  <2> QED
    BY <2>9, <2>10, <2>15 DEF r
<1> QED
  BY <1>0, <1>2, <1>3

(* A directory that has an entry marked as its end before it has any other. *)
LEMMA EmptyMarked ==
  ASSUME NEW v \in Sound, NEW q \in Live(v), BlockOf(v, q).isDir, v.slot[First(v, q)] = Cleared
  PROVE  LET w == Put(v, Place(First(v, q), 0), EndMark)
         IN  /\ w \in Sound /\ SameEntries(v, w) /\ w.fat = v.fat
             /\ \A c \in Cluster \ {First(v, q)} : w.slot[c] = v.slot[c]
<1> DEFINE c == First(v, q)
           w == Put(v, Place(c, 0), EndMark)
<1>1. /\ v \in Shaped /\ v \in Volumes /\ SizesFit(v)
      /\ Links(v.fat) /\ Heads(v) /\ Nesting(v) /\ Dirs(v) /\ Data(v)
  BY SoundIsShaped DEF Shaped
<1>2. c \in DirClusters(v) /\ c \in Cluster /\ c # Root /\ Place(c, 0) \in Places
      /\ Place(c, 0).cluster = c /\ Place(c, 0).entry = 0
  BY <1>1, LiveType, Starts DEF DirClusters, Place
<1>3. EndMark \in Block /\ EndMark.kind # "live" /\ Blank.kind # "live"
  BY Blocks DEF EndMark, Blank
<1> HIDE DEF c
<1>4. /\ w \in Volumes /\ w.fat = v.fat
      /\ \A d \in Cluster : d # c => w.slot[d] = v.slot[d]
      /\ w.slot[c] = [v.slot[c] EXCEPT ![0] = EndMark]
      /\ \A p \in Places : BlockOf(w, p) = IF p = Place(c, 0) THEN EndMark ELSE BlockOf(v, p)
  <2> DEFINE z == Place(c, 0)
  <2> HIDE DEF z
  <2>1. z \in Places /\ z.cluster = c /\ z.entry = 0
    BY <1>2 DEF z
  <2>2. LET u == Put(v, z, EndMark)
        IN  /\ u \in Volumes /\ u.fat = v.fat
            /\ \A d \in Cluster : d # z.cluster => u.slot[d] = v.slot[d]
            /\ u.slot[z.cluster] = [v.slot[z.cluster] EXCEPT ![z.entry] = EndMark]
            /\ Overwritten(v, z, EndMark, u)
    BY <1>1, <1>3, <2>1, EntryPut
  <2> QED
    BY <2>1, <2>2 DEF Overwritten, z
<1> HIDE DEF w
<1>5. v.slot[c] = Cleared /\ 0 \in 0 .. N - 1 /\ BlockOf(v, Place(c, 0)) = Blank
  BY <1>2, OpsAssumption DEF Cleared, BlockOf, c
<1>6. Live(w) = Live(v)
  BY <1>3, <1>4, <1>5 DEF Live
<1>7. \A p \in Live(v) : BlockOf(w, p) = BlockOf(v, p) /\ First(w, p) = First(v, p)
  BY <1>3, <1>4, <1>5 DEF Live, First
<1>8. DirClusters(w) = DirClusters(v)
  BY <1>6, <1>7 DEF DirClusters
<1>9. Heads(w) /\ Nesting(w)
  BY <1>1, <1>4, <1>6, <1>7, <1>8 DEF Heads, Nesting
<1>10. Dirs(w)
  <2>1. ASSUME NEW d \in DirClusters(w)
        PROVE  \E u \in 0 .. N - 1 : u <= Cardinality(Name) /\ Filling(w.slot[d], u)
    <3>1. d \in Cluster /\ \E u \in 0 .. N - 1 : u <= Cardinality(Name) /\ Filling(v.slot[d], u)
      BY <1>1, <1>8, DirCluster
    <3>2. CASE d # c
      BY <1>4, <3>1, <3>2
    <3>3. CASE d = c
      <4>1. PICK u \in 0 .. N - 1 : u <= Cardinality(Name) /\ Filling(v.slot[c], u)
        BY <3>1, <3>3
      <4>2. u = 0
        <5> SUFFICES ASSUME 0 < u PROVE FALSE
          BY OpsAssumption
        <5>1. v.slot[c][0] = DeletedMark \/ v.slot[c][0].kind = "live"
          BY <1>5, <4>1 DEF Filling
        <5>2. v.slot[c][0] = Blank
          BY <1>5 DEF Cleared
        <5> QED
          BY <1>3, <5>1, <5>2 DEF Blank, DeletedMark
      <4>3. Filling(w.slot[c], 0)
        <5>1. \A i \in 0 .. N - 1 : w.slot[c][i] = IF i = 0 THEN EndMark ELSE Blank
          BY <1>4, <1>5 DEF Cleared
        <5> QED
          BY <5>1 DEF Filling
      <4> QED
        BY <3>3, <4>1, <4>2, <4>3
    <3> QED
      BY <3>2, <3>3
  <2>2. ASSUME NEW p \in Live(w), NEW r \in Live(w),
               p.cluster = r.cluster, BlockOf(w, p).name = BlockOf(w, r).name
        PROVE  p = r
    BY <1>1, <1>6, <1>7, <2>2 DEF Dirs
  <2> QED
    BY <2>1, <2>2 DEF Dirs
<1>11. Data(w)
  BY <1>1, <1>2, <1>4, <1>8 DEF Data
<1>12. SizesFit(w)
  <2>1. ASSUME NEW p \in Live(v) PROVE Chain(w, First(v, p)) = Chain(v, First(v, p))
    <3>1. First(v, p) \in Cluster
      BY <1>1, LiveType
    <3> QED
      BY <1>1, <1>4, <3>1, ChainsStay
  <2> QED
    BY <1>1, <1>6, <1>7, <2>1 DEF SizesFit
<1>13. w \in Sound
  BY <1>1, <1>4, <1>9, <1>10, <1>11, <1>12 DEF Shaped, Sound
<1>14. SameEntries(v, w)
  BY <1>6, <1>7 DEF SameEntries
<1> QED
  BY <1>4, <1>13, <1>14 DEF w, c

LEMMA MkdirIsSound ==
  ASSUME IsFiniteSet(Name), Cardinality(Name) < N,
         NEW v \in Sound, NEW path, Basename(path) \in Name, path # <<>>,
         Dirname(path) = <<>>, Basename(path) = path[1], CanMake(v, path)
  PROVE  LET r == Mkdir(v, path)
         IN  /\ r.v \in Sound
             /\ r.st # "ok" => r.v = v /\ Full(v)
             /\ r.st = "ok" => \E q : Made(v, path, TRUE, q, r.v)
<1> DEFINE yes == TRUE
           c == Create(v, path, yes)
           w == c.v
           d == OpenDir(w, path)
           r == Mkdir(v, path)
<1>0. yes = TRUE
  OBVIOUS
<1> HIDE DEF yes
<1>1. /\ w \in Sound
      /\ c.st # "ok" => w = v /\ Full(v)
      /\ c.st = "ok" => \E q : Made(v, path, yes, q, w) /\ w.slot[First(w, q)] = Cleared
  <2>1. yes \in BOOLEAN /\ (yes => Dirname(path) = <<>>)
    BY <1>0
  <2> QED
    BY <2>1, CreateIsSound
<1>2. r = IF c.st # "ok" THEN c ELSE MarkEmpty(w, d)
  BY <1>0 DEF Mkdir
<1> HIDE DEF c, w, d, r
<1>3. CASE c.st # "ok"
  BY <1>1, <1>2, <1>3 DEF w, r
<1>4. CASE c.st = "ok"
  <2>1. PICK q : Made(v, path, yes, q, w) /\ w.slot[First(w, q)] = Cleared
    BY <1>1, <1>4
  <2>2. w \in Shaped /\ w \in Volumes
    BY <1>1, SoundIsShaped
  <2>3. IsAt(w, path, q) /\ q \in Live(w) /\ BlockOf(w, q).isDir
    BY <1>0, <2>1 DEF Made, IsAt
  <2>4. d.st = "ok" /\ d.at = Place(First(w, q), 0)
    BY <2>2, <2>3, DirOpened DEF d
  <2> DEFINE z == Put(w, Place(First(w, q), 0), EndMark)
  <2>5. /\ z \in Sound /\ SameEntries(w, z) /\ z.fat = w.fat
        /\ \A h \in Cluster \ {First(w, q)} : z.slot[h] = w.slot[h]
    BY <1>1, <2>1, <2>3, EmptyMarked
  <2>6. r = [st |-> "ok", v |-> z]
    BY <1>2, <1>4, <2>4 DEF MarkEmpty
  <2> HIDE DEF z
  <2>7. Made(v, path, yes, q, z)
    <3>1. Live(z) = Live(w) /\ \A p \in Live(w) : BlockOf(z, p) = BlockOf(w, p)
      BY <2>5 DEF SameEntries
    <3>2. With(v, q, w) /\ q \notin Live(v)
      BY <2>1 DEF Made
    <3>3. With(v, q, z) /\ First(z, q) = First(w, q) /\ BlockOf(z, q) = BlockOf(w, q)
      BY <2>3, <3>1, <3>2 DEF With, First
    <3>4. IsAt(z, path, q)
      BY <2>3, <2>5, IsAtKept
    <3> QED
      BY <2>1, <2>5, <3>2, <3>3, <3>4 DEF Made
  <2>8. r.st = "ok" /\ r.v = z /\ Made(v, path, TRUE, q, z)
    BY <1>0, <2>6, <2>7
  <2> QED
    BY <2>5, <2>8 DEF r
<1> QED
  BY <1>3, <1>4

-----------------------------------------------------------------------------
(* A node is renamed. *)

(* A path is the name of something in the root, or of that and a name in it. *)
LEMMA PathParts ==
  ASSUME NEW path \in Path
  PROVE  /\ path # <<>> /\ Len(path) \in {1, 2} /\ Basename(path) \in Name
         /\ Len(path) = 1 => Dirname(path) = <<>> /\ Basename(path) = path[1]
         /\ Len(path) = 2 => Dirname(path) # <<>>
         /\ Dirname(path) = <<>> => path = <<Basename(path)>>
         /\ Dirname(path) # <<>> =>
              /\ Dirname(Dirname(path)) = <<>> /\ Basename(Dirname(path)) = Dirname(path)[1]
         /\ \A other \in Path :
              Dirname(other) = Dirname(path) /\ Basename(other) = Basename(path) => other = path
         /\ \A other \in Path :
              /\ Dirname(other) # <<>> /\ Dirname(path) # <<>>
              /\ Dirname(other)[1] = Dirname(path)[1] /\ Basename(other) = Basename(path)
              => other = path
<1>1. ASSUME NEW p \in Path
      PROVE  \/ \E n \in Name : /\ p = <<n>> /\ Len(p) = 1 /\ p # <<>>
                                /\ Dirname(p) = <<>> /\ Basename(p) = n
             \/ \E m, n \in Name : /\ p = <<m, n>> /\ Len(p) = 2 /\ p # <<>>
                                   /\ Dirname(p) # <<>> /\ Dirname(p)[1] = m /\ Basename(p) = n
  <2>1. CASE \E n \in Name : p = <<n>>
    <3>1. PICK n \in Name : p = <<n>>
      BY <2>1
    <3>2. Len(p) = 1 /\ p # <<>> /\ Basename(p) = n /\ Dirname(p) = <<>>
      BY <3>1 DEF Basename, Dirname
    <3> QED
      BY <3>1, <3>2
  <2>2. CASE \E m, n \in Name : p = <<m, n>>
    <3>1. PICK m, n \in Name : p = <<m, n>>
      BY <2>2
    <3>2. Len(p) = 2 /\ p # <<>> /\ Basename(p) = n
      BY <3>1 DEF Basename
    <3>3. Len(Dirname(p)) = 1 /\ Dirname(p)[1] = m /\ Len(<<>>) = 0
      BY <3>1 DEF Dirname
    <3> QED
      BY <3>1, <3>2, <3>3
  <2> QED
    BY <2>1, <2>2, VolumeAssumption
<1>2. ASSUME NEW other \in Path, Dirname(other) = Dirname(path), Basename(other) = Basename(path)
      PROVE  other = path
  BY <1>1, <1>2
<1>3. path # <<>> /\ Len(path) \in {1, 2} /\ Basename(path) \in Name
  BY <1>1
<1>4. Len(path) = 1 => Dirname(path) = <<>> /\ Basename(path) = path[1]
  BY <1>1
<1>5. Len(path) = 2 => Dirname(path) # <<>>
  BY <1>1
<1>6. ASSUME NEW other \in Path, Dirname(other) # <<>>, Dirname(path) # <<>>,
             Dirname(other)[1] = Dirname(path)[1], Basename(other) = Basename(path)
      PROVE  other = path
  BY <1>1, <1>6
<1>7. ASSUME Dirname(path) # <<>>
      PROVE  /\ Dirname(Dirname(path)) = <<>>
             /\ Basename(Dirname(path)) = Dirname(path)[1]
  <2>1. PICK m, n \in Name : path = <<m, n>>
    BY <1>1, <1>7
  <2> DEFINE s == Dirname(path)
  <2>2. s \in Seq(Name) /\ Len(s) = 1
    BY <2>1 DEF Dirname
  <2> HIDE DEF s
  <2>3. SubSeq(s, 1, 0) = <<>>
    BY <2>2
  <2>4. Dirname(s) = <<>> /\ Basename(s) = s[1]
    BY <2>2, <2>3 DEF Dirname, Basename
  <2> QED
    BY <2>4 DEF s
<1>8. Dirname(path) = <<>> => path = <<Basename(path)>>
  BY <1>1
<1> QED
  BY <1>2, <1>3, <1>4, <1>5, <1>6, <1>7, <1>8

(* No entry is in the chain it names. *)
LEMMA NotInItself ==
  ASSUME NEW v \in Shaped, NEW q \in Live(v)
  PROVE  q.cluster # First(v, q)
<1>1. v \in Volumes /\ Nesting(v) /\ First(v, q) \in Cluster /\ First(v, q) # Root
  BY LiveType DEF Shaped
<1>2. CASE BlockOf(v, q).isDir
  BY <1>1, <1>2 DEF Nesting
<1>3. CASE ~BlockOf(v, q).isDir
  <2>1. First(v, q) \notin DirClusters(v)
    BY <1>1, <1>3, ChainLinks, ChainOfFile
  <2> QED
    BY <1>1, <2>1 DEF Nesting
<1>4. BlockOf(v, q).isDir \/ ~BlockOf(v, q).isDir
  OBVIOUS
<1> QED
  BY <1>2, <1>3, <1>4

(* If a directory is at one path, the other is in the root. *)
DirsStay(v, from, to) ==
  /\ \A p : IsAt(v, from, p) /\ BlockOf(v, p).isDir => Dirname(to) = <<>>
  /\ \A q : IsAt(v, to, q) /\ BlockOf(v, q).isDir => Dirname(from) = <<>>

LEMMA DirsInRoot ==
  ASSUME NEW v \in Shaped, NEW from, NEW to, DirsStay(v, from, to),
         NEW p, NEW q, IsAt(v, from, p), IsAt(v, to, q),
         BlockOf(v, p).isDir \/ BlockOf(v, q).isDir
  PROVE  p.cluster = Root /\ q.cluster = Root
<1>1. Nesting(v) /\ p \in Live(v) /\ q \in Live(v)
  BY DEF Shaped, IsAt
<1>2. CASE BlockOf(v, p).isDir
  BY <1>1, <1>2 DEF Nesting, DirsStay, IsAt
<1>3. CASE BlockOf(v, q).isDir
  BY <1>1, <1>3 DEF Nesting, DirsStay, IsAt
<1> QED
  BY <1>2, <1>3

(* A directory is at a path of one name. *)
LEMMA DirAtTop ==
  ASSUME NEW v \in Shaped, NEW path, NEW p, IsAt(v, path, p), BlockOf(v, p).isDir
  PROVE  Dirname(path) = <<>>
<1> SUFFICES ASSUME Dirname(path) # <<>> PROVE FALSE
  OBVIOUS
<1>1. p.cluster = Root
  BY DEF Shaped, Nesting, IsAt
<1>2. PICK d \in DirNamed(v, Dirname(path)[1]) : p.cluster = First(v, d)
  BY DEF IsAt
<1> QED
  BY <1>1, <1>2, LiveType DEF DirNamed, Shaped

(* fatx_rename within a directory: the new name is no one else's there. *)
LEMMA NameSetIsSound ==
  ASSUME NEW v \in Sound, NEW path, NEW q, IsAt(v, path, q), NEW n \in Name,
         \A p \in Live(v) : p.cluster = q.cluster /\ BlockOf(v, p).name = n => p = q
  PROVE  LET r == SetName([st |-> "ok", v |-> v], path, BlockOf(v, q), n)
         IN  r.st = "ok" /\ r.v \in Sound /\ NameChanged(v, q, n, r.v)
<1> DEFINE b == [BlockOf(v, q) EXCEPT !.name = n]
           w == Put(v, q, b)
<1>1. v \in Shaped /\ q \in Live(v)
  BY SoundIsShaped DEF IsAt
<1>2. SetName([st |-> "ok", v |-> v], path, BlockOf(v, q), n) = SetAttr(v, path, b)
  BY DEF SetName
<1>3. w \in Sound /\ NameChanged(v, q, n, w)
  BY <1>1, EntryRenamed
<1> HIDE DEF b
<1>4. SetAttr(v, path, b) = [st |-> "ok", v |-> w]
  BY <1>1, AttrPut
<1> HIDE DEF w
<1> QED
  BY <1>2, <1>3, <1>4

(* Entries at paths of one directory are in one cluster. *)
LEMMA OneDirectory ==
  ASSUME NEW v \in Shaped, NEW from, NEW to, Dirname(from) = Dirname(to),
         NEW p, NEW q, IsAt(v, from, p), IsAt(v, to, q)
  PROVE  p.cluster = q.cluster
<1>1. CASE Dirname(from) = <<>>
  BY <1>1 DEF IsAt
<1>2. CASE Dirname(from) # <<>>
  <2>1. PICK d \in DirNamed(v, Dirname(from)[1]) : p.cluster = First(v, d)
    BY <1>2 DEF IsAt
  <2>2. PICK e \in DirNamed(v, Dirname(from)[1]) : q.cluster = First(v, e)
    BY <1>2 DEF IsAt
  <2> QED
    BY <2>1, <2>2, OneDirNamed
<1> QED
  BY <1>1, <1>2

(* Entries at two paths are two. *)
LEMMA PlacesDiffer ==
  ASSUME NEW v \in Shaped, NEW from \in Path, NEW to \in Path, from # to,
         NEW p, NEW q, IsAt(v, from, p), IsAt(v, to, q)
  PROVE  p # q
<1> SUFFICES ASSUME p = q PROVE FALSE
  OBVIOUS
<1>1. v \in Volumes /\ Heads(v) /\ p \in Live(v) /\ BlockOf(v, p).name = Basename(from)
      /\ BlockOf(v, p).name = Basename(to)
  BY DEF Shaped, IsAt
<1>2. Dirname(from) # Dirname(to)
  BY <1>1, PathParts
<1>3. ASSUME NEW path, IsAt(v, path, p)
      PROVE  /\ Dirname(path) = <<>> => p.cluster = Root
             /\ Dirname(path) # <<>> =>
                  \E d \in DirNamed(v, Dirname(path)[1]) : p.cluster = First(v, d)
  BY <1>3 DEF IsAt
<1>4. ASSUME NEW n, NEW d \in DirNamed(v, n)
      PROVE  First(v, d) # Root /\ d \in Live(v) /\ BlockOf(v, d).name = n
  BY <1>1, LiveType DEF DirNamed
<1>5. Dirname(from) # <<>> /\ Dirname(to) # <<>>
  BY <1>2, <1>3, <1>4
<1>6. Dirname(from)[1] = Dirname(to)[1]
  BY <1>1, <1>3, <1>4, <1>5 DEF Heads
<1> QED
  BY <1>1, <1>5, <1>6, PathParts

(* Removing an entry leaves its neighbours where they are. *)
LEMMA NeighbourStays ==
  ASSUME NEW v \in Shaped, NEW from, NEW to, Dirname(from) = Dirname(to),
         NEW p, NEW q, IsAt(v, from, p), IsAt(v, to, q), p # q, NEW w, Without(v, q, w)
  PROVE  IsAt(w, from, p) /\ BlockOf(w, p) = BlockOf(v, p)
<1>1. p \in Live(v) /\ q \in Live(v) /\ p.cluster = q.cluster /\ q.cluster # First(v, q)
  BY OneDirectory, NotInItself DEF IsAt
<1>2. p \in Live(w) /\ BlockOf(w, p) = BlockOf(v, p)
  BY <1>1 DEF Without
<1>3. ASSUME Dirname(from) # <<>>
      PROVE  \E d \in DirNamed(w, Dirname(from)[1]) : p.cluster = First(w, d)
  <2>1. PICK d \in DirNamed(v, Dirname(from)[1]) : p.cluster = First(v, d)
    BY <1>3 DEF IsAt
  <2>2. d \in Live(v) /\ d # q /\ d.cluster = Root
    BY <1>1, <2>1 DEF DirNamed
  <2>3. First(v, q) # Root
    BY <1>1, LiveType DEF Shaped
  <2>4. d \in Live(w) /\ BlockOf(w, d) = BlockOf(v, d)
    BY <2>2, <2>3 DEF Without
  <2> QED
    BY <2>1, <2>4 DEF DirNamed, First
<1> QED
  BY <1>2, <1>3 DEF IsAt

(* What is made leaves the rest where it is. *)
LEMMA WithStays ==
  ASSUME NEW v, NEW q, NEW w, With(v, q, w), NEW path, NEW p, IsAt(v, path, p)
  PROVE  IsAt(w, path, p) /\ BlockOf(w, p) = BlockOf(v, p)
<1>1. p \in Live(w) /\ BlockOf(w, p) = BlockOf(v, p)
  BY DEF With, IsAt
<1>2. ASSUME NEW n, NEW d \in DirNamed(v, n) PROVE d \in DirNamed(w, n) /\ First(w, d) = First(v, d)
  BY DEF With, DirNamed, First
<1>3. ASSUME Dirname(path) # <<>>
      PROVE  \E d \in DirNamed(w, Dirname(path)[1]) : p.cluster = First(w, d)
  BY <1>2, <1>3 DEF IsAt
<1> QED
  BY <1>1, <1>3 DEF IsAt

(* fatx_rename of p to where nothing is. *)
MovedTo(v, from, to, p, r) ==
  \/ r.st # "ok" /\ r.v = v /\ Full(v)
  \/ r.st = "ok" /\ Dirname(from) = Dirname(to) /\ NameChanged(v, p, Basename(to), r.v)
  \/ /\ r.st = "ok" /\ ~BlockOf(v, p).isDir
     /\ \E q : \E u \in Sound : Made(v, to, FALSE, q, u) /\ SwappedOut(u, p, q, r.v)

LEMMA MoveIsSound ==
  ASSUME IsFiniteSet(Name), Cardinality(Name) < N,
         NEW v \in Sound, NEW from \in Path, NEW to \in Path, DirsStay(v, from, to),
         NEW p, IsAt(v, from, p), CanMake(v, to)
  PROVE  LET r == Move(v, Mknod(v, to), from, to, BlockOf(v, p))
         IN  r.v \in Sound /\ MovedTo(v, from, to, p, r)
<1> DEFINE m == Mknod(v, to)
           w == m.v
           n == Basename(to)
           r == Move(v, m, from, to, BlockOf(v, p))
<1>1. v \in Shaped /\ v \in Volumes /\ n \in Name /\ p \in Live(v)
  BY SoundIsShaped, PathParts DEF IsAt
<1>2. CASE Dirname(from) = Dirname(to)
  <2> DEFINE d == OpenDir(v, Dirname(to))
             t == SetName([st |-> "ok", v |-> v], from, BlockOf(v, p), n)
  <2>1. Locate(v, from).st = "ok" /\ Locate(v, from).at = p
    BY <1>1, LocatedThere
  <2>2. d.st = "ok" /\ p.cluster = d.at.cluster
    BY <1>1, <1>2, <2>1, LocatedIn
  <2>3. \A q \in Live(v) : q.cluster = d.at.cluster => BlockOf(v, q).name # n
    BY <1>1, <2>2, LocatedIn DEF CanMake
  <2>4. \A q \in Live(v) : q.cluster = p.cluster /\ BlockOf(v, q).name = n => q = p
    BY <2>2, <2>3
  <2>5. r = t
    BY <1>2 DEF Move
  <2> HIDE DEF n, d, r
  <2>6. t.st = "ok" /\ t.v \in Sound /\ NameChanged(v, p, n, t.v)
    BY <1>1, <2>4, NameSetIsSound
  <2> HIDE DEF t
  <2> QED
    BY <1>2, <2>5, <2>6 DEF MovedTo, n, r
<1>3. CASE Dirname(from) # Dirname(to)
  <2> DEFINE no == FALSE
             c == Create(v, to, no)
  <2>0. no = FALSE /\ m = c
    BY DEF Mknod
  <2> HIDE DEF no
  <2>1. /\ c.v \in Sound
        /\ c.st # "ok" => c.v = v /\ Full(v)
        /\ c.st = "ok" => \E q : Made(v, to, no, q, c.v) /\ c.v.slot[First(c.v, q)] = Cleared
    <3>1. no \in BOOLEAN /\ (no => Dirname(to) = <<>>) /\ Basename(to) \in Name
      BY <1>1, <2>0
    <3> QED
      BY <3>1, CreateIsSound
  <2>2. /\ w \in Sound
        /\ m.st # "ok" => w = v /\ Full(v)
        /\ m.st = "ok" => \E q : Made(v, to, FALSE, q, w)
    BY <2>0, <2>1
  <2>3. r = IF m.st # "ok" THEN m ELSE SwapAndUnlink(w, from, to)
    BY <1>3 DEF Move
  <2> HIDE DEF c, m, w, r
  <2>4. CASE m.st # "ok"
    BY <2>2, <2>3, <2>4 DEF MovedTo, w, m, r
  <2>5. CASE m.st = "ok"
    <3>1. PICK q : Made(v, to, FALSE, q, w)
      BY <2>2, <2>5
    <3>2. ~BlockOf(v, p).isDir
      BY <1>1, <1>3, DirAtTop DEF DirsStay
    <3>3. IsAt(w, from, p) /\ BlockOf(w, p) = BlockOf(v, p)
      BY <3>1, WithStays DEF Made
    <3>4. IsAt(w, to, q) /\ ~BlockOf(w, q).isDir
      BY <3>1 DEF Made
    <3> DEFINE t == SwapAndUnlink(w, from, to)
    <3>5. t.st = "ok" /\ t.v \in Sound /\ SwappedOut(w, p, q, t.v)
      BY <2>2, <3>2, <3>3, <3>4, SwapAndUnlinkIsSound
    <3>6. r = t
      BY <2>3, <2>5
    <3> HIDE DEF t
    <3>7. MovedTo(v, from, to, p, r)
      BY <2>2, <3>1, <3>2, <3>5, <3>6 DEF MovedTo
    <3> QED
      BY <3>5, <3>6, <3>7 DEF r, m
  <2> QED
    BY <2>4, <2>5
<1> QED
  BY <1>2, <1>3

(* fatx_rename of p to where q is, which is replaced. *)
ReplacedAt(v, from, to, p, q, w) ==
  \/ /\ Dirname(from) = Dirname(to)
     /\ \E u \in Sound : Without(v, q, u) /\ NameChanged(u, p, Basename(to), w)
  \/ ~BlockOf(v, p).isDir /\ ~BlockOf(v, q).isDir /\ SwappedOut(v, p, q, w)

LEMMA ReplaceIsSound ==
  ASSUME NEW v \in Sound, NEW from \in Path, NEW to \in Path, DirsStay(v, from, to), from # to,
         NEW p, IsAt(v, from, p), NEW q, IsAt(v, to, q)
  PROVE  LET r == Replace(v, from, to, BlockOf(v, p))
         IN  r.st = "ok" /\ r.v \in Sound /\ p # q /\ ReplacedAt(v, from, to, p, q, r.v)
<1> DEFINE m == Unlink(v, to)
           w == m.v
           n == Basename(to)
           r == Replace(v, from, to, BlockOf(v, p))
<1>1. v \in Shaped /\ v \in Volumes /\ n \in Name /\ p \in Live(v) /\ q \in Live(v)
  BY SoundIsShaped, PathParts DEF IsAt
<1>2. CASE Dirname(from) # Dirname(to)
  <2> DEFINE t == SwapAndUnlink(v, from, to)
  <2>1. ~BlockOf(v, p).isDir /\ ~BlockOf(v, q).isDir
    BY <1>1, <1>2, DirAtTop DEF DirsStay
  <2>2. t.st = "ok" /\ t.v \in Sound /\ SwappedOut(v, p, q, t.v)
    BY <2>1, SwapAndUnlinkIsSound
  <2>3. r = t
    BY <1>2 DEF Replace
  <2>4. p # q
    BY <1>1, <1>2, PlacesDiffer
  <2> HIDE DEF r, t
  <2> QED
    BY <2>1, <2>2, <2>3, <2>4 DEF ReplacedAt, r
<1>3. CASE Dirname(from) = Dirname(to)
  <2>1. m.st = "ok" /\ w \in Sound /\ Without(v, q, w)
    BY UnlinkIsSound
  <2>2. r = SetName(m, from, BlockOf(v, p), n)
    BY <1>3 DEF Replace
  <2> HIDE DEF n, m, w, r
  <2>3. BlockOf(v, q).name = n /\ p.cluster = q.cluster
    BY <1>1, <1>3, OneDirectory DEF IsAt, n
  <2>4. p # q
    BY <1>3, <2>3, PathParts DEF IsAt, n
  <2>5. IsAt(w, from, p) /\ BlockOf(w, p) = BlockOf(v, p)
    BY <1>1, <1>3, <2>1, <2>4, NeighbourStays
  <2>6. ASSUME NEW h \in Live(w), h.cluster = p.cluster, BlockOf(w, h).name = n
        PROVE  h = p
    <3>1. h \in Live(v) /\ h # q /\ BlockOf(v, h).name = n
      BY <2>1, <2>6 DEF Without
    <3> QED
      BY <1>1, <2>3, <2>6, <3>1 DEF Shaped, Dirs
  <2> DEFINE t == SetName([st |-> "ok", v |-> w], from, BlockOf(w, p), n)
  <2>7. t.st = "ok" /\ t.v \in Sound /\ NameChanged(w, p, n, t.v)
    BY <1>1, <2>1, <2>5, <2>6, NameSetIsSound
  <2>8. r = t
    BY <2>1, <2>2, <2>5 DEF SetName, w
  <2> HIDE DEF t
  <2>9. ReplacedAt(v, from, to, p, q, r.v)
    BY <1>3, <2>1, <2>7, <2>8 DEF ReplacedAt, n
  <2> QED
    BY <2>4, <2>7, <2>8, <2>9 DEF r
<1> QED
  BY <1>2, <1>3

(* What fatx_rename comes to: nothing was at the new path, or q was.        *)
RenamedTo(v, from, to, mode, p, r) ==
  \/ mode # "exchange" /\ MovedTo(v, from, to, p, r)
  \/ \E q : /\ IsAt(v, to, q) /\ p # q /\ r.st = "ok"
            /\ \/ mode = "exchange" /\ Exchanged(v, p, q, r.v)
               \/ mode = "replace" /\ ReplacedAt(v, from, to, p, q, r.v)

LEMMA RenameIsSound ==
  ASSUME IsFiniteSet(Name), Cardinality(Name) < N,
         NEW v \in Sound, NEW from \in Path, NEW to \in Path, DirsStay(v, from, to), from # to,
         NEW p, IsAt(v, from, p), NEW mode \in Modes,
         mode = "exchange" => Locate(v, to).st = "ok",
         mode = "no_replace" => Locate(v, to).st # "ok",
         OpenDir(v, Dirname(to)).st = "ok"
  PROVE  LET r == Rename(v, from, to, mode)
         IN  r.v \in Sound /\ RenamedTo(v, from, to, mode, p, r)
<1> DEFINE a == GetAttr(v, from)
           b == GetAttr(v, to)
           r == Rename(v, from, to, mode)
<1>1. v \in Shaped /\ v \in Volumes
  BY SoundIsShaped
<1>2. /\ b.st = Locate(v, to).st
      /\ b.st \in {"ok", "not_found"}
  BY <1>1, Got, LocatedIn
<1>3. a.st = "ok" /\ a.attr = BlockOf(v, p)
  BY <1>1, AttrPut
<1>4. CASE b.st = "not_found"
  <2> DEFINE t == Move(v, Mknod(v, to), from, to, BlockOf(v, p))
  <2>1. CanMake(v, to)
    BY <1>2, <1>4 DEF CanMake
  <2>2. t.v \in Sound /\ MovedTo(v, from, to, p, t)
    BY <2>1, MoveIsSound
  <2> HIDE DEF t
  <2>3. r = t
    BY <1>2, <1>3, <1>4 DEF Rename, t
  <2> HIDE DEF r
  <2>4. mode # "exchange"
    BY <1>2, <1>4
  <2> QED
    BY <2>2, <2>3, <2>4 DEF RenamedTo, r
<1>5. CASE b.st = "ok"
  <2> DEFINE q == Locate(v, to).at
             t == Replace(v, from, to, BlockOf(v, p))
             x == AtomicSwap(v, from, to)
  <2>1. IsAt(v, to, q)
    BY <1>1, <1>2, <1>5, LocatedThere
  <2>2. r = IF mode = "exchange" THEN x ELSE t
    BY <1>2, <1>3, <1>5 DEF Rename, Modes
  <2> HIDE DEF q, r
  <2>3. t.st = "ok" /\ t.v \in Sound /\ p # q /\ ReplacedAt(v, from, to, p, q, t.v)
    BY <2>1, ReplaceIsSound
  <2>4. x.st = "ok" /\ x.v \in Sound /\ Exchanged(v, p, q, x.v)
    <3>1. BlockOf(v, p).isDir \/ BlockOf(v, q).isDir => p.cluster = Root /\ q.cluster = Root
      BY <1>1, <2>1, DirsInRoot
    <3> QED
      BY <2>1, <3>1, SwapIsSound
  <2> HIDE DEF t, x
  <2>5. mode = "exchange" \/ mode = "replace"
    BY <1>2, <1>5 DEF Modes
  <2> QED
    BY <2>1, <2>2, <2>3, <2>4, <2>5 DEF RenamedTo, r
<1> QED
  BY <1>2, <1>4, <1>5

-----------------------------------------------------------------------------
(* Every call leaves a sound volume. *)

LEMMA FreeForgotten ==
  ASSUME NEW v \in Volumes, NEW c \in Cluster
  PROVE  Forget(v).slot[c] = IF v.fat[c] = Available THEN Garbage ELSE v.slot[c]
<1> DEFINE slot == [d \in DOMAIN v.slot |-> IF d \in Cluster /\ v.fat[d] = Available
                                            THEN Garbage ELSE v.slot[d]]
<1>1. v = [fat |-> v.fat, slot |-> v.slot, cursor |-> v.cursor, log |-> v.log] /\ v.slot \in Slots
  BY DEF Volumes, VolumeType
<1>2. Forget(v).slot = slot
  BY <1>1 DEF Forget
<1>3. c \in DOMAIN v.slot
  BY <1>1, Entries DEF Slots
<1> QED
  BY <1>2, <1>3

LEMMA ForgetIsSound ==
  ASSUME NEW v \in Sound
  PROVE  Forget(v) \in Sound
<1> DEFINE w == Forget(v)
<1>1. v \in Shaped /\ v \in Volumes /\ SizesFit(v) /\ Links(v.fat) /\ Heads(v) /\ Data(v)
  BY SoundIsShaped DEF Shaped
<1>2. w \in Volumes /\ w.fat = v.fat
  BY <1>1, Forgotten
<1>3. \A c \in Cluster : v.fat[c] # Available => w.slot[c] = v.slot[c]
  BY <1>1, FreeForgotten
<1> HIDE DEF w
<1>4. \A c \in DirClusters(v) : w.slot[c] = v.slot[c] /\ w.fat[c] = v.fat[c]
  BY <1>1, <1>2, <1>3, DirCluster
<1>5. \A c \in Cluster \ DirClusters(v) :
        w.fat[c] # Available => w.slot[c] \in [0 .. N - 1 -> DataBlock]
  BY <1>1, <1>2, <1>3 DEF Data
<1>6. \A q \in Live(v) : w.fat[First(v, q)] # Available /\ \A c \in Cluster : w.fat[c] # First(v, q)
  BY <1>1, <1>2 DEF Heads
<1>7. w \in Shaped /\ SameEntries(v, w)
  BY <1>1, <1>2, <1>4, <1>5, <1>6, FilesChanged
<1>8. ASSUME NEW q \in Live(v) PROVE Chain(w, First(v, q)) = Chain(v, First(v, q))
  <2>1. First(v, q) \in Cluster
    BY <1>1, LiveType
  <2> QED
    BY <1>1, <1>2, <2>1, ChainsStay
<1>9. SizesFit(w)
  BY <1>1, <1>7, <1>8 DEF SizesFit, SameEntries, First
<1> QED
  BY <1>7, <1>9 DEF Sound, w

LEMMA FormattedIsSound ==
  ASSUME IsFiniteSet(Name)
  PROVE  Formatted \in Sound /\ Live(Formatted) = {}
<1> DEFINE v == Formatted
<1>1. v \in Volumes
  BY VolumeFormatted
<1>2. /\ \A c \in Cluster : v.fat[c] = IF c = Root THEN End ELSE Available
      /\ v.slot[Root] = [e \in 0 .. N - 1 |-> EndMark]
  BY Starts, Entries DEF Formatted
<1> HIDE DEF v
<1>3. Root \in Cluster /\ End \notin Cluster /\ Available \notin Cluster /\ Available # End
  BY Starts, Entries, OpsAssumption DEF Available, End
<1>4. Live(v) = {}
  <2> SUFFICES ASSUME NEW q \in Live(v) PROVE FALSE
    OBVIOUS
  <2>1. q.cluster = Root /\ q.entry \in 0 .. N - 1 /\ BlockOf(v, q).kind = "live"
    BY <1>1, <1>2, LiveType
  <2>2. BlockOf(v, q) = EndMark
    BY <1>2, <2>1 DEF BlockOf
  <2>3. EndMark.kind = "end"
    BY DEF EndMark
  <2> QED
    BY <2>1, <2>2, <2>3
<1>5. DirClusters(v) = {Root}
  BY <1>4 DEF DirClusters
<1>6. Links(v.fat)
  BY <1>2, <1>3 DEF Links
<1>7. Heads(v) /\ Nesting(v) /\ SizesFit(v)
  BY <1>4 DEF Heads, Nesting, SizesFit
<1>8. Dirs(v)
  <2>1. 0 \in 0 .. N - 1 /\ 0 <= Cardinality(Name)
    <3>1. Cardinality(Name) \in Nat
      BY FS_CardinalityType
    <3> QED
      BY <3>1, OpsAssumption
  <2>2. Filling(v.slot[Root], 0)
    BY <1>2 DEF Filling
  <2> QED
    BY <1>4, <1>5, <2>1, <2>2 DEF Dirs
<1>9. Data(v)
  BY <1>2, <1>5 DEF Data
<1> QED
  BY <1>1, <1>4, <1>6, <1>7, <1>8, <1>9 DEF Shaped, Sound, v

(* Callers look before they call, as the kernel does, and a directory has   *)
(* room for every name and an end marker.  Without the second the last      *)
(* entry of a cluster is given out and the marker put in the next one.      *)
Careful ==
  /\ Kernel
  /\ IsFiniteSet(Name) /\ Cardinality(Name) < N

SoundInv == vol \in Sound

LEMMA CallIsSound ==
  ASSUME NEW op, NEW path, NEW arg, NEW r, r.v \in Sound, Call(op, path, arg, r)
  PROVE  SoundInv'
BY ForgetIsSound DEF Call, SoundInv

(* What getattr finds. *)
LEMMA NodeThere ==
  ASSUME NEW v \in Shaped, NEW path, GetAttr(v, path).st = "ok"
  PROVE  \E q : IsAt(v, path, q) /\ GetAttr(v, path).attr = BlockOf(v, q)
<1> DEFINE q == Locate(v, path).at
<1>1. v \in Volumes
  BY DEF Shaped
<1>2. Locate(v, path).st = "ok"
  BY <1>1, Got
<1>3. IsAt(v, path, q)
  BY <1>2, LocatedThere
<1> HIDE DEF q
<1>4. GetAttr(v, path).attr = BlockOf(v, q)
  BY <1>3, AttrPut
<1> QED
  BY <1>3, <1>4

LEMMA FileThere ==
  ASSUME vol \in Shaped, NEW path, IsFile(path)
  PROVE  \E q : IsAt(vol, path, q) /\ ~BlockOf(vol, q).isDir
<1>1. GetAttr(vol, path).st = "ok"
  BY DEF IsFile
<1>2. PICK q : IsAt(vol, path, q) /\ GetAttr(vol, path).attr = BlockOf(vol, q)
  BY <1>1, NodeThere
<1> QED
  BY <1>2 DEF IsFile

LEMMA DirThere ==
  ASSUME vol \in Shaped, NEW path, IsDir(path)
  PROVE  \E q : IsAt(vol, path, q) /\ BlockOf(vol, q).isDir
<1>1. GetAttr(vol, path).st = "ok"
  BY DEF IsDir
<1>2. PICK q : IsAt(vol, path, q) /\ GetAttr(vol, path).attr = BlockOf(vol, q)
  BY <1>1, NodeThere
<1> QED
  BY <1>2 DEF IsDir

(* The directory part of a path is opened, if it is there. *)
LEMMA ParentOpens ==
  ASSUME vol \in Shaped, NEW path \in Path, ParentIsDir(path)
  PROVE  OpenDir(vol, Dirname(path)).st = "ok"
<1> DEFINE m == Dirname(path)
           d == OpenDir(vol, m)
<1>1. /\ m = <<>> => d.st = "ok"
      /\ m # <<>> =>
           \/ d.st = "ok" /\ \E h \in DirNamed(vol, m[1]) : d.at = Place(First(vol, h), 0)
           \/ d.st = "not_found" /\ DirNamed(vol, m[1]) = {}
  BY OpenedDir
<1>2. CASE m # <<>>
  <2>1. Len(path) = 2 /\ Dirname(m) = <<>> /\ Basename(m) = m[1]
    BY <1>2, PathParts
  <2>2. PICK q : IsAt(vol, m, q) /\ BlockOf(vol, q).isDir
    BY <2>1, DirThere DEF ParentIsDir
  <2>3. q \in DirNamed(vol, m[1])
    BY <2>1, <2>2 DEF IsAt, DirNamed
  <2> QED
    BY <1>1, <1>2, <2>3
<1> QED
  BY <1>1, <1>2

LEMMA MayBeMade ==
  ASSUME vol \in Shaped, NEW path \in Path, Missing(path), ParentIsDir(path)
  PROVE  CanMake(vol, path)
<1>1. Locate(vol, path).st # "ok"
  BY Got DEF Missing, Shaped
<1> QED
  BY <1>1, ParentOpens DEF CanMake

LEMMA DirsMayMove ==
  ASSUME vol \in Sound, NEW from \in Path, NEW to \in Path, NEW mode, MayRename(from, to, mode)
  PROVE  DirsStay(vol, from, to)
<1>1. vol \in Shaped
  BY SoundIsShaped
<1>2. ASSUME NEW path, NEW q, IsAt(vol, path, q), BlockOf(vol, q).isDir PROVE IsDir(path)
  <2>1. GetAttr(vol, path) = [st |-> "ok", attr |-> BlockOf(vol, q)]
    BY <1>1, <1>2, AttrPut
  <2> QED
    BY <1>2, <2>1 DEF IsDir
<1>3. (IsDir(from) => Dirname(to) = <<>>) /\ (IsDir(to) => Dirname(from) = <<>>)
  BY PathParts DEF MayRename
<1> QED
  BY <1>2, <1>3 DEF DirsStay

(* What a call on the file q does to its data. *)
DataSet(op, arg, q, r) ==
  \/ /\ op = "truncate" /\ arg = <<arg[1]>> /\ arg[1] \in Sizes
     /\ r.st = "ok" => DataKept(vol, q, r.v, arg[1])
     /\ r.st # "ok" => DataKept(vol, q, r.v, BlockOf(vol, q).size)
  \/ /\ op = "write" /\ arg[3] \in Value
     /\ \E w \in Writes : arg = <<w[1], w[2], arg[3]>> /\ WroteOut(vol, q, r, w[1], w[2], arg[3])

(* What each call does to a sound volume. *)
Effect(op, path, arg, r) ==
  \/ op \in {"mknod", "mkdir"} /\ arg = <<>> /\ r.st # "ok" /\ r.v = vol /\ Full(vol)
  \/ /\ op = "mknod" /\ arg = <<>> /\ r.st = "ok" /\ ParentIsDir(path)
     /\ \E q : Made(vol, path, FALSE, q, r.v)
  \/ /\ op = "mkdir" /\ arg = <<>> /\ r.st = "ok" /\ Dirname(path) = <<>>
     /\ \E q : Made(vol, path, TRUE, q, r.v)
  \/ /\ op = "unlink" /\ arg = <<>> /\ r.st = "ok"
     /\ \E q : IsAt(vol, path, q) /\ ~BlockOf(vol, q).isDir /\ Without(vol, q, r.v)
  \/ /\ op = "rmdir" /\ arg = <<>> /\ Dirname(path) = <<>>
     /\ \E q : /\ IsAt(vol, path, q) /\ BlockOf(vol, q).isDir
               /\ \/ r.st = "ok" /\ Without(vol, q, r.v) /\ ~Occupied(vol, q)
                  \/ r.st # "ok" /\ r.v = vol /\ Occupied(vol, q)
  \/ /\ op \in {"truncate", "write"} /\ (r.st # "ok" => Full(r.v))
     /\ \E q : /\ IsAt(vol, path, q) /\ ~BlockOf(vol, q).isDir /\ FileCalled(vol, q, r.v)
               /\ DataSet(op, arg, q, r)
  \/ /\ op = "rename" /\ arg = <<arg[1], arg[2]>> /\ arg[1] \in Path /\ arg[2] \in Modes
     /\ ~Nested(path, arg[1]) /\ DirsStay(vol, path, arg[1]) /\ ParentIsDir(arg[1])
     /\ \E p : IsAt(vol, path, p) /\ RenamedTo(vol, path, arg[1], arg[2], p, r)

(* What a call comes to: its effect, on a volume that stays sound.          *)
Outcomes(op, path, arg, r) ==
  Call(op, path, arg, r) /\ r.v \in Sound /\ path \in Path /\ Effect(op, path, arg, r)

LEMMA NextHasEffect ==
  ASSUME Careful, SoundInv, Next
  PROVE  \E op, path, arg, r : Outcomes(op, path, arg, r)
<1>1. vol \in Sound /\ vol \in Shaped /\ Kernel /\ IsFiniteSet(Name) /\ Cardinality(Name) < N
  BY SoundIsShaped DEF SoundInv, Careful
<1>2. ASSUME NEW path \in Path, CreateNode(path)
      PROVE  Outcomes("mknod", path, <<>>, Mknod(vol, path))
  <2> DEFINE no == FALSE
             r == Create(vol, path, no)
  <2>1. no = FALSE /\ r = Mknod(vol, path)
    BY DEF Mknod
  <2> HIDE DEF no
  <2>2. no \in BOOLEAN /\ (no => Dirname(path) = <<>>) /\ Basename(path) \in Name /\ CanMake(vol, path)
    BY <1>1, <1>2, <2>1, PathParts, MayBeMade DEF CreateNode, MayCreate
  <2>3. /\ r.v \in Sound
        /\ r.st # "ok" => r.v = vol /\ Full(vol)
        /\ r.st = "ok" => \E q : Made(vol, path, no, q, r.v) /\ r.v.slot[First(r.v, q)] = Cleared
    BY <1>1, <2>2, CreateIsSound
  <2> HIDE DEF r
  <2>4. Effect("mknod", path, <<>>, r)
    BY <1>1, <1>2, <2>1, <2>3 DEF Effect, CreateNode, MayCreate
  <2> QED
    BY <1>2, <2>1, <2>3, <2>4 DEF CreateNode, Outcomes
<1>3. ASSUME NEW path \in Path, MakeDir(path)
      PROVE  Outcomes("mkdir", path, <<>>, Mkdir(vol, path))
  <2> DEFINE r == Mkdir(vol, path)
  <2>1. Basename(path) \in Name /\ path # <<>> /\ Dirname(path) = <<>> /\ Basename(path) = path[1]
    BY <1>3, PathParts DEF MakeDir, MayMakeDir
  <2>2. CanMake(vol, path)
    BY <1>1, <1>3, MayBeMade DEF MakeDir, MayMakeDir, ParentIsDir
  <2>3. /\ r.v \in Sound
        /\ r.st # "ok" => r.v = vol /\ Full(vol)
        /\ r.st = "ok" => \E q : Made(vol, path, TRUE, q, r.v)
    BY <1>1, <2>1, <2>2, MkdirIsSound
  <2> HIDE DEF r
  <2>4. Effect("mkdir", path, <<>>, r)
    BY <2>1, <2>3 DEF Effect
  <2> QED
    BY <1>3, <2>3, <2>4 DEF MakeDir, Outcomes, r
<1>4. ASSUME NEW path \in Path, RemoveFile(path)
      PROVE  Outcomes("unlink", path, <<>>, Unlink(vol, path))
  <2> DEFINE r == Unlink(vol, path)
  <2>1. PICK q : IsAt(vol, path, q) /\ ~BlockOf(vol, q).isDir
    BY <1>1, <1>4, FileThere DEF RemoveFile, MayChange
  <2>2. r.st = "ok" /\ r.v \in Sound /\ Without(vol, q, r.v)
    BY <1>1, <2>1, UnlinkIsSound
  <2> HIDE DEF r
  <2>3. Effect("unlink", path, <<>>, r)
    BY <2>1, <2>2 DEF Effect
  <2> QED
    BY <1>4, <2>2, <2>3 DEF RemoveFile, Outcomes, r
<1>5. ASSUME NEW path \in Path, RemoveDir(path)
      PROVE  Outcomes("rmdir", path, <<>>, Rmdir(vol, path))
  <2> DEFINE r == Rmdir(vol, path)
  <2>1. PICK q : IsAt(vol, path, q) /\ BlockOf(vol, q).isDir
    BY <1>1, <1>5, DirThere DEF RemoveDir, MayRemoveDir
  <2>2. path # <<>> /\ Dirname(path) = <<>> /\ Basename(path) = path[1]
    BY <1>5, PathParts DEF RemoveDir, MayRemoveDir
  <2>3. /\ r.v \in Sound
        /\ r.st = "ok" => Without(vol, q, r.v) /\ ~Occupied(vol, q)
        /\ r.st # "ok" => r.v = vol /\ Occupied(vol, q)
    BY <1>1, <2>1, <2>2, RmdirIsSound
  <2> HIDE DEF r
  <2>4. Effect("rmdir", path, <<>>, r)
    BY <2>1, <2>2, <2>3 DEF Effect
  <2> QED
    BY <1>5, <2>3, <2>4 DEF RemoveDir, Outcomes, r
<1>6. ASSUME NEW path \in Path, NEW n \in Sizes, TruncateFile(path, n)
      PROVE  Outcomes("truncate", path, <<n>>, Truncate(vol, path, n))
  <2>1. n \in FileSize
    BY DEF FileSize
  <2>2. PICK q : IsAt(vol, path, q) /\ ~BlockOf(vol, q).isDir
    BY <1>1, <1>6, FileThere DEF TruncateFile, MayChange
  <2> DEFINE r == Truncate(vol, path, n)
             arg == <<n>>
  <2>3. /\ r.v \in Sound /\ FileCalled(vol, q, r.v)
        /\ r.st = "ok" => DataKept(vol, q, r.v, n)
        /\ r.st # "ok" => Full(r.v) /\ DataKept(vol, q, r.v, BlockOf(vol, q).size)
    BY <1>1, <2>1, <2>2, TruncateIsSound
  <2>4. arg = <<arg[1]>> /\ arg[1] = n
    OBVIOUS
  <2>5. Call("truncate", path, arg, r)
    BY <1>6 DEF TruncateFile
  <2> HIDE DEF r, arg
  <2>6. DataSet("truncate", arg, q, r)
    BY <2>3, <2>4 DEF DataSet
  <2>7. Effect("truncate", path, arg, r)
    BY <2>2, <2>3, <2>6 DEF Effect
  <2> QED
    BY <2>3, <2>5, <2>7 DEF Outcomes, r, arg
<1>7. ASSUME NEW path \in Path, NEW w \in Writes, NEW x \in Value, WriteFile(path, w[1], w[2], x)
      PROVE  Outcomes("write", path, <<w[1], w[2], x>>, Write(vol, path, w[1], w[2], x))
  <2>1. PICK q : IsAt(vol, path, q) /\ ~BlockOf(vol, q).isDir
    BY <1>1, <1>7, FileThere DEF WriteFile, MayChange
  <2> DEFINE r == Write(vol, path, w[1], w[2], x)
             arg == <<w[1], w[2], x>>
  <2>2. /\ r.v \in Sound /\ FileCalled(vol, q, r.v) /\ (r.st # "ok" => Full(r.v))
        /\ WroteOut(vol, q, r, w[1], w[2], x)
    BY <1>1, <2>1, WriteIsSound
  <2>3. arg = <<w[1], w[2], arg[3]>> /\ arg[3] = x
    OBVIOUS
  <2>4. Call("write", path, arg, r)
    BY <1>7 DEF WriteFile
  <2> HIDE DEF r, arg
  <2>5. DataSet("write", arg, q, r)
    BY <2>2, <2>3 DEF DataSet
  <2>6. Effect("write", path, arg, r)
    BY <2>1, <2>2, <2>5 DEF Effect
  <2> QED
    BY <2>2, <2>4, <2>6 DEF Outcomes, r, arg
<1>8. ASSUME NEW from \in Path, NEW to \in Path, NEW mode \in Modes, RenameNode(from, to, mode)
      PROVE  Outcomes("rename", from, <<to, mode>>, Rename(vol, from, to, mode))
  <2>1. /\ MayRename(from, to, mode) /\ DirsStay(vol, from, to) /\ from # to
        /\ ~Nested(from, to) /\ ParentIsDir(to)
    BY <1>1, <1>8, DirsMayMove DEF RenameNode, MayRename, Nested
  <2>2. OpenDir(vol, Dirname(to)).st = "ok" /\ GetAttr(vol, from).st = "ok"
    BY <1>1, <2>1, ParentOpens DEF MayRename, Exists
  <2>3. PICK p : IsAt(vol, from, p)
    BY <1>1, <2>2, NodeThere
  <2>4. /\ mode = "exchange" => Locate(vol, to).st = "ok"
        /\ mode = "no_replace" => Locate(vol, to).st # "ok"
    <3>1. GetAttr(vol, to).st = Locate(vol, to).st
      BY <1>1, Got DEF Shaped
    <3>2. CASE mode = "exchange"
      BY <1>1, <2>1, <3>1, <3>2 DEF MayRename, Exists
    <3>3. CASE mode = "no_replace"
      BY <1>1, <2>1, <3>1, <3>3 DEF MayRename, Missing
    <3> QED
      BY <3>2, <3>3
  <2> DEFINE r == Rename(vol, from, to, mode)
             arg == <<to, mode>>
  <2>5. r.v \in Sound /\ RenamedTo(vol, from, to, mode, p, r)
    BY <1>1, <2>1, <2>2, <2>3, <2>4, RenameIsSound
  <2>6. arg[1] = to /\ arg[2] = mode /\ arg = <<arg[1], arg[2]>>
    OBVIOUS
  <2>7. Call("rename", from, arg, r)
    BY <1>8 DEF RenameNode
  <2> HIDE DEF r, arg
  <2>8. Effect("rename", from, arg, r)
    BY <2>1, <2>3, <2>5, <2>6 DEF Effect
  <2> QED
    BY <2>5, <2>7, <2>8 DEF Outcomes, r, arg
<1> QED
  BY <1>2, <1>3, <1>4, <1>5, <1>6, <1>7, <1>8 DEF Next

LEMMA NextIsSound ==
  ASSUME Careful, SoundInv, [Next]_vars
  PROVE  SoundInv'
<1>1. ASSUME Next PROVE SoundInv'
  <2>1. PICK op, path, arg, r : Outcomes(op, path, arg, r)
    BY <1>1, NextHasEffect
  <2> QED
    BY <2>1, CallIsSound DEF Outcomes
<1>2. ASSUME UNCHANGED vars PROVE SoundInv'
  BY <1>2 DEF vars, SoundInv
<1> QED
  BY <1>1, <1>2

LEMMA SoundHolds ==
  ASSUME Careful
  PROVE  Spec => []SoundInv
<1>1. Init => SoundInv
  BY FormattedIsSound DEF Init, SoundInv, Careful
<1>2. SoundInv /\ [Next]_vars => SoundInv'
  BY NextIsSound
<1> QED
  BY <1>1, <1>2, PTL DEF Spec
=============================================================================
