---------------------------- MODULE InodesProofs ----------------------------
(***************************************************************************)
(* The table of inodes, for every volume and every sequence of lookups and *)
(* listings: an inode the kernel was told of names the same path for ever, *)
(* and a path of the volume; and a listing is whole, whatever comes in     *)
(* between its pages.                                                      *)
(***************************************************************************)
EXTENDS Inodes, SequenceTheorems, WellFoundedInduction, TLAPS

(* Inductive only together: a known path keeps its inode because no other  *)
(* pair has it, and none has because inodes handed out stay below the      *)
(* counter.                                                                *)
OnePathOneInode == \A x, y \in bimap : x[1] = y[1] <=> x[2] = y[2]

Table ==
  /\ bimap \subseteq (Nat \X Seq(Names))
  /\ nextInode \in Nat
  /\ \A x \in bimap : x[1] \in 1 .. nextInode - 1
  /\ <<RootInode, Root>> \in bimap
  /\ OnePathOneInode
  /\ InodesStay
  /\ \A x \in bimap : x[2] \in Nodes

EntryType == [name : Names \cup {".", ".."}, inode : Nat]

CallIsSound ==
  call # Idle =>
    /\ call \in [reader : Readers, path : Dirs, next : Nat, entries : Seq(EntryType)]
    /\ IsOpen(call.reader)

ReadersAreSound ==
  \A r \in Readers : IsOpen(r) => \E d \in Dirs : <<readers[r].inode, d>> \in told

Inv ==
  /\ TypeOK
  /\ Table
  /\ CallIsSound
  /\ ReadersAreSound

-----------------------------------------------------------------------------
(* The volume. *)

LEMMA Paths ==
  /\ Dirs \subseteq Nodes
  /\ \A d \in Dirs : d \in Seq(Names) /\ Parent(d) \in Dirs
  /\ \A d \in Dirs : \A i \in DOMAIN Listing[d] :
       /\ Listing[d][i] \in Names
       /\ Child(d, Listing[d][i]) \in Nodes
       /\ Child(d, Listing[d][i]) \in Seq(Names)
<1>1. Dirs \subseteq Nodes /\ \A d \in Dirs : d \in Seq(Names) /\ Listing[d] \in Seq(Names) /\ Parent(d) \in Dirs
  BY InodesAssumption
<1>2. ASSUME NEW d \in Dirs, NEW i \in DOMAIN Listing[d]
      PROVE  /\ Listing[d][i] \in Names
             /\ Child(d, Listing[d][i]) \in Nodes
             /\ Child(d, Listing[d][i]) \in Seq(Names)
  <2>1. Listing[d][i] \in Names
    BY <1>1, <1>2
  <2>2. Child(d, Listing[d][i]) \in Nodes
    BY <1>2 DEF Nodes, ChildrenOf
  <2>3. Child(d, Listing[d][i]) \in Seq(Names)
    BY <1>1, <2>1 DEF Child
  <2> QED
    BY <2>1, <2>2, <2>3
<1> QED
  BY <1>1, <1>2

(* Every node has a path of names. *)
LEMMA NodesArePaths == Nodes \subseteq Seq(Names)
<1>1. Root \in Seq(Names)
  BY DEF Root
<1>2. \A d \in Dirs : ChildrenOf(d) \subseteq Seq(Names)
  BY Paths DEF ChildrenOf
<1> QED
  BY <1>1, <1>2 DEF Nodes

-----------------------------------------------------------------------------
(* The table. *)

(* Asking for the inode of a path of the volume leaves the table sound,    *)
(* drops nothing from it, and has it hold the inode that is given.         *)
LEMMA Tracked ==
  ASSUME Table, NEW p \in Nodes, GetOrCreate(p)
  PROVE  /\ bimap' \subseteq (Nat \X Seq(Names))
         /\ nextInode' \in Nat
         /\ (\A x \in bimap : x[1] \in 1 .. nextInode - 1)'
         /\ OnePathOneInode'
         /\ bimap \subseteq bimap'
         /\ \A x \in bimap' : x[2] \in Nodes
         /\ <<Given(p), p>> \in bimap' /\ Given(p) \in Nat
<1>1. p \in Seq(Names)
  BY NodesArePaths
<1>2. CASE Known(p)
  <2>1. PICK x \in bimap : x[2] = p
    BY <1>2 DEF Known
  <2>2. \E x1 \in bimap : x1[2] = p
    BY <2>1
  <2>3. PICK y \in bimap : y[2] = p /\ Given(p) = y[1]
    BY <1>2, <2>2 DEF Given, InodeOf
  <2>4. y = <<y[1], y[2]>> /\ y[1] \in Nat
    BY <2>3 DEF Table
  <2>5. bimap' = bimap /\ nextInode' = nextInode
    BY <1>2 DEF GetOrCreate
  <2> QED
    BY <2>3, <2>4, <2>5 DEF Table, OnePathOneInode
<1>3. CASE ~Known(p)
  <2>1. \A x \in bimap : x[2] # p /\ x[1] # nextInode
    BY <1>3 DEF Known, Table
  <2>2. bimap' = bimap \cup {<<nextInode, p>>} /\ nextInode' = nextInode + 1
    BY <1>3, <2>1 DEF GetOrCreate, Insert, NextAfter
  <2>3. Given(p) = nextInode
    BY <1>3 DEF Given
  <2> QED
    <3>1. \A x \in bimap' : x \in bimap \/ x = <<nextInode, p>>
      BY <2>2
    <3>2. nextInode \in Nat /\ nextInode' \in Nat
      BY <2>2 DEF Table
    <3>3. bimap' \subseteq (Nat \X Seq(Names))
      BY <1>1, <2>2, <3>2 DEF Table
    <3>4. \A x \in bimap' : x[1] \in 1 .. nextInode' - 1
      <4>1. nextInode >= 1
        <5>1. RootInode \in 1 .. nextInode - 1
          BY DEF Table
        <5> QED
          BY <5>1, <3>2 DEF RootInode
      <4> QED
        BY <2>2, <3>1, <3>2, <4>1 DEF Table
    <3>5. OnePathOneInode'
      BY <2>1, <3>1 DEF Table, OnePathOneInode
    <3>6. \A x \in bimap' : x[2] \in Nodes
      BY <3>1 DEF Table
    <3> QED
      BY <2>2, <2>3, <3>2, <3>3, <3>4, <3>5, <3>6
<1> QED
  BY <1>2, <1>3

LEMMA TableKept ==
  ASSUME Inv, NEW p \in Nodes, GetOrCreate(p),
         told' \subseteq told \cup {<<Given(p), p>>}
  PROVE  Table'
<1>1. Table
  BY DEF Inv
<1>2. told' \subseteq bimap'
  BY <1>1, Tracked DEF Table, InodesStay
<1> QED
  BY <1>1, <1>2, Tracked DEF Table, InodesStay

(* A directory that is open goes on being the one that was opened. *)
LEMMA ReadersKept ==
  ASSUME Inv, UNCHANGED readers, told \subseteq told'
  PROVE  ReadersAreSound'
BY DEF Inv, ReadersAreSound, IsOpen

-----------------------------------------------------------------------------
(* The steps. *)

LEMMA InitInv == Init => Inv
<1> SUFFICES ASSUME Init PROVE Inv
  OBVIOUS
<1>1. Root \in Seq(Names) /\ Root \in Nodes
  BY DEF Root, Nodes
<1>2. Closed \in [inode : Nat, offset : Nat, names : Seq(EntryType), done : BOOLEAN]
  <2>1. <<>> \in Seq(EntryType)
    OBVIOUS
  <2> QED
    BY <2>1 DEF Closed
<1>3. TypeOK
  BY <1>1, <1>2 DEF Init, TypeOK, EntryType, RootInode
<1>4. Table
  BY <1>1, <1>3 DEF Init, Table, TypeOK, OnePathOneInode, InodesStay
<1>5. CallIsSound /\ ReadersAreSound
  BY DEF Init, CallIsSound, ReadersAreSound, IsOpen
<1> QED
  BY <1>3, <1>4, <1>5 DEF Inv

LEMMA LookupStep ==
  ASSUME Inv, NEW d \in ToldDirs, NEW n \in Names, Lookup(d, n)
  PROVE  Inv'
<1> DEFINE p == Child(d[2], n)
<1>1. p \in Nodes /\ GetOrCreate(p) /\ UNCHANGED <<readers, call>> /\ call = Idle
  BY DEF Lookup, Found
<1>2. told' \subseteq told \cup {<<Given(p), p>>} /\ told \subseteq told'
  BY DEF Lookup
<1> HIDE DEF p
<1>3. Table'
  BY <1>1, <1>2, TableKept
<1>4. <<Given(p), p>> \in Nat \X Seq(Names)
  BY <1>1, NodesArePaths, Tracked DEF Inv
<1>5. TypeOK'
  BY <1>1, <1>2, <1>3, <1>4 DEF Inv, TypeOK, Table
<1>6. CallIsSound'
  BY <1>1 DEF CallIsSound
<1> QED
  BY <1>1, <1>2, <1>3, <1>5, <1>6, ReadersKept DEF Inv

LEMMA OpendirStep ==
  ASSUME Inv, NEW r \in Readers, NEW d \in ToldDirs, Opendir(r, d)
  PROVE  Inv'
<1>1. /\ readers' = [readers EXCEPT ![r] = [Closed EXCEPT !.inode = d[1]]]
      /\ UNCHANGED <<bimap, nextInode, told, call>> /\ call = Idle
  BY DEF Opendir
<1>2. d \in told /\ d[2] \in Dirs /\ d = <<d[1], d[2]>> /\ d[1] \in Nat
  BY DEF ToldDirs, Inv, TypeOK
<1>3. TypeOK'
  <2>1. [Closed EXCEPT !.inode = d[1]] \in [inode : Nat, offset : Nat, names : Seq(EntryType), done : BOOLEAN]
    <3>1. <<>> \in Seq(EntryType)
      OBVIOUS
    <3> QED
      BY <1>2, <3>1 DEF Closed
  <2> QED
    BY <1>1, <2>1 DEF Inv, TypeOK, EntryType
<1>4. Table'
  BY <1>1 DEF Inv, Table, OnePathOneInode, InodesStay
<1>5. CallIsSound'
  BY <1>1 DEF CallIsSound
<1>6. ReadersAreSound'
  <2> SUFFICES ASSUME NEW q \in Readers, readers'[q] # Closed
               PROVE  \E e \in Dirs : <<readers'[q].inode, e>> \in told'
    BY DEF ReadersAreSound, IsOpen
  <2>1. CASE q = r
    <3>1. readers'[q].inode = d[1]
      BY <1>1, <2>1 DEF Closed, Inv, TypeOK
    <3> QED
      BY <1>1, <1>2, <3>1
  <2>2. CASE q # r
    BY <1>1, <2>2 DEF Inv, TypeOK, ReadersAreSound, IsOpen
  <2> QED
    BY <2>1, <2>2
<1> QED
  BY <1>3, <1>4, <1>5, <1>6 DEF Inv

LEMMA ReleasedirStep ==
  ASSUME Inv, NEW r \in Readers, Releasedir(r)
  PROVE  Inv'
<1>1. readers' = [readers EXCEPT ![r] = Closed] /\ UNCHANGED <<bimap, nextInode, told, call>> /\ call = Idle
  BY DEF Releasedir
<1>2. TypeOK'
  <2>1. Closed \in [inode : Nat, offset : Nat, names : Seq(EntryType), done : BOOLEAN]
    <3>1. <<>> \in Seq(EntryType)
      OBVIOUS
    <3> QED
      BY <3>1 DEF Closed
  <2> QED
    BY <1>1, <2>1 DEF Inv, TypeOK, EntryType
<1>3. Table'
  BY <1>1 DEF Inv, Table, OnePathOneInode, InodesStay
<1>4. CallIsSound'
  BY <1>1 DEF CallIsSound
<1>5. ReadersAreSound'
  BY <1>1 DEF Inv, TypeOK, ReadersAreSound, IsOpen
<1> QED
  BY <1>2, <1>3, <1>4, <1>5 DEF Inv

(* An open directory has one path, that of a directory. *)
LEMMA OpenIsDir ==
  ASSUME Inv, NEW r \in Readers, IsOpen(r)
  PROVE  /\ readers[r].inode \in Nat
         /\ \E d \in Dirs : d \in PathsOf(readers[r].inode)
         /\ PathsOf(readers[r].inode) \subseteq Dirs
<1>1. PICK e \in Dirs : <<readers[r].inode, e>> \in told
  BY DEF Inv, ReadersAreSound
<1>2. <<readers[r].inode, e>> \in bimap
  BY <1>1 DEF Inv, Table, InodesStay
<1>3. \A x \in bimap : x[1] = readers[r].inode => x[2] = e
  BY <1>2 DEF Inv, Table, OnePathOneInode
<1>4. e \in PathsOf(readers[r].inode)
  BY <1>2 DEF PathsOf
<1>5. PathsOf(readers[r].inode) \subseteq {e}
  BY <1>3 DEF PathsOf
<1> QED
  BY <1>4, <1>5 DEF Inv, TypeOK

LEMMA BeginReaddirStep ==
  ASSUME Inv, NEW r \in Readers, BeginReaddir(r)
  PROVE  Inv'
<1>1. call = Idle /\ IsOpen(r) /\ UNCHANGED <<told, readers>>
  BY DEF BeginReaddir
<1>2. PICK d \in PathsOf(readers[r].inode) :
        /\ GetOrCreate(Parent(d))
        /\ call' = [reader |-> r, path |-> d, next |-> 1,
                    entries |-> <<Entry(".", readers[r].inode), Entry("..", Given(Parent(d)))>>]
  BY DEF BeginReaddir
<1>3. d \in Dirs /\ readers[r].inode \in Nat
  BY <1>1, OpenIsDir
<1>4. Parent(d) \in Nodes
  BY <1>3, Paths
<1>5. Given(Parent(d)) \in Nat
  BY <1>2, <1>4, Tracked DEF Inv
<1>6. Table'
  BY <1>1, <1>2, <1>4, TableKept
<1>7. TypeOK'
  BY <1>1, <1>6 DEF Inv, TypeOK, Table
<1>8. CallIsSound'
  <2>1. Entry(".", readers[r].inode) \in EntryType /\ Entry("..", Given(Parent(d))) \in EntryType
    BY <1>3, <1>5 DEF Entry, EntryType
  <2>2. call'.entries \in Seq(EntryType)
    BY <1>2, <2>1
  <2> QED
    BY <1>1, <1>2, <1>3, <2>2 DEF CallIsSound, IsOpen
<1> QED
  BY <1>1, <1>6, <1>7, <1>8, ReadersKept DEF Inv

(* An entry more leaves the call of its shape. *)
LEMMA CallGrows ==
  ASSUME NEW S, NEW c \in [reader : Readers, path : Dirs, next : Nat, entries : S],
         NEW n \in Nat, NEW e \in S
  PROVE  [c EXCEPT !.next = n, !.entries = e]
           \in [reader : Readers, path : Dirs, next : Nat, entries : S]
OBVIOUS

LEMMA AddEntryStep ==
  ASSUME Inv, AddEntry
  PROVE  Inv'
<1> DEFINE n == Listing[call.path][call.next]
           p == Child(call.path, n)
<1>1. /\ call # Idle /\ call.next \in DOMAIN Listing[call.path] /\ UNCHANGED <<told, readers>>
      /\ call.reader \in Readers /\ IsOpen(call.reader) /\ call.path \in Dirs
      /\ call \in [reader : Readers, path : Dirs, next : Nat, entries : Seq(EntryType)]
      /\ call.next \in Nat /\ call.entries \in Seq(EntryType)
  BY DEF AddEntry, Inv, CallIsSound
<1>2. n \in Names /\ p \in Nodes
  BY <1>1, Paths
<1>3. \/ p \in Labels /\ call' = [call EXCEPT !.next = @ + 1] /\ UNCHANGED <<bimap, nextInode>>
      \/ GetOrCreate(p) /\ call' = [call EXCEPT !.next = @ + 1, !.entries = Append(@, Entry(n, Given(p)))]
  BY DEF AddEntry
<1> HIDE DEF n, p
<1>4. CASE p \in Labels /\ call' = [call EXCEPT !.next = @ + 1] /\ UNCHANGED <<bimap, nextInode>>
  <2>1. TypeOK' /\ Table'
    BY <1>1, <1>4 DEF Inv, TypeOK, Table, OnePathOneInode, InodesStay
  <2>2. CallIsSound'
    <3>1. call' \in [reader : Readers, path : Dirs, next : Nat, entries : Seq(EntryType)]
      BY <1>1, <1>4
    <3>2. call'.reader = call.reader
      BY <1>1, <1>4
    <3> QED
      BY <1>1, <3>1, <3>2 DEF CallIsSound, IsOpen
  <2> QED
    BY <1>1, <2>1, <2>2, ReadersKept DEF Inv
<1>5. CASE GetOrCreate(p) /\ call' = [call EXCEPT !.next = @ + 1, !.entries = Append(@, Entry(n, Given(p)))]
  <2>1. Table'
    BY <1>1, <1>2, <1>5, TableKept
  <2>2. TypeOK'
    BY <1>1, <2>1 DEF Inv, TypeOK, Table
  <2>3. Entry(n, Given(p)) \in EntryType
    <3>1. Given(p) \in Nat
      BY <1>2, <1>5, Tracked DEF Inv
    <3> QED
      BY <1>2, <3>1 DEF Entry, EntryType
  <2>4. CallIsSound'
    <3> DEFINE new == Append(call.entries, Entry(n, Given(p)))
               S == Seq(EntryType)
    <3>1. new \in S /\ call' = [call EXCEPT !.next = @ + 1, !.entries = new]
      BY <1>1, <1>5, <2>3
    <3>2. call' \in [reader : Readers, path : Dirs, next : Nat, entries : Seq(EntryType)]
      <4>1. call \in [reader : Readers, path : Dirs, next : Nat, entries : S]
        BY <1>1
      <4> HIDE DEF new, S
      <4>2. [call EXCEPT !.next = @ + 1, !.entries = new]
              \in [reader : Readers, path : Dirs, next : Nat, entries : S]
        <5>1. call.next + 1 \in Nat
          BY ONLY <4>1
        <5> QED
          BY ONLY <3>1, <4>1, <5>1, CallGrows
      <4>3. call' \in [reader : Readers, path : Dirs, next : Nat, entries : S]
        BY ONLY <3>1, <4>2
      <4> QED
        BY <4>3 DEF S
    <3>3. call'.reader = call.reader
      BY <1>1, <1>5
    <3> QED
      BY <1>1, <3>2, <3>3 DEF CallIsSound, IsOpen
  <2> QED
    BY <1>1, <2>1, <2>2, <2>4, ReadersKept DEF Inv
<1> QED
  BY <1>3, <1>4, <1>5

LEMMA ReplyStep ==
  ASSUME Inv, NEW k \in 1 .. MaxPage, Reply(k)
  PROVE  Inv'
<1> DEFINE r == call.reader
           last == Least(readers[r].offset + k, Len(call.entries))
           page == SubSeq(call.entries, readers[r].offset + 1, last)
           old == readers[r]
           new == IF page = <<>> THEN [old EXCEPT !.done = TRUE]
                  ELSE [old EXCEPT !.offset = last, !.names = old.names \o page]
<1>1. /\ call # Idle /\ call' = Idle /\ UNCHANGED <<bimap, nextInode, told>>
      /\ r \in Readers /\ IsOpen(r) /\ call.entries \in Seq(EntryType)
  BY DEF Reply, Inv, CallIsSound
<1>2. readers' = [readers EXCEPT ![r] = new]
  BY DEF Reply, OffsetAfter
<1>3. /\ readers[r] \in [inode : Nat, offset : Nat, names : Seq(EntryType), done : BOOLEAN]
      /\ readers \in [Readers -> [inode : Nat, offset : Nat, names : Seq(EntryType), done : BOOLEAN]]
  BY <1>1 DEF Inv, TypeOK, EntryType
<1>4. last \in Nat /\ last <= Len(call.entries)
  BY <1>1, <1>3, InodesAssumption DEF Least
<1>5. page \in Seq(EntryType)
  BY <1>1, <1>3, <1>4
<1> HIDE DEF page, last, r, old, new
<1>6. /\ readers'[r] \in [inode : Nat, offset : Nat, names : Seq(EntryType), done : BOOLEAN]
      /\ readers'[r].inode = readers[r].inode
  <2>1. readers'[r] = new
    BY <1>1, <1>2, <1>3
  <2>2. old.names \o page \in Seq(EntryType)
    BY <1>3, <1>5 DEF old
  <2>3. /\ new \in [inode : Nat, offset : Nat, names : Seq(EntryType), done : BOOLEAN]
        /\ new.inode = old.inode
    <3>1. old \in [inode : Nat, offset : Nat, names : Seq(EntryType), done : BOOLEAN]
      BY <1>3 DEF old
    <3> QED
      BY <1>4, <2>2, <3>1 DEF new
  <2> QED
    BY <2>1, <2>3 DEF old
<1>7. \A q \in Readers : q # r => readers'[q] = readers[q]
  BY <1>1, <1>2, <1>3
<1>8. readers' \in [Readers -> [inode : Nat, offset : Nat, names : Seq(EntryType), done : BOOLEAN]]
  BY <1>2, <1>3, <1>6, <1>7
<1>9. TypeOK'
  BY <1>1, <1>8 DEF Inv, TypeOK, EntryType
<1>10. Table'
  BY <1>1 DEF Inv, Table, OnePathOneInode, InodesStay
<1>11. ReadersAreSound'
  <2> SUFFICES ASSUME NEW q \in Readers, readers'[q] # Closed
               PROVE  \E e \in Dirs : <<readers'[q].inode, e>> \in told'
    BY DEF ReadersAreSound, IsOpen
  <2>1. IsOpen(q) /\ readers'[q].inode = readers[q].inode
    BY <1>1, <1>6, <1>7 DEF IsOpen
  <2> QED
    BY <1>1, <2>1 DEF Inv, ReadersAreSound
<1> QED
  BY <1>1, <1>9, <1>10, <1>11 DEF Inv, CallIsSound

LEMMA NextInv == Inv /\ [Next]_vars => Inv'
<1> SUFFICES ASSUME Inv, [Next]_vars PROVE Inv'
  OBVIOUS
<1>1. ASSUME NEW d \in ToldDirs, NEW n \in Names, Lookup(d, n) PROVE Inv'
  BY <1>1, LookupStep
<1>2. ASSUME NEW r \in Readers, NEW d \in ToldDirs, Opendir(r, d) PROVE Inv'
  BY <1>2, OpendirStep
<1>3. ASSUME NEW r \in Readers, Releasedir(r) PROVE Inv'
  BY <1>3, ReleasedirStep
<1>4. ASSUME NEW r \in Readers, BeginReaddir(r) PROVE Inv'
  BY <1>4, BeginReaddirStep
<1>5. ASSUME AddEntry PROVE Inv'
  BY <1>5, AddEntryStep
<1>6. ASSUME NEW k \in 1 .. MaxPage, Reply(k) PROVE Inv'
  BY <1>6, ReplyStep
<1>7. ASSUME UNCHANGED vars PROVE Inv'
  BY <1>7 DEF vars, Inv, TypeOK, Table, OnePathOneInode, InodesStay, CallIsSound, ReadersAreSound, IsOpen
<1> QED
  BY <1>1, <1>2, <1>3, <1>4, <1>5, <1>6, <1>7 DEF Next

-----------------------------------------------------------------------------

(* The table, the listing under way and the open directories fit together. *)
THEOREM TableInvariant == Spec => []Inv
<1>1. Init => Inv
  BY InitInv
<1>2. Inv /\ [Next]_vars => Inv'
  BY NextInv
<1> QED
  BY <1>1, <1>2, PTL DEF Spec

(* Inodes stay below the counter, and the table is one of paths.           *)
THEOREM InodesTypeCorrect == Spec => []TypeOK
<1>1. Inv => TypeOK
  BY DEF Inv
<1> QED
  BY <1>1, TableInvariant, PTL

(* What the kernel was told of an inode stays true.                        *)
THEOREM InodesAreStable == Spec => []InodesStay
<1>1. Inv => InodesStay
  BY DEF Inv, Table
<1> QED
  BY <1>1, TableInvariant, PTL

(* getattr finds the path of every inode, and readdir lists what the       *)
(* kernel has open, whatever was looked up before.                         *)
THEOREM InodesAreFound == Spec => []EveryInodeIsFound
<1>1. Inv => EveryInodeIsFound
  BY OpenIsDir DEF Inv, Table, EveryInodeIsFound
<1> QED
  BY <1>1, TableInvariant, PTL

-----------------------------------------------------------------------------
(* Induction, by the least number that is not in a set.                    *)

LEMMA LeastNatural ==
  ASSUME NEW T \in SUBSET Nat, T # {}
  PROVE  \E n \in T : \A m \in T : n <= m
<1>1. PICK n \in T : \A m \in T : ~ (<<m, n>> \in OpToRel(<, Nat))
  BY NatLessThanWellFounded, WFMin
<1>2. \A m \in Nat, p \in Nat : <<m, p>> \in OpToRel(<, Nat) <=> m < p
  BY DEF OpToRel
<1>3. \A m \in T : ~ (m < n)
  BY <1>1, <1>2, Zenon
<1> QED
  BY <1>3

(* A set that has 0, and with each number the next, has them all.          *)
LEMMA CountUp ==
  ASSUME NEW T, 0 \in T, \A n \in Nat : n \in T => n + 1 \in T
  PROVE  Nat \subseteq T
<1> SUFFICES ASSUME Nat \ T # {} PROVE FALSE
  OBVIOUS
<1>1. PICK n \in Nat \ T : \A m \in Nat \ T : n <= m
  BY LeastNatural
<1>2. n - 1 \in Nat /\ n - 1 \in T
  BY <1>1
<1> QED
  BY <1>1, <1>2

(* A function that is defined from 0 up, each value from the one before.   *)
LEMMA Recursion ==
  ASSUME NEW S, NEW a \in S, NEW k \in Nat, NEW F \in [1 .. k -> [S -> S]]
  PROVE  \E f \in [0 .. k -> S] : f[0] = a /\ \A n \in 1 .. k : f[n] = F[n][f[n - 1]]
<1> DEFINE T == {m \in Nat : m <= k => \E f \in [0 .. m -> S] :
                              f[0] = a /\ \A n \in 1 .. m : f[n] = F[n][f[n - 1]]}
<1>1. 0 \in T
  <2>1. [n \in 0 .. 0 |-> a] \in [0 .. 0 -> S] /\ [n \in 0 .. 0 |-> a][0] = a
    OBVIOUS
  <2>2. \A n \in 1 .. 0 : FALSE
    OBVIOUS
  <2>3. \E f \in [0 .. 0 -> S] : f[0] = a /\ \A n \in 1 .. 0 : f[n] = F[n][f[n - 1]]
    BY <2>1, <2>2
  <2> QED
    BY <2>3
<1>2. ASSUME NEW m \in Nat, m \in T PROVE m + 1 \in T
  <2> SUFFICES ASSUME m + 1 <= k
               PROVE  \E f \in [0 .. m + 1 -> S] :
                        f[0] = a /\ \A n \in 1 .. m + 1 : f[n] = F[n][f[n - 1]]
    OBVIOUS
  <2>1. PICK f \in [0 .. m -> S] : f[0] = a /\ \A n \in 1 .. m : f[n] = F[n][f[n - 1]]
    BY <1>2
  <2> DEFINE g == [n \in 0 .. m + 1 |-> IF n = m + 1 THEN F[m + 1][f[m]] ELSE f[n]]
  <2>2. g \in [0 .. m + 1 -> S]
    BY <2>1
  <2>3. g[0] = a /\ \A n \in 1 .. m + 1 : g[n] = F[n][g[n - 1]]
    BY <2>1
  <2> QED
    BY <2>2, <2>3
<1>3. k \in T
  BY <1>1, <1>2, CountUp
<1> QED
  BY <1>3

-----------------------------------------------------------------------------
(* Listings. *)

(* What VisibleAmong computes, name by name.                               *)
LEMMA VisibleUnfolds ==
  ASSUME NEW d \in Dirs
  PROVE  /\ VisibleAmong(d, 0) = <<>>
         /\ \A n \in 1 .. Len(Listing[d]) :
              VisibleAmong(d, n) =
                IF Child(d, Listing[d][n]) \in Labels THEN VisibleAmong(d, n - 1)
                ELSE Append(VisibleAmong(d, n - 1), Listing[d][n])
         /\ \A n \in 0 .. Len(Listing[d]) : VisibleAmong(d, n) \in Seq(Names)
<1> DEFINE k == Len(Listing[d])
           S == Seq(Names)
           With(n, s) == IF Child(d, Listing[d][n]) \in Labels THEN s ELSE Append(s, Listing[d][n])
           F == [n \in 1 .. k |-> [s \in S |-> With(n, s)]]
           up == CHOOSE u : u = [n \in 0 .. k |-> IF n = 0 THEN <<>> ELSE With(n, u[n - 1])]
<1>1. k \in Nat /\ \A n \in 1 .. k : Listing[d][n] \in Names
  BY InodesAssumption
<1>2. F \in [1 .. k -> [S -> S]]
  <2>1. \A n \in 1 .. k : \A s \in S : With(n, s) \in S
    BY <1>1
  <2> QED
    BY <2>1
<1>3. PICK f \in [0 .. k -> S] : f[0] = <<>> /\ \A n \in 1 .. k : f[n] = F[n][f[n - 1]]
  <2>1. <<>> \in S
    OBVIOUS
  <2> HIDE DEF F, k, S, With, up
  <2> QED
    BY <1>1, <1>2, <2>1, Recursion
<1>4. \A n \in 1 .. k : f[n] = With(n, f[n - 1])
  <2> SUFFICES ASSUME NEW n \in 1 .. k PROVE f[n] = With(n, f[n - 1])
    OBVIOUS
  <2>1. n - 1 \in 0 .. k
    BY <1>1
  <2>2. f[n - 1] \in S
    BY <1>3, <2>1
  <2> QED
    BY <1>3, <2>2
<1> HIDE DEF With, F
<1>5. f = [n \in 0 .. k |-> IF n = 0 THEN <<>> ELSE With(n, f[n - 1])]
  BY <1>1, <1>3, <1>4
<1>6. up = [n \in 0 .. k |-> IF n = 0 THEN <<>> ELSE With(n, up[n - 1])]
  BY <1>5
<1>7. \A n : VisibleAmong(d, n) = up[n]
  BY DEF VisibleAmong, With
<1> HIDE DEF up
<1>8. up[0] = <<>> /\ \A n \in 1 .. k : up[n] = With(n, up[n - 1])
  <2>1. \A n \in 0 .. k : up[n] = IF n = 0 THEN <<>> ELSE With(n, up[n - 1])
    BY <1>6, Zenon
  <2> QED
    BY <1>1, <2>1
<1> DEFINE T == {n \in Nat : n <= k => up[n] \in Seq(Names)}
<1>9. 0 \in T
  BY <1>8
<1>10. ASSUME NEW n \in Nat, n \in T PROVE n + 1 \in T
  <2> SUFFICES ASSUME n + 1 <= k PROVE up[n + 1] \in Seq(Names)
    OBVIOUS
  <2>1. up[n] \in Seq(Names) /\ up[n + 1] = With(n + 1, up[n]) /\ Listing[d][n + 1] \in Names
    BY <1>1, <1>8, <1>10
  <2> QED
    BY <2>1 DEF With
<1>11. \A n \in 0 .. k : up[n] \in Seq(Names)
  <2>1. Nat \subseteq T
    BY <1>9, <1>10, CountUp
  <2> QED
    BY <1>1, <2>1
<1> QED
  BY <1>7, <1>8, <1>11 DEF With

LEMMA AppendedLast ==
  ASSUME NEW S, NEW a \in Seq(S), NEW s \in Seq(S), NEW e \in S
  PROVE  a \o Append(s, e) = Append(a \o s, e)
BY AppendIsConcat, ConcatAssociative, ConcatProperties, EmptySeq

(* What a listing has come to after the first n names of its directory.    *)
Named(d, n) == <<".", "..">> \o VisibleAmong(d, n)

LEMMA NamedGrows ==
  ASSUME NEW d \in Dirs
  PROVE  /\ Len(Named(d, 0)) = 2 /\ Named(d, 0)[1] = "." /\ Named(d, 0)[2] = ".."
         /\ \A n \in 0 .. Len(Listing[d]) :
              Named(d, n) \in Seq(Names \cup {".", ".."}) /\ Len(Named(d, n)) >= 2
         /\ \A n \in 1 .. Len(Listing[d]) :
              Named(d, n) = IF Child(d, Listing[d][n]) \in Labels THEN Named(d, n - 1)
                            ELSE Append(Named(d, n - 1), Listing[d][n])
<1>1. /\ VisibleAmong(d, 0) = <<>>
      /\ \A n \in 1 .. Len(Listing[d]) :
           VisibleAmong(d, n) =
             IF Child(d, Listing[d][n]) \in Labels THEN VisibleAmong(d, n - 1)
             ELSE Append(VisibleAmong(d, n - 1), Listing[d][n])
      /\ \A n \in 0 .. Len(Listing[d]) : VisibleAmong(d, n) \in Seq(Names)
  BY VisibleUnfolds
<1>2. Len(Named(d, 0)) = 2 /\ Named(d, 0)[1] = "." /\ Named(d, 0)[2] = ".."
  BY <1>1 DEF Named
<1>3. ASSUME NEW n \in 0 .. Len(Listing[d])
      PROVE  Named(d, n) \in Seq(Names \cup {".", ".."}) /\ Len(Named(d, n)) >= 2
  BY <1>1 DEF Named
<1>4. ASSUME NEW n \in 1 .. Len(Listing[d])
      PROVE  Named(d, n) = IF Child(d, Listing[d][n]) \in Labels THEN Named(d, n - 1)
                           ELSE Append(Named(d, n - 1), Listing[d][n])
  <2> DEFINE S == Names \cup {".", ".."}
             front == <<".", "..">>
             name == Listing[d][n]
             s == VisibleAmong(d, n - 1)
  <2>1. s \in Seq(S) /\ name \in S /\ front \in Seq(S)
    <3>1. s \in Seq(Names) /\ name \in Names
      BY <1>1, InodesAssumption
    <3>2. front \in Seq(S)
      OBVIOUS
    <3>3. Names \subseteq S
      OBVIOUS
    <3> HIDE DEF S, name, s, front
    <3> QED
      BY <3>1, <3>2, <3>3, SeqMonotonic
  <2>2. \/ Child(d, name) \in Labels /\ VisibleAmong(d, n) = s
        \/ Child(d, name) \notin Labels /\ VisibleAmong(d, n) = Append(s, name)
    BY <1>1
  <2>3. Named(d, n) = front \o VisibleAmong(d, n) /\ Named(d, n - 1) = front \o s
    BY DEF Named
  <2> HIDE DEF S, front, name, s
  <2>4. front \o Append(s, name) = Append(front \o s, name)
    BY <2>1, AppendedLast
  <2> QED
    BY <2>2, <2>3, <2>4 DEF name
<1> QED
  BY <1>2, <1>3, <1>4

(* The entries are those of the first of the names, in order, each with     *)
(* the inode that the table has for what it stands for.                     *)
EntriesOf(table, entries, d, names) ==
  /\ Len(entries) <= Len(names)
  /\ \A i \in 1 .. Len(entries) :
       entries[i].name = names[i] /\ <<entries[i].inode, Resolve(d, i, names[i])>> \in table

(* The list under construction has all the names it has come to, and what   *)
(* a reader has got is the beginning of the whole list, as long as the      *)
(* offset it goes on from.                                                  *)
CallIsWhole ==
  call # Idle =>
    LET names == Named(call.path, call.next - 1)
    IN  /\ call = [reader |-> call.reader, path |-> call.path, next |-> call.next,
                    entries |-> call.entries]
        /\ call.next \in 1 .. Len(Listing[call.path]) + 1
        /\ <<readers[call.reader].inode, call.path>> \in bimap
        /\ Len(call.entries) = Len(names)
        /\ EntriesOf(bimap, call.entries, call.path, names)

ReadersAreWhole ==
  \A r \in Readers : IsOpen(r) =>
    \E d \in Dirs :
      /\ <<readers[r].inode, d>> \in bimap
      /\ readers[r].offset = Len(readers[r].names)
      /\ EntriesOf(bimap, readers[r].names, d, Expected(d))
      /\ readers[r].done => Len(readers[r].names) = Len(Expected(d))

Whole == CallIsWhole /\ ReadersAreWhole

(* A table that grows, and drops nothing, takes nothing from a reader.      *)
LEMMA ReadersStayWhole ==
  ASSUME ReadersAreWhole, UNCHANGED readers, bimap \subseteq bimap'
  PROVE  ReadersAreWhole'
BY DEF ReadersAreWhole, IsOpen, EntriesOf

LEMMA LookupWhole ==
  ASSUME Inv, Whole, NEW d \in ToldDirs, NEW n \in Names, Lookup(d, n)
  PROVE  Whole'
<1>1. bimap \subseteq bimap' /\ UNCHANGED <<readers, call>> /\ call = Idle
  BY Tracked DEF Lookup, Found, Inv
<1> QED
  BY <1>1, ReadersStayWhole DEF Whole, CallIsWhole

LEMMA OpendirWhole ==
  ASSUME Inv, Whole, NEW r \in Readers, NEW d \in ToldDirs, Opendir(r, d)
  PROVE  Whole'
<1>1. /\ readers' = [readers EXCEPT ![r] = [Closed EXCEPT !.inode = d[1]]]
      /\ UNCHANGED <<bimap, call>> /\ call = Idle
  BY DEF Opendir
<1>2. d \in bimap /\ d[2] \in Dirs /\ d = <<d[1], d[2]>>
  BY DEF ToldDirs, Inv, TypeOK, Table, InodesStay
<1>3. ASSUME NEW q \in Readers, readers'[q] # Closed
      PROVE  \E e \in Dirs :
               /\ <<readers'[q].inode, e>> \in bimap
               /\ readers'[q].offset = Len(readers'[q].names)
               /\ EntriesOf(bimap, readers'[q].names, e, Expected(e))
               /\ readers'[q].done => Len(readers'[q].names) = Len(Expected(e))
  <2>1. CASE q = r
    <3>1. /\ readers'[q].inode = d[1] /\ readers'[q].offset = 0
          /\ readers'[q].names = <<>> /\ readers'[q].done = FALSE
      BY <1>1, <2>1 DEF Closed, Inv, TypeOK
    <3>2. Len(Expected(d[2])) \in Nat
      <4>1. Expected(d[2]) = Named(d[2], Len(Listing[d[2]])) /\ Len(Listing[d[2]]) \in Nat
        BY <1>2, InodesAssumption DEF Expected, Named
      <4> QED
        BY <1>2, <4>1, NamedGrows
    <3> QED
      BY <1>2, <3>1, <3>2 DEF EntriesOf
  <2>2. CASE q # r
    <3>1. readers'[q] = readers[q]
      BY <1>1, <2>2 DEF Inv, TypeOK
    <3> QED
      BY <1>3, <3>1 DEF Whole, ReadersAreWhole, IsOpen
  <2> QED
    BY <2>1, <2>2
<1>4. ReadersAreWhole'
  BY <1>1, <1>3 DEF ReadersAreWhole, IsOpen, EntriesOf
<1> QED
  BY <1>1, <1>4 DEF Whole, CallIsWhole

LEMMA ReleasedirWhole ==
  ASSUME Inv, Whole, NEW r \in Readers, Releasedir(r)
  PROVE  Whole'
<1>1. /\ readers' = [readers EXCEPT ![r] = Closed]
      /\ UNCHANGED <<bimap, call>> /\ call = Idle
  BY DEF Releasedir
<1>2. \A q \in Readers : readers'[q] = Closed \/ readers'[q] = readers[q]
  BY <1>1 DEF Inv, TypeOK
<1>3. ReadersAreWhole'
  <2> SUFFICES ASSUME NEW q \in Readers, readers'[q] # Closed
               PROVE  \E e \in Dirs :
                        /\ <<readers'[q].inode, e>> \in bimap
                        /\ readers'[q].offset = Len(readers'[q].names)
                        /\ EntriesOf(bimap, readers'[q].names, e, Expected(e))
                        /\ readers'[q].done => Len(readers'[q].names) = Len(Expected(e))
    BY <1>1 DEF ReadersAreWhole, IsOpen, EntriesOf
  <2>1. readers'[q] = readers[q]
    BY <1>2
  <2> QED
    BY <2>1 DEF Whole, ReadersAreWhole, IsOpen
<1> QED
  BY <1>1, <1>3 DEF Whole, CallIsWhole

(* A list that has all the names it has come to.                            *)
LEMMA BuiltWhole ==
  ASSUME NEW r, NEW d \in Dirs, NEW m \in 0 .. Len(Listing[d]), NEW entries,
         call' = [reader |-> r, path |-> d, next |-> m + 1, entries |-> entries],
         <<readers'[r].inode, d>> \in bimap',
         Len(entries) = Len(Named(d, m)),
         EntriesOf(bimap', entries, d, Named(d, m))
  PROVE  CallIsWhole'
<1>1. call'.reader = r /\ call'.path = d /\ call'.next = m + 1 /\ call'.entries = entries
  OBVIOUS
<1>3. call'.next \in 1 .. Len(Listing[d]) + 1 /\ call'.next - 1 = m
  BY <1>1, InodesAssumption
<1>4. Named(call'.path, call'.next - 1) = Named(d, m)
  BY <1>1, <1>3, Zenon
<1> QED
  BY <1>1, <1>3, <1>4, Zenon DEF CallIsWhole

(* The listing begins with the directory itself and its parent.             *)
LEMMA BeginReaddirWhole ==
  ASSUME Inv, Whole, NEW r \in Readers, BeginReaddir(r)
  PROVE  Whole'
<1>1. call = Idle /\ IsOpen(r) /\ UNCHANGED <<told, readers>>
  BY DEF BeginReaddir
<1>2. PICK d \in PathsOf(readers[r].inode) :
        /\ GetOrCreate(Parent(d))
        /\ call' = [reader |-> r, path |-> d, next |-> 1,
                    entries |-> <<Entry(".", readers[r].inode), Entry("..", Given(Parent(d)))>>]
  BY DEF BeginReaddir
<1>3. d \in Dirs /\ readers[r].inode \in Nat
  BY <1>1, OpenIsDir
<1>4. bimap \subseteq bimap' /\ <<Given(Parent(d)), Parent(d)>> \in bimap'
  <2>1. Parent(d) \in Nodes
    BY <1>3, Paths
  <2> QED
    BY <1>2, <2>1, Tracked DEF Inv
<1>5. <<readers[r].inode, d>> \in bimap
  <2>1. PICK x \in bimap : x[1] = readers[r].inode /\ x[2] = d
    BY <1>2 DEF PathsOf
  <2>2. x = <<x[1], x[2]>>
    BY <2>1 DEF Inv, TypeOK
  <2> QED
    BY <2>1, <2>2
<1>6. CallIsWhole'
  <2> DEFINE names == Named(d, 0)
             entries == <<Entry(".", readers[r].inode), Entry("..", Given(Parent(d)))>>
  <2>1. Len(names) = 2 /\ names[1] = "." /\ names[2] = ".."
    BY <1>3, NamedGrows
  <2>2. call'.next = 1 /\ call'.path = d /\ call'.reader = r /\ call'.entries = entries
    BY <1>2
  <2>3. 1 \in 1 .. Len(Listing[d]) + 1
    BY <1>3, InodesAssumption
  <2>4. /\ Len(entries) = 2
        /\ entries[1].name = "." /\ entries[1].inode = readers[r].inode
        /\ entries[2].name = ".." /\ entries[2].inode = Given(Parent(d))
    BY DEF Entry
  <2>5. Resolve(d, 1, names[1]) = d /\ Resolve(d, 2, names[2]) = Parent(d)
    BY DEF Resolve
  <2> HIDE DEF names, entries
  <2>6. EntriesOf(bimap', entries, d, names)
    <3> SUFFICES ASSUME NEW i \in 1 .. 2
                 PROVE  entries[i].name = names[i] /\ <<entries[i].inode, Resolve(d, i, names[i])>> \in bimap'
      BY <2>1, <2>4 DEF EntriesOf
    <3>1. i = 1 \/ i = 2
      OBVIOUS
    <3> QED
      BY <1>4, <1>5, <2>1, <2>4, <2>5, <3>1
  <2>7. <<readers'[r].inode, d>> \in bimap'
    BY <1>1, <1>4, <1>5
  <2>8. call'.next - 1 = 0
    BY <2>2
  <2> QED
    <3>1. call' = [reader |-> r, path |-> d, next |-> 0 + 1, entries |-> entries]
      BY <1>2 DEF entries
    <3>2. 0 \in 0 .. Len(Listing[d])
      BY <1>3, InodesAssumption
    <3>3. Len(entries) = Len(Named(d, 0)) /\ EntriesOf(bimap', entries, d, Named(d, 0))
      BY <2>1, <2>4, <2>6 DEF names
    <3> QED
      BY ONLY <1>3, <2>7, <3>1, <3>2, <3>3, BuiltWhole
<1> QED
  BY <1>1, <1>4, <1>6, ReadersStayWhole DEF Whole

(* The list keeps to the names of the directory, label or not.              *)
LEMMA AddEntryWhole ==
  ASSUME Inv, Whole, AddEntry
  PROVE  Whole'
<1> DEFINE d == call.path
           k == call.next
           n == Listing[d][k]
           p == Child(d, n)
           names == Named(d, k - 1)
           entries == call.entries
<1>1. /\ call # Idle /\ k \in DOMAIN Listing[d] /\ UNCHANGED <<told, readers>>
      /\ d \in Dirs /\ k \in 1 .. Len(Listing[d]) /\ Len(Listing[d]) \in Nat
      /\ entries \in Seq(EntryType)
  BY InodesAssumption DEF AddEntry, Inv, CallIsSound
<1>2. p \in Nodes /\ n \in Names
  BY <1>1, Paths
<1>3. /\ <<readers[call.reader].inode, d>> \in bimap
      /\ Len(entries) = Len(names)
      /\ EntriesOf(bimap, entries, d, names)
  BY <1>1 DEF Whole, CallIsWhole
<1>4. /\ names \in Seq(Names \cup {".", ".."}) /\ Len(names) >= 2
      /\ Named(d, k) = IF p \in Labels THEN names ELSE Append(names, n)
  <2>1. k - 1 \in 0 .. Len(Listing[d])
    BY <1>1
  <2> QED
    BY <1>1, <2>1, NamedGrows
<1>5. call = [reader |-> call.reader, path |-> d, next |-> k, entries |-> entries]
  BY <1>1 DEF Inv, CallIsSound
<1>6. ASSUME p \in Labels
      PROVE  Whole'
  <2>1. call' = [call EXCEPT !.next = @ + 1] /\ UNCHANGED <<bimap, nextInode>>
    BY <1>6 DEF AddEntry
  <2>2. call' = [reader |-> call.reader, path |-> d, next |-> k + 1, entries |-> entries]
    BY <1>5, <2>1
  <2>3. Named(d, k) = names
    BY <1>4, <1>6
  <2> HIDE DEF names
  <2>4. CallIsWhole'
    <3>1. k \in 0 .. Len(Listing[d]) /\ d \in Dirs
      BY <1>1
    <3>2. Len(entries) = Len(Named(d, k)) /\ EntriesOf(bimap', entries, d, Named(d, k))
      BY <1>3, <2>1, <2>3
    <3>3. <<readers'[call.reader].inode, d>> \in bimap'
      BY <1>1, <1>3, <2>1
    <3> HIDE DEF d, k, entries
    <3> QED
      BY ONLY <2>2, <3>1, <3>2, <3>3, BuiltWhole
  <2> QED
    BY <1>1, <2>1, <2>4, ReadersStayWhole DEF Whole
<1>7. ASSUME p \notin Labels
      PROVE  Whole'
  <2> DEFINE new == Append(entries, Entry(n, Given(p)))
  <2>1. GetOrCreate(p) /\ call' = [call EXCEPT !.next = @ + 1, !.entries = new]
    BY <1>7 DEF AddEntry
  <2>2. bimap \subseteq bimap' /\ <<Given(p), p>> \in bimap' /\ Given(p) \in Nat
    BY <1>2, <2>1, Tracked DEF Inv
  <2> HIDE DEF new
  <2>3. call' = [reader |-> call.reader, path |-> d, next |-> k + 1, entries |-> new]
    BY <1>5, <2>1
  <2>4. Named(d, k) = Append(names, n)
    BY <1>4, <1>7
  <2>5. /\ Len(new) = Len(entries) + 1
        /\ \A i \in 1 .. Len(entries) : new[i] = entries[i]
        /\ new[Len(entries) + 1].name = n /\ new[Len(entries) + 1].inode = Given(p)
    <3>1. Entry(n, Given(p)) \in EntryType
      BY <1>2, <2>2 DEF Entry, EntryType
    <3> QED
      BY <1>1, <3>1 DEF new, Entry
  <2>6. /\ Len(Append(names, n)) = Len(names) + 1
        /\ \A i \in 1 .. Len(names) : Append(names, n)[i] = names[i]
        /\ Append(names, n)[Len(names) + 1] = n
    BY <1>2, <1>4
  <2>7. EntriesOf(bimap', new, d, Append(names, n))
    <3> SUFFICES ASSUME NEW i \in 1 .. Len(names) + 1
                 PROVE  /\ new[i].name = Append(names, n)[i]
                        /\ <<new[i].inode, Resolve(d, i, Append(names, n)[i])>> \in bimap'
      BY <1>3, <1>4, <2>5, <2>6 DEF EntriesOf
    <3>1. CASE i <= Len(names)
      <4>1. i \in 1 .. Len(names)
        BY <1>4, <3>1
      <4> QED
        BY <1>3, <2>2, <2>5, <2>6, <4>1 DEF EntriesOf
    <3>2. CASE i = Len(names) + 1
      <4>1. Resolve(d, i, n) = p
        BY <1>4, <3>2 DEF Resolve
      <4> QED
        BY <1>3, <2>2, <2>5, <2>6, <3>2, <4>1
    <3> QED
      BY <1>4, <3>1, <3>2
  <2> HIDE DEF names
  <2>8. CallIsWhole'
    <3>1. k \in 0 .. Len(Listing[d]) /\ d \in Dirs
      BY <1>1
    <3>2. Len(new) = Len(Named(d, k))
      BY <1>3, <2>4, <2>5, <2>6
    <3>3. <<readers'[call.reader].inode, d>> \in bimap'
      BY <1>1, <1>3, <2>2
    <3>4. EntriesOf(bimap', new, d, Named(d, k))
      BY <2>4, <2>7
    <3> HIDE DEF d, k, entries, n, p
    <3> QED
      BY ONLY <2>3, <3>1, <3>2, <3>3, <3>4, BuiltWhole
  <2> QED
    BY <1>1, <2>2, <2>8, ReadersStayWhole DEF Whole
<1> QED
  BY <1>6, <1>7

(* What a piece of a sequence holds. *)
LEMMA Piece ==
  ASSUME NEW S, NEW s \in Seq(S), NEW a \in Nat, NEW b \in Nat, a <= b, b <= Len(s)
  PROVE  /\ SubSeq(s, a + 1, b) \in Seq(S)
         /\ Len(SubSeq(s, a + 1, b)) = b - a
         /\ \A i \in 1 .. Len(SubSeq(s, a + 1, b)) : SubSeq(s, a + 1, b)[i] = s[a + i]
<1>1. \A i \in (a + 1) .. b : s[i] \in S
  OBVIOUS
<1>2. /\ SubSeq(s, a + 1, b) \in Seq(S)
      /\ Len(SubSeq(s, a + 1, b)) = IF a + 1 <= b THEN b - (a + 1) + 1 ELSE 0
      /\ \A i \in 1 .. b - (a + 1) + 1 : SubSeq(s, a + 1, b)[i] = s[(a + 1) + i - 1]
  BY <1>1, SubSeqProperties
<1>3. Len(SubSeq(s, a + 1, b)) = b - a
  BY ONLY <1>2, a \in Nat, b \in Nat, a <= b
<1>4. ASSUME NEW i \in 1 .. b - a
      PROVE  SubSeq(s, a + 1, b)[i] = s[a + i]
  <2>1. i \in 1 .. b - (a + 1) + 1 /\ (a + 1) + i - 1 = a + i
    BY ONLY a \in Nat, b \in Nat, i \in 1 .. b - a
  <2> QED
    BY ONLY <1>2, <2>1
<1> QED
  BY <1>2, <1>3, <1>4

(* A page goes on where the reader is; when nothing is left it has all.      *)
LEMMA ReplyWhole ==
  ASSUME Inv, Whole, NEW k \in 1 .. MaxPage, Reply(k)
  PROVE  Whole'
<1> DEFINE r == call.reader
           d == call.path
           entries == call.entries
           names == Expected(d)
           old == readers[r]
           last == Least(old.offset + k, Len(entries))
           page == SubSeq(entries, old.offset + 1, last)
           new == IF page = <<>> THEN [old EXCEPT !.done = TRUE]
                  ELSE [old EXCEPT !.offset = last, !.names = old.names \o page]
           R == [inode : Nat, offset : Nat, names : Seq(EntryType), done : BOOLEAN]
<1>1. /\ call # Idle /\ call' = Idle /\ UNCHANGED <<bimap, nextInode, told>>
      /\ r \in Readers /\ IsOpen(r) /\ entries \in Seq(EntryType) /\ d \in Dirs
      /\ readers' = [readers EXCEPT ![r] = new]
      /\ call.next \notin DOMAIN Listing[d]
  BY DEF Reply, Inv, CallIsSound, OffsetAfter
<1>2. readers \in [Readers -> R] /\ old \in R
  BY <1>1 DEF Inv, TypeOK, EntryType
<1>3. /\ <<old.inode, d>> \in bimap
      /\ Len(entries) = Len(names)
      /\ EntriesOf(bimap, entries, d, names)
  <2>1. call.next = Len(Listing[d]) + 1
    BY <1>1, InodesAssumption DEF Whole, CallIsWhole
  <2>2. Named(d, call.next - 1) = names
    BY <1>1, <2>1, InodesAssumption DEF Expected, Named
  <2> QED
    BY <1>1, <2>2 DEF Whole, CallIsWhole
<1>4. /\ old.offset = Len(old.names)
      /\ EntriesOf(bimap, old.names, d, names)
      /\ old.done => Len(old.names) = Len(names)
  <2>1. PICK e \in Dirs :
          /\ <<old.inode, e>> \in bimap
          /\ old.offset = Len(old.names)
          /\ EntriesOf(bimap, old.names, e, Expected(e))
          /\ old.done => Len(old.names) = Len(Expected(e))
    BY <1>1 DEF Whole, ReadersAreWhole
  <2>2. e = d
    BY <1>3, <2>1 DEF Inv, Table, OnePathOneInode
  <2> QED
    BY <2>1, <2>2
<1>5. /\ Len(old.names) \in Nat /\ Len(entries) \in Nat /\ k \in Nat /\ k >= 1
      /\ Len(old.names) <= Len(entries)
  BY <1>1, <1>2, <1>3, <1>4, InodesAssumption DEF EntriesOf
<1>6. /\ last \in Nat /\ last <= Len(entries) /\ last >= Len(old.names)
      /\ last = Len(old.names) => Len(old.names) = Len(entries)
  BY <1>4, <1>5 DEF Least
<1>7. /\ page \in Seq(EntryType) /\ Len(page) = last - Len(old.names)
      /\ \A i \in 1 .. Len(page) : page[i] = entries[Len(old.names) + i]
  <2> HIDE DEF last, old, entries
  <2>1. page = SubSeq(entries, Len(old.names) + 1, last)
    BY <1>4
  <2> HIDE DEF page
  <2>2. entries \in Seq(EntryType)
    BY <1>1
  <2> DEFINE a == Len(old.names)
  <2>3. a \in Nat /\ last \in Nat /\ a <= last /\ last <= Len(entries)
    BY <1>5, <1>6
  <2>4. page = SubSeq(entries, a + 1, last)
    BY <2>1
  <2> HIDE DEF a
  <2>5. /\ page \in Seq(EntryType)
        /\ Len(page) = last - a
        /\ \A i \in 1 .. Len(page) : page[i] = entries[a + i]
    BY ONLY <2>2, <2>3, <2>4, Piece, Zenon
  <2> QED
    BY <2>5 DEF a
<1> HIDE DEF last, page
<1>8. /\ new.inode = old.inode
      /\ new.offset = Len(new.names)
      /\ EntriesOf(bimap, new.names, d, names)
      /\ new.done => Len(new.names) = Len(names)
  <2>1. CASE page = <<>>
    <3>1. Len(old.names) = Len(names)
      BY <1>3, <1>5, <1>6, <1>7, <2>1
    <3>2. new = [old EXCEPT !.done = TRUE]
      BY <2>1
    <3>3. new.inode = old.inode /\ new.offset = old.offset /\ new.names = old.names
      BY <1>2, <3>2
    <3> HIDE DEF new
    <3> QED
      BY <1>4, <3>1, <3>3
  <2>2. CASE page # <<>>
    <3>1. new = [old EXCEPT !.offset = last, !.names = old.names \o page]
      BY <2>2
    <3>2. /\ old.names \o page \in Seq(EntryType) /\ Len(old.names \o page) = last
          /\ \A i \in 1 .. Len(old.names) : (old.names \o page)[i] = old.names[i]
          /\ \A i \in Len(old.names) + 1 .. last : (old.names \o page)[i] = entries[i]
      <4>1. old.names \in Seq(EntryType)
        BY <1>2
      <4> HIDE DEF old, entries
      <4>2. /\ old.names \o page \in Seq(EntryType)
            /\ Len(old.names \o page) = Len(old.names) + Len(page)
            /\ \A i \in 1 .. Len(old.names) + Len(page) :
                 (old.names \o page)[i] = IF i <= Len(old.names) THEN old.names[i]
                                          ELSE page[i - Len(old.names)]
        BY <1>7, <4>1, ConcatProperties
      <4>3. ASSUME NEW i \in Len(old.names) + 1 .. last
            PROVE  (old.names \o page)[i] = entries[i]
        <5>1. i - Len(old.names) \in 1 .. Len(page) /\ ~ (i <= Len(old.names))
          BY <1>5, <1>6, <1>7
        <5>2. page[i - Len(old.names)] = entries[Len(old.names) + (i - Len(old.names))]
          BY <1>7, <5>1
        <5> QED
          BY <1>5, <1>6, <1>7, <4>2, <5>1, <5>2
      <4> QED
        BY <1>5, <1>6, <1>7, <4>2, <4>3
    <3> DEFINE both == old.names \o page
    <3>3. /\ new.inode = old.inode /\ new.offset = last /\ new.names = both
          /\ new.done = old.done
      BY <1>2, <3>1
    <3>4. ~ old.done
      BY <1>3, <1>4, <1>5, <1>6, <1>7, <2>2
    <3> HIDE DEF new, both, names, entries, old
    <3>5. EntriesOf(bimap, both, d, names)
      <4>1. Len(both) = last /\ last <= Len(names)
        BY <1>3, <1>6, <3>2 DEF both
      <4>2. ASSUME NEW i \in 1 .. last
            PROVE  both[i].name = names[i] /\ <<both[i].inode, Resolve(d, i, names[i])>> \in bimap
        <5>1. CASE i \in 1 .. Len(old.names)
          BY <1>4, <3>2, <5>1 DEF EntriesOf, both
        <5>2. CASE i \in Len(old.names) + 1 .. last
          <6>1. i \in 1 .. Len(entries)
            BY <1>5, <1>6, <5>2
          <6> QED
            BY <1>3, <3>2, <5>2, <6>1 DEF EntriesOf, both
        <5> QED
          BY <1>5, <1>6, <5>1, <5>2
      <4> QED
        BY <4>1, <4>2 DEF EntriesOf
    <3> QED
      BY <3>2, <3>3, <3>4, <3>5 DEF both
  <2> QED
    BY <2>1, <2>2
<1> HIDE DEF new, names, entries, old, R
<1>9. ReadersAreWhole'
  <2> SUFFICES ASSUME NEW q \in Readers, readers'[q] # Closed
               PROVE  \E e \in Dirs :
                        /\ <<readers'[q].inode, e>> \in bimap
                        /\ readers'[q].offset = Len(readers'[q].names)
                        /\ EntriesOf(bimap, readers'[q].names, e, Expected(e))
                        /\ readers'[q].done => Len(readers'[q].names) = Len(Expected(e))
    BY <1>1 DEF ReadersAreWhole, IsOpen
  <2>1. CASE q = r
    <3>1. readers'[q] = new
      BY <1>1, <1>2, <2>1
    <3> QED
      BY <1>1, <1>3, <1>8, <3>1 DEF names
  <2>2. CASE q # r
    <3>1. readers'[q] = readers[q]
      BY <1>1, <1>2, <2>2
    <3> QED
      BY <3>1 DEF Whole, ReadersAreWhole, IsOpen
  <2> QED
    BY <2>1, <2>2
<1> QED
  BY <1>1, <1>9 DEF Whole, CallIsWhole

LEMMA NextWhole == Inv /\ Whole /\ [Next]_vars => Whole'
<1> SUFFICES ASSUME Inv, Whole, [Next]_vars PROVE Whole'
  OBVIOUS
<1>1. ASSUME NEW d \in ToldDirs, NEW n \in Names, Lookup(d, n) PROVE Whole'
  BY <1>1, LookupWhole
<1>2. ASSUME NEW r \in Readers, NEW d \in ToldDirs, Opendir(r, d) PROVE Whole'
  BY <1>2, OpendirWhole
<1>3. ASSUME NEW r \in Readers, Releasedir(r) PROVE Whole'
  BY <1>3, ReleasedirWhole
<1>4. ASSUME NEW r \in Readers, BeginReaddir(r) PROVE Whole'
  BY <1>4, BeginReaddirWhole
<1>5. ASSUME AddEntry PROVE Whole'
  BY <1>5, AddEntryWhole
<1>6. ASSUME NEW k \in 1 .. MaxPage, Reply(k) PROVE Whole'
  BY <1>6, ReplyWhole
<1>7. ASSUME UNCHANGED vars PROVE Whole'
  BY <1>7, ReadersStayWhole DEF vars, Whole, CallIsWhole
<1> QED
  BY <1>1, <1>2, <1>3, <1>4, <1>5, <1>6, <1>7 DEF Next

(* A reader gets each entry of the directory it opened, labels left out,    *)
(* once, in order, with the inode a lookup of it gives, however small the   *)
(* pages are and whatever is looked up, listed or remembered between them.  *)
THEOREM ListingsAreComplete == Spec => []ListingsAreWhole
<1>1. Init => Whole
  BY DEF Init, Whole, CallIsWhole, ReadersAreWhole, IsOpen
<1>2. Inv /\ Whole /\ [Next]_vars => Whole'
  BY NextWhole
<1>3. Inv /\ Whole => ListingsAreWhole
  <2> SUFFICES ASSUME Inv, Whole, NEW r \in Readers, IsOpen(r)
               PROVE  \E d \in PathsOf(readers[r].inode) :
                        LET seen == readers[r].names
                        IN  /\ Len(seen) <= Len(Expected(d))
                            /\ \A i \in DOMAIN seen : seen[i].name = Expected(d)[i]
                            /\ \A i \in DOMAIN seen : <<seen[i].inode, Resolve(d, i, seen[i].name)>> \in bimap
                            /\ readers[r].done => Len(seen) = Len(Expected(d))
    BY DEF ListingsAreWhole
  <2> DEFINE seen == readers[r].names
  <2>1. PICK d \in Dirs :
          /\ <<readers[r].inode, d>> \in bimap
          /\ EntriesOf(bimap, seen, d, Expected(d))
          /\ readers[r].done => Len(seen) = Len(Expected(d))
    BY DEF Whole, ReadersAreWhole
  <2>2. d \in PathsOf(readers[r].inode)
    BY <2>1 DEF PathsOf
  <2>3. DOMAIN seen = 1 .. Len(seen)
    BY DEF Inv, TypeOK
  <2> HIDE DEF seen
  <2>4. /\ Len(seen) <= Len(Expected(d))
        /\ \A i \in DOMAIN seen : seen[i].name = Expected(d)[i]
        /\ \A i \in DOMAIN seen : <<seen[i].inode, Resolve(d, i, seen[i].name)>> \in bimap
        /\ readers[r].done => Len(seen) = Len(Expected(d))
    BY <2>1, <2>3 DEF EntriesOf
  <2> QED
    BY <2>2, <2>4 DEF seen
<1> QED
  BY <1>1, <1>2, <1>3, TableInvariant, PTL DEF Spec
=============================================================================
