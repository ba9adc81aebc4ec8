------------------------------- MODULE Inodes -------------------------------
(***************************************************************************)
(* The Rust FUSE front end (rust/fatx-fuse/src/main.rs): the table of      *)
(* inodes, and the two handlers that add to it, lookup and readdir.        *)
(*                                                                         *)
(* The volume is mounted read-only, so the tree is a constant.  The kernel *)
(* calls one handler at a time, with inodes it was given before.  It reads *)
(* a directory in pages, each time passing the offset it was given with    *)
(* the last entry; other calls, of other readers too, come in between, and *)
(* every page is cut out of a list that readdir builds anew.               *)
(***************************************************************************)
EXTENDS Naturals, Sequences

CONSTANTS
  Listing,      (* for the path of each directory, its names, in their order *)
  Labels,       (* paths of volume labels: neither file nor directory        *)
  Names,        (* the names that are looked up                              *)
  Readers,      (* directories open at a time                                *)
  MaxPage       (* entries that fit the buffer of a readdir                  *)

VARIABLES
  bimap,        (* pairs of an inode and its path                            *)
  nextInode,    (* next_inode                                                *)
  told,         (* the pairs the kernel has been told of                     *)
  readers,      (* what the kernel has of each directory it reads            *)
  call          (* the readdir that is building its entries, or Idle         *)

vars == <<bimap, nextInode, told, readers, call>>

Root == <<>>
RootInode == 1
Dirs == DOMAIN Listing

Child(d, n) == Append(d, n)

(* Path::parent *)
Parent(p) == IF p = Root THEN Root ELSE SubSeq(p, 1, Len(p) - 1)

(* What DirectoryEntry::from_path finds. *)
ChildrenOf(d) == {Child(d, Listing[d][i]) : i \in DOMAIN Listing[d]}
Nodes == {Root} \cup UNION {ChildrenOf(d) : d \in Dirs}

Idle == [reader |-> "none"]
Closed == [inode |-> 0, offset |-> 0, names |-> <<>>, done |-> FALSE]
IsOpen(r) == readers[r] # Closed

ASSUME InodesAssumption ==
  /\ Names # {} /\ Readers # {} /\ "none" \notin Readers
  /\ MaxPage \in Nat \ {0}
  /\ Root \in Dirs
  /\ \A d \in Dirs : d \in Seq(Names) /\ Listing[d] \in Seq(Names) /\ Parent(d) \in Dirs
  /\ Dirs \subseteq Nodes /\ Dirs \cap Labels = {}

-----------------------------------------------------------------------------
(* InodeTracker *)

PathsOf(i) == {x[2] : x \in {y \in bimap : y[1] = i}}
InodeOf(p) == (CHOOSE x \in bimap : x[2] = p)[1]

(* Mutant: every call makes a new inode. *)
NeverKnown(p) == FALSE

Known(p) == \E x \in bimap : x[2] = p

(* BiMap::insert drops the pairs that have the inode or the path. *)
Insert(i, p) == {x \in bimap : x[1] # i /\ x[2] # p} \cup {<<i, p>>}

Given(p) == IF Known(p) THEN InodeOf(p) ELSE nextInode

NextAfter == nextInode + 1

GetOrCreate(p) ==
  IF Known(p) THEN UNCHANGED <<bimap, nextInode>>
  ELSE /\ bimap' = Insert(nextInode, p)
       /\ nextInode' = NextAfter

-----------------------------------------------------------------------------
Init ==
  /\ bimap = {<<RootInode, Root>>}
  /\ nextInode = 2
  /\ told = {<<RootInode, Root>>}
  /\ readers = [r \in Readers |-> Closed]
  /\ call = Idle

(* Mutant: the path is remembered before it is found. *)
FoundOrNot(p) == TRUE

Found(p) == p \in Nodes

(* A volume label is found, and remembered, but is no answer. *)
Lookup(d, n) ==
  /\ call = Idle
  /\ Found(Child(d[2], n))
  /\ GetOrCreate(Child(d[2], n))
  /\ told' = IF Child(d[2], n) \in Labels THEN told
             ELSE told \cup {<<Given(Child(d[2], n)), Child(d[2], n)>>}
  /\ UNCHANGED <<readers, call>>

(* The kernel opens a directory it knows, from its beginning. *)
Opendir(r, d) ==
  /\ call = Idle /\ ~IsOpen(r)
  /\ readers' = [readers EXCEPT ![r] = [Closed EXCEPT !.inode = d[1]]]
  /\ UNCHANGED <<bimap, nextInode, told, call>>

Releasedir(r) ==
  /\ call = Idle /\ IsOpen(r)
  /\ readers' = [readers EXCEPT ![r] = Closed]
  /\ UNCHANGED <<bimap, nextInode, told, call>>

Entry(n, i) == [name |-> n, inode |-> i]

(* The entries of the directory itself and of its parent. *)
BeginReaddir(r) ==
  /\ call = Idle /\ IsOpen(r) /\ ~readers[r].done
  /\ \E d \in PathsOf(readers[r].inode) :
       /\ GetOrCreate(Parent(d))
       /\ call' = [reader |-> r, path |-> d, next |-> 1,
                   entries |-> <<Entry(".", readers[r].inode), Entry("..", Given(Parent(d)))>>]
  /\ UNCHANGED <<told, readers>>

(* The next entry of the directory: labels are left out. *)
AddEntry ==
  /\ call # Idle /\ call.next \in DOMAIN Listing[call.path]
  /\ LET n == Listing[call.path][call.next]
         p == Child(call.path, n)
     IN  IF p \in Labels
         THEN /\ call' = [call EXCEPT !.next = @ + 1]
              /\ UNCHANGED <<bimap, nextInode>>
         ELSE /\ GetOrCreate(p)
              /\ call' = [call EXCEPT !.next = @ + 1, !.entries = Append(@, Entry(n, Given(p)))]
  /\ UNCHANGED <<told, readers>>

(* Mutant: the offset of an entry is its own, not that of the next. *)
OwnOffset(i) == i - 1

OffsetAfter(i) == i

Least(a, b) == IF a <= b THEN a ELSE b

(* As many entries from the offset on as fit.  None ends the listing.  The *)
(* kernel goes on from the offset that came with the last.                 *)
Reply(k) ==
  /\ call # Idle /\ call.next \notin DOMAIN Listing[call.path]
  /\ LET r == call.reader
         old == readers[r]
         last == Least(old.offset + k, Len(call.entries))
         page == SubSeq(call.entries, old.offset + 1, last)
     IN  readers' = [readers EXCEPT ![r] =
           IF page = <<>> THEN [old EXCEPT !.done = TRUE]
           ELSE [old EXCEPT !.offset = OffsetAfter(last), !.names = old.names \o page]]
  /\ call' = Idle
  /\ UNCHANGED <<bimap, nextInode, told>>

ToldDirs == {x \in told : x[2] \in Dirs}

Next ==
  \/ \E d \in ToldDirs, n \in Names : Lookup(d, n)
  \/ \E r \in Readers : Releasedir(r) \/ BeginReaddir(r) \/ \E d \in ToldDirs : Opendir(r, d)
  \/ AddEntry
  \/ \E k \in 1 .. MaxPage : Reply(k)

Spec == Init /\ [][Next]_vars

-----------------------------------------------------------------------------
(* The type invariant. *)
TypeOK ==
  /\ bimap \subseteq (Nat \X Seq(Names)) /\ told \subseteq (Nat \X Seq(Names))
  /\ nextInode \in Nat
  /\ readers \in [Readers -> [inode : Nat, offset : Nat, names : Seq([name : Names \cup {".", ".."}, inode : Nat]),
                             done : BOOLEAN]]
  /\ \A x \in bimap : x[1] \in 1 .. nextInode - 1

(* What the kernel was told of stays true: inodes are not given again, and *)
(* no insertion drops a pair.                                              *)
InodesStay == told \subseteq bimap

(* getattr expects to find the path of every inode it is asked for, and    *)
(* readdir to list it: whatever was looked up, every path in the table is  *)
(* one of the volume, and what was told to be a directory is one.          *)
EveryInodeIsFound ==
  /\ \A x \in bimap : x[2] \in Nodes
  /\ \A r \in Readers : IsOpen(r) => PathsOf(readers[r].inode) \cap Dirs # {}

(* The names of a directory that are listed, among its first n: all but     *)
(* the labels. *)
VisibleAmong(d, n) ==
  LET upTo[i \in 0 .. Len(Listing[d])] ==
        IF i = 0 THEN <<>>
        ELSE IF Child(d, Listing[d][i]) \in Labels THEN upTo[i - 1]
        ELSE Append(upTo[i - 1], Listing[d][i])
  IN  upTo[n]

(* What a listing is to be: itself, its parent, and its entries in order.  *)
Expected(d) == <<".", "..">> \o VisibleAmong(d, Len(Listing[d]))

(* The path that the i-th entry of a listing, of that name, stands for.    *)
Resolve(d, i, n) == IF i = 1 THEN d ELSE IF i = 2 THEN Parent(d) ELSE Child(d, n)

(* However a listing is cut into pages, and whatever is looked up or       *)
(* listed between them, a reader gets each entry once, in order, with the  *)
(* inode a lookup of it gives, and all of them before it is told the end.  *)
ListingsAreWhole ==
  \A r \in Readers : IsOpen(r) =>
    \E d \in PathsOf(readers[r].inode) :
      LET seen == readers[r].names
      IN  /\ Len(seen) <= Len(Expected(d))
          /\ \A i \in DOMAIN seen : seen[i].name = Expected(d)[i]
          /\ \A i \in DOMAIN seen : <<seen[i].inode, Resolve(d, i, seen[i].name)>> \in bimap
          /\ readers[r].done => Len(seen) = Len(Expected(d))
=============================================================================
