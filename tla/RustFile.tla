------------------------------ MODULE RustFile ------------------------------
(***************************************************************************)
(* An open file of the Rust reader (rust/fatx/src/file.rs): its seek and   *)
(* its read.                                                               *)
(*                                                                         *)
(* A handle remembers the last cluster it read, by its place in the chain  *)
(* and by its number, and goes on from there: the two must not come apart. *)
(* The volume is read-only.  A read holds the lock of the filesystem from  *)
(* beginning to end; its loop is modelled iteration by iteration, the scan *)
(* of the chain link by link, since each of them may be the one to fail.   *)
(***************************************************************************)
EXTENDS Integers, Sequences

CONSTANTS
  BytesPerCluster,
  Files,        (* the files that may be opened                              *)
  Offsets,      (* arguments of seek                                         *)
  Lengths,      (* lengths of the caller's buffer                            *)
  Word          (* numbers of 32 bits wrap here                              *)

VARIABLES
  file,         (* its clusters, its size, how much of each the image has    *)
  checked,      (* does the build check for overflow, as debug builds do?    *)
  seekPos,      (* seek_pos                                                  *)
  relative,     (* cur_cluster_relative                                      *)
  absolute,     (* cur_cluster_absolute                                      *)
  mode,         (* where the handle is: idle, in the loop, scanning          *)
  left,         (* iterations of the scan still to do                        *)
  from,         (* seek_pos when the read began                              *)
  want,         (* buf.len()                                                 *)
  got,          (* buf[..buf_pos]: for each byte, its cluster and offset     *)
  strayed       (* has a scan failed part way, and none begun afresh since?  *)

handle == <<file, checked>>
cursor == <<relative, absolute, strayed>>
vars == <<file, checked, seekPos, relative, absolute, mode, left, from, want, got, strayed>>

Chain == file.chain
Places == 1 .. Len(Chain)

(* A file as the directory entry and the FAT have it.  The size may be more *)
(* than the clusters hold: VolumeCrash says how that comes about.           *)
IsFile(f) ==
  /\ f.chain \in Seq(Nat) /\ f.chain # <<>>
  /\ \A i, j \in 1 .. Len(f.chain) : f.chain[i] = f.chain[j] => i = j
  /\ f.size \in 0 .. Word - 1
  /\ f.image \in [1 .. Len(f.chain) -> 0 .. BytesPerCluster]

ASSUME FileAssumption ==
  /\ BytesPerCluster \in Nat \ {0}
  /\ Word \in Nat \ {0}
  /\ \A f \in Files : IsFile(f)
  /\ Offsets \subseteq Int
  /\ Lengths \subseteq Nat

-----------------------------------------------------------------------------
(* What the handle computes. *)

AsU32(n) == n % Word

(* bytes_remaining_in_file: past the end, the subtraction wraps. *)
Remaining == AsU32(file.size - seekPos)

(* Mutant: "Ensure we don't read past EOF" does not. *)
NeverAtTheEnd == FALSE

AtTheEnd == Remaining = 0

Target == seekPos \div BytesPerCluster

(* fs.fat.entry: the link that follows a cluster of the chain; past the last *)
(* one there is none (the entry is the end marker, or not a link at all).    *)
PlaceOf(c) == CHOOSE i \in Places : Chain[i] = c
HasNext(c) == PlaceOf(c) < Len(Chain)
Link(c) == Chain[PlaceOf(c) + 1]

Least(S) == CHOOSE x \in S : \A y \in S : x <= y

(* bytes_to_read_from_cluster *)
Piece == Least({want - Len(got), BytesPerCluster - (seekPos % BytesPerCluster), Remaining})

(* What the image has of that: it may end before the file does. *)
AtMost == Least({Piece, file.image[PlaceOf(absolute)] - (seekPos % BytesPerCluster)})

-----------------------------------------------------------------------------
Opened(f) ==
  /\ file' = f
  /\ seekPos' = 0
  /\ relative' = 0
  /\ absolute' = f.chain[1]
  /\ strayed' = FALSE
  /\ mode' = "idle"
  /\ left' = 0
  /\ from' = 0 /\ want' = 0 /\ got' = <<>>

Init ==
  /\ file \in Files
  /\ checked \in BOOLEAN
  /\ seekPos = 0
  /\ relative = 0
  /\ absolute = file.chain[1]
  /\ strayed = FALSE
  /\ mode = "idle"
  /\ left = 0
  /\ from = 0 /\ want = 0 /\ got = <<>>

(* Another handle; after a panic, which poisons the lock, another process. *)
Open == mode \in {"idle", "panicked"} /\ (\E f \in Files : Opened(f)) /\ UNCHANGED checked

(* Where a seek would go.  A seek to before the beginning is refused. *)
SeekTarget(whence, offset) ==
  CASE whence = "start" -> offset
    [] whence = "current" -> seekPos + offset
    [] whence = "end" -> file.size + offset

SeekTo(whence, offset) ==
  /\ mode = "idle"
  /\ SeekTarget(whence, offset) >= 0
  /\ seekPos' = AsU32(SeekTarget(whence, offset))
  /\ from' = seekPos' /\ want' = 0 /\ got' = <<>>
  /\ UNCHANGED <<handle, cursor, mode, left>>

Seek == \E whence \in {"start", "current", "end"}, offset \in Offsets : SeekTo(whence, offset)

BeginRead ==
  /\ mode = "idle"
  /\ mode' = "loop"
  /\ want' \in Lengths
  /\ from' = seekPos
  /\ got' = <<>>
  /\ UNCHANGED <<handle, seekPos, cursor, left>>

(* The subtraction of the remaining bytes underflows: a debug build panics, *)
(* a release build goes on with the wrapped number.                         *)
Overflow ==
  /\ mode = "loop" /\ Len(got) < want
  /\ checked /\ seekPos > file.size
  /\ mode' = "panicked"
  /\ UNCHANGED <<handle, seekPos, cursor, left, from, want, got>>

NoOverflow == checked => seekPos <= file.size

EndRead ==
  /\ mode = "loop"
  /\ Len(got) < want => NoOverflow /\ AtTheEnd
  /\ mode' = "idle"
  /\ UNCHANGED <<handle, seekPos, cursor, left, from, want, got>>

(* Mutant: the cursor is never taken back to the first cluster. *)
NeverBehind == FALSE

Behind == Target < relative

(* "Map current file position to cluster number": from the first cluster if *)
(* the cursor is behind it, else from the cursor.                           *)
BeginScan ==
  /\ mode = "loop"
  /\ Len(got) < want /\ NoOverflow /\ ~AtTheEnd
  /\ mode' = "scan"
  /\ relative' = IF Behind THEN 0 ELSE relative
  /\ absolute' = IF Behind THEN Chain[1] ELSE absolute
  /\ strayed' = (strayed /\ ~Behind)
  /\ left' = IF Target >= relative' THEN Target - relative' ELSE 0
  /\ UNCHANGED <<handle, seekPos, from, want, got>>

ScanOn ==
  /\ mode = "scan" /\ left > 0
  /\ HasNext(absolute)
  /\ absolute' = Link(absolute)
  /\ left' = left - 1
  /\ UNCHANGED <<handle, seekPos, relative, strayed, mode, from, want, got>>

(* "Corrupt FAT chain": the number of the cluster has moved, its place not. *)
ScanFails ==
  /\ mode = "scan" /\ left > 0
  /\ ~HasNext(absolute)
  /\ mode' = "idle"
  /\ left' = 0
  /\ strayed' = TRUE
  /\ UNCHANGED <<handle, seekPos, relative, absolute, from, want, got>>

(* Mutant: the position advances by what was asked for. *)
AdvanceByPiece(n) == Piece

Advance(n) == n

(* The scan is over: the place is noted before the device is read.  A read  *)
(* may be short, and returns nothing beyond the end of the image.           *)
ReadCluster ==
  /\ mode = "scan" /\ left = 0
  /\ relative' = Target
  /\ \E n \in IF AtMost > 0 THEN 1 .. AtMost ELSE {0} :
       /\ got' = got \o [i \in 1 .. n |-> <<absolute, (seekPos % BytesPerCluster) + i - 1>>]
       /\ seekPos' = AsU32(seekPos + Advance(n))
  /\ mode' = "loop"
  /\ UNCHANGED <<handle, absolute, strayed, left, from, want>>

(* The device fails: what was read before is lost to the caller, the       *)
(* position keeps it.                                                       *)
ReadFails ==
  /\ mode = "scan" /\ left = 0
  /\ relative' = Target
  /\ mode' = "idle"
  /\ UNCHANGED <<handle, seekPos, absolute, strayed, left, from, want, got>>

Reading == EndRead \/ Overflow \/ BeginScan \/ ScanOn \/ ScanFails \/ ReadCluster \/ ReadFails

Next == Open \/ Seek \/ BeginRead \/ Reading

(* A thread that is in read goes on with it: it holds the lock and waits    *)
(* for nothing but the device.                                              *)
Spec == Init /\ [][Next]_vars /\ WF_vars(Reading)

-----------------------------------------------------------------------------
(* The type invariant. *)
TypeOK ==
  /\ file \in Files
  /\ checked \in BOOLEAN /\ strayed \in BOOLEAN
  /\ seekPos \in 0 .. Word - 1 /\ from \in 0 .. Word - 1
  /\ relative \in Nat /\ left \in Nat /\ want \in Nat
  /\ absolute \in Nat
  /\ mode \in {"idle", "loop", "scan", "panicked"}
  /\ got \in Seq(Nat \X Nat)

(* Between reads the number of the cluster is that of its place in the     *)
(* chain, whatever was sought, read and failed since the file was opened.  *)
CursorIsInTheChain ==
  ~strayed /\ mode # "scan" => relative + 1 \in Places /\ absolute = Chain[relative + 1]

(* The byte of the file at a position. *)
ByteAt(p) == <<Chain[(p \div BytesPerCluster) + 1], p % BytesPerCluster>>

IsOfTheFile ==
  /\ from + Len(got) <= file.size
  /\ \A i \in 1 .. Len(got) : got[i] = ByteAt(from + i - 1)

(* A read that begins inside the file (or at its end) fills the buffer with *)
(* the bytes of the file from the position on, in order, and with nothing   *)
(* beyond its end.                                                          *)
ReadsTheFile == ~strayed /\ from <= file.size => IsOfTheFile

(* The same of any handle on a file whose clusters hold its size: "Map      *)
(* current file position to cluster number" (file.rs:79).                   *)
ReadsEverySoundFile ==
  from <= file.size /\ file.size <= Len(Chain) * BytesPerCluster => IsOfTheFile

ImageIsWhole == \A i \in Places : file.image[i] = BytesPerCluster

(* The device may fail a read, but as long as the image has the clusters    *)
(* whole a read that began ends: every iteration moves the scan or the      *)
(* position on.                                                             *)
ReadsEnd == (mode \in {"loop", "scan"} /\ ImageIsWhole) ~> (mode \in {"idle", "panicked"})
=============================================================================
