--------------------------- MODULE RustFileProofs ---------------------------
(***************************************************************************)
(* An open file of the Rust reader, for every file, every size of cluster  *)
(* and every sequence of seeks and reads: as long as no scan has failed    *)
(* part way the cursor is in the chain, and a read gives the bytes of the  *)
(* file.  (That a read ends is liveness: see the run.)                     *)
(***************************************************************************)
EXTENDS RustFile, TLAPS

-----------------------------------------------------------------------------
(* Arithmetic. *)

LEMMA Quotients ==
  ASSUME NEW a \in Nat, NEW b \in Nat \ {0}
  PROVE  /\ a \div b \in Nat
         /\ a % b \in 0 .. b - 1
         /\ a = b * (a \div b) + (a % b)
OBVIOUS

(* A number has one quotient and one remainder. *)
LEMMA QuotientUnique ==
  ASSUME NEW b \in Nat \ {0}, NEW p \in Nat, NEW q \in Nat,
         NEW r \in 0 .. b - 1, NEW s \in 0 .. b - 1,
         b * p + r = b * q + s
  PROVE  p = q /\ r = s
<1>1. ~(p < q)
  <2>1. SUFFICES ASSUME p < q PROVE FALSE
    OBVIOUS
  <2>2. PICK d \in Nat : q = p + 1 + d
    <3>1. q - p - 1 \in Nat /\ q = p + 1 + (q - p - 1)
      BY <2>1
    <3> QED
      BY <3>1
  <2>3. b * q = b * p + b + b * d /\ b * d \in Nat /\ b * p \in Nat
    BY <2>2
  <2> QED
    BY <2>3
<1>2. ~(q < p)
  <2>1. SUFFICES ASSUME q < p PROVE FALSE
    OBVIOUS
  <2>2. PICK d \in Nat : p = q + 1 + d
    <3>1. p - q - 1 \in Nat /\ p = q + 1 + (p - q - 1)
      BY <2>1
    <3> QED
      BY <3>1
  <2>3. b * p = b * q + b + b * d /\ b * d \in Nat /\ b * q \in Nat
    BY <2>2
  <2> QED
    BY <2>3
<1> QED
  BY <1>1, <1>2

(* Inside a cluster, the bytes that follow one are at the offsets that follow. *)
LEMMA WithinACluster ==
  ASSUME NEW a \in Nat, NEW b \in Nat \ {0}, NEW k \in Nat, (a % b) + k < b
  PROVE  (a + k) \div b = a \div b /\ (a + k) % b = (a % b) + k
<1> DEFINE p == a \div b
           r == a % b
           q == (a + k) \div b
           s == (a + k) % b
<1>1. p \in Nat /\ r \in 0 .. b - 1 /\ a = b * p + r
  BY Quotients
<1>2. q \in Nat /\ s \in 0 .. b - 1 /\ a + k = b * q + s
  BY Quotients, a + k \in Nat
<1>3. r + k \in 0 .. b - 1
  BY <1>1
<1> HIDE DEF p, r, q, s
<1>4. b * p + (r + k) = b * q + s
  BY <1>1, <1>2
<1>5. p = q /\ r + k = s
  BY <1>1, <1>2, <1>3, <1>4, QuotientUnique
<1> QED
  BY <1>5 DEF p, r, q, s

LEMMA Wrapped ==
  ASSUME NEW n \in Int
  PROVE  AsU32(n) \in 0 .. Word - 1 /\ (n \in 0 .. Word - 1 => AsU32(n) = n)
<1>1. Word \in Nat \ {0}
  BY FileAssumption
<1>2. n % Word \in 0 .. Word - 1
  BY <1>1
<1>3. ASSUME n \in 0 .. Word - 1 PROVE n % Word = n
  <2>1. n = Word * (n \div Word) + (n % Word) /\ n \div Word \in Nat
    BY <1>1, <1>3, Quotients
  <2>2. n = Word * 0 + n
    BY <1>1, <1>3
  <2> QED
    BY <1>1, <1>2, <1>3, <2>1, <2>2, QuotientUnique
<1> QED
  BY <1>2, <1>3 DEF AsU32

LEMMA QuotientsGrow ==
  ASSUME NEW a \in Nat, NEW k \in Nat, NEW b \in Nat \ {0}
  PROVE  a \div b <= (a + k) \div b
<1> DEFINE p == a \div b
           r == a % b
           q == (a + k) \div b
           s == (a + k) % b
<1>1. p \in Nat /\ r \in 0 .. b - 1 /\ a = b * p + r
  BY Quotients
<1>2. q \in Nat /\ s \in 0 .. b - 1 /\ a + k = b * q + s
  BY Quotients, a + k \in Nat
<1> HIDE DEF p, r, q, s
<1>3. ~(q < p)
  <2>1. SUFFICES ASSUME q < p PROVE FALSE
    OBVIOUS
  <2>2. PICK d \in Nat : p = q + 1 + d
    <3>1. p - q - 1 \in Nat /\ p = q + 1 + (p - q - 1)
      BY <1>1, <1>2, <2>1
    <3> QED
      BY <3>1
  <2>3. b * p = b * q + b + b * d /\ b * d \in Nat /\ b * q \in Nat
    BY <1>2, <2>2
  <2> QED
    BY <1>1, <1>2, <2>3
<1> QED
  BY <1>1, <1>2, <1>3 DEF p, q

LEMMA LeastOfTwo ==
  ASSUME NEW a \in Int, NEW b \in Int
  PROVE  Least({a, b}) \in {a, b} /\ Least({a, b}) <= a /\ Least({a, b}) <= b
<1>1. \E x \in {a, b} : \A y \in {a, b} : x <= y
  OBVIOUS
<1> QED
  BY <1>1 DEF Least

LEMMA LeastOfThree ==
  ASSUME NEW a \in Int, NEW b \in Int, NEW c \in Int
  PROVE  /\ Least({a, b, c}) \in {a, b, c}
         /\ Least({a, b, c}) <= a /\ Least({a, b, c}) <= b /\ Least({a, b, c}) <= c
<1>1. \E x \in {a, b, c} : \A y \in {a, b, c} : x <= y
  OBVIOUS
<1> QED
  BY <1>1 DEF Least

-----------------------------------------------------------------------------
(* The chain of the open file. *)

LEMMA FileFacts ==
  ASSUME file \in Files
  PROVE  /\ Chain \in Seq(Nat) /\ Len(Chain) \in Nat /\ 1 \in Places
         /\ \A i \in Places : Chain[i] \in Nat
         /\ \A i \in Places : PlaceOf(Chain[i]) = i
         /\ file.size \in 0 .. Word - 1
         /\ file.image \in [Places -> 0 .. BytesPerCluster]
<1>1. IsFile(file)
  BY FileAssumption
<1>2. Chain \in Seq(Nat) /\ Len(Chain) \in Nat /\ Chain # <<>>
  BY <1>1 DEF IsFile, Chain
<1>3. 1 \in Places
  BY <1>2 DEF Places
<1>4. \A i \in Places : Chain[i] \in Nat
  BY <1>2 DEF Places
<1>5. \A i, j \in Places : Chain[i] = Chain[j] => i = j
  BY <1>1 DEF IsFile, Chain, Places
<1>6. \A i \in Places : PlaceOf(Chain[i]) = i
  BY <1>5 DEF PlaceOf
<1> QED
  BY <1>1, <1>2, <1>3, <1>4, <1>6 DEF IsFile, Chain, Places

-----------------------------------------------------------------------------
(* The invariant.  A scan under way has the cursor where it would be if the *)
(* scan ended there; a read under way is where its bytes end, and is never  *)
(* behind the cursor once it has some, so that a scan that begins afresh    *)
(* (which is what ends straying) has none to answer for.                    *)

Placed ==
  /\ \E i \in Places : absolute = Chain[i]
  /\ CursorIsInTheChain
  /\ mode = "scan" =>
       /\ left <= Target
       /\ ~strayed => /\ Target - left + 1 \in Places
                      /\ absolute = Chain[Target - left + 1]

InTheRead ==
  /\ mode \in {"loop", "scan"} /\ from <= file.size =>
       seekPos = from + Len(got) /\ seekPos <= file.size
  /\ mode = "loop" /\ got # <<>> /\ from <= file.size => relative <= Target
  /\ mode = "scan" /\ from <= file.size => Len(got) < want /\ seekPos < file.size
  /\ ReadsTheFile

Inv == TypeOK /\ Placed /\ InTheRead

LEMMA EmptyIsOfTheFile ==
  ASSUME TypeOK, got = <<>>, from <= file.size
  PROVE  IsOfTheFile
<1>1. file.size \in Nat /\ from \in Nat /\ Len(got) = 0
  BY FileFacts, FileAssumption DEF TypeOK
<1> QED
  BY <1>1 DEF IsOfTheFile

LEMMA InitInv == Init => Inv
<1> SUFFICES ASSUME Init PROVE Inv
  OBVIOUS
<1>1. TypeOK
  <2>1. file \in Files /\ 0 \in 0 .. Word - 1 /\ <<>> \in Seq(Nat \X Nat)
    BY FileAssumption DEF Init
  <2>2. file.chain[1] \in Nat
    BY <2>1, FileFacts DEF Chain
  <2> QED
    BY <2>1, <2>2 DEF Init, TypeOK
<1>2. Placed
  BY FileFacts DEF Init, Placed, CursorIsInTheChain, Chain
<1>3. IsOfTheFile
  <2>1. file.size \in Nat /\ from = 0 /\ got = <<>>
    BY FileFacts, FileAssumption DEF Init
  <2> QED
    BY <1>1, <2>1, EmptyIsOfTheFile
<1>4. InTheRead
  BY <1>3 DEF Init, InTheRead, ReadsTheFile
<1> QED
  BY <1>1, <1>2, <1>4 DEF Inv

-----------------------------------------------------------------------------
(* The steps. *)

(* Opening another file is beginning afresh. *)
LEMMA OpenStep == Inv /\ Open => Inv'
<1> SUFFICES ASSUME Inv, Open PROVE Inv'
  OBVIOUS
<1>1. PICK f \in Files : Opened(f)
  BY DEF Open
<1>2. file' \in Files /\ file' = f
  BY <1>1 DEF Opened
<1>3. /\ f.chain \in Seq(Nat) /\ 1 \in 1 .. Len(f.chain)
      /\ f.size \in Nat
  <2>1. IsFile(f)
    BY FileAssumption
  <2>2. f.chain \in Seq(Nat) /\ f.chain # <<>> /\ f.size \in 0 .. Word - 1
    BY <2>1 DEF IsFile
  <2> QED
    BY <2>2, FileAssumption
<1>4. TypeOK'
  <2>1. 0 \in 0 .. Word - 1 /\ <<>> \in Seq(Nat \X Nat) /\ f.chain[1] \in Nat
    BY <1>3, FileAssumption
  <2> QED
    BY <1>1, <1>2, <2>1 DEF Opened, TypeOK, Open, Inv
<1>5. Placed'
  BY <1>1, <1>3 DEF Opened, Placed, CursorIsInTheChain, Chain, Places
<1>6. IsOfTheFile'
  BY <1>1, <1>3 DEF Opened, IsOfTheFile
<1>7. InTheRead'
  BY <1>1, <1>6 DEF Opened, InTheRead, ReadsTheFile
<1> QED
  BY <1>4, <1>5, <1>7 DEF Inv

(* A seek only moves the position: the cursor is looked at by the next read. *)
LEMMA SeekStep == Inv /\ Seek => Inv'
<1> SUFFICES ASSUME Inv, NEW w \in {"start", "current", "end"}, NEW o \in Offsets, SeekTo(w, o)
             PROVE  Inv'
  BY DEF Seek
<1>1. TypeOK /\ Placed /\ mode = "idle"
  BY DEF Inv, SeekTo
<1>2. SeekTarget(w, o) \in Int
  <2>1. o \in Int /\ seekPos \in Int /\ file.size \in Int
    BY <1>1, FileAssumption, FileFacts DEF TypeOK
  <2> QED
    BY <2>1 DEF SeekTarget
<1>3. seekPos' \in 0 .. Word - 1 /\ from' = seekPos' /\ want' = 0 /\ got' = <<>>
  BY <1>2, Wrapped DEF SeekTo
<1>4. UNCHANGED <<file, checked, relative, absolute, strayed, mode, left>>
  BY DEF SeekTo, handle, cursor
<1>5. TypeOK'
  <2>1. <<>> \in Seq(Nat \X Nat)
    OBVIOUS
  <2> QED
    BY <1>1, <1>3, <1>4, <2>1 DEF TypeOK
<1>6. Placed'
  BY <1>1, <1>4 DEF Placed, CursorIsInTheChain, Chain, Places
<1>7. from' <= file'.size => IsOfTheFile'
  <2>1. file'.size \in Int /\ from' \in Int
    BY <1>1, <1>3, <1>4, FileFacts, FileAssumption DEF TypeOK
  <2> QED
    BY <2>1, <1>3 DEF IsOfTheFile
<1>8. InTheRead'
  BY <1>1, <1>4, <1>7 DEF InTheRead, ReadsTheFile
<1> QED
  BY <1>5, <1>6, <1>8 DEF Inv

LEMMA BeginReadStep == Inv /\ BeginRead => Inv'
<1> SUFFICES ASSUME Inv, BeginRead PROVE Inv'
  OBVIOUS
<1>1. TypeOK /\ Placed /\ mode = "idle" /\ mode' = "loop"
  BY DEF Inv, BeginRead
<1>2. /\ want' \in Nat /\ from' = seekPos /\ got' = <<>>
      /\ UNCHANGED <<file, checked, seekPos, relative, absolute, strayed, left>>
  BY FileAssumption DEF BeginRead, handle, cursor
<1>3. TypeOK'
  <2>1. <<>> \in Seq(Nat \X Nat)
    OBVIOUS
  <2> QED
    BY <1>1, <1>2, <2>1 DEF TypeOK
<1>4. Placed'
  BY <1>1, <1>2 DEF Placed, CursorIsInTheChain, Chain, Places
<1>5. file.size \in Int /\ seekPos \in Int
  BY <1>1, FileFacts, FileAssumption DEF TypeOK
<1>6. from' <= file'.size => IsOfTheFile'
  BY <1>2, <1>5 DEF IsOfTheFile
<1>7. InTheRead'
  BY <1>1, <1>2, <1>5, <1>6 DEF InTheRead, ReadsTheFile
<1> QED
  BY <1>3, <1>4, <1>7 DEF Inv

(* A read that ends, normally or with a panic, leaves all as it is. *)
LEMMA StopStep == Inv /\ (EndRead \/ Overflow) => Inv'
<1> SUFFICES ASSUME Inv, EndRead \/ Overflow PROVE Inv'
  OBVIOUS
<1>1. /\ mode = "loop" /\ mode' \in {"idle", "panicked"}
      /\ UNCHANGED <<file, checked, seekPos, relative, absolute, strayed, left, from, want, got>>
  BY DEF EndRead, Overflow, handle, cursor
<1>2. TypeOK'
  BY <1>1 DEF Inv, TypeOK
<1>3. Placed'
  BY <1>1 DEF Inv, Placed, CursorIsInTheChain, Chain, Places
<1>4. InTheRead'
  BY <1>1 DEF Inv, InTheRead, ReadsTheFile, IsOfTheFile, ByteAt, Chain
<1> QED
  BY <1>2, <1>3, <1>4 DEF Inv

LEMMA TargetIsNat ==
  ASSUME TypeOK
  PROVE  Target \in Nat /\ seekPos \in Nat /\ file.size \in Nat /\ from \in Nat
<1>1. seekPos \in Nat /\ file.size \in Nat /\ from \in Nat
  BY FileFacts, FileAssumption DEF TypeOK
<1> QED
  BY <1>1, FileAssumption, Quotients DEF Target

(* Inside the file the remainder does not wrap. *)
LEMMA RemainingInside ==
  ASSUME TypeOK, seekPos <= file.size
  PROVE  Remaining = file.size - seekPos
<1>1. file.size - seekPos \in 0 .. Word - 1
  BY FileFacts, FileAssumption DEF TypeOK
<1> QED
  BY <1>1, Wrapped DEF Remaining

LEMMA BeginScanStep == Inv /\ BeginScan => Inv'
<1> SUFFICES ASSUME Inv, BeginScan PROVE Inv'
  OBVIOUS
<1>1. /\ TypeOK /\ Placed /\ InTheRead /\ mode = "loop" /\ mode' = "scan"
      /\ UNCHANGED <<file, checked, seekPos, from, want, got>>
      /\ Len(got) < want /\ ~AtTheEnd
  BY DEF Inv, BeginScan, handle
<1>2. Target \in Nat /\ Target' = Target /\ relative \in Nat
  BY <1>1, TargetIsNat DEF Target, TypeOK
<1>3. /\ relative' = IF Behind THEN 0 ELSE relative
      /\ absolute' = IF Behind THEN Chain[1] ELSE absolute
      /\ strayed' = (strayed /\ ~Behind)
      /\ left' = Target - relative'
      /\ relative' \in Nat /\ left' \in Nat /\ strayed' \in BOOLEAN
  BY <1>1, <1>2 DEF BeginScan, Behind, TypeOK
<1>4. 1 \in Places /\ Chain[1] \in Nat
  BY <1>1, FileFacts DEF TypeOK
<1>5. TypeOK'
  BY <1>1, <1>3, <1>4 DEF TypeOK
<1>6. Placed'
  <2>1. Chain' = Chain /\ Places' = Places
    BY <1>1 DEF Chain, Places
  <2>2. \E i \in Places : absolute' = Chain[i]
    BY <1>1, <1>3, <1>4 DEF Placed
  <2>3. left' <= Target' /\ Target' - left' + 1 = relative' + 1
    BY <1>2, <1>3
  <2>4. ~strayed' => relative' + 1 \in Places /\ absolute' = Chain[relative' + 1]
    <3>1. CASE Behind
      BY <1>3, <1>4, <3>1
    <3>2. CASE ~Behind
      BY <1>1, <1>3, <3>2 DEF Placed, CursorIsInTheChain
    <3> QED
      BY <3>1, <3>2
  <2> QED
    BY <1>1, <2>1, <2>2, <2>3, <2>4 DEF Placed, CursorIsInTheChain
<1>7. IsOfTheFile' <=> IsOfTheFile
  BY <1>1 DEF IsOfTheFile, ByteAt, Chain
<1>8. from <= file.size /\ ~strayed' => IsOfTheFile
  <2>1. CASE Behind
    <3>1. from <= file.size => got = <<>>
      BY <1>1, <1>2, <2>1 DEF InTheRead, Behind
    <3> QED
      BY <1>1, <3>1, EmptyIsOfTheFile
  <2>2. CASE ~Behind
    BY <1>1, <1>3, <2>2 DEF InTheRead, ReadsTheFile
  <2> QED
    BY <2>1, <2>2
<1>9. from <= file.size => seekPos = from + Len(got) /\ seekPos <= file.size /\ seekPos < file.size
  <2>1. SUFFICES ASSUME from <= file.size PROVE seekPos = from + Len(got) /\ seekPos < file.size
    BY <1>1, TargetIsNat
  <2>2. seekPos = from + Len(got) /\ seekPos <= file.size
    BY <1>1, <2>1 DEF InTheRead
  <2>3. file.size - seekPos # 0
    BY <1>1, <2>2, RemainingInside DEF AtTheEnd
  <2> QED
    BY <1>1, <2>2, <2>3, TargetIsNat
<1>10. InTheRead'
  BY <1>1, <1>7, <1>8, <1>9 DEF InTheRead, ReadsTheFile
<1> QED
  BY <1>5, <1>6, <1>10 DEF Inv

(* One link on. *)
LEMMA ScanOnStep == Inv /\ ScanOn => Inv'
<1> SUFFICES ASSUME Inv, ScanOn PROVE Inv'
  OBVIOUS
<1>1. /\ TypeOK /\ Placed /\ InTheRead /\ mode = "scan" /\ mode' = "scan"
      /\ UNCHANGED <<file, checked, seekPos, relative, strayed, from, want, got>>
      /\ left \in Nat /\ left > 0 /\ left' = left - 1
  BY DEF Inv, ScanOn, handle, TypeOK
<1>2. PICK i \in Places : absolute = Chain[i]
  BY <1>1 DEF Placed
<1>3. PlaceOf(absolute) = i
  BY <1>1, <1>2, FileFacts DEF TypeOK
<1>4. i + 1 \in Places /\ absolute' = Chain[i + 1]
  <2>1. Len(Chain) \in Nat
    BY <1>1, FileFacts DEF TypeOK
  <2> QED
    BY <1>3, <2>1 DEF ScanOn, HasNext, Link, Places
<1>5. Chain' = Chain /\ Places' = Places /\ Target' = Target /\ Target \in Nat
  BY <1>1, TargetIsNat DEF Chain, Places, Target
<1>6. TypeOK'
  <2>1. absolute' \in Nat
    BY <1>1, <1>4, FileFacts DEF TypeOK
  <2> QED
    BY <1>1, <2>1 DEF TypeOK
<1>7. ~strayed => Target - left + 1 = i
  <2>1. SUFFICES ASSUME ~strayed PROVE Target - left + 1 = i
    OBVIOUS
  <2>2. Target - left + 1 \in Places /\ absolute = Chain[Target - left + 1]
    BY <1>1, <2>1 DEF Placed
  <2> QED
    BY <1>1, <1>3, <2>2, FileFacts DEF TypeOK
<1>8. left' <= Target' /\ (~strayed' => Target' - left' + 1 = i + 1)
  <2>1. left <= Target
    BY <1>1 DEF Placed
  <2> QED
    BY <1>1, <1>5, <1>7, <2>1
<1>9. Placed'
  BY <1>1, <1>4, <1>5, <1>8 DEF Placed, CursorIsInTheChain
<1>10. InTheRead'
  BY <1>1 DEF InTheRead, ReadsTheFile, IsOfTheFile, ByteAt, Chain
<1> QED
  BY <1>6, <1>9, <1>10 DEF Inv

LEMMA ScanFailsStep == Inv /\ ScanFails => Inv'
<1> SUFFICES ASSUME Inv, ScanFails PROVE Inv'
  OBVIOUS
<1>1. /\ TypeOK /\ Placed /\ mode' = "idle" /\ strayed' = TRUE /\ left' = 0
      /\ UNCHANGED <<file, checked, seekPos, relative, absolute, from, want, got>>
  BY DEF Inv, ScanFails, handle
<1>2. TypeOK'
  BY <1>1 DEF TypeOK
<1>3. Placed'
  BY <1>1 DEF Placed, CursorIsInTheChain, Chain, Places
<1>4. InTheRead'
  BY <1>1 DEF InTheRead, ReadsTheFile
<1> QED
  BY <1>2, <1>3, <1>4 DEF Inv

(* The end of a scan: the cursor is at the cluster of the position. *)
LEMMA Arrived ==
  ASSUME TypeOK, Placed, mode = "scan", left = 0, ~strayed
  PROVE  Target + 1 \in Places /\ absolute = Chain[Target + 1]
<1>1. Target - left + 1 = Target + 1
  BY TargetIsNat
<1> QED
  BY <1>1 DEF Placed

LEMMA ReadFailsStep == Inv /\ ReadFails => Inv'
<1> SUFFICES ASSUME Inv, ReadFails PROVE Inv'
  OBVIOUS
<1>1. /\ TypeOK /\ Placed /\ InTheRead /\ mode = "scan" /\ mode' = "idle" /\ left = 0
      /\ relative' = Target
      /\ UNCHANGED <<file, checked, seekPos, absolute, strayed, left, from, want, got>>
  BY DEF Inv, ReadFails, handle
<1>2. TypeOK'
  BY <1>1, TargetIsNat DEF TypeOK
<1>3. Placed'
  BY <1>1, Arrived DEF Placed, CursorIsInTheChain, Chain, Places
<1>4. InTheRead'
  BY <1>1 DEF InTheRead, ReadsTheFile, IsOfTheFile, ByteAt, Chain
<1> QED
  BY <1>2, <1>3, <1>4 DEF Inv

(* What is read of a cluster ends within it, within the file and within the *)
(* buffer.                                                                  *)
LEMMA PieceFits ==
  ASSUME TypeOK, Placed, NEW n \in IF AtMost > 0 THEN 1 .. AtMost ELSE {0}
  PROVE  /\ n \in Nat
         /\ n > 0 => /\ (seekPos % BytesPerCluster) + n <= BytesPerCluster
                     /\ n <= Remaining
<1> DEFINE off == seekPos % BytesPerCluster
           inBuf == want - Len(got)
           inCluster == BytesPerCluster - off
           image == file.image[PlaceOf(absolute)]
<1>1. BytesPerCluster \in Nat /\ off \in Nat
  BY TargetIsNat, FileAssumption, Quotients
<1>2. inBuf \in Int /\ inCluster \in Int
  BY <1>1 DEF TypeOK
<1>3. Remaining \in Int
  <2>1. file.size - seekPos \in Int
    BY TargetIsNat
  <2>2. Remaining \in 0 .. Word - 1
    BY <2>1, Wrapped DEF Remaining
  <2> QED
    BY <2>2, FileAssumption
<1>4. image \in Int
  <2>1. PICK i \in Places : absolute = Chain[i]
    BY DEF Placed
  <2>2. PlaceOf(absolute) \in Places /\ file.image \in [Places -> 0 .. BytesPerCluster]
    BY <2>1, FileFacts DEF TypeOK
  <2> QED
    BY <1>1, <2>2
<1> HIDE DEF off, inBuf, inCluster, image
<1>5. Piece = Least({inBuf, inCluster, Remaining})
  BY DEF Piece, off, inBuf, inCluster
<1>6. Piece \in Int /\ Piece <= inCluster /\ Piece <= Remaining
  BY <1>2, <1>3, <1>5, LeastOfThree
<1>7. AtMost = Least({Piece, image - off})
  BY DEF AtMost, image, off
<1>8. AtMost \in Int /\ AtMost <= Piece
  <2>1. image - off \in Int
    BY <1>1, <1>4
  <2> QED
    BY <1>6, <1>7, <2>1, LeastOfTwo
<1>9. n \in Nat /\ (n > 0 => n <= inCluster /\ n <= Remaining)
  BY <1>2, <1>3, <1>6, <1>8
<1> QED
  BY <1>1, <1>9 DEF inCluster, off

(* The bytes of a piece are those of the file at its place. *)
LEMMA PieceBytes ==
  ASSUME TypeOK, Placed, mode = "scan", left = 0, ~strayed,
         NEW n \in Nat, n > 0 => (seekPos % BytesPerCluster) + n <= BytesPerCluster,
         NEW i \in 1 .. n
  PROVE  <<absolute, (seekPos % BytesPerCluster) + i - 1>> = ByteAt(seekPos + i - 1)
<1> DEFINE k == i - 1
<1>1. k \in Nat /\ i = k + 1 /\ n > 0 /\ i <= n
  OBVIOUS
<1>2. seekPos % BytesPerCluster \in Nat /\ BytesPerCluster \in Nat \ {0} /\ seekPos \in Nat
  <2>1. BytesPerCluster \in Nat \ {0} /\ seekPos \in Nat
    BY TargetIsNat, FileAssumption
  <2> QED
    BY <2>1, Quotients
<1>3. (seekPos % BytesPerCluster) + k < BytesPerCluster
  BY <1>1, <1>2
<1>4. /\ (seekPos + k) \div BytesPerCluster = Target
      /\ (seekPos + k) % BytesPerCluster = (seekPos % BytesPerCluster) + k
  BY <1>1, <1>2, <1>3, WithinACluster DEF Target
<1>5. absolute = Chain[Target + 1]
  BY Arrived
<1>6. seekPos + i - 1 = seekPos + k /\ (seekPos % BytesPerCluster) + i - 1 = (seekPos % BytesPerCluster) + k
  BY <1>1, <1>2
<1> HIDE DEF k
<1> QED
  BY <1>4, <1>5, <1>6 DEF ByteAt

LEMMA Appended ==
  ASSUME NEW S, NEW s \in Seq(S), NEW t \in Seq(S)
  PROVE  /\ s \o t \in Seq(S)
         /\ Len(s) \in Nat /\ Len(s \o t) = Len(s) + Len(t)
         /\ \A i \in 1 .. Len(s) : (s \o t)[i] = s[i]
         /\ \A i \in 1 .. Len(t) : (s \o t)[Len(s) + i] = t[i]
OBVIOUS

LEMMA ReadClusterStep == Inv /\ ReadCluster => Inv'
<1> SUFFICES ASSUME Inv, ReadCluster PROVE Inv'
  OBVIOUS
<1> DEFINE off == seekPos % BytesPerCluster
           piece(n) == [i \in 1 .. n |-> <<absolute, off + i - 1>>]
<1>1. /\ TypeOK /\ Placed /\ InTheRead /\ mode = "scan" /\ mode' = "loop" /\ left = 0
      /\ relative' = Target
      /\ UNCHANGED <<file, checked, absolute, strayed, left, from, want>>
  BY DEF Inv, ReadCluster, handle
<1>2. PICK n \in IF AtMost > 0 THEN 1 .. AtMost ELSE {0} :
        got' = got \o piece(n) /\ seekPos' = AsU32(seekPos + n)
  BY DEF ReadCluster, Advance
<1>3. n \in Nat /\ (n > 0 => off + n <= BytesPerCluster /\ n <= Remaining)
  BY <1>1, PieceFits
<1>4. seekPos \in Nat /\ file.size \in Nat /\ from \in Nat /\ Target \in Nat /\ off \in Nat
  BY <1>1, TargetIsNat, FileAssumption, Quotients
<1>5. piece(n) \in Seq(Nat \X Nat) /\ Len(piece(n)) = n
  <2>1. \A i \in 1 .. n : <<absolute, off + i - 1>> \in Nat \X Nat
    <3>1. absolute \in Nat
      BY <1>1 DEF TypeOK
    <3> HIDE DEF off
    <3> QED
      BY <1>4, <3>1
  <2>2. piece(n) \in [1 .. n -> Nat \X Nat]
    BY <2>1
  <2> HIDE DEF piece
  <2> QED
    BY <1>3, <2>2
<1>6. /\ got \in Seq(Nat \X Nat)
      /\ got' \in Seq(Nat \X Nat) /\ Len(got') = Len(got) + n
      /\ \A i \in 1 .. Len(got) : got'[i] = got[i]
      /\ \A i \in 1 .. n : got'[Len(got) + i] = <<absolute, off + i - 1>>
  <2>1. got \in Seq(Nat \X Nat)
    BY <1>1 DEF TypeOK
  <2>2. \A i \in 1 .. n : piece(n)[i] = <<absolute, off + i - 1>>
    OBVIOUS
  <2> HIDE DEF piece, off
  <2>3. got' = got \o piece(n)
    BY <1>2
  <2>4. /\ got' \in Seq(Nat \X Nat) /\ Len(got') = Len(got) + n
        /\ \A i \in 1 .. Len(got) : got'[i] = got[i]
    BY <1>5, <2>1, <2>3, Appended
  <2>5. \A i \in 1 .. n : got'[Len(got) + i] = piece(n)[i]
    BY <1>5, <2>1, <2>3, Appended
  <2> QED
    BY <2>1, <2>2, <2>4, <2>5
<1> HIDE DEF piece
<1>7. TypeOK'
  <2>1. seekPos' \in 0 .. Word - 1
    BY <1>2, <1>3, <1>4, Wrapped
  <2> QED
    BY <1>1, <1>4, <1>6, <2>1 DEF TypeOK
<1>8. Placed'
  BY <1>1, Arrived DEF Placed, CursorIsInTheChain, Chain, Places
<1>9. ASSUME from <= file.size
      PROVE  /\ seekPos = from + Len(got) /\ seekPos' = seekPos + n
             /\ seekPos' = from + Len(got') /\ seekPos' <= file.size
  <2>1. seekPos = from + Len(got) /\ seekPos <= file.size
    BY <1>1, <1>9 DEF InTheRead
  <2>2. Remaining = file.size - seekPos
    BY <1>1, <2>1, RemainingInside
  <2>3. seekPos + n \in 0 .. Word - 1 /\ seekPos + n <= file.size
    <3>1. seekPos + n <= file.size
      BY <1>3, <1>4, <2>1, <2>2
    <3>2. file.size \in 0 .. Word - 1
      BY <1>1, FileFacts DEF TypeOK
    <3> QED
      BY <1>3, <1>4, <3>1, <3>2, FileAssumption
  <2>4. seekPos' = seekPos + n
    BY <1>2, <2>3, Wrapped
  <2>5. Len(got) \in Nat
    BY <1>6
  <2> QED
    BY <1>3, <1>4, <1>6, <2>1, <2>3, <2>4, <2>5
<1>10. ASSUME from <= file.size PROVE relative' <= Target'
  <2>1. Target <= (seekPos + n) \div BytesPerCluster
    BY <1>3, <1>4, FileAssumption, QuotientsGrow DEF Target
  <2> QED
    BY <1>1, <1>9, <1>10, <2>1 DEF Target
<1>11. ASSUME ~strayed, from <= file.size PROVE IsOfTheFile'
  <2>1. IsOfTheFile
    BY <1>1, <1>11 DEF InTheRead, ReadsTheFile
  <2>2. \A p \in Nat : ByteAt(p)' = ByteAt(p)
    BY <1>1 DEF ByteAt, Chain
  <2>3. ASSUME NEW i \in 1 .. Len(got') PROVE got'[i] = ByteAt(from + i - 1)
    <3>1. CASE i \in 1 .. Len(got)
      BY <1>6, <2>1, <3>1 DEF IsOfTheFile
    <3>2. CASE i \notin 1 .. Len(got)
      <4>1. PICK j \in 1 .. n : i = Len(got) + j
        <5>1. i - Len(got) \in 1 .. n /\ i = Len(got) + (i - Len(got))
          BY <1>3, <1>6, <3>2
        <5> QED
          BY <5>1
      <4>2. got'[i] = <<absolute, off + j - 1>>
        BY <1>6, <4>1
      <4>3. <<absolute, off + j - 1>> = ByteAt(seekPos + j - 1)
        BY <1>1, <1>3, <1>11, <4>1, PieceBytes
      <4>4. seekPos + j - 1 = from + i - 1
        BY <1>4, <1>6, <1>9, <1>11, <4>1
      <4> QED
        BY <4>2, <4>3, <4>4
    <3> QED
      BY <3>1, <3>2
  <2>4. from' + Len(got') <= file'.size
    BY <1>1, <1>9, <1>11
  <2>5. \A i \in 1 .. Len(got') : from + i - 1 \in Nat
    BY <1>4
  <2> QED
    BY <1>1, <2>2, <2>3, <2>4, <2>5 DEF IsOfTheFile
<1>12. InTheRead'
  BY <1>1, <1>9, <1>10, <1>11 DEF InTheRead, ReadsTheFile
<1> QED
  BY <1>7, <1>8, <1>12 DEF Inv

LEMMA NextInv == Inv /\ [Next]_vars => Inv'
<1> SUFFICES ASSUME Inv, [Next]_vars PROVE Inv'
  OBVIOUS
<1>1. CASE Open
  BY <1>1, OpenStep
<1>2. CASE Seek
  BY <1>2, SeekStep
<1>3. CASE BeginRead
  BY <1>3, BeginReadStep
<1>4. CASE EndRead \/ Overflow
  BY <1>4, StopStep
<1>5. CASE BeginScan
  BY <1>5, BeginScanStep
<1>6. CASE ScanOn
  BY <1>6, ScanOnStep
<1>7. CASE ScanFails
  BY <1>7, ScanFailsStep
<1>8. CASE ReadCluster
  BY <1>8, ReadClusterStep
<1>9. CASE ReadFails
  BY <1>9, ReadFailsStep
<1>10. CASE UNCHANGED vars
  <2>1. TypeOK'
    BY <1>10 DEF vars, Inv, TypeOK
  <2>2. Placed'
    BY <1>10 DEF vars, Inv, Placed, CursorIsInTheChain, Chain, Places, Target
  <2>3. InTheRead'
    BY <1>10 DEF vars, Inv, InTheRead, ReadsTheFile, IsOfTheFile, ByteAt, Chain, Target
  <2> QED
    BY <2>1, <2>2, <2>3 DEF Inv
<1> QED
  BY <1>1, <1>2, <1>3, <1>4, <1>5, <1>6, <1>7, <1>8, <1>9, <1>10 DEF Next, Reading

(* The invariant holds of every handle.                                     *)
THEOREM FileInvariant == Spec => []Inv
<1>1. Init => Inv
  BY InitInv
<1>2. Inv /\ [Next]_vars => Inv'
  BY NextInv
<1> QED
  BY <1>1, <1>2, PTL DEF Spec

(* Whatever is sought and read, positions stay in their 32 bits and the     *)
(* bytes read are bytes of clusters.                                        *)
THEOREM FileTypeCorrect == Spec => []TypeOK
<1>1. Inv => TypeOK
  BY DEF Inv
<1> QED
  BY <1>1, FileInvariant, PTL

(* Between reads the cursor names the cluster at its place in the chain,    *)
(* unless a scan has failed part way.                                       *)
THEOREM CursorStaysInTheChain == Spec => []CursorIsInTheChain
<1>1. Inv => CursorIsInTheChain
  BY DEF Inv, Placed
<1> QED
  BY <1>1, FileInvariant, PTL

(* A read that begins inside the file gives the bytes of the file from      *)
(* there on, however short the reads of the device are, and none beyond its *)
(* end, unless a scan has failed part way before.                           *)
THEOREM BytesAreOfTheFile == Spec => []ReadsTheFile
<1>1. Inv => ReadsTheFile
  BY DEF Inv, InTheRead
<1> QED
  BY <1>1, FileInvariant, PTL
=============================================================================
