-------------------------- MODULE FrontEndsProofs --------------------------
(***************************************************************************)
(* Formatting by the command line, for every disk, whatever it holds, every *)
(* set of command lines, every series of processes, any of which may fail   *)
(* or be killed anywhere: success means formatted, a failure leaves the     *)
(* other drives alone, and retail drives keep their cluster size.  And      *)
(* mounting: what one program opens, the same options have the others open  *)
(* or refuse.                                                               *)
(***************************************************************************)
EXTENDS FrontEnds, SequenceTheorems, TLAPS

(* How far the drive being formatted has come.  The order of the writes     *)
(* shows in it: what the last step assumes is what the earlier ones left.   *)
Prepared(d) == disk[d].super = NewSuperblock(d, before[d].super)

HereSoFar ==
  /\ phase \in {"refurb", "open", "superblock"} => disk[Here] = before[Here]
  /\ phase \in {"superblock", "fat", "chunks", "entries", "root"} => retval = "ok"
  /\ phase = "superblock" => FormatSector \in {512, 4096}
  /\ phase \in {"fat", "chunks", "entries", "root"} => Prepared(Here)
  /\ phase \in {"entries", "root"} => disk[Here].fat = "clear"
  /\ phase = "root" => dirty
  /\ phase = "close" /\ retval = "ok" =>
       /\ Prepared(Here)
       /\ disk[Here].fat = "clear" /\ dirty
       /\ disk[Here].root = "empty"

(* Where a process is follows from what it was asked. *)
ProcessState ==
  /\ phase \in Writing \cup {"refurb"} => Formats(request)
  /\ phase = "refurb" => at = 1
  /\ Formats(request) /\ (status = "ok" \/ phase \in {"mount", "mounted"}) => at > Len(Queue)
  /\ phase # "none" => status = "running"

(* Only drives this process has been through were lost. *)
LostBehind ==
  phase # "none" => \A i \in 1 .. Len(Queue) : Queue[i] \in lost => i < at

Inv ==
  /\ TypeOK
  /\ ProcessState
  /\ HereSoFar
  /\ LostBehind
  /\ FormatGoesInOrder
  /\ RetailClustersAre16K

-----------------------------------------------------------------------------
LEMMA DriveNames == Drives = {"x", "y", "z", "c", "e", "f"}
BY DEF Drives, XboxMap

(* A format goes through different drives, f last if at all. *)
LEMMA QueueIsSound ==
  /\ Len(Queue) \in Nat /\ Len(Queue) >= 1
  /\ \A i \in 1 .. Len(Queue) : Queue[i] \in Drives
  /\ \A i, j \in 1 .. Len(Queue) : Queue[i] = Queue[j] => i = j
<1>1. CASE Extended(request)
  <2>1. Retail \in Seq(Drives) /\ Len(Retail) = 5
    BY DriveNames DEF Retail
  <2>2. Len(Queue) = 6 /\ Queue[6] = "f" /\ \A i \in 1 .. 5 : Queue[i] = Retail[i]
    <3>1. Queue = Append(Retail, "f") /\ "f" \in Drives
      BY <1>1, DriveNames DEF Queue
    <3>2. \A f \in Drives :
            /\ Len(Append(Retail, f)) = Len(Retail) + 1
            /\ \A i \in 1 .. Len(Retail) : Append(Retail, f)[i] = Retail[i]
            /\ Append(Retail, f)[Len(Retail) + 1] = f
      <4>1. \A S : \A s \in Seq(S), f \in S :
              /\ Len(Append(s, f)) = Len(s) + 1
              /\ \A i \in 1 .. Len(s) : Append(s, f)[i] = s[i]
              /\ Append(s, f)[Len(s) + 1] = f
        BY AppendProperties
      <4> QED
        BY <2>1, <4>1
    <3> QED
      BY <2>1, <3>1, <3>2
  <2> QED
    BY <2>2, DriveNames DEF Retail
<1>2. CASE ~Extended(request)
  <2>1. Queue = <<"x", "y", "z", "c", "e">>
    BY <1>2 DEF Queue, Retail
  <2> QED
    BY <2>1, DriveNames
<1> QED
  BY <1>1, <1>2

LEMMA RetailDrives == \A i \in 1 .. Len(Retail) : Retail[i] \in Drives /\ Retail[i] # "f"
BY DriveNames DEF Retail

(* "retail partitions ... 16kb": the division by the sector size is exact. *)
LEMMA RetailBytes ==
  ASSUME FormatSector \in {512, 4096}, NEW p \in Drives, p # "f", NEW old
  PROVE  NewSuperblock(p, old).bytes = RetailClusterSize
<1>1. CASE FormatSector = 512
  BY <1>1 DEF NewSuperblock, ClustersOf, Superblock, RetailClusterSize, FromSuperblock
<1>2. CASE FormatSector = 4096
  BY <1>2 DEF NewSuperblock, ClustersOf, Superblock, RetailClusterSize, FromSuperblock
<1> QED
  BY <1>1, <1>2

-----------------------------------------------------------------------------
(* What a step that stays in its process and at its drive cannot change.    *)

LEMMA SameQueue ==
  ASSUME request' = request
  PROVE  Queue' = Queue /\ FormatSector' = FormatSector /\ Formats(request)' = Formats(request)
BY DEF Queue, Extended, FormatSector, Formats

LEMMA SamePrepared ==
  ASSUME request' = request, before' = before, NEW d \in Drives, disk'[d].super = disk[d].super
  PROVE  Prepared(d)' <=> Prepared(d)
BY DEF Prepared, NewSuperblock, ClustersOf, FormatSector

LEMMA SameFormatted ==
  ASSUME request' = request, before' = before, NEW d \in Drives, disk'[d] = disk[d],
         d \in lost' <=> d \in lost, Formatted(d)
  PROVE  Formatted(d)'
BY DEF Formatted, NewSuperblock, ClustersOf, FormatSector

(* The drive at hand is in the queue, and no other place in it has it.      *)
LEMMA HereIsADrive ==
  ASSUME TypeOK, phase \in Writing
  PROVE  /\ at \in 1 .. Len(Queue) /\ Here \in Drives /\ InQueue(Here)
         /\ \A i \in 1 .. Len(Queue) : i # at => Queue[i] # Here
<1>1. at \in 1 .. Len(Queue)
  BY QueueIsSound DEF TypeOK
<1> QED
  BY <1>1, QueueIsSound DEF Here, InQueue

(* A step that writes to no drive keeps what is said of the drives.         *)
LEMMA WithoutAWrite ==
  ASSUME Inv, UNCHANGED <<request, before, disk, at, lost>>
  PROVE  FormatGoesInOrder' /\ RetailClustersAre16K'
<1>1. RetailClustersAre16K'
  BY DEF Inv, RetailClustersAre16K
<1>2. Queue' = Queue /\ Formats(request)' = Formats(request)
  BY SameQueue
<1>3. \A d \in Drives : Formatted(d) => Formatted(d)'
  BY SameFormatted
<1> QED
  BY <1>1, <1>2, <1>3, QueueIsSound DEF Inv, FormatGoesInOrder, InQueue

(* Neither does one that writes only to the drive it is at.                 *)
LEMMA WritesHere ==
  ASSUME Inv, phase \in Writing, UNCHANGED <<request, before, at, lost>>,
         \A d \in Drives : d # Here => disk'[d] = disk[d]
  PROVE  FormatGoesInOrder'
<1>1. Queue' = Queue /\ Formats(request)' = Formats(request)
  BY SameQueue
<1>2. \A d \in Drives : d # Here /\ Formatted(d) => Formatted(d)'
  BY SameFormatted
<1>3. Formats(request) /\ FormatGoesInOrder /\ TypeOK
  BY DEF Inv, ProcessState
<1>4. ASSUME NEW i \in 1 .. Len(Queue)
      PROVE  /\ i < at => Formatted(Queue[i])'
             /\ i > at => disk'[Queue[i]] = before[Queue[i]]
  <2>1. at \in Nat /\ Queue[i] \in Drives /\ (i # at => Queue[i] # Here)
    BY <1>3, <1>4, QueueIsSound, HereIsADrive
  <2>2. CASE i < at
    <3>1. Formatted(Queue[i]) /\ Queue[i] # Here
      BY <1>3, <2>1, <2>2 DEF FormatGoesInOrder
    <3> QED
      BY <1>1, <1>2, <2>1, <2>2, <3>1
  <2>3. CASE i > at
    BY <1>3, <2>1, <2>3 DEF FormatGoesInOrder
  <2> QED
    BY <2>1, <2>2, <2>3
<1>5. ASSUME NEW d \in Drives, ~InQueue(d)
      PROVE  disk'[d] = before[d]
  BY <1>3, <1>5, HereIsADrive DEF FormatGoesInOrder
<1>6. request.tool = "fatxfs" => request.confirm
  BY <1>3 DEF Formats, Accepts
<1> QED
  BY <1>1, <1>3, <1>4, <1>5, <1>6 DEF FormatGoesInOrder, InQueue

-----------------------------------------------------------------------------
(* The steps that write to no drive.                                        *)
LEMMA QuietSteps ==
  ASSUME Inv,
         \/ WriteRefurb \/ DivideByZero \/ OpenPartition \/ OpenFails \/ WriteEntries
         \/ StepFails \/ Mount \/ MountFails \/ Unmount \/ Die
  PROVE  Inv'
<1>1. CASE WriteRefurb
  <2>1. UNCHANGED <<end, request, runs, before, disk, at, lost>>
    BY <1>1 DEF WriteRefurb, Same
  <2>2. Queue' = Queue /\ FormatSector' = FormatSector /\ Formats(request)' = Formats(request) /\ Here' = Here
    BY <2>1, SameQueue DEF Here
  <2>3. TypeOK'
    BY <1>1, <2>1, <2>2, QueueIsSound DEF WriteRefurb, Same, Goto, Exit, Inv, TypeOK, ProcessState, Phases, Writing
  <2>4. ProcessState'
    BY <1>1, <2>1, <2>2 DEF WriteRefurb, Same, Goto, Exit, Inv, ProcessState, Writing, TypeOK
  <2>5. HereSoFar'
    BY <1>1, <2>1, <2>2 DEF WriteRefurb, Same, Goto, Exit, Inv, HereSoFar, Prepared, NewSuperblock, ClustersOf, Sound
  <2>6. LostBehind'
    BY <1>1, <2>1, <2>2 DEF WriteRefurb, Goto, Exit, Inv, LostBehind
  <2> QED
    BY <2>1, <2>3, <2>4, <2>5, <2>6, WithoutAWrite DEF Inv
<1>2. CASE DivideByZero
  <2>1. UNCHANGED <<end, request, runs, before, disk, at, lost>>
    BY <1>2 DEF DivideByZero, Same
  <2>2. Queue' = Queue /\ FormatSector' = FormatSector /\ Formats(request)' = Formats(request) /\ Here' = Here
    BY <2>1, SameQueue DEF Here
  <2>3. TypeOK'
    BY <1>2, <2>1, <2>2, QueueIsSound DEF DivideByZero, Same, Goto, Exit, Inv, TypeOK, ProcessState, Phases, Writing
  <2>4. ProcessState'
    BY <1>2, <2>1, <2>2 DEF DivideByZero, Same, Goto, Exit, Inv, ProcessState, Writing, TypeOK
  <2>5. HereSoFar'
    BY <1>2, <2>1, <2>2 DEF DivideByZero, Same, Goto, Exit, Inv, HereSoFar, Prepared, NewSuperblock, ClustersOf, Sound
  <2>6. LostBehind'
    BY <1>2, <2>1, <2>2 DEF DivideByZero, Goto, Exit, Inv, LostBehind
  <2> QED
    BY <2>1, <2>3, <2>4, <2>5, <2>6, WithoutAWrite DEF Inv
<1>3. CASE OpenPartition
  <2>1. UNCHANGED <<end, request, runs, before, disk, at, lost>>
    BY <1>3 DEF OpenPartition, Same
  <2>2. Queue' = Queue /\ FormatSector' = FormatSector /\ Formats(request)' = Formats(request) /\ Here' = Here
    BY <2>1, SameQueue DEF Here
  <2>3. TypeOK'
    BY <1>3, <2>1, <2>2, QueueIsSound DEF OpenPartition, Same, Goto, Exit, Inv, TypeOK, ProcessState, Phases, Writing
  <2>4. ProcessState'
    BY <1>3, <2>1, <2>2 DEF OpenPartition, Same, Goto, Exit, Inv, ProcessState, Writing, TypeOK
  <2>5. HereSoFar'
    BY <1>3, <2>1, <2>2 DEF OpenPartition, Same, Goto, Exit, Inv, HereSoFar, Prepared, NewSuperblock, ClustersOf, Sound
  <2>6. LostBehind'
    BY <1>3, <2>1, <2>2 DEF OpenPartition, Goto, Exit, Inv, LostBehind
  <2> QED
    BY <2>1, <2>3, <2>4, <2>5, <2>6, WithoutAWrite DEF Inv
<1>4. CASE OpenFails
  <2>1. UNCHANGED <<end, request, runs, before, disk, at, lost>>
    BY <1>4 DEF OpenFails, Same
  <2>2. Queue' = Queue /\ FormatSector' = FormatSector /\ Formats(request)' = Formats(request) /\ Here' = Here
    BY <2>1, SameQueue DEF Here
  <2>3. TypeOK'
    BY <1>4, <2>1, <2>2, QueueIsSound DEF OpenFails, Same, Goto, Exit, Inv, TypeOK, ProcessState, Phases, Writing
  <2>4. ProcessState'
    BY <1>4, <2>1, <2>2 DEF OpenFails, Same, Goto, Exit, Inv, ProcessState, Writing, TypeOK
  <2>5. HereSoFar'
    BY <1>4, <2>1, <2>2 DEF OpenFails, Same, Goto, Exit, Inv, HereSoFar, Prepared, NewSuperblock, ClustersOf, Sound
  <2>6. LostBehind'
    BY <1>4, <2>1, <2>2 DEF OpenFails, Goto, Exit, Inv, LostBehind
  <2> QED
    BY <2>1, <2>3, <2>4, <2>5, <2>6, WithoutAWrite DEF Inv
<1>5. CASE WriteEntries
  <2>1. UNCHANGED <<end, request, runs, before, disk, at, lost>>
    BY <1>5 DEF WriteEntries, Same
  <2>2. Queue' = Queue /\ FormatSector' = FormatSector /\ Formats(request)' = Formats(request) /\ Here' = Here
    BY <2>1, SameQueue DEF Here
  <2>3. TypeOK'
    BY <1>5, <2>1, <2>2, QueueIsSound DEF WriteEntries, Same, Goto, Exit, Inv, TypeOK, ProcessState, Phases, Writing
  <2>4. ProcessState'
    BY <1>5, <2>1, <2>2 DEF WriteEntries, Same, Goto, Exit, Inv, ProcessState, Writing, TypeOK
  <2>5. HereSoFar'
    BY <1>5, <2>1, <2>2 DEF WriteEntries, Same, Goto, Exit, Inv, HereSoFar, Prepared, NewSuperblock, ClustersOf, Sound
  <2>6. LostBehind'
    BY <1>5, <2>1, <2>2 DEF WriteEntries, Goto, Exit, Inv, LostBehind
  <2> QED
    BY <2>1, <2>3, <2>4, <2>5, <2>6, WithoutAWrite DEF Inv
<1>6. CASE StepFails
  <2>1. UNCHANGED <<end, request, runs, before, disk, at, lost>>
    BY <1>6 DEF StepFails, Same
  <2>2. Queue' = Queue /\ FormatSector' = FormatSector /\ Formats(request)' = Formats(request) /\ Here' = Here
    BY <2>1, SameQueue DEF Here
  <2>3. TypeOK'
    BY <1>6, <2>1, <2>2, QueueIsSound DEF StepFails, Same, Goto, Exit, Inv, TypeOK, ProcessState, Phases, Writing
  <2>4. ProcessState'
    BY <1>6, <2>1, <2>2 DEF StepFails, Same, Goto, Exit, Inv, ProcessState, Writing, TypeOK
  <2>5. HereSoFar'
    BY <1>6, <2>1, <2>2 DEF StepFails, Same, Goto, Exit, Inv, HereSoFar, Prepared, NewSuperblock, ClustersOf, Sound
  <2>6. LostBehind'
    BY <1>6, <2>1, <2>2 DEF StepFails, Goto, Exit, Inv, LostBehind
  <2> QED
    BY <2>1, <2>3, <2>4, <2>5, <2>6, WithoutAWrite DEF Inv
<1>7. CASE Mount
  <2>1. UNCHANGED <<end, request, runs, before, disk, at, lost>>
    BY <1>7 DEF Mount, Same
  <2>2. Queue' = Queue /\ FormatSector' = FormatSector /\ Formats(request)' = Formats(request) /\ Here' = Here
    BY <2>1, SameQueue DEF Here
  <2>3. TypeOK'
    BY <1>7, <2>1, <2>2, QueueIsSound DEF Mount, Same, Goto, Exit, Inv, TypeOK, ProcessState, Phases, Writing
  <2>4. ProcessState'
    BY <1>7, <2>1, <2>2 DEF Mount, Same, Goto, Exit, Inv, ProcessState, Writing, TypeOK
  <2>5. HereSoFar'
    BY <1>7, <2>1, <2>2 DEF Mount, Same, Goto, Exit, Inv, HereSoFar, Prepared, NewSuperblock, ClustersOf, Sound
  <2>6. LostBehind'
    BY <1>7, <2>1, <2>2 DEF Mount, Goto, Exit, Inv, LostBehind
  <2> QED
    BY <2>1, <2>3, <2>4, <2>5, <2>6, WithoutAWrite DEF Inv
<1>8. CASE MountFails
  <2>1. UNCHANGED <<end, request, runs, before, disk, at, lost>>
    BY <1>8 DEF MountFails, Same
  <2>2. Queue' = Queue /\ FormatSector' = FormatSector /\ Formats(request)' = Formats(request) /\ Here' = Here
    BY <2>1, SameQueue DEF Here
  <2>3. TypeOK'
    BY <1>8, <2>1, <2>2, QueueIsSound DEF MountFails, Same, Goto, Exit, Inv, TypeOK, ProcessState, Phases, Writing
  <2>4. ProcessState'
    BY <1>8, <2>1, <2>2 DEF MountFails, Same, Goto, Exit, Inv, ProcessState, Writing, TypeOK
  <2>5. HereSoFar'
    BY <1>8, <2>1, <2>2 DEF MountFails, Same, Goto, Exit, Inv, HereSoFar, Prepared, NewSuperblock, ClustersOf, Sound
  <2>6. LostBehind'
    BY <1>8, <2>1, <2>2 DEF MountFails, Goto, Exit, Inv, LostBehind
  <2> QED
    BY <2>1, <2>3, <2>4, <2>5, <2>6, WithoutAWrite DEF Inv
<1>9. CASE Unmount
  <2>1. UNCHANGED <<end, request, runs, before, disk, at, lost>>
    BY <1>9 DEF Unmount, Same
  <2>2. Queue' = Queue /\ FormatSector' = FormatSector /\ Formats(request)' = Formats(request) /\ Here' = Here
    BY <2>1, SameQueue DEF Here
  <2>3. TypeOK'
    BY <1>9, <2>1, <2>2, QueueIsSound DEF Unmount, Same, Goto, Exit, Inv, TypeOK, ProcessState, Phases, Writing
  <2>4. ProcessState'
    BY <1>9, <2>1, <2>2 DEF Unmount, Same, Goto, Exit, Inv, ProcessState, Writing, TypeOK
  <2>5. HereSoFar'
    BY <1>9, <2>1, <2>2 DEF Unmount, Same, Goto, Exit, Inv, HereSoFar, Prepared, NewSuperblock, ClustersOf, Sound
  <2>6. LostBehind'
    BY <1>9, <2>1, <2>2 DEF Unmount, Goto, Exit, Inv, LostBehind
  <2> QED
    BY <2>1, <2>3, <2>4, <2>5, <2>6, WithoutAWrite DEF Inv
<1>10. CASE Die
  <2>1. UNCHANGED <<end, request, runs, before, disk, at, lost>>
    BY <1>10 DEF Die, Same
  <2>2. Queue' = Queue /\ FormatSector' = FormatSector /\ Formats(request)' = Formats(request) /\ Here' = Here
    BY <2>1, SameQueue DEF Here
  <2>3. TypeOK'
    BY <1>10, <2>1, <2>2, QueueIsSound DEF Die, Same, Goto, Exit, Inv, TypeOK, ProcessState, Phases, Writing
  <2>4. ProcessState'
    BY <1>10, <2>1, <2>2 DEF Die, Same, Goto, Exit, Inv, ProcessState, Writing, TypeOK
  <2>5. HereSoFar'
    BY <1>10, <2>1, <2>2 DEF Die, Same, Goto, Exit, Inv, HereSoFar, Prepared, NewSuperblock, ClustersOf, Sound
  <2>6. LostBehind'
    BY <1>10, <2>1, <2>2 DEF Die, Goto, Exit, Inv, LostBehind
  <2> QED
    BY <2>1, <2>3, <2>4, <2>5, <2>6, WithoutAWrite DEF Inv
<1> QED
  BY <1>1, <1>2, <1>3, <1>4, <1>5, <1>6, <1>7, <1>8, <1>9, <1>10

-----------------------------------------------------------------------------
(* The steps that write to the drive at hand.                               *)
LEMMA SuperblocksAreTyped ==
  ASSUME TypeOK, FormatSector \in {512, 4096}, NEW p \in Drives, NEW old \in Superblocks
  PROVE  NewSuperblock(p, old) \in Superblocks
<1>1. request.clusters \in Nat
  BY FrontEndsAssumption DEF TypeOK, NoRequest
<1>2. ClustersOf(p) \in Nat
  <2>1. CASE FormatSector = 512
    BY <1>1, <2>1 DEF ClustersOf, RetailClusterSize
  <2>2. CASE FormatSector = 4096
    BY <1>1, <2>2 DEF ClustersOf, RetailClusterSize
  <2> QED
    BY <2>1, <2>2
<1>3. \A n \in Nat : n * FormatSector \in Nat
  OBVIOUS
<1> QED
  BY <1>2, <1>3 DEF NewSuperblock, Superblock, Superblocks, None

LEMMA SuperblockStep ==
  ASSUME Inv, WriteSuperblock
  PROVE  Inv'
<1>1. UNCHANGED <<end, request, runs, before, at, dirty, retval, region, lost, status>>
  BY DEF WriteSuperblock, Same, Goto
<1>2. Queue' = Queue /\ FormatSector' = FormatSector /\ Formats(request)' = Formats(request) /\ Here' = Here
  BY <1>1, SameQueue DEF Here
<1>3. phase = "superblock" /\ phase' = "fat" /\ phase \in Writing /\ FormatSector \in {512, 4096}
  BY DEF WriteSuperblock, Goto, Writing, Inv, HereSoFar
<1>4. Here \in Drives /\ disk[Here] = before[Here]
  BY <1>3, HereIsADrive DEF Inv, HereSoFar
<1>5. /\ disk'[Here].super = NewSuperblock(Here, before[Here].super)
      /\ \A d \in Drives : d # Here => disk'[d] = disk[d]
  BY <1>4 DEF WriteSuperblock, Inv, TypeOK
<1>6. NewSuperblock(Here, disk[Here].super) \in Superblocks
  BY <1>3, <1>4, SuperblocksAreTyped DEF Inv, TypeOK
<1>7. TypeOK'
  BY <1>1, <1>2, <1>3, <1>4, <1>6 DEF WriteSuperblock, Inv, TypeOK, Phases, Writing
<1>8. ProcessState'
  BY <1>1, <1>2, <1>3 DEF Inv, ProcessState, Writing
<1>9. HereSoFar'
  BY <1>1, <1>2, <1>3, <1>5 DEF Inv, HereSoFar, Prepared, NewSuperblock, ClustersOf
<1>10. LostBehind'
  BY <1>1, <1>2, <1>3 DEF Inv, LostBehind
<1>11. FormatGoesInOrder'
  BY <1>1, <1>3, <1>5, WritesHere
<1>12. RetailClustersAre16K'
  <2> SUFFICES ASSUME NEW i \in 1 .. Len(Retail), disk'[Retail[i]].super.variant # None
               PROVE  disk'[Retail[i]].super.bytes = RetailClusterSize
    BY DEF RetailClustersAre16K
  <2>1. CASE Retail[i] = Here
    BY <1>3, <1>4, <1>5, <2>1, RetailBytes, RetailDrives
  <2>2. CASE Retail[i] # Here
    BY <1>5, <2>2, RetailDrives DEF Inv, RetailClustersAre16K
  <2> QED
    BY <2>1, <2>2
<1> QED
  BY <1>7, <1>8, <1>9, <1>10, <1>11, <1>12 DEF Inv

(* Of a drive's FAT and root directory, the superblock is no part.          *)
LEMMA ClearSteps ==
  ASSUME Inv, ClearFat \/ ClearRoot
  PROVE  Inv'
<1>1. UNCHANGED <<end, request, runs, before, at, dirty, retval, region, lost, status>>
  BY DEF ClearFat, ClearRoot, Same, Goto
<1>2. Queue' = Queue /\ FormatSector' = FormatSector /\ Formats(request)' = Formats(request) /\ Here' = Here
  BY <1>1, SameQueue DEF Here
<1>3. phase \in {"fat", "chunks", "root"} /\ phase' \in {"chunks", "entries", "close"} /\ phase \in Writing
  BY DEF ClearFat, ClearRoot, Goto, Writing
<1>4. Here \in Drives /\ Prepared(Here)
  BY <1>3, HereIsADrive DEF Inv, HereSoFar
<1>5. /\ disk'[Here].super = disk[Here].super
      /\ \A d \in Drives : d # Here => disk'[d] = disk[d]
      /\ \A d \in Drives : disk'[d].super = disk[d].super
  BY <1>4 DEF ClearFat, ClearRoot, Inv, TypeOK
<1>6. Prepared(Here)'
  BY <1>1, <1>2, <1>4, <1>5, SamePrepared
<1>7. TypeOK'
  BY <1>1, <1>2, <1>3, <1>4 DEF ClearFat, ClearRoot, Inv, TypeOK, Phases, Writing
<1>8. ProcessState'
  BY <1>1, <1>2, <1>3 DEF Inv, ProcessState, Writing
<1>9. HereSoFar'
  BY <1>1, <1>2, <1>4, <1>6 DEF ClearFat, ClearRoot, Goto, Inv, HereSoFar, TypeOK
<1>10. LostBehind'
  BY <1>1, <1>2, <1>3 DEF Inv, LostBehind
<1>11. FormatGoesInOrder'
  BY <1>1, <1>3, <1>5, WritesHere
<1>12. RetailClustersAre16K'
  BY <1>5, RetailDrives DEF Inv, RetailClustersAre16K
<1> QED
  BY <1>7, <1>8, <1>9, <1>10, <1>11, <1>12 DEF Inv

(* A drive is left formatted when nothing failed on the way, and the last   *)
(* write, if it fails, is the FAT's.                                        *)
LEMMA CloseStep ==
  ASSUME Inv, ClosePartition
  PROVE  Inv'
<1>1. UNCHANGED <<end, request, runs, before, dirty, retval, region>>
  BY DEF ClosePartition, Same
<1>2. /\ Queue' = Queue /\ FormatSector' = FormatSector /\ Formats(request)' = Formats(request)
      /\ Extended(request)' = Extended(request)
  BY <1>1, SameQueue DEF Extended
<1>3. phase = "close" /\ phase \in Writing /\ Formats(request)
  BY DEF ClosePartition, Writing, Inv, ProcessState
<1>4. at \in 1 .. Len(Queue) /\ Here \in Drives
  BY <1>3, HereIsADrive DEF Inv
<1>5. /\ \A d \in Drives : d # Here => disk'[d] = disk[d]
      /\ \A d \in Drives : disk'[d].super = disk[d].super /\ disk'[d].root = disk[d].root
      /\ disk' \in [Drives -> [super : Superblocks, fat : {"old", "torn", "clear", "ready"},
                               root : {"old", "empty"}]]
  BY <1>4 DEF ClosePartition, Flush, Inv, TypeOK
<1>6. lost' \subseteq lost \cup {Here} /\ lost \subseteq lost'
  BY DEF ClosePartition, Flush
<1>7. \/ retval = "error" /\ phase' = "none" /\ status' = "error" /\ at' = at
      \/ /\ retval = "ok" /\ at' = at + 1
         /\ \/ at < Len(Queue) /\ phase' = "open" /\ status' = status
            \/ at = Len(Queue) /\ phase' = "mount" /\ status' = status
            \/ at = Len(Queue) /\ phase' = "none" /\ status' = "ok"
  BY DEF ClosePartition, Return, Goto, Exit
<1>8. Here \notin lost
  BY <1>3, <1>4 DEF Inv, LostBehind, Here
<1>9. ASSUME NEW d \in Drives, d = Here, retval = "ok"
      PROVE  Formatted(d)'
  <2>1. Prepared(d) /\ disk[d].fat = "clear" /\ dirty /\ disk[d].root = "empty"
    BY <1>3, <1>9 DEF Inv, HereSoFar
  <2>2. Prepared(d)'
    BY <1>1, <1>5, <2>1, SamePrepared
  <2>3. disk'[d].fat = IF d \in lost' THEN "clear" ELSE "ready"
    BY <1>4, <1>8, <1>9, <2>1 DEF ClosePartition, Flush, Inv, TypeOK
  <2>4. disk'[d].root = "empty"
    BY <1>5, <2>1
  <2> QED
    BY <2>2, <2>3, <2>4 DEF Formatted, Prepared
<1>10. \A e \in Drives : e # Here /\ Formatted(e) => Formatted(e)'
  BY <1>1, <1>5, <1>6, SameFormatted
<1>11. TypeOK'
  BY <1>1, <1>2, <1>4, <1>5, <1>6, <1>7, QueueIsSound, HereIsADrive DEF Inv, TypeOK, Phases, Writing
<1>12. ProcessState'
  BY <1>1, <1>2, <1>3, <1>4, <1>7 DEF Inv, ProcessState, Writing
<1>13. LostBehind'
  <2> SUFFICES ASSUME retval = "ok", NEW i \in 1 .. Len(Queue), Queue[i] \in lost'
               PROVE  i < at + 1
    BY <1>2, <1>7 DEF LostBehind
  <2>1. CASE Queue[i] \in lost
    BY <1>3, <1>4, <2>1 DEF Inv, LostBehind
  <2>2. CASE Queue[i] = Here
    BY <1>4, <2>2, QueueIsSound DEF Here
  <2> QED
    BY <1>6, <2>1, <2>2
<1>14. HereSoFar'
  <2>1. CASE phase' = "open"
    <3>1. at' = at + 1 /\ at' \in 1 .. Len(Queue)
      BY <1>4, <1>7, <2>1
    <3>2. Queue[at'] \in Drives /\ Queue[at'] # Here /\ disk[Queue[at']] = before[Queue[at']]
      BY <1>3, <1>4, <3>1, HereIsADrive, QueueIsSound DEF Inv, FormatGoesInOrder
    <3> QED
      BY <1>1, <1>2, <1>5, <2>1, <3>2 DEF HereSoFar, Here
  <2>2. CASE phase' \in {"none", "mount"}
    BY <2>2 DEF HereSoFar
  <2> QED
    BY <1>7, <2>1, <2>2
<1>15. RetailClustersAre16K'
  BY <1>5, RetailDrives DEF Inv, RetailClustersAre16K
<1>16. FormatGoesInOrder'
  <2>1. ASSUME NEW i \in 1 .. Len(Queue), i < at'
        PROVE  Formatted(Queue[i])'
    <3>1. Queue[i] \in Drives
      BY QueueIsSound
    <3>2. CASE i < at
      <4>1. Formatted(Queue[i]) /\ Queue[i] # Here
        BY <1>3, <1>4, <3>2, HereIsADrive DEF Inv, FormatGoesInOrder
      <4> QED
        BY <1>2, <1>10, <3>1, <4>1
    <3>3. CASE i = at
      <4>1. Queue[i] = Here /\ retval = "ok"
        BY <1>4, <1>7, <2>1, <3>3 DEF Here
      <4> QED
        BY <1>2, <1>9, <3>1, <4>1
    <3> QED
      BY <1>4, <1>7, <2>1, <3>2, <3>3
  <2>2. ASSUME NEW i \in 1 .. Len(Queue), i > at'
        PROVE  disk'[Queue[i]] = before[Queue[i]]
    <3>1. i > at /\ Queue[i] \in Drives
      BY <1>4, <1>7, <2>2, QueueIsSound
    <3> QED
      BY <1>3, <1>4, <1>5, <3>1, HereIsADrive DEF Inv, FormatGoesInOrder
  <2>3. ASSUME NEW d \in Drives, ~InQueue(d)
        PROVE  disk'[d] = before[d]
    BY <1>3, <1>5, <2>3, HereIsADrive DEF Inv, FormatGoesInOrder
  <2>4. request.tool = "fatxfs" => request.confirm
    BY <1>3 DEF Formats, Accepts
  <2> QED
    BY <1>1, <1>2, <1>3, <2>1, <2>2, <2>3, <2>4 DEF FormatGoesInOrder, InQueue
<1> QED
  BY <1>11, <1>12, <1>13, <1>14, <1>15, <1>16 DEF Inv

-----------------------------------------------------------------------------
(* A process begins with nothing written and nothing lost.                  *)
LEMMA StartStep ==
  ASSUME Inv, NEW r \in Requests, Start(r)
  PROVE  Inv'
<1>1. /\ request' = r /\ at' = 1 /\ dirty' = FALSE /\ retval' = "ok" /\ lost' = {}
      /\ before' = disk' /\ disk' = [d \in Drives |-> Untouched(disk[d].super)]
      /\ runs' = runs + 1 /\ runs < MaxRuns /\ end' = end
  BY DEF Start
<1>2. \/ phase' = "none" /\ status' = "error"
      \/ phase' = "mount" /\ status' = "running" /\ ~Formats(r)
      \/ phase' = "refurb" /\ status' = "running" /\ Formats(r)
  BY DEF Start, Exit, Formats
<1>3. (Len(Queue) \in Nat /\ Len(Queue) >= 1)'
  BY QueueIsSound, PTL
<1>4. TypeOK'
  <2>1. disk' \in [Drives -> [super : Superblocks, fat : {"old", "torn", "clear", "ready"},
                             root : {"old", "empty"}]]
    BY <1>1 DEF Untouched, Inv, TypeOK
  <2>2. runs' \in 0 .. MaxRuns /\ at' \in 1 .. Len(Queue') + 1 /\ at' <= Len(Queue')
    BY <1>1, <1>3, FrontEndsAssumption DEF Inv, TypeOK
  <2> QED
    BY <1>1, <1>2, <2>1, <2>2 DEF Inv, TypeOK, Phases
<1>5. ProcessState'
  BY <1>1, <1>2, <1>3 DEF ProcessState, Writing, Formats
<1>6. HereSoFar'
  BY <1>1, <1>2 DEF HereSoFar
<1>7. LostBehind'
  BY <1>1 DEF LostBehind
<1>8. FormatGoesInOrder'
  BY <1>1, <1>3 DEF FormatGoesInOrder
<1>9. RetailClustersAre16K'
  BY <1>1, RetailDrives DEF Untouched, Inv, RetailClustersAre16K
<1> QED
  BY <1>4, <1>5, <1>6, <1>7, <1>8, <1>9 DEF Inv

LEMMA StepKeepsInv ==
  ASSUME Inv, [Next]_vars
  PROVE  Inv'
<1>1. CASE Next
  BY <1>1, StartStep, QuietSteps, SuperblockStep, ClearSteps, CloseStep DEF Next
<1>2. CASE UNCHANGED vars
  <2>1. UNCHANGED <<end, disk, request, phase, at, dirty, retval, status, runs, before, lost>>
    BY <1>2 DEF vars
  <2>2. Queue' = Queue /\ FormatSector' = FormatSector /\ Formats(request)' = Formats(request) /\ Here' = Here
    BY <2>1, SameQueue DEF Here
  <2>3. TypeOK' /\ ProcessState' /\ LostBehind'
    BY <2>1, <2>2 DEF Inv, TypeOK, ProcessState, LostBehind
  <2>4. HereSoFar'
    BY <2>1, <2>2 DEF Inv, HereSoFar, Prepared, NewSuperblock, ClustersOf
  <2> QED
    BY <2>1, <2>3, <2>4, WithoutAWrite DEF Inv
<1> QED
  BY <1>1, <1>2

LEMMA InitHasInv == Init => Inv
<1> SUFFICES ASSUME Init PROVE Inv
  OBVIOUS
<1>1. PICK c \in Contents : disk = [d \in Drives |-> Untouched(c[d])]
  BY DEF Init
<1>2. c \in [Drives -> Superblocks] /\ \A d \in Drives :
        c[d].variant = None \/ c[d].bytes = RetailClusterSize \/ d = "f"
  BY FrontEndsAssumption
<1>3. ~Formats(request)
  BY DEF Init, Formats, NoRequest
<1>4. TypeOK
  <2>1. disk \in [Drives -> [super : Superblocks, fat : {"old", "torn", "clear", "ready"},
                            root : {"old", "empty"}]]
    BY <1>1, <1>2 DEF Untouched
  <2>2. runs \in 0 .. MaxRuns /\ at \in 1 .. Len(Queue) + 1 /\ at <= Len(Queue)
    BY QueueIsSound, FrontEndsAssumption DEF Init
  <2> QED
    BY <2>1, <2>2 DEF Init, TypeOK, Phases
<1>5. ProcessState /\ HereSoFar /\ LostBehind
  BY <1>3 DEF Init, ProcessState, HereSoFar, LostBehind, Writing
<1>6. FormatGoesInOrder
  BY <1>3 DEF Init, FormatGoesInOrder
<1>7. RetailClustersAre16K
  BY <1>1, <1>2, RetailDrives DEF RetailClustersAre16K, Untouched
<1> QED
  BY <1>4, <1>5, <1>6, <1>7 DEF Inv

-----------------------------------------------------------------------------
(* Inv is an invariant: the steps of a format, in their order, leave behind *)
(* what the next one takes for granted.                                     *)
THEOREM FormatInvariant == Spec => []Inv
<1>1. Init => Inv
  BY InitHasInv
<1>2. Inv /\ [Next]_vars => Inv'
  BY StepKeepsInv
<1> QED
  BY <1>1, <1>2, PTL DEF Spec

(* Every variable keeps its type, at every command line.                    *)
THEOREM FrontEndsTypeCorrect == Spec => []TypeOK
BY FormatInvariant, PTL DEF Inv

(* However a format ends, the drives before the one it was at are formatted *)
(* and all others untouched; without being asked and told, none is written. *)
THEOREM FormatsInOrder == Spec => []FormatGoesInOrder
BY FormatInvariant, PTL DEF Inv

(* No options, in no series of formats, give a retail drive clusters of     *)
(* another size than 16 KB.                                                 *)
THEOREM RetailClustersStay == Spec => []RetailClustersAre16K
BY FormatInvariant, PTL DEF Inv

(* A format that reports success has formatted all it was asked to: when it *)
(* ends, the place it has come to is past the end of its queue.             *)
THEOREM SuccessIsTrue == Spec => []SuccessMeansFormatted
<1>1. Inv => SuccessMeansFormatted
  <2> SUFFICES ASSUME Inv, Formats(request), status = "ok" \/ phase \in {"mount", "mounted"},
                      NEW d \in Drives, InQueue(d)
               PROVE  Formatted(d)
    BY DEF SuccessMeansFormatted
  <2>1. at > Len(Queue) /\ at \in Nat
    BY QueueIsSound DEF Inv, ProcessState, TypeOK
  <2>2. \A i \in 1 .. Len(Queue) : i < at => Formatted(Queue[i])
    BY DEF Inv, FormatGoesInOrder
  <2> QED
    BY <2>1, <2>2, QueueIsSound DEF InQueue
<1> QED
  BY <1>1, FormatInvariant, PTL

-----------------------------------------------------------------------------
(* Mounting. *)

Tools == {"fatxfs", "fatx-fuse", "pyfatx"}

(* What is open is the region its own program makes of the options, which   *)
(* are those the process was started with.                                  *)
OpenAsAsked ==
  /\ phase # "none" => request.tool \in Tools
  /\ phase = "mounted" => region = Region(request.tool, request) /\ region # Refused

(* The three readings of the options differ in what they refuse, and in the *)
(* drive letters of an Xbox 360 disk, only.                                 *)
LEMMA ReadingsAgree ==
  ASSUME NEW r, r.variant = "x360" => r.drive = None,
         NEW one \in Tools, NEW other \in Tools,
         Region(one, r) # Refused, Region(other, r) # Refused
  PROVE  Region(one, r) = Region(other, r)
<1>1. FatxfsRegion(r) # Refused /\ RustRegion(r) # Refused => FatxfsRegion(r) = RustRegion(r)
  BY DEF FatxfsRegion, RustRegion, Manual, Complete, NameOrData, RustName
<1>2. RustRegion(r) # Refused /\ PythonRegion(r) # Refused => RustRegion(r) = PythonRegion(r)
  BY DEF RustRegion, PythonRegion, Manual, Complete, RustName, PythonName
<1>3. FatxfsRegion(r) # Refused /\ PythonRegion(r) # Refused => FatxfsRegion(r) = PythonRegion(r)
  BY DEF FatxfsRegion, PythonRegion, Manual, Complete, NameOrData, PythonName
<1>4. /\ Region("fatxfs", r) = FatxfsRegion(r)
      /\ Region("fatx-fuse", r) = RustRegion(r)
      /\ Region("pyfatx", r) = PythonRegion(r)
  BY DEF Region
<1> QED
  BY <1>1, <1>2, <1>3, <1>4 DEF Tools

LEMMA StepOpensAsAsked ==
  ASSUME OpenAsAsked, [Next]_vars
  PROVE  OpenAsAsked'
<1>1. ASSUME NEW r \in Requests, Start(r) PROVE OpenAsAsked'
  <2>1. request' = r /\ r.tool \in Tools
    BY <1>1, FrontEndsAssumption DEF Start, Tools
  <2>2. phase' \in {"none", "mount", "refurb"}
    BY <1>1 DEF Start, Exit
  <2> QED
    BY <2>1, <2>2 DEF OpenAsAsked
<1>2. ASSUME Mount PROVE OpenAsAsked'
  <2>1. request' = request /\ phase = "mount"
      /\ region' = Region(request.tool, request) /\ region' # Refused
    BY <1>2 DEF Mount, Same
  <2> QED
    BY <2>1 DEF OpenAsAsked
<1>3. ASSUME \/ WriteRefurb \/ DivideByZero \/ OpenPartition \/ OpenFails
             \/ WriteSuperblock \/ ClearFat \/ WriteEntries \/ ClearRoot \/ StepFails
             \/ ClosePartition \/ MountFails \/ Unmount \/ Die
      PROVE  OpenAsAsked'
  <2>1. request' = request /\ phase # "none" /\ phase' # "mounted"
    BY <1>3 DEF WriteRefurb, DivideByZero, OpenPartition, OpenFails, WriteSuperblock, ClearFat,
                WriteEntries, ClearRoot, StepFails, ClosePartition, Return, MountFails, Unmount,
                Die, Goto, Exit, Same
  <2> QED
    BY <2>1 DEF OpenAsAsked
<1>4. ASSUME UNCHANGED vars PROVE OpenAsAsked'
  BY <1>4 DEF vars, OpenAsAsked
<1> QED
  BY <1>1, <1>2, <1>3, <1>4 DEF Next

(* Whatever the command line and the disk, a region that is mounted is the  *)
(* one every other program would take from the same options, if it takes    *)
(* them, but for drive letters on an Xbox 360 disk.                         *)
THEOREM MountsAgree == Spec => []FrontEndsAgree
<1>1. Init => OpenAsAsked
  BY DEF Init, OpenAsAsked
<1>2. OpenAsAsked /\ [Next]_vars => OpenAsAsked'
  BY StepOpensAsAsked
<1>3. OpenAsAsked => FrontEndsAgree
  BY ReadingsAgree DEF OpenAsAsked, FrontEndsAgree, Tools
<1> QED
  BY <1>1, <1>2, <1>3, PTL DEF Spec
=============================================================================
