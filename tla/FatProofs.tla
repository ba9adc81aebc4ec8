------------------------------ MODULE FatProofs ------------------------------
(***************************************************************************)
(* fatx_fat.c: the cache of the FAT and the scan that allocates a cluster. *)
(*                                                                         *)
(* The cache implements an array of FAT entries, for every FAT size, window*)
(* size and set of entries, whatever writes the device refuses, provided   *)
(* that it never fails to read: a failing read leaves the window moved to  *)
(* a buffer the device did not fill.                                       *)
(*                                                                         *)
(* The scan, for every number of filesystems of every size sharing the     *)
(* static cursor, only says that a volume is full when it is, and never    *)
(* gives a cluster to two owners.  That it ends is left to TLC.            *)
(***************************************************************************)
EXTENDS FatCache, FatAlloc, TLAPS

-----------------------------------------------------------------------------
(* The cache (FatCache).                                                   *)

(* The inductive invariant: each of its conjuncts needs the others. *)
Inv == TypeOK /\ WindowInsideTheFat /\ CacheHoldsTheFatWindow

(* The window at a valid index is not empty and ends inside the FAT. *)
LEMMA WindowBounds ==
  ASSUME NEW i \in 0 .. NumClusters + 1, ClusterValid(i)
  PROVE  /\ i \in Index
         /\ EntriesAt(i) \in 1 .. WindowSize
         /\ i + EntriesAt(i) <= NumClusters + 1
  BY CacheAssumption DEF ClusterValid, EntriesAt, Index

LEMMA InitInv ==
  ASSUME ~ReadFaults, Init
  PROVE  Inv
  <1>1. 0 \in Index /\ 0 \in 0 .. WindowSize
    BY CacheAssumption DEF Index
  <1>2. EmptyBuffer \in [Index -> Word]
    BY DEF EmptyBuffer, Word
  <1>3. TypeOK
    BY <1>1, <1>2 DEF Init, TypeOK
  <1>4. QED
    BY <1>3 DEF Init, Inv, WindowInsideTheFat, CacheHoldsTheFatWindow

(* A prefix of the window on the device is still a FAT of entries. *)
LEMMA WrittenType ==
  ASSUME Inv, ~ReadFaults, open, loaded, NEW k \in 0 .. entries
  PROVE  Written(k) \in [Index -> Entry]
  BY CacheAssumption DEF Inv, TypeOK, WindowInsideTheFat, Written, InWindow, Index

(* After a flush, whole or failed, the device holds the entries it held or  *)
(* those of the window; after a whole one it holds the logical FAT.         *)
LEMMA FlushSucceedsStep ==
  ASSUME Inv, ~ReadFaults, open, FlushSucceeds
  PROVE  disk' \in [Index -> Entry] /\ disk' = LogicalFat
  <1>1. CASE FlushNeeded
    <2>1. disk' = Written(entries)
      BY <1>1 DEF FlushSucceeds
    <2>2. disk' \in [Index -> Entry]
      BY <1>1, <2>1, WrittenType, CacheAssumption DEF FlushNeeded, Inv, TypeOK
    <2>3. Written(entries) = LogicalFat
      BY <1>1 DEF FlushNeeded, Written, LogicalFat, InWindow
    <2>4. QED
      BY <2>1, <2>2, <2>3
  <1>2. CASE ~FlushNeeded
    <2>1. disk' = disk
      BY <1>2 DEF FlushSucceeds
    <2>2. disk = LogicalFat
      BY <1>2 DEF Inv, TypeOK, CacheHoldsTheFatWindow, FlushNeeded, LogicalFat
    <2>3. QED
      BY <2>1, <2>2 DEF Inv, TypeOK
  <1>3. QED
    BY <1>1, <1>2

LEMMA FlushFailsStep ==
  ASSUME Inv, ~ReadFaults, open, FlushFails
  PROVE  /\ disk' \in [Index -> Entry]
         /\ \A i \in Index : disk'[i] = disk[i] \/ disk'[i] = LogicalFat[i]
         /\ \A i \in Index : InWindow(i) \/ disk'[i] = disk[i]
  <1>1. CASE readOnly
    BY <1>1 DEF FlushFails, Inv, TypeOK
  <1>2. CASE ~readOnly
    <2>1. PICK k \in 0 .. entries - 1 : disk' = Written(k)
      BY <1>2 DEF FlushFails
    <2>2. loaded /\ entries \in Nat /\ position \in Nat /\ k \in 0 .. entries
      BY CacheAssumption DEF FlushFails, FlushNeeded, Inv, TypeOK, Index
    <2>3. disk' \in [Index -> Entry]
      BY <2>1, <2>2, WrittenType
    <2>4. ASSUME NEW i \in Index
          PROVE  /\ disk'[i] = disk[i] \/ disk'[i] = LogicalFat[i]
                 /\ InWindow(i) \/ disk'[i] = disk[i]
      BY <2>1, <2>2 DEF Written, LogicalFat, InWindow, Index
    <2>5. QED
      BY <2>3, <2>4
  <1>3. QED
    BY <1>1, <1>2

(* Moving the window to a valid index and filling it from the device. *)
LEMMA MoveKeepsInv ==
  ASSUME ~ReadFaults, NEW i \in 0 .. NumClusters + 1, ClusterValid(i),
         disk' \in [Index -> Entry],
         MoveWindow(i), data' = Loaded(i, EntriesAt(i), disk'),
         open' \in BOOLEAN, readOnly' \in BOOLEAN
  PROVE  Inv' /\ \A j \in Index : InWindow(j)' => data'[j] = disk'[j]
  <1>1. /\ i \in Index
        /\ EntriesAt(i) \in 1 .. WindowSize
        /\ i + EntriesAt(i) <= NumClusters + 1
    BY WindowBounds
  <1>2. \A j \in Index : InWindow(j)' => data'[j] = disk'[j]
    BY <1>1 DEF MoveWindow, Loaded, InWindow
  <1>3. data' \in [Index -> Word]
    BY DEF Loaded, Word
  <1>4. TypeOK'
    <2>1. position' \in Index /\ entries' \in 0 .. WindowSize
      BY <1>1, CacheAssumption DEF MoveWindow
    <2>2. loaded' \in BOOLEAN /\ dirty' \in BOOLEAN
      BY DEF MoveWindow
    <2>3. \A j \in Index : InWindow(j)' => data'[j] \in Entry
      BY <1>2
    <2>4. QED
      BY <1>3, <2>1, <2>2, <2>3 DEF TypeOK
  <1>5. WindowInsideTheFat'
    BY <1>1, CacheAssumption DEF WindowInsideTheFat, MoveWindow
  <1>6. QED
    BY <1>2, <1>4, <1>5 DEF Inv, CacheHoldsTheFatWindow

(***************************************************************************)
(* Every step keeps the invariant and is a step of the store.  One lemma   *)
(* per action, stating both.                                               *)
(***************************************************************************)
LEMMA OpenStep ==
  ASSUME Inv, ~ReadFaults, OpenDevice
  PROVE  Inv' /\ Store!Next
  <1>1. 0 \in Index /\ 0 \in 0 .. WindowSize
    BY CacheAssumption DEF Index
  <1>2. EmptyBuffer \in [Index -> Word]
    BY DEF EmptyBuffer, Word
  <1>3. TypeOK'
    BY <1>1, <1>2 DEF Inv, TypeOK, OpenDevice
  <1>4. Inv'
    BY <1>3 DEF Inv, WindowInsideTheFat, CacheHoldsTheFatWindow, OpenDevice
  <1>5. LogicalFat' = LogicalFat
    BY DEF OpenDevice, LogicalFat
  <1>6. Store!Open
    BY <1>5 DEF OpenDevice, Store!Open, Result, Store!Result
  <1>7. QED
    BY <1>4, <1>6 DEF Store!Next

LEMMA ReadHitStep ==
  ASSUME Inv, ~ReadFaults, NEW i \in 0 .. NumClusters + 1, ReadHit(i)
  PROVE  Inv' /\ Store!Next
  <1>1. i \in Index
    BY CacheAssumption DEF ReadHit, ClusterValid, Index
  <1>2. Inv'
    BY DEF Inv, TypeOK, WindowInsideTheFat, CacheHoldsTheFatWindow, InWindow, ReadHit, cacheVars
  <1>3. LogicalFat' = LogicalFat /\ LogicalFat[i] = data[i]
    BY <1>1 DEF ReadHit, LogicalFat, InWindow, Hit, cacheVars
  <1>4. Store!WriteBack
    <2> DEFINE none == [j \in Index |-> IF j \in {} THEN LogicalFat[j] ELSE disk[j]]
    <2>1. disk' = none
      BY DEF ReadHit, Inv, TypeOK
    <2>2. {} \in SUBSET Index
      OBVIOUS
    <2>3. QED
      BY <2>1, <2>2 DEF Store!WriteBack, Store!Index, Index
  <1>5. Store!Read(i)
    BY <1>1, <1>3, <1>4
    DEF ReadHit, Store!Read, Result, Store!Result, Store!Index, Index
  <1>6. QED
    BY <1>2, <1>5 DEF Store!Next

(* A whole flush writes back every pending entry. *)
LEMMA WholeWriteBack ==
  ASSUME disk' \in [Index -> Entry], disk' = LogicalFat
  PROVE  Store!WriteBack
  <1>1. disk' = [j \in Index |-> IF j \in Index THEN LogicalFat[j] ELSE disk[j]]
    BY DEF LogicalFat
  <1>2. QED
    BY <1>1 DEF Store!WriteBack, Store!Index, Index

(* A failed one writes back some of them. *)
LEMMA PartialWriteBack ==
  ASSUME disk' \in [Index -> Entry],
         \A i \in Index : disk'[i] = disk[i] \/ disk'[i] = LogicalFat[i]
  PROVE  Store!WriteBack
  <1> DEFINE S == {i \in Index : disk'[i] = LogicalFat[i]}
  <1>1. disk' = [j \in Index |-> IF j \in S THEN LogicalFat[j] ELSE disk[j]]
    OBVIOUS
  <1>2. S \in SUBSET Index
    OBVIOUS
  <1>3. QED
    BY <1>1, <1>2 DEF Store!WriteBack, Store!Index, Index

LEMMA ReadMissStep ==
  ASSUME Inv, ~ReadFaults, NEW i \in 0 .. NumClusters + 1, ReadMiss(i)
  PROVE  Inv' /\ Store!Next
  <1>1. disk' \in [Index -> Entry] /\ disk' = LogicalFat
    BY FlushSucceedsStep DEF ReadMiss
  <1>2. i \in Index /\ EntriesAt(i) \in 1 .. WindowSize
    BY WindowBounds DEF ReadMiss
  <1>3. Inv' /\ \A j \in Index : InWindow(j)' => data'[j] = disk'[j]
    BY <1>1, MoveKeepsInv DEF ReadMiss, Inv, TypeOK
  <1>4. LogicalFat' = LogicalFat
    BY <1>1, <1>3 DEF LogicalFat
  <1>5. data'[i] = LogicalFat[i]
    <2>1. InWindow(i)'
      BY <1>2, CacheAssumption DEF ReadMiss, MoveWindow, InWindow, Index
    <2>2. QED
      BY <1>1, <1>2, <1>3, <2>1
  <1>6. Store!WriteBack
    BY <1>1, WholeWriteBack
  <1>7. Store!Read(i)
    BY <1>2, <1>4, <1>5, <1>6
    DEF ReadMiss, Store!Read, Result, Store!Result, Store!Index, Index
  <1>8. QED
    BY <1>3, <1>7 DEF Store!Next

LEMMA WriteHitStep ==
  ASSUME Inv, ~ReadFaults, NEW i \in 0 .. NumClusters + 1, NEW e \in Entry, WriteHit(i, e)
  PROVE  Inv' /\ Store!Next
  <1>1. i \in Index
    BY CacheAssumption DEF WriteHit, ClusterValid, Index
  <1>2. TypeOK'
    <2>1. data' \in [Index -> Word]
      BY DEF WriteHit, Inv, TypeOK, Word
    <2>2. \A j \in Index : InWindow(j)' => data'[j] \in Entry
      BY <1>1 DEF WriteHit, Hit, Inv, TypeOK, InWindow
    <2>3. QED
      BY <2>1, <2>2 DEF WriteHit, Inv, TypeOK
  <1>3. Inv'
    BY <1>2 DEF Inv, WindowInsideTheFat, CacheHoldsTheFatWindow, WriteHit
  <1>4. LogicalFat' = [LogicalFat EXCEPT ![i] = e]
    BY <1>1 DEF LogicalFat, WriteHit, Hit, InWindow, Inv, TypeOK
  <1>5. Store!WriteBack
    BY PartialWriteBack DEF WriteHit, Inv, TypeOK
  <1>6. Store!Write(i, e)
    BY <1>1, <1>4, <1>5
    DEF WriteHit, Store!Write, Result, Store!Result, Store!Index, Index
  <1>7. QED
    BY <1>1, <1>3, <1>6 DEF Store!Next, Store!Index, Index

LEMMA WriteMissStep ==
  ASSUME Inv, ~ReadFaults, NEW i \in 0 .. NumClusters + 1, NEW e \in Entry, WriteMiss(i, e)
  PROVE  Inv' /\ Store!Next
  <1>1. disk' \in [Index -> Entry] /\ disk' = LogicalFat
    BY FlushSucceedsStep DEF WriteMiss
  <1>2. /\ i \in Index
        /\ EntriesAt(i) \in 1 .. WindowSize
        /\ i + EntriesAt(i) <= NumClusters + 1
    BY WindowBounds DEF WriteMiss
  <1>3. \A j \in Index : InWindow(j)' => data'[j] = IF j = i THEN e ELSE disk'[j]
    BY <1>2 DEF WriteMiss, InWindow, Loaded
  <1>4. TypeOK'
    <2>1. data' \in [Index -> Word]
      BY <1>1, <1>2 DEF WriteMiss, Loaded, Word
    <2>2. \A j \in Index : InWindow(j)' => data'[j] \in Entry
      BY <1>1, <1>3
    <2>3. position' \in Index /\ entries' \in 0 .. WindowSize
      BY <1>2, CacheAssumption DEF WriteMiss
    <2>4. QED
      BY <1>1, <2>1, <2>2, <2>3 DEF WriteMiss, Inv, TypeOK
  <1>5. WindowInsideTheFat'
    BY <1>2, CacheAssumption DEF WindowInsideTheFat, WriteMiss
  <1>6. Inv'
    BY <1>4, <1>5 DEF Inv, CacheHoldsTheFatWindow, WriteMiss
  <1>7. InWindow(i)'
    BY <1>2, CacheAssumption DEF WriteMiss, InWindow, Index
  <1>8. LogicalFat' = [LogicalFat EXCEPT ![i] = e]
    <2>1. ASSUME NEW j \in Index
          PROVE  LogicalFat'[j] = IF j = i THEN e ELSE LogicalFat[j]
      BY <1>1, <1>3, <1>7 DEF LogicalFat, WriteMiss
    <2>2. LogicalFat' = [j \in Index |-> IF j = i THEN e ELSE LogicalFat[j]]
      BY <2>1 DEF LogicalFat
    <2>3. QED
      BY <2>2 DEF LogicalFat
  <1>9. Store!WriteBack
    BY <1>1, WholeWriteBack
  <1>10. Store!Write(i, e)
    BY <1>2, <1>8, <1>9
    DEF WriteMiss, Store!Write, Result, Store!Result, Store!Index, Index
  <1>11. QED
    BY <1>2, <1>6, <1>10 DEF Store!Next, Store!Index, Index

LEMMA ErrorStep ==
  ASSUME Inv, ~ReadFaults, NEW i \in 0 .. NumClusters + 1, NEW op \in {"read", "write"},
         OutOfBounds(op, i) \/ MissFails(op, i)
  PROVE  Inv' /\ Store!Next
  <1>1. /\ disk' \in [Index -> Entry]
        /\ \A j \in Index : disk'[j] = disk[j] \/ disk'[j] = LogicalFat[j]
        /\ \A j \in Index : InWindow(j) \/ disk'[j] = disk[j]
    <2>1. CASE OutOfBounds(op, i)
      BY <2>1 DEF OutOfBounds, Inv, TypeOK
    <2>2. CASE MissFails(op, i)
      BY <2>2, FlushFailsStep DEF MissFails, PopulateFails
    <2>3. QED
      BY <2>1, <2>2
  <1>2. /\ UNCHANGED <<open, readOnly, loaded, position, entries, dirty, data>>
        /\ open /\ res' = Result(op, i, FALSE, Nothing)
        /\ disk' = disk \/ dirty
    BY DEF OutOfBounds, MissFails, PopulateFails, FlushFails, FlushNeeded, cacheVars
  <1>3. Inv'
    <2>1. TypeOK'
      BY <1>1, <1>2 DEF Inv, TypeOK, InWindow
    <2>2. QED
      BY <1>2, <2>1 DEF Inv, WindowInsideTheFat, CacheHoldsTheFatWindow, InWindow
  <1>4. LogicalFat' = LogicalFat
    <2>1. CASE loaded
      BY <1>1, <1>2, <2>1 DEF LogicalFat, InWindow
    <2>2. CASE ~loaded
      <3>1. disk' = disk
        BY <2>2 DEF OutOfBounds, MissFails, PopulateFails, FlushFails, FlushNeeded
      <3>2. QED
        BY <1>2, <2>2, <3>1 DEF LogicalFat
    <2>3. QED
      BY <2>1, <2>2
  <1>5. Store!WriteBack
    BY <1>1, PartialWriteBack
  <1>6. Store!Fail(op, i)
    BY <1>2, <1>4, <1>5 DEF Store!Fail, Result, Store!Result
  <1>7. QED
    BY <1>3, <1>6 DEF Store!Next

LEMMA CloseStep ==
  ASSUME Inv, ~ReadFaults, CloseDevice
  PROVE  Inv' /\ Store!Next
  <1>1. ~open' /\ dirty' \in BOOLEAN
    BY DEF CloseDevice, Inv, TypeOK
  <1>2. CASE FlushSucceeds /\ res' = Result("close", 0, TRUE, Nothing)
    <2>1. disk' \in [Index -> Entry] /\ disk' = LogicalFat
      BY <1>2, FlushSucceedsStep DEF CloseDevice
    <2>2. LogicalFat' = LogicalFat
      BY <1>1, <2>1 DEF LogicalFat
    <2>3. Inv'
      BY <1>1, <2>1
      DEF CloseDevice, Inv, TypeOK, WindowInsideTheFat, CacheHoldsTheFatWindow
    <2>4. Store!Close
      BY <1>2, <2>1, <2>2 DEF CloseDevice, Store!Close, Result, Store!Result
    <2>5. QED
      BY <2>3, <2>4 DEF Store!Next
  <1>3. CASE FlushFails /\ res' = Result("close", 0, FALSE, Nothing)
    <2>1. /\ disk' \in [Index -> Entry]
          /\ \A j \in Index : disk'[j] = disk[j] \/ disk'[j] = LogicalFat[j]
      BY <1>3, FlushFailsStep DEF CloseDevice
    <2>2. LogicalFat' = disk'
      BY <1>1, <2>1 DEF LogicalFat
    <2>3. Inv'
      BY <1>1, <2>1
      DEF CloseDevice, Inv, TypeOK, WindowInsideTheFat, CacheHoldsTheFatWindow
    <2>4. Store!Lose("close")
      BY <1>3, <2>1, <2>2, PartialWriteBack
      DEF CloseDevice, Store!Lose, Result, Store!Result
    <2>5. QED
      BY <2>3, <2>4 DEF Store!Next
  <1>4. QED
    BY <1>2, <1>3 DEF CloseDevice

LEMMA CrashStep ==
  ASSUME Inv, ~ReadFaults, Crash
  PROVE  Inv' /\ Store!Next
  <1>1. /\ disk' \in [Index -> Entry]
        /\ \A j \in Index : disk'[j] = disk[j] \/ disk'[j] = LogicalFat[j]
    <2>1. CASE UNCHANGED disk
      BY <2>1 DEF Inv, TypeOK
    <2>2. CASE FlushNeeded /\ ~readOnly /\ \E k \in 1 .. entries : disk' = Written(k)
      <3>1. PICK k \in 1 .. entries : disk' = Written(k)
        BY <2>2
      <3>2. loaded /\ open /\ entries \in Nat /\ position \in Nat /\ k \in 0 .. entries
        BY <2>2, CacheAssumption DEF Crash, FlushNeeded, Inv, TypeOK, Index
      <3>3. disk' \in [Index -> Entry]
        BY <3>1, <3>2, WrittenType
      <3>4. ASSUME NEW j \in Index
            PROVE  disk'[j] = disk[j] \/ disk'[j] = LogicalFat[j]
        BY <3>1, <3>2 DEF Written, LogicalFat, InWindow, Index
      <3>5. QED
        BY <3>3, <3>4
    <2>3. QED
      BY <2>1, <2>2 DEF Crash
  <1>2. LogicalFat' = disk'
    BY <1>1 DEF Crash, LogicalFat
  <1>3. Inv'
    BY <1>1
    DEF Crash, cacheVars, Inv, TypeOK, WindowInsideTheFat, CacheHoldsTheFatWindow
  <1>4. Store!Lose("crash")
    BY <1>1, <1>2, PartialWriteBack DEF Crash, Store!Lose, Result, Store!Result
  <1>5. QED
    BY <1>3, <1>4 DEF Store!Next

LEMMA NextStep ==
  ASSUME Inv, ~ReadFaults, [Next]_vars
  PROVE  Inv' /\ [Store!Next]_(Store!vars)
  <1>1. CASE OpenDevice
    BY <1>1, OpenStep
  <1>2. ASSUME NEW i \in 0 .. NumClusters + 1, ReadHit(i)
        PROVE  Inv' /\ Store!Next
    BY <1>2, ReadHitStep
  <1>3. ASSUME NEW i \in 0 .. NumClusters + 1, ReadMiss(i)
        PROVE  Inv' /\ Store!Next
    BY <1>3, ReadMissStep
  <1>4. ASSUME NEW i \in 0 .. NumClusters + 1, NEW e \in Entry,
               WriteHit(i, e) \/ WriteMiss(i, e)
        PROVE  Inv' /\ Store!Next
    BY <1>4, WriteHitStep, WriteMissStep
  <1>5. ASSUME NEW i \in 0 .. NumClusters + 1, NEW op \in {"read", "write"},
               OutOfBounds(op, i) \/ MissFails(op, i)
        PROVE  Inv' /\ Store!Next
    BY <1>5, ErrorStep
  <1>6. CASE CloseDevice
    BY <1>6, CloseStep
  <1>7. CASE Crash
    BY <1>7, CrashStep
  <1>8. CASE UNCHANGED vars
    <2>1. Inv'
      BY <1>8
      DEF vars, cacheVars, Inv, TypeOK, WindowInsideTheFat, CacheHoldsTheFatWindow, InWindow
    <2>2. UNCHANGED Store!vars
      BY <1>8 DEF vars, cacheVars, Store!vars, LogicalFat, InWindow
    <2>3. QED
      BY <2>1, <2>2
  <1>9. QED
    BY <1>1, <1>2, <1>3, <1>4, <1>5, <1>6, <1>7, <1>8 DEF Next

(* With a device that does not fail to read, the cache's window is always a *)
(* part of the FAT, a clean window is what the device holds, and only       *)
(* entries somebody wrote are ever on the device (fatx_fat.c:113-270).      *)
THEOREM CacheInvariant ==
  ~ReadFaults => (Spec => [](TypeOK /\ WindowInsideTheFat /\ CacheHoldsTheFatWindow))
  <1> SUFFICES ASSUME ~ReadFaults
               PROVE  Spec => [](TypeOK /\ WindowInsideTheFat /\ CacheHoldsTheFatWindow)
    OBVIOUS
  <1>1. Init => Inv
    BY InitInv
  <1>2. Inv /\ [Next]_vars => Inv'
    BY NextStep
  <1>3. Inv => TypeOK /\ WindowInsideTheFat /\ CacheHoldsTheFatWindow
    BY DEF Inv
  <1>4. QED
    BY <1>1, <1>2, <1>3, PTL DEF Spec

(* The window, its buffer and the FAT keep their types (struct fat_cache). *)
THEOREM CacheTypeCorrect == ~ReadFaults => (Spec => []TypeOK)
  <1>1. QED
    BY CacheInvariant, PTL

(* A loaded window never reaches past the FAT, so that no flush writes past *)
(* it (fatx_populate_fat_cache, fatx_flush_fat_cache).                      *)
THEOREM WindowStaysInside == ~ReadFaults => (Spec => []WindowInsideTheFat)
  <1>1. QED
    BY CacheInvariant, PTL

(* The cache implements the array of entries its callers rely on: the       *)
(* window moving, devices refusing to write, failed closes, read-only       *)
(* devices and crashes included (fatx_fat.c:113-270, fatx.c:179-188).       *)
THEOREM CacheImplementsStore == ~ReadFaults => (Spec => ImplementsStore)
  <1> SUFFICES ASSUME ~ReadFaults
               PROVE  Spec => ImplementsStore
    OBVIOUS
  <1>1. Init => Inv /\ Store!Init
    <2>1. ASSUME Init
          PROVE  LogicalFat = disk
      BY <2>1 DEF Init, LogicalFat
    <2>2. QED
      BY <2>1, InitInv DEF Init, Store!Init, Store!Index, Index, Result, Store!Result
  <1>2. Inv /\ [Next]_vars => Inv' /\ [Store!Next]_(Store!vars)
    BY NextStep
  <1>3. QED
    BY <1>1, <1>2, PTL DEF Spec, ImplementsStore, Store!Spec

(* A read-only device is never changed, for every size of FAT and window    *)
(* (fatx_dev.c:76-85).                                                      *)
THEOREM ReadOnlyDeviceUnchanged == Spec => ReadOnlyLeavesTheDevice
  <1>1. [Next]_vars => [open /\ readOnly => disk' = disk]_vars
    BY DEF Next, OpenDevice, ReadHit, ReadMiss, WriteHit, WriteMiss, OutOfBounds, MissFails,
           CloseDevice, Crash, PopulateFails, FlushSucceeds, FlushFails, vars
  <1>2. QED
    BY <1>1, PTL DEF Spec, ReadOnlyLeavesTheDevice

-----------------------------------------------------------------------------
(* The scan (FatAlloc).                                                    *)

LEMMA AllocableIsNat ==
  ASSUME NEW f \in Fs
  PROVE  /\ ClustersOf[f] \in Nat /\ ClustersOf[f] > 2
         /\ Allocable(f) \subseteq Nat
         /\ \A c \in Nat : c \in Allocable(f) <=> 2 <= c /\ c < ClustersOf[f]
  BY AllocAssumption DEF Allocable

(* The cluster under the cursor is always one of the data area. *)
LEMMA HereIsAllocable ==
  ASSUME AllocTypeOK, caller # NoFs
  PROVE  /\ caller \in Fs
         /\ Here \in Allocable(caller)
         /\ Here \in Nat
         /\ PastTheEnd => cursor >= ClustersOf[caller] /\ Here = 2
         /\ ~PastTheEnd => cursor < ClustersOf[caller] /\ Here = cursor
  <1>1. caller \in Fs /\ cursor \in Nat /\ cursor >= 2
    BY DEF AllocTypeOK
  <1>2. QED
    BY <1>1, AllocableIsNat DEF Here, PastTheEnd

LEMMA AllocInitTypeOK == AllocInit => AllocTypeOK
  <1> SUFFICES ASSUME AllocInit PROVE AllocTypeOK
    OBVIOUS
  <1>1. \A f \in Fs : held[f] \subseteq Allocable(f) /\ held[f] \subseteq Nat
    BY AllocableIsNat DEF AllocInit
  <1>2. held \in [Fs -> SUBSET Nat]
    BY <1>1 DEF AllocInit
  <1>3. 2 \in Nat \ (0 .. 1)
    OBVIOUS
  <1>4. QED
    BY <1>1, <1>2, <1>3 DEF AllocInit, AllocTypeOK

(* Marking the cluster under the cursor. *)
LEMMA MarkEndType ==
  ASSUME AllocTypeOK, caller # NoFs, MarkEnd
  PROVE  /\ used' \in [Fs -> SUBSET Nat]
         /\ \A f \in Fs : used'[f] = IF f = caller THEN used[f] \cup {Here} ELSE used[f]
         /\ \A f \in Fs : used'[f] \subseteq Allocable(f)
  BY HereIsAllocable DEF MarkEnd, AllocTypeOK

LEMMA ReturnType ==
  ASSUME AllocTypeOK, caller # NoFs,
         NEW s \in {"success", "full", "error"}, NEW c \in Nat \cup {Unset}, Return(s, c)
  PROVE  /\ caller' = NoFs
         /\ cursor' \in Nat \ (0 .. 1) /\ startI' \in Nat \ (0 .. 1) /\ wrapped' \in BOOLEAN
         /\ ret' \in [status : {"none", "success", "full", "error"}, cluster : Nat \cup {Unset}]
  <1>1. Here \in Nat \ (0 .. 1)
    BY HereIsAllocable, AllocableIsNat
  <1>2. 2 \in Nat \ (0 .. 1)
    OBVIOUS
  <1>3. [status |-> s, cluster |-> c]
          \in [status : {"none", "success", "full", "error"}, cluster : Nat \cup {Unset}]
    OBVIOUS
  <1>4. QED
    BY <1>1, <1>2, <1>3 DEF Return

LEMMA AllocNextTypeOK == AllocTypeOK /\ [AllocNext]_allocVars => AllocTypeOK'
  <1> SUFFICES ASSUME AllocTypeOK, [AllocNext]_allocVars PROVE AllocTypeOK'
    OBVIOUS
  <1>1. ASSUME NEW f \in Fs, Begin(f) PROVE AllocTypeOK'
    BY <1>1 DEF Begin, AllocTypeOK
  <1>2. ASSUME NEW f \in Fs, Release(f) PROVE AllocTypeOK'
    <2>1. PICK S \in SUBSET held[f] :
            /\ held' = [held EXCEPT ![f] = @ \ S]
            /\ used' = [used EXCEPT ![f] = @ \ S]
      BY <1>2 DEF Release
    <2>2. held' \in [Fs -> SUBSET Nat] /\ \A g \in Fs : held'[g] \subseteq held[g]
      BY <2>1 DEF AllocTypeOK
    <2>3. used' \in [Fs -> SUBSET Nat] /\ \A g \in Fs : used'[g] \subseteq used[g]
      BY <2>1 DEF AllocTypeOK
    <2>4. QED
      BY <1>2, <2>2, <2>3 DEF Release, AllocTypeOK
  <1>3. CASE Full
    BY <1>3, ReturnType DEF Full, AllocTypeOK
  <1>4. CASE ReadFails
    BY <1>4, ReturnType DEF ReadFails, AllocTypeOK
  <1>5. CASE Skip
    <2>1. cursor' \in Nat \ (0 .. 1) /\ wrapped' \in BOOLEAN
      BY <1>5, HereIsAllocable, AllocableIsNat DEF Skip, HasWrapped, PastTheEnd, AllocTypeOK
    <2>2. QED
      BY <1>5, <2>1 DEF Skip, AllocTypeOK
  <1>6. CASE Take
    <2>1. Return("success", Here) /\ Here \in Nat /\ Here \in Allocable(caller)
      BY <1>6, HereIsAllocable DEF Take
    <2>2. /\ held' \in [Fs -> SUBSET Nat]
          /\ \A f \in Fs : held'[f] \subseteq Allocable(f)
      BY <1>6, <2>1 DEF Take, AllocTypeOK
    <2>3. QED
      BY <1>6, <2>1, <2>2, MarkEndType, ReturnType DEF Take, AllocTypeOK
  <1>7. CASE TakeSeekFails
    BY <1>7, MarkEndType, ReturnType DEF TakeSeekFails, AllocTypeOK
  <1>8. CASE TakeZeroFails
    BY <1>8, MarkEndType, ReturnType DEF TakeZeroFails, AllocTypeOK
  <1>9. CASE UNCHANGED allocVars
    BY <1>9 DEF allocVars, AllocTypeOK
  <1>10. QED
    BY <1>1, <1>2, <1>3, <1>4, <1>5, <1>6, <1>7, <1>8, <1>9 DEF AllocNext, Iterate

(* Only clusters of the data area are ever marked or handed out, and the    *)
(* cursor is never left below the first of them (fatx_fat.c:422-485).       *)
THEOREM AllocTypeCorrect == AllocSpec => []AllocTypeOK
  BY AllocInitTypeOK, AllocNextTypeOK, PTL DEF AllocSpec

-----------------------------------------------------------------------------
(* A scan that has come back to its start has seen every cluster taken. *)
LEMMA FullCircle ==
  ASSUME AllocTypeOK, ScannedIsTaken, caller # NoFs, BackAtTheStart
  PROVE  used[caller] = Allocable(caller)
  <1>1. caller \in Fs /\ startI \in Allocable(caller) /\ Here = startI /\ HasWrapped
    BY HereIsAllocable DEF BackAtTheStart
  <1>2. used[caller] \subseteq Allocable(caller)
    BY <1>1 DEF AllocTypeOK
  <1>3. SUFFICES ASSUME NEW c \in Allocable(caller)
                 PROVE  c \in used[caller]
    BY <1>2
  <1>4. c \in Nat /\ 2 <= c /\ c < ClustersOf[caller] /\ ClustersOf[caller] \in Nat
    BY <1>1, AllocableIsNat
  <1>5. cursor \in Nat
    BY DEF AllocTypeOK
  <1>6. CASE PastTheEnd
    <2>1. startI = 2 /\ cursor >= ClustersOf[caller]
      BY <1>1, <1>6, HereIsAllocable
    <2>2. startI <= c /\ c < cursor
      BY <1>4, <1>5, <2>1
    <2>3. IF wrapped THEN startI <= c \/ c < cursor ELSE startI <= c /\ c < cursor
      BY <2>2
    <2>4. QED
      BY <1>1, <2>3 DEF ScannedIsTaken
  <1>7. CASE ~PastTheEnd
    <2>1. wrapped /\ cursor = startI
      BY <1>1, <1>7, HereIsAllocable DEF HasWrapped
    <2>2. startI <= c \/ c < cursor
      BY <1>4, <1>5, <2>1
    <2>3. QED
      BY <1>1, <2>1, <2>2 DEF ScannedIsTaken
  <1>8. QED
    BY <1>6, <1>7

(* One more iteration over a taken cluster extends what has been seen. *)
LEMMA SkipKeepsScan ==
  ASSUME AllocTypeOK, ScannedIsTaken, Skip
  PROVE  ScannedIsTaken'
  <1>1. /\ caller \in Fs /\ caller # NoFs /\ caller' = caller /\ used' = used
        /\ startI' = startI /\ cursor' = Here + 1 /\ wrapped' = HasWrapped
        /\ Here \in used[caller] /\ Here \in Nat /\ ~BackAtTheStart
    BY HereIsAllocable DEF Skip
  <1>2. SUFFICES ASSUME startI \in Allocable(caller)
                 PROVE  /\ wrapped' \/ startI <= cursor'
                        /\ \A c \in Allocable(caller) :
                             (IF wrapped' THEN startI <= c \/ c < cursor'
                                          ELSE startI <= c /\ c < cursor')
                               => c \in used[caller]
    BY <1>1 DEF ScannedIsTaken, Allocable
  <1>3. /\ startI \in Nat /\ 2 <= startI /\ startI < ClustersOf[caller]
        /\ cursor \in Nat /\ ClustersOf[caller] \in Nat
    BY <1>1, <1>2, AllocableIsNat DEF AllocTypeOK
  <1>4. CASE PastTheEnd
    <2> HasWrapped
      BY <1>4 DEF HasWrapped
    <2>1. Here = 2 /\ wrapped' /\ cursor' = 3 /\ cursor >= ClustersOf[caller]
      <3>1. wrapped'
        BY <1>1, Zenon
      <3>2. QED
        BY <1>1, <1>4, <3>1, HereIsAllocable
    <2>2. ASSUME NEW c \in Allocable(caller), startI <= c \/ c < cursor'
          PROVE  c \in used[caller]
      <3>1. c \in Nat /\ 2 <= c /\ c < ClustersOf[caller]
        BY <1>1, AllocableIsNat
      <3>2. CASE startI <= c
        BY <1>1, <1>2, <1>3, <2>1, <3>1, <3>2 DEF ScannedIsTaken
      <3>3. CASE c = 2
        BY <1>1, <2>1, <3>3
      <3>4. QED
        BY <2>1, <2>2, <3>1, <3>2, <3>3
    <2>3. QED
      BY <2>1, <2>2
  <1>5. CASE ~PastTheEnd
    <2>1. Here = cursor /\ wrapped' = wrapped /\ cursor' = cursor + 1
      BY <1>1, <1>5, HereIsAllocable DEF HasWrapped, AllocTypeOK
    <2>2. wrapped \/ startI <= cursor
      BY <1>1, <1>2 DEF ScannedIsTaken
    <2>3. ASSUME NEW c \in Allocable(caller),
                 IF wrapped THEN startI <= c \/ c < cursor + 1
                            ELSE startI <= c /\ c < cursor + 1
          PROVE  c \in used[caller]
      <3>1. c \in Nat
        BY <1>1, AllocableIsNat
      <3>2. CASE c = cursor
        BY <1>1, <2>1, <3>2
      <3>3. CASE c # cursor
        <4>1. IF wrapped THEN startI <= c \/ c < cursor ELSE startI <= c /\ c < cursor
          BY <1>3, <2>3, <3>1, <3>3
        <4>2. QED
          BY <1>1, <1>2, <4>1 DEF ScannedIsTaken
      <3>4. QED
        BY <3>2, <3>3
    <2>4. QED
      BY <1>3, <2>1, <2>2, <2>3
  <1>6. QED
    BY <1>4, <1>5

(* Every other step ends a scan, begins one, or happens outside one. *)
LEMMA NextKeepsScan == AllocTypeOK /\ ScannedIsTaken /\ [AllocNext]_allocVars => ScannedIsTaken'
  <1> SUFFICES ASSUME AllocTypeOK, ScannedIsTaken, [AllocNext]_allocVars PROVE ScannedIsTaken'
    OBVIOUS
  <1>1. ASSUME NEW f \in Fs, Begin(f) PROVE ScannedIsTaken'
    <2>1. cursor \in Nat /\ startI' = cursor /\ cursor' = cursor /\ ~wrapped' /\ caller' = f
      BY <1>1 DEF Begin, AllocTypeOK
    <2>2. \A c \in Allocable(f) : ~(cursor <= c /\ c < cursor)
      BY <2>1, AllocableIsNat
    <2>3. QED
      BY <2>1, <2>2 DEF ScannedIsTaken, Allocable
  <1>2. ASSUME NEW f \in Fs, Release(f) PROVE ScannedIsTaken'
    BY <1>2 DEF Release, ScannedIsTaken
  <1>3. CASE Full \/ ReadFails \/ Take \/ TakeSeekFails \/ TakeZeroFails
    BY <1>3 DEF Full, ReadFails, Take, TakeSeekFails, TakeZeroFails, Return, ScannedIsTaken
  <1>4. CASE Skip
    BY <1>4, SkipKeepsScan
  <1>5. CASE UNCHANGED allocVars
    BY <1>5 DEF allocVars, ScannedIsTaken, Allocable
  <1>6. QED
    BY <1>1, <1>2, <1>3, <1>4, <1>5 DEF AllocNext, Iterate

(* At every iteration, across the wrap, everything between the start of the *)
(* scan and its cursor is taken (fatx_fat.c:433-468).                       *)
THEOREM ScanIsComplete == AllocSpec => []ScannedIsTaken
  <1>1. AllocInit => AllocTypeOK /\ ScannedIsTaken
    BY AllocInitTypeOK DEF AllocInit, ScannedIsTaken
  <1>2. AllocTypeOK /\ ScannedIsTaken /\ [AllocNext]_allocVars => AllocTypeOK' /\ ScannedIsTaken'
    BY AllocNextTypeOK, NextKeepsScan
  <1>3. QED
    BY <1>1, <1>2, PTL DEF AllocSpec

(* "no clusters available" is only reported for a volume that has none      *)
(* left, whatever filesystem moved the cursor before (fatx_fat.c:445-449).  *)
THEOREM FullIsTrue == AllocSpec => FullMeansFull
  <1>1. AllocTypeOK /\ ScannedIsTaken /\ [AllocNext]_allocVars
          => [\A f \in Fs : caller = f /\ caller' = NoFs /\ ret'.status = "full"
                             => used[f] = Allocable(f)]_allocVars
    <2> SUFFICES ASSUME AllocTypeOK, ScannedIsTaken, AllocNext,
                        NEW f \in Fs, caller = f, caller' = NoFs, ret'.status = "full"
                 PROVE  used[f] = Allocable(f)
      OBVIOUS
    <2>1. caller # NoFs
      BY AllocAssumption
    <2>2. CASE Full
      BY <2>1, <2>2, FullCircle DEF Full
    <2>3. CASE ReadFails \/ Take \/ TakeSeekFails \/ TakeZeroFails
      BY <2>3 DEF ReadFails, Take, TakeSeekFails, TakeZeroFails, Return
    <2>4. CASE Skip
      BY <2>1, <2>4 DEF Skip
    <2>5. QED
      BY <2>1, <2>2, <2>3, <2>4 DEF AllocNext, Iterate, Begin, Release
  <1>2. QED
    BY <1>1, AllocTypeCorrect, ScanIsComplete, PTL DEF AllocSpec, FullMeansFull

(* No cluster has two owners, and none is lost while neither seeking to a   *)
(* new cluster nor clearing it fails (fatx_fat.c:470-484).                  *)
THEOREM OwnersAreMarked == AllocSpec => []FatMatchesOwners
  <1>1. AllocInit => FatMatchesOwners
    BY DEF AllocInit, FatMatchesOwners
  <1>2. AllocTypeOK /\ FatMatchesOwners /\ [AllocNext]_allocVars => FatMatchesOwners'
    <2> SUFFICES ASSUME AllocTypeOK, FatMatchesOwners, [AllocNext]_allocVars PROVE FatMatchesOwners'
      OBVIOUS
    <2>1. ASSUME NEW f \in Fs, Release(f) PROVE FatMatchesOwners'
      <3>1. PICK S \in SUBSET held[f] :
              /\ held' = [held EXCEPT ![f] = @ \ S]
              /\ used' = [used EXCEPT ![f] = @ \ S]
        BY <2>1 DEF Release
      <3>2. QED
        BY <3>1 DEF FatMatchesOwners, AllocTypeOK
    <2>2. CASE Take
      BY <2>2 DEF Take, MarkEnd, FatMatchesOwners, AllocTypeOK
    <2>3. CASE TakeSeekFails \/ TakeZeroFails
      BY <2>3 DEF TakeSeekFails, TakeZeroFails, MarkEnd, FatMatchesOwners, AllocTypeOK
    <2>4. CASE UNCHANGED <<used, held>>
      BY <2>4 DEF FatMatchesOwners
    <2>5. QED
      BY <2>1, <2>2, <2>3, <2>4
      DEF AllocNext, Iterate, Begin, Full, ReadFails, Skip, allocVars
  <1>3. QED
    BY <1>1, <1>2, AllocTypeCorrect, PTL DEF AllocSpec
=============================================================================
