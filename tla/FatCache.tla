------------------------------ MODULE FatCache ------------------------------
(***************************************************************************)
(* The FAT cache of libfatx (fatx_fat.c): one window of at most            *)
(* WindowSize entries, loaded at the index that missed, written back whole *)
(* when the window moves or the device is closed.                          *)
(*                                                                         *)
(* `data' holds the buffer by absolute FAT index.  Indices outside the     *)
(* window are outside the buffer: what is there is Garbage, as is a buffer *)
(* that malloc returned and a failed read did not fill.                    *)
(*                                                                         *)
(* `disk' is the FAT on the device, as fatx_dev_write leaves it: stdio     *)
(* buffering below that call, which delays at most the last write until    *)
(* the next seek, is not modelled.                                         *)
(***************************************************************************)
EXTENDS Naturals

CONSTANTS
  NumClusters,  (* fs->num_clusters: the valid FAT indices are 0..NumClusters   *)
  WindowSize,   (* FATX_FAT_CACHE_NUM_ENTRIES                                   *)
  Entry,        (* the FAT entries the callers write                            *)
  Garbage,      (* what uninitialised memory holds: not an entry anybody wrote  *)
  Nothing,      (* the value of a result that has none                          *)
  ReadFaults,   (* may fatx_dev_read fail?                                      *)
  WriteFaults   (* may fatx_dev_write fail, after writing a prefix?             *)

ASSUME CacheAssumption ==
  /\ NumClusters \in Nat
  /\ WindowSize \in Nat \ {0}
  /\ ReadFaults \in BOOLEAN
  /\ WriteFaults \in BOOLEAN
  /\ Garbage \notin Entry

Index == 0 .. NumClusters

Word == Entry \cup {Garbage}

VARIABLES
  disk,         (* the FAT on the device                               *)
  open,         (* between fatx_open_device and fatx_close_device      *)
  readOnly,     (* fs->read_only                                       *)
  loaded,       (* cache->data # NULL                                  *)
  position,     (* cache->position                                     *)
  entries,      (* cache->entries                                      *)
  dirty,        (* cache->dirty                                        *)
  data,         (* the buffer cache->data, by absolute index           *)
  res           (* the last operation and what it returned             *)

cacheVars == <<loaded, position, entries, dirty, data>>
vars == <<disk, open, readOnly, cacheVars, res>>

-----------------------------------------------------------------------------
(* fatx_cluster_valid *)
ClusterValid(i) == i < NumClusters + 1

InWindow(i) == position <= i /\ i < position + entries

Hit(i) == loaded /\ InWindow(i)

Result(op, i, ok, value) == [op |-> op, index |-> i, ok |-> ok, value |-> value]

EmptyBuffer == [i \in Index |-> Garbage]

(* The first k words of the buffer written over the FAT on the device. *)
Written(k) ==
  [i \in Index |-> IF position <= i /\ i < position + k THEN data[i] ELSE disk[i]]

(* fatx_flush_fat_cache, its early return included: with success, ...       *)
FlushNeeded == loaded /\ dirty

(* Mutants: the window moves without being written back; the read-only      *)
(* check is missing.                                                        *)
FlushForgotten == UNCHANGED disk

FlushIgnoringReadOnly ==
  \/ ~FlushNeeded /\ UNCHANGED disk
  \/ FlushNeeded /\ disk' = Written(entries)

FlushSucceeds ==
  \/ ~FlushNeeded /\ UNCHANGED disk
  \/ FlushNeeded /\ ~readOnly /\ disk' = Written(entries)

(* ... and failing: fatx_dev_write refuses a read-only filesystem before it *)
(* touches the device, and a device that fails has written a prefix.        *)
FlushFails ==
  /\ FlushNeeded
  /\ \/ readOnly /\ UNCHANGED disk
     \/ /\ ~readOnly /\ WriteFaults
        /\ \E k \in 0 .. entries - 1 : disk' = Written(k)

(* Mutant: the last window runs past the end of the FAT. *)
EntriesUnclipped(i) == WindowSize

(* The window fatx_populate_fat_cache(i) chooses, clipped to the FAT's end. *)
EntriesAt(i) ==
  IF WindowSize <= NumClusters + 1 - i THEN WindowSize ELSE NumClusters + 1 - i

(* The new buffer when the first k of its words have been read from d. *)
Loaded(i, k, d) == [j \in Index |-> IF i <= j /\ j < i + k THEN d[j] ELSE Garbage]

MoveWindow(i) ==
  /\ loaded' = TRUE
  /\ position' = i
  /\ entries' = EntriesAt(i)
  /\ dirty' = FALSE

(* fatx_populate_fat_cache(i) failing: the flush failed and the cache is as *)
(* it was, or the window has moved to a buffer the device did not fill.     *)
(* (dirty is FALSE after the successful flush.)                             *)
PopulateFails(i) ==
  \/ FlushFails /\ UNCHANGED cacheVars
  \/ /\ ReadFaults
     /\ FlushSucceeds
     /\ MoveWindow(i)
     /\ \E k \in 0 .. EntriesAt(i) - 1 : data' = Loaded(i, k, disk')

-----------------------------------------------------------------------------
Init ==
  /\ disk \in [Index -> Entry]
  /\ open = FALSE
  /\ readOnly = FALSE
  /\ loaded = FALSE
  /\ position = 0
  /\ entries = 0
  /\ dirty = FALSE
  /\ data = EmptyBuffer
  /\ res = Result("boot", 0, TRUE, Nothing)

(* fatx_open_device_ex: the cache is cleared. *)
OpenDevice ==
  /\ ~open
  /\ open' = TRUE
  /\ readOnly' \in BOOLEAN
  /\ loaded' = FALSE
  /\ position' = 0
  /\ entries' = 0
  /\ dirty' = FALSE
  /\ data' = EmptyBuffer
  /\ res' = Result("open", 0, TRUE, Nothing)
  /\ UNCHANGED disk

(* fatx_read_fat *)
ReadHit(i) ==
  /\ open /\ ClusterValid(i) /\ Hit(i)
  /\ res' = Result("read", i, TRUE, data[i])
  /\ UNCHANGED <<disk, open, readOnly, cacheVars>>

ReadMiss(i) ==
  /\ open /\ ClusterValid(i) /\ ~Hit(i)
  /\ FlushSucceeds
  /\ MoveWindow(i)
  /\ data' = Loaded(i, EntriesAt(i), disk')
  /\ res' = Result("read", i, TRUE, data'[i])
  /\ UNCHANGED <<open, readOnly>>

(* Mutant: the entry is changed and the cache is not marked dirty. *)
WriteHitLeavesClean(i, e) ==
  /\ open /\ ClusterValid(i) /\ Hit(i)
  /\ data' = [data EXCEPT ![i] = e]
  /\ res' = Result("write", i, TRUE, Nothing)
  /\ UNCHANGED <<disk, open, readOnly, loaded, position, entries, dirty>>

(* fatx_write_fat *)
WriteHit(i, e) ==
  /\ open /\ ClusterValid(i) /\ Hit(i)
  /\ data' = [data EXCEPT ![i] = e]
  /\ dirty' = TRUE
  /\ res' = Result("write", i, TRUE, Nothing)
  /\ UNCHANGED <<disk, open, readOnly, loaded, position, entries>>

WriteMiss(i, e) ==
  /\ open /\ ClusterValid(i) /\ ~Hit(i)
  /\ FlushSucceeds
  /\ loaded' = TRUE
  /\ position' = i
  /\ entries' = EntriesAt(i)
  /\ data' = [Loaded(i, EntriesAt(i), disk') EXCEPT ![i] = e]
  /\ dirty' = TRUE
  /\ res' = Result("write", i, TRUE, Nothing)
  /\ UNCHANGED <<open, readOnly>>

(* The early returns of the two calls: an index out of bounds, or a miss    *)
(* whose populate fails.                                                    *)
OutOfBounds(op, i) ==
  /\ open /\ ~ClusterValid(i)
  /\ res' = Result(op, i, FALSE, Nothing)
  /\ UNCHANGED <<disk, open, readOnly, cacheVars>>

MissFails(op, i) ==
  /\ open /\ ClusterValid(i) /\ ~Hit(i)
  /\ PopulateFails(i)
  /\ res' = Result(op, i, FALSE, Nothing)
  /\ UNCHANGED <<open, readOnly>>

(* fatx_close_device: flush, then close the device whatever the flush did. *)
CloseDevice ==
  /\ open
  /\ open' = FALSE
  /\ \/ FlushSucceeds /\ dirty' = FALSE /\ res' = Result("close", 0, TRUE, Nothing)
     \/ FlushFails /\ UNCHANGED dirty /\ res' = Result("close", 0, FALSE, Nothing)
  /\ UNCHANGED <<readOnly, loaded, position, entries, data>>

(* The process dies, perhaps half way through a flush: the cache is gone,   *)
(* the device keeps what it was given.                                      *)
Crash ==
  /\ open
  /\ open' = FALSE
  /\ \/ UNCHANGED disk
     \/ FlushNeeded /\ ~readOnly /\ \E k \in 1 .. entries : disk' = Written(k)
  /\ res' = Result("crash", 0, FALSE, Nothing)
  /\ UNCHANGED <<readOnly, cacheVars>>

Next ==
  \/ OpenDevice
  \/ \E i \in 0 .. NumClusters + 1 :
       \/ ReadHit(i)
       \/ ReadMiss(i)
       \/ \E e \in Entry : WriteHit(i, e) \/ WriteMiss(i, e)
       \/ \E op \in {"read", "write"} : OutOfBounds(op, i) \/ MissFails(op, i)
  \/ CloseDevice
  \/ Crash

Spec == Init /\ [][Next]_vars

-----------------------------------------------------------------------------
(* Each variable has its type: a device that never fails to read holds only *)
(* entries, and so does the window of the cache.                            *)
TypeOK ==
  /\ disk \in [Index -> IF ReadFaults THEN Word ELSE Entry]
  /\ open \in BOOLEAN
  /\ readOnly \in BOOLEAN
  /\ loaded \in BOOLEAN
  /\ position \in Index
  /\ entries \in 0 .. WindowSize
  /\ dirty \in BOOLEAN
  /\ data \in [Index -> Word]
  /\ open /\ loaded /\ ~ReadFaults => \A i \in Index : InWindow(i) => data[i] \in Entry

(* The window of a loaded cache is never empty and ends inside the FAT:     *)
(* fatx_flush_fat_cache writes cache->entries words back blindly, and what  *)
(* follows the FAT on the device is the root directory.                     *)
WindowInsideTheFat ==
  open /\ loaded => entries > 0 /\ position + entries <= NumClusters + 1

(* A cache that is not dirty holds exactly what the device holds: nothing   *)
(* is lost when fatx_flush_fat_cache returns early and the window moves.    *)
(* ("The cache holds the FAT window", fatx_fat.c:216.)                      *)
CacheHoldsTheFatWindow ==
  open /\ loaded /\ ~dirty => \A i \in Index : InWindow(i) => data[i] = disk[i]

(* A filesystem opened read-only never changes the FAT on the device, even  *)
(* when callers write entries and evict them ("this one check is enough to  *)
(* guarantee a read-only filesystem never touches the device",              *)
(* fatx_dev.c:78).                                                          *)
ReadOnlyLeavesTheDevice == [][open /\ readOnly => disk' = disk]_vars

(* The FAT the callers of the cache see: the window over the device. *)
LogicalFat ==
  [i \in Index |-> IF open /\ loaded /\ InWindow(i) THEN data[i] ELSE disk[i]]

Store == INSTANCE FatStore WITH fat <- LogicalFat, device <- disk

(* The cache cannot be told from an array of entries: every read returns    *)
(* the last value written although the window moved in between, failed      *)
(* operations change nothing, a close that reports success has saved all.   *)
ImplementsStore == Store!Spec
=============================================================================
