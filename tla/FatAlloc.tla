------------------------------ MODULE FatAlloc ------------------------------
(***************************************************************************)
(* fatx_alloc_cluster (fatx_fat.c:422-485), loop iteration by iteration.   *)
(*                                                                         *)
(* The scan starts where the last one stopped: the cursor is a static      *)
(* variable of the function, so all the filesystems a process opens share  *)
(* it, whatever their sizes.  Calls are not concurrent (fatxfs mounts      *)
(* single-threaded), so one filesystem at most is allocating.              *)
(***************************************************************************)
EXTENDS Naturals

CONSTANTS
  Fs,           (* the filesystems a process has open                       *)
  NoFs,         (* no filesystem: nobody is allocating                      *)
  ClustersOf,  (* [Fs -> Nat]: fs->num_clusters                            *)
  Unset,        (* the value of a variable of the caller nothing assigned   *)
  Faults        (* what may fail: a subset of {"read", "seek", "zero"}      *)

ASSUME AllocAssumption ==
  /\ ClustersOf \in [Fs -> Nat \ (0 .. 2)]
  /\ NoFs \notin Fs
  /\ Unset \notin Nat
  /\ Faults \subseteq {"read", "seek", "zero"}

(* The clusters the scan looks at: 0 is the media entry, 1 the root. *)
Allocable(f) == 2 .. ClustersOf[f] - 1

VARIABLES
  used,         (* used[f]: the clusters of Allocable(f) not AVAILABLE in the FAT *)
  held,         (* held[f]: those a file or a directory of f owns                 *)
  caller,       (* the filesystem inside fatx_alloc_cluster, or NoFs              *)
  zero,         (* its argument: is the new cluster to be cleared?                *)
  cursor,       (* static size_t i                                                *)
  startI,       (* start_i                                                        *)
  wrapped,      (* wrapped                                                        *)
  ret           (* what the last call returned: status and *cluster               *)

allocVars == <<used, held, caller, zero, cursor, startI, wrapped, ret>>

-----------------------------------------------------------------------------
AllocInit ==
  /\ held \in [Fs -> SUBSET UNION {Allocable(f) : f \in Fs}]
  /\ \A f \in Fs : held[f] \subseteq Allocable(f)
  /\ used = held
  /\ caller = NoFs
  /\ zero = FALSE
  /\ cursor = 2
  /\ startI = 2
  /\ wrapped = FALSE
  /\ ret = [status |-> "none", cluster |-> Unset]

Begin(f) ==
  /\ caller = NoFs
  /\ caller' = f
  /\ zero' \in BOOLEAN
  /\ startI' = cursor
  /\ wrapped' = FALSE
  /\ ret' = [status |-> "none", cluster |-> Unset]
  /\ UNCHANGED <<used, held, cursor>>

(* The top of the loop: past the last cluster the scan goes back to 2. *)
PastTheEnd == cursor >= ClustersOf[caller]

Here == IF PastTheEnd THEN 2 ELSE cursor

HasWrapped == wrapped \/ PastTheEnd

(* Mutants: a wrap is taken for a full circle; the check is missing. *)
WrapsMeansFull == HasWrapped

NeverFull == FALSE

(* "Check for the case that the FAT was full when mounting initially" *)
BackAtTheStart == Here = startI /\ HasWrapped

Return(status, cluster) ==
  /\ caller' = NoFs
  /\ cursor' = Here
  /\ wrapped' = FALSE
  /\ startI' = 2
  /\ ret' = [status |-> status, cluster |-> cluster]

Full ==
  /\ caller # NoFs
  /\ BackAtTheStart
  /\ Return("full", Unset)
  /\ UNCHANGED <<used, held, zero>>

ReadFails ==
  /\ caller # NoFs /\ "read" \in Faults
  /\ ~BackAtTheStart
  /\ Return("error", Unset)
  /\ UNCHANGED <<used, held, zero>>

(* Mutant: an entry that is free is skipped. *)
SkipAny ==
  /\ caller # NoFs
  /\ ~BackAtTheStart
  /\ cursor' = Here + 1
  /\ wrapped' = HasWrapped
  /\ UNCHANGED <<used, held, caller, zero, startI, ret>>

(* The entry is taken: the scan goes on with the next. *)
Skip ==
  /\ caller # NoFs
  /\ ~BackAtTheStart
  /\ Here \in used[caller]
  /\ cursor' = Here + 1
  /\ wrapped' = HasWrapped
  /\ UNCHANGED <<used, held, caller, zero, startI, ret>>

(* Mutant: the new cluster is not marked in the FAT. *)
MarkNothing == UNCHANGED used

(* The entry is AVAILABLE: it is marked END before anything else can fail. *)
MarkEnd == used' = [used EXCEPT ![caller] = @ \cup {Here}]

Take ==
  /\ caller # NoFs
  /\ ~BackAtTheStart
  /\ Here \notin used[caller]
  /\ MarkEnd
  /\ held' = [held EXCEPT ![caller] = @ \cup {Here}]
  /\ Return("success", Here)
  /\ UNCHANGED zero

(* fatx_dev_seek_cluster fails: the cluster stays marked and is not handed out. *)
TakeSeekFails ==
  /\ caller # NoFs /\ "seek" \in Faults
  /\ ~BackAtTheStart
  /\ Here \notin used[caller]
  /\ MarkEnd
  /\ Return("error", Unset)
  /\ UNCHANGED <<held, zero>>

(* Clearing the cluster fails: the status returned is what fatx_dev_write   *)
(* returned, 0, which is FATX_STATUS_SUCCESS, and *cluster is not assigned. *)
TakeZeroFails ==
  /\ caller # NoFs /\ "zero" \in Faults /\ zero
  /\ ~BackAtTheStart
  /\ Here \notin used[caller]
  /\ MarkEnd
  /\ Return("success", Unset)
  /\ UNCHANGED <<held, zero>>

(* Between two calls: fatx_free_cluster_chain on a chain of f. *)
Release(f) ==
  /\ caller = NoFs
  /\ \E S \in SUBSET held[f] :
       /\ S # {}
       /\ held' = [held EXCEPT ![f] = @ \ S]
       /\ used' = [used EXCEPT ![f] = @ \ S]
  /\ UNCHANGED <<caller, zero, cursor, startI, wrapped, ret>>

Iterate == Full \/ ReadFails \/ Skip \/ Take \/ TakeSeekFails \/ TakeZeroFails

AllocNext ==
  \/ \E f \in Fs : Begin(f) \/ Release(f)
  \/ Iterate

AllocSpec == AllocInit /\ [][AllocNext]_allocVars

(* A call that has been entered keeps running its loop. *)
FairAllocSpec == AllocSpec /\ WF_allocVars(Iterate)

-----------------------------------------------------------------------------
(* Each variable has its type, the cursor wherever another filesystem left  *)
(* it; only clusters of the data area are ever marked.                      *)
AllocTypeOK ==
  /\ used \in [Fs -> SUBSET Nat] /\ \A f \in Fs : used[f] \subseteq Allocable(f)
  /\ held \in [Fs -> SUBSET Nat] /\ \A f \in Fs : held[f] \subseteq Allocable(f)
  /\ caller \in Fs \cup {NoFs}
  /\ zero \in BOOLEAN
  /\ cursor \in Nat \ (0 .. 1)
  /\ startI \in Nat \ (0 .. 1)
  /\ wrapped \in BOOLEAN
  /\ ret \in [status : {"none", "success", "full", "error"}, cluster : Nat \cup {Unset}]

(* Everything between where the scan began and where it is now has been     *)
(* seen taken, across the wrap.                                             *)
ScannedIsTaken ==
  caller # NoFs /\ startI \in Allocable(caller) =>
    /\ wrapped \/ startI <= cursor
    /\ \A c \in Allocable(caller) :
         (IF wrapped THEN startI <= c \/ c < cursor ELSE startI <= c /\ c < cursor)
           => c \in used[caller]

(* An owned cluster is never AVAILABLE in the FAT, so that it cannot be     *)
(* given to a second owner, and while neither seeking nor clearing fails no *)
(* cluster is marked without an owner.                                      *)
FatMatchesOwners ==
  \A f \in Fs :
    /\ held[f] \subseteq used[f]
    /\ Faults \cap {"seek", "zero"} = {} => used[f] = held[f]

(* "no clusters available to allocate" is only ever said of a full volume,  *)
(* wherever the shared cursor stood (fatx_fat.c:445-449).                   *)
FullMeansFull ==
  [][\A f \in Fs : caller = f /\ caller' = NoFs /\ ret'.status = "full"
                      => used[f] = Allocable(f)]_allocVars

(* A call returns when it began inside its filesystem or has a cluster to   *)
(* find, wherever a larger filesystem has left the cursor and whichever     *)
(* step fails.                                                              *)
AllocationEndsFromInside ==
  caller # NoFs /\ (startI \in Allocable(caller) \/ used[caller] # Allocable(caller))
    ~> caller = NoFs
=============================================================================
