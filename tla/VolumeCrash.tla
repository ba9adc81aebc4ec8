----------------------------- MODULE VolumeCrash -----------------------------
(***************************************************************************)
(* A volume whose process may die, between two calls or between two writes *)
(* of one.  Directory entries and data are written to the device at once;  *)
(* FAT entries go to the cache, which writes them back when its window     *)
(* moves, in whatever order that is, and all of them when the device is    *)
(* closed.  Nothing repairs a volume: the next mount takes the device as   *)
(* it is.                                                                  *)
(*                                                                         *)
(* Volume has what the library sees.  The FAT on the device trails it as   *)
(* FatStore, which FatCache implements, allows: `onDisk' has for each      *)
(* cluster the entries the device may hold.  A crash picks one of each.    *)
(***************************************************************************)
EXTENDS Volume

CONSTANTS
  Start,        (* the volumes at hand                              *)
  MaxCalls,     (* bound: calls, those cut short not counted           *)
  MaxCrashes    (* bound: crashes                                      *)

ASSUME CrashAssumption == MaxCalls \in Nat /\ MaxCrashes \in Nat

VARIABLES
  onDisk,       (* the FAT entries the device may hold, by cluster          *)
  settled,      (* the files last saved by a close, and since left alone:   *)
                (* the names each may go by, and what it holds              *)
  calls,        (* so far                                                   *)
  crashes       (* so far                                                   *)

crashVars == <<vol, res, onDisk, settled, calls, crashes>>

-----------------------------------------------------------------------------
(* After some writes to the cached FAT, each may have reached the device,   *)
(* or may not.                                                              *)
Reached(log) ==
  [c \in Cluster |->
     onDisk[c] \cup {log[i].entry : i \in {j \in DOMAIN log : log[j].to = "fat" /\ log[j].cluster = c}}]

(* The device after the first k writes of a call. *)
SlotsAfter(log, k) ==
  LET after[i \in 0 .. k] ==
        IF i = 0 THEN vol.slot
        ELSE IF log[i].to = "fat" THEN after[i - 1]
        ELSE [after[i - 1] EXCEPT ![log[i].cluster] = log[i].blocks]
  IN  after[k]

(* A process that has just started: fatx_alloc_cluster's cursor is 2. *)
Mounted(fat, slot) == [fat |-> fat, slot |-> slot, cursor |-> 2, log |-> <<>>]

-----------------------------------------------------------------------------
(* A node: the names it may go by, and what it holds. *)
Node(names, holds) == [names |-> names, holds |-> holds]

Holds(v, attr) == [isDir |-> attr.isDir, data |-> IF attr.isDir THEN <<>> ELSE Read(v, attr)]

(* What a close saves. *)
Saved == {Node({p}, Holds(vol, GetAttr(vol, p).attr)) : p \in {q \in Path : Exists(q)}}

Below(p, q) == Len(q) >= Len(p) /\ SubSeq(q, 1, Len(p)) = p

(* The name a path has after a rename. *)
Renamed(p, from, to, mode) ==
  CASE Below(from, p) -> to \o SubSeq(p, Len(from) + 1, Len(p))
    [] Below(to, p) /\ mode = "exchange" -> from \o SubSeq(p, Len(to) + 1, Len(p))
    [] OTHER -> p

NamesAfter(op, path, arg, f) ==
  IF op = "rename" THEN {Renamed(p, path, arg[1], arg[2]) : p \in f.names} ELSE f.names

(* The node is one the call is asked to change: a file written, truncated   *)
(* or removed, a directory removed, or what a rename replaces.              *)
Asked(op, path, arg, f) ==
  CASE op \in {"unlink", "rmdir", "write", "truncate"} -> path \in f.names
    [] op = "rename" -> arg[2] = "replace" /\ \E p \in f.names : Below(arg[1], p)
    [] OTHER -> FALSE

(* The second node of an exchange: lost when it is cut between its writes.  *)
AtRisk(op, arg, f) == op = "rename" /\ \E p \in f.names : Below(arg[1], p)

(* The names under which it is found. *)
Found(v, f) ==
  LET at == {p \in f.names : GetAttr(v, p).st = "ok" /\ Holds(v, GetAttr(v, p).attr) = f.holds}
  IN  Node(IF at = {} THEN f.names ELSE at, f.holds)

(* A node is settled only in a directory that is.                           *)
InSettledDirs(nodes) ==
  {f \in nodes : \A p \in f.names : Len(p) = 2 => \E g \in nodes : g.holds.isDir /\ Dirname(p) \in g.names}

(* What stays settled when a call has succeeded, and when it has not.       *)
SettledAfter(op, path, arg) ==
  InSettledDirs({Node(NamesAfter(op, path, arg, f), f.holds) :
                   f \in {g \in settled : ~Asked(op, path, arg, g)}})

SettledDespite(op, path, arg) ==
  InSettledDirs({Node(f.names \cup NamesAfter(op, path, arg, f), f.holds) :
                   f \in {g \in settled : ~Asked(op, path, arg, g) /\ ~AtRisk(op, arg, g)}})

-----------------------------------------------------------------------------
CrashInit ==
  /\ \E s \in Start : vol = Mounted(s.fat, s.slot)
  /\ res = [op |-> "mount", path |-> <<>>, arg |-> <<>>, st |-> "ok"]
  /\ onDisk = [c \in Cluster |-> {vol.fat[c]}]
  /\ settled = Saved
  /\ calls = 0
  /\ crashes = 0

(* A call that runs to its end. *)
Complete(op, path, arg, r) ==
  /\ calls < MaxCalls
  /\ vol' = [r.v EXCEPT !.log = <<>>]
  /\ onDisk' = Reached(r.v.log)
  /\ settled' = IF \E c \in Directories(r.v) : ~HasEnd(r.v, c) THEN {}
                ELSE IF r.st = "ok" THEN SettledAfter(op, path, arg)
                ELSE SettledDespite(op, path, arg)
  /\ res' = [op |-> op, path |-> path, arg |-> arg, st |-> IF r.st = "ok" THEN "ok" ELSE "failed"]
  /\ calls' = calls + 1
  /\ UNCHANGED crashes

(* Another process finds one of the FATs the device may hold. *)
Restart(fats, slot) ==
  LET late == {c \in Cluster : Cardinality(fats[c]) > 1}
  IN  \E found \in [late -> UNION Range(fats)] :
        /\ \A c \in late : found[c] \in fats[c]
        /\ onDisk' = [c \in Cluster |-> IF c \in late THEN {found[c]} ELSE fats[c]]
        /\ vol' = Mounted([c \in Cluster |-> CHOOSE e \in onDisk'[c] : TRUE], slot)

(* The process dies when a call has made k of its writes. *)
CutShort(op, path, arg, r) ==
  /\ crashes < MaxCrashes
  /\ \E k \in DOMAIN r.v.log :
       Restart(Reached(SubSeq(r.v.log, 1, k)), SlotsAfter(r.v.log, k))
  /\ settled' = {Found(vol', f) : f \in SettledDespite(op, path, arg)}
  /\ res' = [op |-> "crash", path |-> path, arg |-> arg, st |-> "failed"]
  /\ crashes' = crashes + 1
  /\ UNCHANGED calls

(* The calls of Volume, each with its guard and what it makes of the volume. *)
Asking(op, path, arg) == [op |-> op, path |-> path, arg |-> arg]

Calls ==
  {Asking(op, p, <<>>) : op \in {"mknod", "mkdir", "unlink", "rmdir"}, p \in Path}
    \cup {Asking("truncate", p, <<n>>) : p \in Path, n \in Sizes}
    \cup {Asking("write", p, <<w[1], w[2], x>>) : p \in Path, w \in Writes, x \in Value}
    \cup {Asking("rename", p, <<q, mode>>) : p, q \in Path, mode \in Modes}

May(c) ==
  CASE c.op = "mknod" -> MayCreate(c.path)
    [] c.op = "mkdir" -> MayMakeDir(c.path)
    [] c.op = "rmdir" -> MayRemoveDir(c.path)
    [] c.op = "rename" -> MayRename(c.path, c.arg[1], c.arg[2])
    [] OTHER -> MayChange(c.path)

Outcome(c) ==
  CASE c.op = "mknod" -> Mknod(vol, c.path)
    [] c.op = "mkdir" -> Mkdir(vol, c.path)
    [] c.op = "unlink" -> Unlink(vol, c.path)
    [] c.op = "rmdir" -> Rmdir(vol, c.path)
    [] c.op = "truncate" -> Truncate(vol, c.path, c.arg[1])
    [] c.op = "write" -> Write(vol, c.path, c.arg[1], c.arg[2], c.arg[3])
    [] c.op = "rename" -> Rename(vol, c.path, c.arg[1], c.arg[2])

Attempt ==
  \E c \in {x \in Calls : May(x)} : \E r \in {Outcome(c)} :
    Complete(c.op, c.path, c.arg, r) \/ CutShort(c.op, c.path, c.arg, r)

(* The process dies between calls. *)
Crash ==
  /\ crashes < MaxCrashes
  /\ Restart(onDisk, vol.slot)
  /\ res' = [op |-> "crash", path |-> <<>>, arg |-> <<>>, st |-> "failed"]
  /\ crashes' = crashes + 1
  /\ UNCHANGED <<settled, calls>>

(* fatx_close_device, and another process opens the volume. *)
Remount ==
  /\ vol' = Mounted(vol.fat, vol.slot)
  /\ onDisk' = [c \in Cluster |-> {vol.fat[c]}]
  /\ settled' = IF ChainsAreSound THEN Saved ELSE settled
  /\ res' = [op |-> "mount", path |-> <<>>, arg |-> <<>>, st |-> "ok"]
  /\ UNCHANGED <<calls, crashes>>

CrashNext ==
  \/ Attempt
  \/ Crash
  \/ Remount

CrashSpec == CrashInit /\ [][CrashNext]_crashVars

CrashView == <<vol, onDisk, settled, calls, crashes, res.op = "crash">>

-----------------------------------------------------------------------------
(* The node is found, under one of its names, with what it held, on a chain *)
(* that is allocated to its end and that no other entry shares.             *)
Intact(f) ==
  LET at == {Locate(vol, p).at : p \in {q \in f.names : Exists(q)}}
  IN  \E p \in at :
        /\ Holds(vol, At(vol, p)) = f.holds
        /\ \E c \in ChainOf(vol, p) : vol.fat[c] = End
        /\ \A q \in Nodes(vol) \ at : ChainOf(vol, p) \cap ChainOf(vol, q) = {}

(* What was saved and then left alone is never lost to a crash, wherever in *)
(* a call it comes and however much of the FAT cache it takes with it, nor  *)
(* to what is done to the damaged volume afterwards: not when it is renamed *)
(* within a saved directory or into one, not when others are written,       *)
(* removed or replaced.  (Until a directory loses its end: see              *)
(* NewNodesLeaveFilesAlone.)                                                *)
SettledFilesSurvive == \A f \in settled : Intact(f)

(* A sound volume that crashes is found with no two entries of one name in  *)
(* a directory, and with no directory without an end, although a new one is *)
(* marked empty only after its entry is written, and a rename removes what  *)
(* it replaces in a write of its own.                                       *)
CrashLeavesDirectories ==
  res.op = "crash" /\ crashes = 1 => DirectoriesAreSound
=============================================================================
