------------------------------ MODULE FatStore ------------------------------
(***************************************************************************)
(* What fatx_read_fat and fatx_write_fat promise the rest of libfatx: an   *)
(* array of FAT entries in which a read returns the last value written,    *)
(* whatever the cache does underneath, and in which an error leaves the    *)
(* array as it was.                                                        *)
(*                                                                         *)
(* `device' is what a restart would find.  It trails `fat': at any step    *)
(* any of the pending entries may reach it, and only a close that reports  *)
(* success guarantees that all of them have.                               *)
(***************************************************************************)
EXTENDS Naturals

CONSTANTS
  NumClusters,  (* fs->num_clusters: the valid FAT indices are 0..NumClusters *)
  Entry,        (* the FAT entries the callers write                         *)
  Nothing       (* "no value": the result of an operation that returns none  *)

Index == 0 .. NumClusters

VARIABLES
  fat,          (* the FAT as the callers of the library see it *)
  device,       (* the FAT on the device                        *)
  open,         (* is the device open?                          *)
  res           (* the last operation and what it returned      *)

vars == <<fat, device, open, res>>

Result(op, i, ok, value) == [op |-> op, index |-> i, ok |-> ok, value |-> value]

Init ==
  /\ device \in [Index -> Entry]
  /\ fat = device
  /\ open = FALSE
  /\ res = Result("boot", 0, TRUE, Nothing)

(* Any of the pending entries may be written back during a step. *)
WriteBack ==
  \E S \in SUBSET Index :
    device' = [i \in Index |-> IF i \in S THEN fat[i] ELSE device[i]]

Open ==
  /\ ~open
  /\ open' = TRUE
  /\ res' = Result("open", 0, TRUE, Nothing)
  /\ UNCHANGED <<fat, device>>

Read(i) ==
  /\ open /\ i \in Index
  /\ res' = Result("read", i, TRUE, fat[i])
  /\ WriteBack
  /\ UNCHANGED <<fat, open>>

Write(i, e) ==
  /\ open /\ i \in Index
  /\ res' = Result("write", i, TRUE, Nothing)
  /\ fat' = [fat EXCEPT ![i] = e]
  /\ WriteBack
  /\ UNCHANGED open

(* A read or a write that reports an error has no effect the callers see. *)
Fail(op, i) ==
  /\ open
  /\ res' = Result(op, i, FALSE, Nothing)
  /\ WriteBack
  /\ UNCHANGED <<fat, open>>

(* A close that reports success has saved everything. *)
Close ==
  /\ open
  /\ open' = FALSE
  /\ device' = fat
  /\ res' = Result("close", 0, TRUE, Nothing)
  /\ UNCHANGED fat

(* After a crash or a close that failed, what the device holds is the FAT. *)
Lose(op) ==
  /\ open
  /\ open' = FALSE
  /\ res' = Result(op, 0, FALSE, Nothing)
  /\ WriteBack
  /\ fat' = device'

Next ==
  \/ Open
  \/ \E i \in 0 .. NumClusters + 1 : Read(i) \/ Fail("read", i) \/ Fail("write", i)
  \/ \E i \in Index, e \in Entry : Write(i, e)
  \/ Close
  \/ Lose("close") \/ Lose("crash")

Spec == Init /\ [][Next]_vars
=============================================================================
