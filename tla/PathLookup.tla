----------------------------- MODULE PathLookup -----------------------------
(***************************************************************************)
(* How a path is resolved and a directory listed, entry by entry: by the   *)
(* library (fatx_open_dir, which walks the directories of a path,          *)
(* fatx_get_attr, which looks the last name up in what that opened, and    *)
(* the loops over fatx_read_dir of those that list: fatxfs, and pyfatx and *)
(* gfatx), and by the Rust reader (DirectoryEntry::from_path and           *)
(* DirectoryEntryIterator).                                                *)
(*                                                                         *)
(* A name is a sequence of letters: the two compare names differently.  A  *)
(* directory is a sequence of entries, with an end marker behind them or   *)
(* without: Volume shows how one is lost.  What stands behind a directory  *)
(* that has lost it is another cluster of the device, and whatever that    *)
(* holds.  The device does not fail.                                       *)
(***************************************************************************)
EXTENDS Integers, Sequences, SequencesExt

CONSTANTS
  Names,        (* of files and directories                                 *)
  Trees,        (* the volumes: from numbers of directories to directories  *)
  Paths         (* the paths asked for, sequences of names                  *)

RootDir == 1

Live(slot) == slot.kind # "deleted"

SlotType == [kind : {"dir", "file", "deleted"}, name : Names, id : Nat]

ASSUME LookupAssumption ==
  /\ Names \subseteq Seq(STRING)
  /\ Paths \subseteq Seq(Names)
  /\ \A t \in Trees :
       /\ RootDir \in DOMAIN t
       /\ \A d \in DOMAIN t :
            /\ t[d] \in [slots : Seq(SlotType), ended : BOOLEAN]
            /\ \A i \in DOMAIN t[d].slots : t[d].slots[i].kind = "dir" => t[d].slots[i].id \in DOMAIN t

(* No directory has two entries of one name (Volume!DirectoriesAreSound). *)
ASSUME NamesAreUnique ==
  \A t \in Trees : \A d \in DOMAIN t : \A i, j \in DOMAIN t[d].slots :
    LET x == t[d].slots[i]
        y == t[d].slots[j]
    IN  Live(x) /\ Live(y) /\ x.name = y.name => i = j

VARIABLES
  tree,         (* the volume                                               *)
  call,         (* who resolves which path, and what for                    *)
  phase,        (* "idle", "walk", "scan", "list" or "done"                 *)
  component,    (* which name of the path is being looked for               *)
  dir,          (* in which directory                                       *)
  entry,        (* and at which of its entries                              *)
  listed,       (* the entries listed so far                                *)
  result        (* the node found, or why there is none                     *)

vars == <<tree, call, phase, component, dir, entry, listed, result>>

Failed(why) == [status |-> why, id |-> 0]

FoundNode(id) == [status |-> "found", id |-> id]

(* fatx_get_attr opens the directory part of its path, a listing all of it. *)
Walk == IF call.op = "getattr" THEN Front(call.path) ELSE call.path

Slots == tree[dir].slots

AtSlot == entry <= Len(Slots)

(* Mutant: as many letters are compared as the entry has. *)
MatchesTheEntry(name, i) == IsPrefix(name, Walk[i])

(* The comparison of fatx_open_dir: the length of the last component takes  *)
(* in its NUL, the others lose their separator and have nothing behind.     *)
Matches(name, i) == IF i = Len(Walk) THEN name = Walk[i] ELSE IsPrefix(Walk[i], name)

-----------------------------------------------------------------------------
NoCall == [tool |-> "library", op |-> "readdir", path |-> <<>>]

Init ==
  /\ tree \in Trees
  /\ call = NoCall
  /\ phase = "idle"
  /\ component = 1 /\ dir = RootDir /\ entry = 1 /\ listed = <<>>
  /\ result = Failed("none")

Begin(tool, op, path) ==
  /\ phase = "idle"
  /\ op = "getattr" => path # <<>>
  /\ call' = [tool |-> tool, op |-> op, path |-> path]
  /\ phase' = "walk"
  /\ UNCHANGED <<tree, component, dir, entry, listed, result>>

(* A call leaves nothing behind for the next. *)
Return ==
  /\ phase = "done"
  /\ call' = NoCall
  /\ phase' = "idle"
  /\ component' = 1 /\ dir' = RootDir /\ entry' = 1 /\ listed' = <<>>
  /\ result' = Failed("none")
  /\ UNCHANGED tree

Finish(r) ==
  /\ result' = r
  /\ phase' = "done"
  /\ UNCHANGED <<tree, call, component, dir, entry, listed>>

(* fatx_next_dir_entry, where there is a next entry or an end marker. *)
HasNext == entry < Len(Slots) \/ tree[dir].ended

(* Mutant: the entry passed over is not left. *)
GoOnInPlace ==
  /\ HasNext
  /\ UNCHANGED <<tree, call, phase, component, dir, entry, result>>

GoOn ==
  /\ HasNext
  /\ entry' = entry + 1
  /\ UNCHANGED <<tree, call, phase, component, dir, result>>

(* Mutant: the entry is not reset in the directory found. *)
EnterWhereItStands(d) ==
  /\ dir' = d
  /\ component' = component + 1
  /\ UNCHANGED <<tree, call, phase, entry, listed, result>>

(* The search of a directory goes on at the start of the one found. *)
Enter(d) ==
  /\ dir' = d
  /\ entry' = 1
  /\ component' = component + 1
  /\ UNCHANGED <<tree, call, phase, listed, result>>

-----------------------------------------------------------------------------
(* fatx_open_dir *)
Walking == phase = "walk" /\ call.tool = "library"

Sought == component <= Len(Walk)

WalkMatches == Slots[entry].kind = "dir" /\ Matches(Slots[entry].name, component)

WalkInto ==
  /\ Walking /\ Sought /\ AtSlot /\ WalkMatches
  /\ Enter(Slots[entry].id)

(* Deleted entries, files and other directories are passed over. *)
WalkOver ==
  /\ Walking /\ Sought /\ AtSlot /\ ~WalkMatches
  /\ GoOn
  /\ UNCHANGED listed

(* The loop over a directory's entries is left in the same way when there   *)
(* is no next one as when the name was found.                               *)
WalkFallsOut ==
  /\ Walking /\ Sought
  /\ AtSlot /\ ~WalkMatches /\ ~HasNext
  /\ entry' = entry + 1
  /\ component' = component + 1
  /\ UNCHANGED <<tree, call, phase, dir, listed, result>>

WalkEnds ==
  /\ Walking /\ Sought
  /\ ~AtSlot /\ tree[dir].ended
  /\ Finish(Failed("missing"))

(* One entry behind a directory without end marker: an end marker after     *)
(* all, an entry that does not match and has none behind it, or one that    *)
(* does.                                                                    *)
WalkBeyond ==
  /\ Walking /\ Sought
  /\ ~AtSlot /\ ~tree[dir].ended
  /\ \/ Finish(Failed("missing"))
     \/ component' = component + 1 /\ UNCHANGED <<tree, call, phase, dir, entry, listed, result>>
     \/ \E d \in DOMAIN tree : Enter(d)

Opened ==
  /\ Walking /\ ~Sought
  /\ phase' = IF call.op = "getattr" THEN "scan" ELSE "list"
  /\ UNCHANGED <<tree, call, component, dir, entry, listed, result>>

-----------------------------------------------------------------------------
(* fatx_get_attr_dir *)
Scanning == phase = "scan"

IsTheNode == Live(Slots[entry]) /\ Slots[entry].name = Last(call.path)

ScanFinds ==
  /\ Scanning /\ AtSlot /\ IsTheNode
  /\ Finish(FoundNode(Slots[entry].id))

ScanOver ==
  /\ Scanning /\ AtSlot /\ ~IsTheNode
  /\ \/ GoOn /\ UNCHANGED listed
     \/ ~HasNext /\ Finish(Failed("error"))

ScanEnds ==
  /\ Scanning /\ ~AtSlot /\ tree[dir].ended
  /\ Finish(Failed("missing"))

(* As WalkBeyond; what is found there is no node of this directory. *)
ScanBeyond ==
  /\ Scanning /\ ~AtSlot /\ ~tree[dir].ended
  /\ \E r \in {Failed("missing"), Failed("error"), FoundNode(0)} : Finish(r)

-----------------------------------------------------------------------------
(* Listing: fatx_fuse_read_dir (fatxfs, op "readdir"), once it has looked   *)
(* up the directory and its parent, Fatx.listdir (pyfatx) and               *)
(* populateFileNodeChildren (gfatx), which do alike (op "listdir"), and     *)
(* DirectoryEntryIntoIterator (Rust, op "readdir").                         *)
Listing == phase = "list"

(* Whether it passes over a deleted entry.  The status the library has for  *)
(* one ends the loops of pyfatx and gfatx. *)
SkipsDeleted == call.op = "readdir"

(* Mutant: deleted entries are listed. *)
ShownDeletedToo(slot) == <<slot>>

Shown(slot) == IF Live(slot) THEN <<slot>> ELSE <<>>

Opens == FoundNode(dir)

ListOn ==
  /\ Listing /\ AtSlot
  /\ Live(Slots[entry]) \/ SkipsDeleted
  /\ listed' = listed \o Shown(Slots[entry])
  /\ \/ GoOn
     \/ /\ ~HasNext
        /\ phase' = "done"
        /\ result' = IF call.op = "listdir" THEN Opens ELSE Failed("error")
        /\ UNCHANGED <<tree, call, component, dir, entry>>

ListStops ==
  /\ Listing /\ AtSlot
  /\ ~Live(Slots[entry]) /\ ~SkipsDeleted
  /\ Finish(Opens)

ListEnds ==
  /\ Listing /\ ~AtSlot /\ tree[dir].ended
  /\ Finish(Opens)

(* As WalkBeyond: nothing, or an entry that is none of this directory. *)
ListBeyond ==
  /\ Listing /\ ~AtSlot /\ ~tree[dir].ended
  /\ Finish(Opens) \/ Finish(Failed("error"))

-----------------------------------------------------------------------------
(* DirectoryEntry::from_path *)
Reading == phase = "walk" /\ call.tool = "rust"

(* Mutant: names are compared as the library compares them. *)
SameName(name) == IsPrefix(call.path[component], name)

Named(name) == name = call.path[component]

RustSought == component <= Len(call.path)

RustMatches == Live(Slots[entry]) /\ Named(Slots[entry].name)

RustOver ==
  /\ Reading /\ RustSought /\ AtSlot /\ ~RustMatches
  /\ \/ GoOn /\ UNCHANGED listed
     \/ ~HasNext /\ Finish(Failed("error"))

(* The node, if it was the last name of a lookup; otherwise a directory. *)
RustFinds ==
  /\ Reading /\ RustSought /\ AtSlot /\ RustMatches
  /\ LET slot == Slots[entry]
         last == component = Len(call.path) /\ call.op = "getattr"
     IN  \/ last /\ Finish(FoundNode(slot.id))
         \/ ~last /\ slot.kind = "dir" /\ Enter(slot.id)
         \/ ~last /\ slot.kind # "dir" /\ Finish(Failed("notdir"))

RustEnds ==
  /\ Reading /\ RustSought /\ ~AtSlot
  /\ Finish(Failed("missing"))

RustOpened ==
  /\ Reading /\ ~RustSought
  /\ phase' = "list"
  /\ UNCHANGED <<tree, call, component, dir, entry, listed, result>>

-----------------------------------------------------------------------------
LookUp ==
  \/ WalkInto \/ WalkOver \/ WalkFallsOut \/ WalkEnds \/ WalkBeyond \/ Opened
  \/ ScanFinds \/ ScanOver \/ ScanEnds \/ ScanBeyond
  \/ ListOn \/ ListStops \/ ListEnds \/ ListBeyond
  \/ RustOver \/ RustFinds \/ RustEnds \/ RustOpened

Next ==
  \/ Return
  \/ \E path \in Paths :
       \/ \E tool \in {"library", "rust"}, op \in {"getattr", "readdir"} : Begin(tool, op, path)
       \/ Begin("library", "listdir", path)
  \/ LookUp

Spec == Init /\ [][Next]_vars /\ WF_vars(LookUp)

-----------------------------------------------------------------------------
Statuses == {"none", "found", "missing", "error", "notdir"}

(* The type invariant. *)
TypeOK ==
  /\ tree \in Trees
  /\ phase \in {"idle", "walk", "scan", "list", "done"}
  /\ dir \in DOMAIN tree
  /\ entry \in 1 .. Len(Slots) + 1
  /\ component \in 1 .. Len(call.path) + 1
  /\ \A i \in DOMAIN listed : listed[i] \in Range(Slots)
  /\ result.status \in Statuses

(* The live entries of a set of directories. *)
EntriesIn(S) ==
  UNION {{tree[d].slots[i] : i \in {j \in DOMAIN tree[d].slots : Live(tree[d].slots[j])}} : d \in S}

DirsAmong(S) == {slot.id : slot \in {s \in S : s.kind = "dir"}}

(* The directories that following the first n names of a path leads to,     *)
(* when a name leads to every directory it is a prefix of ("loose") or only *)
(* to its own ("exact").                                                    *)
DirsAt(path, n, how) ==
  LET dirs[k \in 0 .. Len(path)] ==
        IF k = 0 THEN {RootDir}
        ELSE DirsAmong({s \in EntriesIn(dirs[k - 1]) :
                          s.name = path[k] \/ (how = "loose" /\ IsPrefix(path[k], s.name))})
  IN  dirs[n]

(* The nodes of a path whose last name is exact, for the call at hand. *)
NodesOf(path, how) ==
  IF path = <<>> THEN {RootDir}
  ELSE LET named == {s \in EntriesIn(DirsAt(path, Len(path) - 1, how)) : s.name = Last(path)}
       IN  IF call.op = "getattr" THEN {s.id : s \in named} ELSE DirsAmong(named)

Whole == \A d \in DOMAIN tree : tree[d].ended

(* Is no name of the path a proper prefix of some directory's?              *)
Apart ==
  \A i \in 1 .. Len(call.path) - 1 : \A s \in EntriesIn(DOMAIN tree) :
    s.kind = "dir" /\ IsPrefix(call.path[i], s.name) => s.name = call.path[i]

LibraryDone == phase = "done" /\ call.tool = "library"

RustDone == phase = "done" /\ call.tool = "rust"

Reported == IF result.status = "found" THEN {result.id} ELSE {}

(* Where directories have their end markers the library finds the node of a *)
(* path, and none where there is none, past deleted entries and files with  *)
(* the names of directories.  Where a name of the path is the beginning of  *)
(* another directory's, it goes astray no further than into directories     *)
(* whose names begin with those asked for (fatx_dir.c:112).                 *)
LibraryFindsTheNode ==
  LibraryDone /\ Whole =>
    /\ Reported \subseteq NodesOf(call.path, "loose")
    /\ Apart => Reported = NodesOf(call.path, "exact")

(* The Rust reader finds the node and no other, whatever the names are, and *)
(* makes none up on a volume whose directories have lost their ends.        *)
RustFindsTheNode ==
  RustDone =>
    /\ Reported \subseteq NodesOf(call.path, "exact")
    /\ Whole => Reported = NodesOf(call.path, "exact")

(* The live ones of a directory's first n entries, in order. *)
LiveAmong(d, n) ==
  LET slots == tree[d].slots
      live[i \in 0 .. Len(slots)] ==
        IF i = 0 THEN <<>>
        ELSE IF Live(slots[i]) THEN Append(live[i - 1], slots[i]) ELSE live[i - 1]
  IN  live[n]

(* What the directory found is to be listed as: its live entries, in order, *)
(* each once; pyfatx and gfatx show those in front of the first deleted.    *)
Entries(d) ==
  LET slots == tree[d].slots
      deleted == {i \in DOMAIN slots : ~Live(slots[i])}
  IN  LiveAmong(d, IF SkipsDeleted \/ deleted = {} THEN Len(slots)
                   ELSE (CHOOSE i \in deleted : \A j \in deleted : i <= j) - 1)

(* A listing that succeeds has the entries of the directory of its path, as *)
(* far as the program shows them; for pyfatx and gfatx, which report no     *)
(* error, a directory without its end is listed too.                        *)
ListingsAreOfTheDirectory ==
  phase = "done" /\ call.op # "getattr" /\ result.status = "found" /\ Whole =>
    /\ listed = Entries(result.id)
    /\ call.tool = "rust" \/ Apart => result.id \in NodesOf(call.path, "exact")

(* Every lookup ends, on such a volume too. *)
LookupEnds == phase \in {"walk", "scan", "list"} ~> phase = "done"
=============================================================================
