------------------------------ MODULE Timestamps ------------------------------
(***************************************************************************)
(* The timestamps of a directory entry.  On the disk one is two 16-bit     *)
(* slots, a date and a time, in an order, a byte order and field widths    *)
(* that differ between the two consoles.  The library reads an entry's     *)
(* three timestamps whenever it looks the entry up and writes all three    *)
(* again whenever it gives the entry another name, size or first cluster;  *)
(* the Rust reader has code of its own that reads them.                    *)
(*                                                                         *)
(* The host is little-endian.  A mask of n bits is the remainder by 2^n,   *)
(* of a negative number too, and fields that share no bit are added.       *)
(***************************************************************************)
EXTENDS Integers

Word == {w \in Nat : w < 65536}

Variant == {"xbox", "x360"}

(* A struct fatx_ts holds any numbers of its fields' widths. *)
Stamp ==
  [year : Word, month : 0 .. 255, day : 0 .. 255,
   hour : 0 .. 255, minute : 0 .. 255, second : 0 .. 255]

(* fatx_epoch *)
Epoch(variant) == IF variant = "x360" THEN 1980 ELSE 2000

-----------------------------------------------------------------------------
(* fatx_from_disk_u16, which is fatx_to_disk_u16 too. *)
SwapBytes(w) == (w % 256) * 256 + (w \div 256)

OnDisk(variant, w) == IF variant = "x360" THEN SwapBytes(w) ELSE w

(* The field that begins at a bit of the given weight and has that many     *)
(* values. *)
Field(w, weight, values) == (w \div weight) % values

(* fatx_pack_date, fatx_unpack_date *)
PackDate(variant, ts) ==
  ((ts.year - Epoch(variant)) % 128) * 512 + (ts.month % 16) * 32 + (ts.day % 32)

YearOf(variant, date) == Field(date, 512, 128) + Epoch(variant)
MonthOf(date) == Field(date, 32, 16)
DayOf(date) == Field(date, 1, 32)

(* fatx_pack_time, fatx_unpack_time: the original Xbox has one bit less for *)
(* the hour and for the minute, and leaves the places of the two empty.     *)
Hours(variant) == IF variant = "x360" THEN 32 ELSE 16
Minutes(variant) == IF variant = "x360" THEN 64 ELSE 32

PackTime(variant, ts) ==
  (ts.hour % Hours(variant)) * 2048 + (ts.minute % Minutes(variant)) * 32 + ((ts.second \div 2) % 32)

HourOf(variant, time) == Field(time, 2048, Hours(variant))
MinuteOf(variant, time) == Field(time, 32, Minutes(variant))
SecondOf(time) == Field(time, 1, 32) * 2

-----------------------------------------------------------------------------
(* fatx_unpack_timestamp: "The original Xbox stores time then date; the     *)
(* Xbox 360 stores date then time." *)
Slots(variant, date, time) == IF variant = "x360" THEN <<date, time>> ELSE <<time, date>>

DateSlot(variant, slots) == IF variant = "x360" THEN slots[1] ELSE slots[2]
TimeSlot(variant, slots) == IF variant = "x360" THEN slots[2] ELSE slots[1]

Unpack(variant, slots) ==
  LET date == OnDisk(variant, DateSlot(variant, slots))
      time == OnDisk(variant, TimeSlot(variant, slots))
  IN  [year |-> YearOf(variant, date), month |-> MonthOf(date), day |-> DayOf(date),
       hour |-> HourOf(variant, time), minute |-> MinuteOf(variant, time),
       second |-> SecondOf(time)]

(* fatx_pack_timestamp *)
Pack(variant, ts) ==
  Slots(variant, OnDisk(variant, PackDate(variant, ts)), OnDisk(variant, PackTime(variant, ts)))

(* An entry is read and written again: fatx_dirent_to_attr, then            *)
(* fatx_attr_to_dirent.                                                     *)
Rewritten(variant, slots) == Pack(variant, Unpack(variant, slots))

(* fatx_utime: the entry is read, two of its times are replaced, and all    *)
(* three are written. *)
Utime(variant, entry, accessed, modified) ==
  [accessed |-> Pack(variant, accessed), modified |-> Pack(variant, modified),
   created |-> Rewritten(variant, entry.created)]

-----------------------------------------------------------------------------
(* The Rust reader brings every entry into the original Xbox's order, bytes *)
(* and slots alike (normalize), and reads that.                             *)
Normalized(variant, slots) ==
  IF variant = "x360" THEN <<SwapBytes(slots[2]), SwapBytes(slots[1])>> ELSE slots

RustUnpack(variant, slots) ==
  LET time == Normalized(variant, slots)[1]
      date == Normalized(variant, slots)[2]
  IN  [year |-> Field(date, 512, 128) + Epoch(variant), month |-> Field(date, 32, 16),
       day |-> Field(date, 1, 32), hour |-> Field(time, 2048, Hours(variant)),
       minute |-> Field(time, 32, Minutes(variant)), second |-> Field(time, 1, 32) * 2]

-----------------------------------------------------------------------------
(* A calendar time the slots have room for. *)
Fits(variant, ts) ==
  /\ ts.year \in Epoch(variant) .. Epoch(variant) + 127
  /\ ts.month < 16 /\ ts.day < 32
  /\ ts.hour < Hours(variant) /\ ts.minute < Minutes(variant) /\ ts.second < 64

(* Does a time leave empty what the original Xbox leaves empty?             *)
LeavesEmpty(time) == Field(time, 32768, 2) = 0 /\ Field(time, 1024, 2) = 0
=============================================================================
