---------------------------- MODULE LoaderImage ----------------------------
(***************************************************************************)
(* Loader and firmware files (src/src/image.rs): what their parsers check, *)
(* in which order, and what they leave to the moment an entry is used.     *)
(*                                                                         *)
(* A file is a record of the fields its header and tables hold; sizes and  *)
(* offsets are numbers, contents are not modelled.  A file may be cut      *)
(* short: its tables or its entries then lie beyond its length.            *)
(***************************************************************************)
EXTENDS Naturals, Sequences

CONSTANTS
  HeaderLen,      \* size_of::<RkBootHeader>()
  EntryLen,       \* size_of::<RkBootEntry>()
  FwHeaderLen,    \* size_of::<RkFwHeader>()
  Md5Len          \* 32

ASSUME ImageSizesAssumption ==
  /\ HeaderLen \in Nat /\ EntryLen \in Nat \ {0}
  /\ FwHeaderLen \in Nat /\ Md5Len \in Nat

(***************************************************************************)
(* A table of entries is where the header says it is; entries holds what   *)
(* is read there if it can be read.                                        *)
(***************************************************************************)
Entry == [name : STRING, offset : Nat, size : Nat]
Table == [offset : Nat, count : Nat, size : Nat, entries : Seq(Entry)]
Loader ==
  [len : Nat, tag : {"BOOT", "LDR", "other"}, rc4 : BOOLEAN,
   t471 : Table, t472 : Table, loader : Table]
Firmware ==
  [len : Nat, tag : {"RKFW", "other"}, fwOffset : Nat, fwSize : Nat,
   bootOffset : Nat, boot : Loader]

-----------------------------------------------------------------------------
\* A check, "Ok" or an error, and what comes after it: the ? of the source.
check ?? rest == IF check = "Ok" THEN rest ELSE check

Check(ok, error) == IF ok THEN "Ok" ELSE error

\* parse_entries.
ParseTable(f, t) ==
     Check(t.size >= EntryLen, "BootEntryTooShort")
  ?? Check(t.offset + t.size * t.count <= f.len, "BootEntryOutOfRange")
  ?? Check(t.count = 0 \/ t.size = EntryLen, "TooShort")

\* RkBootImage::new.
ParseLoader(f) ==
     Check(f.len >= HeaderLen, "TooShort")
  ?? Check(f.tag \in {"BOOT", "LDR"}, "UnknownTag")
  ?? ParseTable(f, f.t471) ?? ParseTable(f, f.t472) ?? ParseTable(f, f.loader)

\* The slice iter_entries takes when the entry's turn comes; it panics if
\* the entry reaches beyond the file.
InFile(f, e) == e.offset + e.size <= f.len

-----------------------------------------------------------------------------
\* RkFwImage::new: header | fw | md5 | sign.
ParseFirmware(w) ==
  LET end == w.fwOffset + w.fwSize
  IN     Check(w.len >= FwHeaderLen, "TooShort")
      ?? Check(w.tag = "RKFW", "UnknownTag")
      ?? Check(end <= w.len, "FwOutOfRange")
      ?? Check(end + Md5Len <= w.len, "MD5OutOfRange")

\* boot_data, which goes by the length of the loader file inside.
ParseBoot(w) ==
     Check(w.bootOffset + w.boot.len <= w.len, "BootEntryOutOfRange")
  ?? ParseLoader(w.boot)

\* Both asserts of image.rs: the file is longer than its header.
HeaderHolds(len, header) == len > header
=============================================================================
