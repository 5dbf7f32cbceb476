------------------------------ MODULE IdBlock ------------------------------
(***************************************************************************)
(* The two IDBlock layouts of src/src/idblock, sector by sector, and what  *)
(* a boot ROM makes of them.                                               *)
(*                                                                         *)
(* A sector is a plain content, under the RC4 keystream or not; applying   *)
(* the keystream, which starts anew in every sector, twice restores it.  A *)
(* checksum or hash is modelled as what it is computed of: that two        *)
(* contents do not share one is an assumption of the format.               *)
(***************************************************************************)
EXTENDS Naturals, Sequences

CONSTANTS
  Align,          \* IDBLOCK_ALIGNMENT in sectors, 4
  CountMax        \* u16::MAX

ASSUME LayoutAssumption == Align \in Nat \ {0} /\ CountMax \in Nat

Plain(content) == [content |-> content, coded |-> FALSE]
ZeroSector == Plain([kind |-> "zero"])

\* Rc4::apply_keystream on each sector, if asked for.
Coded(sectors, rc4) ==
  [k \in DOMAIN sectors |-> [sectors[k] EXCEPT !.coded = IF rc4 THEN ~@ ELSE @]]

\* next_multiple_of, and the zeroed area a payload is copied to.
Padded(n) == ((n + Align - 1) \div Align) * Align
Area(payload) ==
  [k \in 1..Padded(Len(payload)) |->
     IF k <= Len(payload) THEN Plain(payload[k]) ELSE ZeroSector]

-----------------------------------------------------------------------------
(* old.rs: four header sectors, the third with the checksums of the others *)
(* and of the payload.                                                     *)

HeaderSectors == 4
Sector0(rc4, data, code) == Plain([kind |-> "tag", rc4 |-> rc4, data |-> data, code |-> code])
Sector1 == Plain([kind |-> "chip"])
Sector2(sector0, sector1, payload, sector3) ==
  Plain([kind |-> "crc", crc0 |-> sector0, crc1 |-> sector1, boot |-> payload,
         crc3 |-> sector3])

\* Mutant: the checksum is that of the payload before it is encrypted.
OldBlockCrcFirst(ddr, loader, rc4) ==
  LET payload == Area(ddr) \o Area(loader)
      sector0 == Sector0(rc4, Len(Area(ddr)), Len(payload))
      sector2 == Sector2(sector0, Sector1, payload, ZeroSector)
  IN  Coded(<<sector0>>, rc4) \o <<Sector1>> \o Coded(<<sector2, ZeroSector>>, rc4)
        \o Coded(payload, rc4)

\* Mutant: the header has the unpadded size of the first payload.
OldBlockUnpadded(ddr, loader, rc4) ==
  LET payload == Coded(Area(ddr) \o Area(loader), rc4)
      sector0 == Sector0(rc4, Len(ddr), Len(payload))
      sector2 == Sector2(sector0, Sector1, payload, ZeroSector)
  IN  Coded(<<sector0>>, rc4) \o <<Sector1>> \o Coded(<<sector2, ZeroSector>>, rc4)
        \o payload

\* old::build_idblock.
OldBlock(ddr, loader, rc4) ==
  LET payload == Coded(Area(ddr) \o Area(loader), rc4)
      sector0 == Sector0(rc4, Len(Area(ddr)), Len(payload))
      sector2 == Sector2(sector0, Sector1, payload, ZeroSector)
  IN  Coded(<<sector0>>, rc4) \o <<Sector1>> \o Coded(<<sector2, ZeroSector>>, rc4)
        \o payload

\* Its sector counts are 16-bit numbers.
OldError(ddr, loader) ==
  IF Padded(Len(ddr)) > CountMax THEN "DdrTooLarge"
  ELSE IF Padded(Len(loader)) > CountMax THEN "LoaderTooLarge"
  ELSE IF Padded(Len(ddr)) + Padded(Len(loader)) > CountMax THEN "SizeOverflow"
  ELSE "Ok"

-----------------------------------------------------------------------------
(* new.rs: the header is the FlashHead entry of the image.                 *)

NewBlock(head, ddr, loader, rc4) ==
  Coded(Area(head) \o Area(ddr) \o Area(loader), rc4)

-----------------------------------------------------------------------------
(* The boot ROM (external) on the sectors of a region, r: which pairs of   *)
(* stages it would start.  It knows by its fuses whether to decrypt.       *)

\* Sector k, or noise if the wrong cipher is applied.
Content(r, k, rc4) == IF r[k].coded = rc4 THEN r[k].content ELSE [kind |-> "noise"]
Contents(r, from, n, rc4) == [k \in 1..n |-> Content(r, from + k, rc4)]

OldAccepted(r, rc4) ==
  LET head == Content(r, 1, rc4)
      crc  == Content(r, 3, rc4)
  IN  /\ head.kind = "tag" /\ crc.kind = "crc"
      /\ head.data <= head.code /\ HeaderSectors + head.code <= Len(r)
      /\ crc.crc0 = Plain(head) /\ crc.crc1 = r[2]
      /\ crc.crc3 = Plain(Content(r, 4, rc4))
      /\ crc.boot = SubSeq(r, HeaderSectors + 1, HeaderSectors + head.code)

OldStages(r, rc4) ==
  LET head == Content(r, 1, rc4)
  IN  <<Contents(r, HeaderSectors, head.data, rc4),
        Contents(r, HeaderSectors + head.data, head.code - head.data, rc4)>>

\* docs/rkns-header-format.md: the header says where each image is, relative
\* to itself, how many sectors it has, and its hash.
NewAccepted(r, rc4) ==
  LET head == Content(r, 1, rc4)
  IN  /\ head.kind = "RKNS"
      /\ \A i \in {1, 2} :
           LET image == head.images[i]
           IN  /\ image.offset + image.count <= Len(r)
               /\ image.hash = Contents(r, image.offset, image.count, rc4)

NewStages(r, rc4) ==
  LET head == Content(r, 1, rc4)
  IN  [i \in {1, 2} |-> Contents(r, head.images[i].offset, head.images[i].count, rc4)]

Bootable(r) ==
  {OldStages(r, rc4) : rc4 \in {c \in BOOLEAN : OldAccepted(r, c)}}
    \cup {NewStages(r, rc4) : rc4 \in {c \in BOOLEAN : NewAccepted(r, c)}}

\* A stage that is a payload, up to padding.
IsPayload(stage, payload) ==
  /\ Len(payload) <= Len(stage)
  /\ \A k \in 1..Len(stage) :
       stage[k] = IF k <= Len(payload) THEN payload[k] ELSE [kind |-> "zero"]
=============================================================================
