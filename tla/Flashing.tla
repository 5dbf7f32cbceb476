------------------------------ MODULE Flashing ------------------------------
(***************************************************************************)
(* Writing images into GPT partitions: `storage partition read` and        *)
(* `write` (subcommands/storage.rs) and `upgrade` (subcommands/upgrade.rs).*)
(* They reach the storage through RkBlockDevice, which BlockDevice shows   *)
(* to be a byte file, and through the LBA calls of LbaTransfer; any write  *)
(* may fail after a first part of it.  The unit here is the 512-byte       *)
(* sector: what happens inside one is the matter of those modules.         *)
(*                                                                         *)
(* The partition table comes from the gpt crate (external), in logical     *)
(* blocks of one or of LbSectors sectors.  The device may also state a     *)
(* block size the programs do not know.                                    *)
(***************************************************************************)
EXTENDS Naturals, Sequences

CONSTANTS
  DiskSectors,    \* sectors of the device
  LbSectors,      \* sectors of a large logical block, 8
  CopySectors,    \* sectors std::io::copy moves at a time, 16
  Partitions,     \* partition name -> [first, last], in logical blocks
  Commands        \* command lines: see Command

(***************************************************************************)
(* read and write name a partition, and the file of a write has len        *)
(* sectors.  The image of an upgrade is a sequence of entries; an entry is *)
(* regular, of len sectors, or it is the sparse image of "super": whether  *)
(* its version is a supported one, a block size, the total its header      *)
(* states, and chunks of n blocks of a type.                               *)
(***************************************************************************)
ChunkTypes == {"raw", "fill", "dontcare", "crc32", "unknown"}
ChunkLen(e, c) == e.block * e.chunks[c].n

\* Sectors of a sparse image in front of each chunk, and of all of them.
ChunkStarts(e) ==
  LET start[c \in 1..(Len(e.chunks) + 1)] ==
        IF c = 1 THEN 0 ELSE start[c - 1] + ChunkLen(e, c - 1)
  IN  start

ChunkStart(e, c) == ChunkStarts(e)[c]

\* A well-formed entry: the header of a sparse image states the sum of its
\* chunks, and its checksum chunks stand for no blocks.
WellFormed(e) ==
  /\ e.sparse \in BOOLEAN
  /\ ~e.sparse => e.len \in Nat
  /\ e.sparse =>
       /\ e.name = "super" /\ e.supported \in BOOLEAN /\ e.block \in Nat
       /\ e.chunks \in Seq([type : ChunkTypes, n : Nat])
       /\ \A c \in DOMAIN e.chunks : e.chunks[c].type = "crc32" => e.chunks[c].n = 0
       /\ e.total = ChunkStart(e, Len(e.chunks) + 1)

ASSUME CommandsAssumption ==
  \A c \in Commands :
    \/ c.op = "read"
    \/ c.op = "write" /\ c.len \in Nat
    \/ /\ c.op = "upgrade"
       /\ Len(c.image) \in Nat /\ DOMAIN c.image = 1..Len(c.image)
       /\ \A i \in DOMAIN c.image : WellFormed(c.image[i])

\* Sectors of a logical block of a size the programs know, and any other size.
Known == {1, LbSectors}
NoSize == 0

Partition(name, lb) ==
  (Partitions[name].first * lb)..((Partitions[name].last + 1) * lb - 1)

ASSUME SizesAssumption ==
  /\ DiskSectors \in Nat /\ LbSectors \in Nat \ {0} /\ CopySectors \in Nat \ {0}
  /\ \A name \in DOMAIN Partitions :
       /\ Partitions[name].first \in Nat /\ Partitions[name].last \in Nat
       /\ Partitions[name].first <= Partitions[name].last
       /\ \A lb \in Known : Partition(name, lb) \subseteq 0..DiskSectors - 2

VARIABLES
  pc,        \* "start", "read", "write", "entry", "copy", "chunk", "returned"
  cmd,       \* the command
  lb,        \* sectors of a logical block, from the flash information, or NoSize
  pos,       \* position of the block device
  entry,     \* index of the image's current entry
  chunk,     \* index of the current chunk of a sparse entry
  copied,    \* sectors of the current copy that are done
  result,    \* "none", "Ok" or an error
  output,    \* the file a partition read writes
  disk       \* the storage (external)

vars == <<pc, cmd, lb, pos, entry, chunk, copied, result, output, disk>>

-----------------------------------------------------------------------------
(* A cell of the storage says where its content came from: <<entry, chunk, *)
(* offset>>, <<0, 0, s>> for the initial content of sector s.  The file of *)
(* a partition write counts as entry 1, chunk 0; so does a regular image.  *)

Initial == [s \in 0..DiskSectors - 1 |-> <<0, 0, s>>]

Entries == cmd.image
Current == Entries[entry]
Skipped(e) == e.name \in {"package-file", "parameter"}
PartSize(name) == (Partitions[name].last - Partitions[name].first + 1) * lb
PartEnd(name) == Partitions[name].last * lb       \* mutant of PartStart
PartStart(name) == Partitions[name].first * lb    \* bytes_start

Return(r) == pc' = "returned" /\ result' = r

\* The first k cells of a write at p reach the storage.
Store(p, cells, k) ==
  disk' = [s \in DOMAIN disk |-> IF p <= s /\ s < p + k THEN cells[s - p] ELSE disk[s]]

-----------------------------------------------------------------------------
\* Before a command gets to the storage: the flash information, the partition
\* table, the image or one of the files cannot be read.
Unopened ==
  /\ pc = "start"
  /\ Return("Error")
  /\ UNCHANGED <<cmd, lb, pos, entry, chunk, copied, output, disk>>

\* A block size the program does not know is printed, and that is all.
UnknownSize ==
  /\ pc = "start" /\ lb \notin Known
  /\ Return("Ok")
  /\ UNCHANGED <<cmd, lb, pos, entry, chunk, copied, output, disk>>

(* storage partition read and write.  The sector handed to read_lba and    *)
(* write_lba is part.first_lba.                                            *)

LbaOfLast(name) == Partitions[name].last    \* mutant
Lba(name) == Partitions[name].first

StartRead ==
  /\ pc = "start" /\ cmd.op = "read" /\ lb \in Known
  /\ IF cmd.name \in DOMAIN Partitions
       THEN pc' = "read" /\ UNCHANGED result
       ELSE Return("NotFound")
  /\ UNCHANGED <<cmd, lb, pos, entry, chunk, copied, output, disk>>

ReadPartition ==
  /\ pc = "read"
  /\ \/ /\ output' = SubSeq([i \in 1..DiskSectors |-> disk[i - 1]],
                            Lba(cmd.name) + 1, Lba(cmd.name) + PartSize(cmd.name))
        /\ Return("Ok")
     \/ Return("DeviceTransfer") /\ UNCHANGED output
  /\ UNCHANGED <<cmd, lb, pos, entry, chunk, copied, disk>>

StartWrite ==
  /\ pc = "start" /\ cmd.op = "write" /\ lb \in Known
  /\ IF cmd.name \notin DOMAIN Partitions THEN Return("NotFound")
     ELSE IF cmd.len > PartSize(cmd.name) THEN Return("InputTooLarge")
     ELSE pc' = "write" /\ UNCHANGED result
  /\ UNCHANGED <<cmd, lb, pos, entry, chunk, copied, output, disk>>

FileCells == [k \in 0..(cmd.len - 1) |-> <<1, 0, k>>]

WritePartition ==
  /\ pc = "write"
  /\ \/ Store(Lba(cmd.name), FileCells, cmd.len) /\ Return("Ok")
     \/ \E k \in 0..cmd.len :
          Store(Lba(cmd.name), FileCells, k) /\ Return("DeviceTransfer")
  /\ UNCHANGED <<cmd, lb, pos, entry, chunk, copied, output>>

-----------------------------------------------------------------------------
(* upgrade.                                                                *)

StartUpgrade ==
  /\ pc = "start" /\ cmd.op = "upgrade" /\ lb \in Known
  /\ pc' = "entry"
  /\ UNCHANGED <<cmd, lb, pos, entry, chunk, copied, result, output, disk>>

\* Mutants: the entry does not change, or changes twice; the chunk is not
\* skipped on the disk.
NextEntryAgain == pc' = "entry" /\ entry' = entry /\ chunk' = 0 /\ copied' = 0
NextEntryButOne == pc' = "entry" /\ entry' = entry + 2 /\ chunk' = 0 /\ copied' = 0
SeekNowhere(p) ==
  pc' = "chunk" /\ chunk' = chunk + 1 /\ UNCHANGED <<pos, entry, result>>

NextEntry == pc' = "entry" /\ entry' = entry + 1 /\ chunk' = 0 /\ copied' = 0

\* Mutant: the size of a sparse image is not checked.
ObjectionUnsized(e) ==
  IF e.name \notin DOMAIN Partitions THEN "PartitionNotFound"
  ELSE IF e.name = "super" /\ ~e.sparse THEN "InvalidMagic"
  ELSE IF e.name = "super" /\ ~e.supported THEN "UnsupportedVersion"
  ELSE "Ok"

\* What the checks of an entry say, in their order: that it has a partition,
\* and that a sparse image has a header of the supported version and fits.
Objection(e) ==
  IF e.name \notin DOMAIN Partitions THEN "PartitionNotFound"
  ELSE IF e.name # "super" THEN "Ok"
  ELSE IF ~e.sparse THEN "InvalidMagic"
  ELSE IF ~e.supported THEN "UnsupportedVersion"
  ELSE IF e.total > PartSize("super") THEN "ImageTooLarge"
  ELSE "Ok"

\* An entry, its header or the header of a chunk cannot be read.
Unreadable ==
  /\ \/ pc = "entry" /\ entry <= Len(Entries)
     \/ pc = "chunk" /\ chunk <= Len(Current.chunks)
  /\ Return("Error")
  /\ UNCHANGED <<cmd, lb, pos, entry, chunk, copied, output, disk>>

\* One round of the loop over the files of the image: skip it, or find its
\* partition, check its header and seek to the partition.
Entry ==
  /\ pc = "entry"
  /\ IF entry > Len(Entries)
       THEN Return("Ok") /\ UNCHANGED <<pos, entry, chunk, copied>>
     ELSE IF Skipped(Current)
       THEN NextEntry /\ UNCHANGED <<pos, result>>
     ELSE IF Objection(Current) # "Ok"
       THEN Return(Objection(Current)) /\ UNCHANGED <<pos, entry, chunk, copied>>
     ELSE /\ pos' = PartStart(Current.name)
          /\ IF Current.name = "super"
               THEN pc' = "chunk" /\ chunk' = 1
               ELSE pc' = "copy" /\ chunk' = 0
          /\ copied' = 0
          /\ UNCHANGED <<entry, result>>
  /\ UNCHANGED <<cmd, lb, output, disk>>

\* Mutant: the length of a chunk is not scaled by the block size.
CopyLenInBlocks ==
  IF chunk = 0
    THEN IF Current.len <= PartSize(Current.name) THEN Current.len ELSE PartSize(Current.name)
    ELSE Current.chunks[chunk].n

\* What the current copy moves: img.take(part_size) of a regular image, the
\* blocks of a raw or fill chunk.
CopyLen ==
  IF chunk = 0
    THEN IF Current.len <= PartSize(Current.name) THEN Current.len ELSE PartSize(Current.name)
    ELSE ChunkLen(Current, chunk)

CopyCells(n) ==
  [k \in 0..(n - 1) |->
     <<entry, chunk,
       IF chunk > 0 /\ Current.chunks[chunk].type = "fill" THEN 0 ELSE copied + k>>]

\* One round of std::io::copy, or its end.
Copy ==
  /\ pc = "copy"
  /\ IF copied = CopyLen
       THEN /\ IF chunk = 0 THEN NextEntry
               ELSE pc' = "chunk" /\ chunk' = chunk + 1 /\ copied' = 0 /\ UNCHANGED entry
            /\ UNCHANGED <<pos, result, disk>>
       ELSE LET n == IF CopyLen - copied < CopySectors THEN CopyLen - copied ELSE CopySectors
            IN  \/ /\ Store(pos, CopyCells(n), n)
                   /\ pos' = pos + n
                   /\ copied' = copied + n
                   /\ UNCHANGED <<pc, entry, chunk, result>>
                \/ /\ \E k \in 0..n : Store(pos, CopyCells(n), k)
                   /\ Return("Io")
                   /\ UNCHANGED <<pos, entry, chunk, copied>>
  /\ UNCHANGED <<cmd, lb, output>>

\* RkBlockDevice::seek, which refuses the end of the disk.
SeekTo(p) ==
  IF p < DiskSectors
    THEN /\ pos' = p
         /\ pc' = "chunk" /\ chunk' = chunk + 1 /\ UNCHANGED <<entry, result>>
    ELSE Return("Io") /\ UNCHANGED <<pos, entry, chunk>>

\* One round of the loop over the chunks of a sparse image.
Chunk ==
  /\ pc = "chunk"
  /\ \/ /\ chunk > Len(Current.chunks)
        /\ NextEntry /\ UNCHANGED <<pos, result>>
     \/ /\ chunk <= Len(Current.chunks)
        /\ LET type == Current.chunks[chunk].type
           IN  \/ /\ type \in {"raw", "fill"}
                  /\ pc' = "copy"
                  /\ UNCHANGED <<pos, entry, chunk, result>>
               \/ /\ type = "dontcare"
                  /\ SeekTo(pos + ChunkLen(Current, chunk))
               \/ /\ type = "crc32"
                  /\ chunk' = chunk + 1
                  /\ UNCHANGED <<pc, pos, entry, result>>
               \/ /\ type = "unknown"
                  /\ Return("UnknownSparseChunkType")
                  /\ UNCHANGED <<pos, entry, chunk>>
        /\ UNCHANGED copied
  /\ UNCHANGED <<cmd, lb, output, disk>>

-----------------------------------------------------------------------------
Init ==
  /\ pc = "start" /\ cmd \in Commands /\ lb \in Known \cup {NoSize}
  /\ pos = 0 /\ entry = 1 /\ chunk = 0 /\ copied = 0
  /\ result = "none" /\ output = <<>> /\ disk = Initial

Next ==
  \/ Unopened \/ UnknownSize
  \/ StartRead \/ ReadPartition
  \/ StartWrite \/ WritePartition
  \/ StartUpgrade \/ Unreadable \/ Entry \/ Copy \/ Chunk

Spec == Init /\ [][Next]_vars /\ WF_vars(Next)

-----------------------------------------------------------------------------
\* Every variable stays in its type; the position never leaves the disk.
TypeOK ==
  /\ pc \in {"start", "read", "write", "entry", "copy", "chunk", "returned"}
  /\ cmd \in Commands /\ lb \in Known \cup {NoSize}
  /\ pos \in 0..DiskSectors
  /\ entry \in Nat /\ chunk \in Nat /\ copied \in 0..DiskSectors
  /\ DOMAIN disk = 0..DiskSectors - 1

Changed == {s \in DOMAIN disk : disk[s] # Initial[s]}

\* What entry i of the image puts at offset o of its partition; Keep where it
\* has nothing to put.
Keep == <<>>
ChunkAt(e, o) ==
  {c \in DOMAIN e.chunks :
     ChunkStart(e, c) <= o /\ o < ChunkStart(e, c) + ChunkLen(e, c)}

Wanted(i, o) ==
  LET e == Entries[i]
  IN  IF ~e.sparse THEN IF o < e.len THEN <<i, 0, o>> ELSE Keep
      ELSE IF ChunkAt(e, o) = {} THEN Keep
      ELSE LET c == CHOOSE c \in ChunkAt(e, o) : TRUE
           IN  CASE e.chunks[c].type = "raw" -> <<i, c, o - ChunkStart(e, c)>>
                 [] e.chunks[c].type = "fill" -> <<i, c, 0>>
                 [] OTHER -> Keep

Upgrading == cmd.op = "upgrade"
ToPartition ==
  {i \in DOMAIN Entries : ~Skipped(Entries[i]) /\ Entries[i].name \in DOMAIN Partitions}
PartitionOf(i) == Partition(Entries[i].name, lb)

\* What entry i has for sector s, and what its partition holds there when the
\* entry is written: what was there before where it has nothing.
Due(i, s) == Wanted(i, s - PartStart(Entries[i].name))
Content(i, s) == IF Due(i, s) = Keep THEN Initial[s] ELSE Due(i, s)

Holds(i) == \A s \in PartitionOf(i) : disk[s] = Content(i, s)

\* No sector belongs to two entries: the image names no partition twice, and
\* partitions do not overlap.
Apart ==
  \A i, j \in ToPartition : i # j => PartitionOf(i) \cap PartitionOf(j) = {}

\* An upgrade goes entry by entry: when it has reached one, the partitions of
\* all earlier ones hold their images.
EntriesInOrder ==
  Upgrading /\ Apart => \A i \in ToPartition : i < entry => Holds(i)

\* An upgrade that returns Ok has dealt with its whole image or with nothing.
\* Every entry it does not skip had a partition to go to and has been written
\* there, as far as the partition goes (a longer regular image is cut off
\* without a word); or the block size is one it does not know, and the storage
\* is as it was.
OkIsAllOrNothing ==
  Upgrading /\ result = "Ok" =>
    IF lb \in Known
      THEN Apart =>
             \A i \in DOMAIN Entries : Skipped(Entries[i]) \/ (i \in ToPartition /\ Holds(i))
      ELSE disk = Initial

\* The block device refuses a seek to its end.  An upgrade never asks for one,
\* not even to skip the last blocks of an image that fills the last partition:
\* an error at a chunk's header is none of the seek.
SkipIsNeverRefused == [][pc = "chunk" => result' # "Io"]_vars

\* Whatever fails and wherever, every sector an upgrade has changed lies in
\* the partition of an entry it has reached, and holds what belongs there.
NothingMisplaced ==
  Upgrading =>
    \A s \in Changed :
      \E i \in ToPartition :
        /\ i <= entry
        /\ s \in PartitionOf(i)
        /\ disk[s] = Due(i, s)

\* Every command ends.
Ends == <>(pc = "returned")

\* A partition read delivers that partition; a partition write changes no
\* sector outside it, and if it returns Ok the file is at its beginning.
\* README: "Read a GPT partition to a file", "Write a file to a GPT
\* partition".  (With an unknown block size both end with Ok and do nothing.)
TransferHitsPartition ==
  /\ cmd.op = "read" /\ result = "Ok" /\ lb \in Known =>
       output = [i \in 1..PartSize(cmd.name) |-> disk[PartStart(cmd.name) + i - 1]]
  /\ cmd.op = "write" /\ Changed # {} => Changed \subseteq Partition(cmd.name, lb)
  /\ cmd.op = "write" /\ result = "Ok" /\ lb \in Known =>
       \A k \in 0..cmd.len - 1 : disk[PartStart(cmd.name) + k] = FileCells[k]

\* The same, on storage whose logical block is one sector.
SmallBlockTransfer == lb = 1 => TransferHitsPartition
=============================================================================
