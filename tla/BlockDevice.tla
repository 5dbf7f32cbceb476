----------------------------- MODULE BlockDevice -----------------------------
(***************************************************************************)
(* RkBlockDevice (src/src/bin/rktools/storage/mod.rs): the storage of a    *)
(* device as a std::io file.  A read or write at any byte position becomes *)
(* up to three calls of read_lba and write_lba: the sector the position is *)
(* in the middle of, the whole sectors, and the sector that holds the end; *)
(* partial sectors are read, patched and written back.  Each call has a    *)
(* timeout of its own and may fail after a part of it was written, as      *)
(* LbaTransfer says.                                                       *)
(***************************************************************************)
EXTENDS ByteStore

CONSTANTS
  SectorSize,     \* SECTOR_SIZE, 512
  DiskSectors,    \* sectors of the device, and the flash_size it reports
  LbaLimit,       \* 2^32: a sector number is a u32
  PosLimit,       \* 2^64: a position is a u64
  MaxRequest,     \* bound on the bytes of a request
  MaxRequests     \* bound on the requests of a behaviour

DiskBytes == DiskSectors * SectorSize

ASSUME GeometryAssumption ==
  /\ SectorSize \in Nat \ {0} /\ DiskSectors \in Nat \ {0}
  /\ LbaLimit \in Nat /\ DiskSectors <= LbaLimit
  /\ PosLimit \in Nat /\ LbaLimit * SectorSize <= PosLimit
  /\ MaxRequest \in Nat /\ MaxRequests \in Nat

VARIABLES
  pc,        \* "idle", or the part of the request that comes next
  pos,       \* self.pos
  cur,       \* the local copy of pos that runs ahead of it
  tmp,       \* the sector buffer of a partial sector
  req,       \* the request: its number, operation and length
  outcome,   \* what the last request returned, "none" while it runs
  output,    \* the buffer of a read
  disk,      \* the storage (external)
  base,      \* history: the storage when the request began
  placed     \* history: bytes of the running write that are in place

vars == <<pc, pos, cur, tmp, req, outcome, output, disk, base, placed>>

-----------------------------------------------------------------------------
NoRequest == [id |-> 0, op |-> "none", len |-> 0]
NoSector == <<>>

Data == CallData(req.id, req.len)

Offset(p) == p % SectorSize              \* offset_in_sector
Lba(p) == p \div SectorSize              \* start_sector
Moved == cur - pos                       \* bytes of the request behind cur
Left == req.len - Moved                  \* remaining.len()
HeadLen == Least(SectorSize - Offset(cur), Left)

\* Mutant: a request that ends inside a sector stops before it.
PartNoTail(p, n) ==
  IF n = 0 THEN "done"
  ELSE IF Offset(p) # 0 THEN "head"
  ELSE IF n >= SectorSize THEN "middle" ELSE "done"

\* The part of a request that comes next, at position p with n bytes left.
Part(p, n) ==
  IF n = 0 THEN "done"
  ELSE IF Offset(p) # 0 THEN "head"
  ELSE IF n >= SectorSize THEN "middle" ELSE "tail"

Return(o) == pc' = "idle" /\ outcome' = o

\* The end of a part: the next one, or the end of the request.
Continue(n) ==
  LET p == cur + n
      next == Part(p, Left - n)
  IN  IF next = "done"
        THEN /\ Return("Ok")
             /\ pos' = p
             /\ cur' = 0 /\ tmp' = NoSector
        ELSE /\ pc' = next
             /\ cur' = p /\ tmp' = NoSector
             /\ UNCHANGED <<pos, outcome>>

-----------------------------------------------------------------------------
(* read_lba and write_lba.  A call that ends at the last sector a u32 can  *)
(* name fails even if it is carried out (see LbaTransfer).                 *)

LbaOk(lba, count) == lba + count <= DiskSectors /\ lba + count < LbaLimit

\* A step fails: u32::try_from of the sector, or the call; pos stays.
GiveUp == Return("Error") /\ cur' = 0 /\ tmp' = NoSector /\ UNCHANGED pos

\* The first k sectors of d, at lba, reach the storage.
Store(lba, d, k) == disk' = Overlay(disk, lba * SectorSize, d, k * SectorSize)

\* write_lba of count sectors fails, having written the first k of them.
\* Those hold the request's bytes from cur on.
WriteGivesUp(lba, d, count, n) ==
  /\ GiveUp
  /\ \/ UNCHANGED <<disk, placed>>
     \/ \E k \in 1..count :
          /\ lba + k <= DiskSectors /\ lba < LbaLimit
          /\ Store(lba, d, k)
          /\ placed' = Moved + Least(n, k * SectorSize)

-----------------------------------------------------------------------------
\* Read::read and Write::write up to the first part.
Request(op, n) ==
  /\ pc = "idle"
  /\ req.id < MaxRequests
  /\ req' = [id |-> req.id + 1, op |-> op, len |-> n]
  /\ IF n = 0 THEN Return("Ok") /\ cur' = 0
     ELSE IF pos + n >= PosLimit THEN Return("Error") /\ cur' = 0
     ELSE pc' = Part(pos, n) /\ cur' = pos /\ outcome' = "none"
  /\ output' = IF op = "read" THEN Fill(Zero, n) ELSE <<>>
  /\ base' = disk /\ placed' = 0
  /\ UNCHANGED <<pos, tmp, disk>>

\* read_lba of the sector that holds the request's beginning or end.  A read
\* copies its bytes out and goes on; a write patches its bytes in.
ReadSector ==
  /\ pc \in {"head", "tail"}
  /\ \/ /\ LbaOk(Lba(cur), 1)
        /\ LET s == Slice(disk, Lba(cur) * SectorSize, SectorSize)
           IN  IF req.op = "read"
                 THEN /\ output' = Overlay(output, Moved, Slice(s, Offset(cur), HeadLen), HeadLen)
                      /\ Continue(HeadLen)
                 ELSE /\ tmp' = Overlay(s, Offset(cur), Slice(Data, Moved, HeadLen), HeadLen)
                      /\ pc' = "writeback"
                      /\ UNCHANGED <<pos, cur, outcome, output>>
     \/ GiveUp /\ UNCHANGED output
  /\ UNCHANGED <<req, disk, base, placed>>

\* write_lba of the patched sector.
WriteSector ==
  /\ pc = "writeback"
  /\ \/ /\ LbaOk(Lba(cur), 1)
        /\ Store(Lba(cur), tmp, 1)
        /\ placed' = Moved + HeadLen
        /\ Continue(HeadLen)
     \/ WriteGivesUp(Lba(cur), tmp, 1, HeadLen)
  /\ UNCHANGED <<req, output, base>>

AlignedSectors == Left \div SectorSize

\* read_lba or write_lba of the whole sectors.
Middle ==
  LET count == AlignedSectors
      n == count * SectorSize
  IN  /\ pc = "middle"
      /\ \/ /\ req.op = "read"
            /\ \/ /\ LbaOk(Lba(cur), count)
                  /\ output' = Overlay(output, Moved, Slice(disk, cur, n), n)
                  /\ Continue(n)
               \/ GiveUp /\ UNCHANGED output
            /\ UNCHANGED <<disk, placed>>
         \/ /\ req.op = "write"
            /\ \/ /\ LbaOk(Lba(cur), count)
                  /\ Store(Lba(cur), Slice(Data, Moved, n), count)
                  /\ placed' = Moved + n
                  /\ Continue(n)
               \/ WriteGivesUp(Lba(cur), Slice(Data, Moved, n), count, n)
            /\ UNCHANGED output
      /\ UNCHANGED <<req, base>>

\* Mutant: the position is not checked.
SeekAnywhere(p) ==
  /\ pc = "idle"
  /\ pos' = p
  /\ UNCHANGED <<pc, cur, tmp, req, outcome, output, disk, base, placed>>

\* Seek::seek: a position at or behind the end is an error and no move.
Seek(p) ==
  /\ pc = "idle"
  /\ p < DiskBytes
  /\ pos' = p
  /\ UNCHANGED <<pc, cur, tmp, req, outcome, output, disk, base, placed>>

-----------------------------------------------------------------------------
Init ==
  /\ pc = "idle" /\ pos = 0
  /\ cur = 0 /\ tmp = NoSector
  /\ req = NoRequest /\ outcome = "none" /\ output = <<>>
  /\ disk = InitialStorage(DiskBytes) /\ base = disk
  /\ placed = 0

Next ==
  \/ \E op \in {"read", "write"}, n \in 0..MaxRequest : Request(op, n)
  \/ ReadSector \/ WriteSector \/ Middle
  \/ \E p \in 0..(DiskBytes + 1) : Seek(p)

Spec == Init /\ [][Next]_vars

-----------------------------------------------------------------------------
\* Every variable stays in its type; the position never leaves the disk.
TypeOK ==
  /\ pc \in {"idle", "head", "middle", "tail", "writeback"}
  /\ pos \in 0..DiskBytes /\ cur \in 0..DiskBytes
  /\ req.id \in 0..MaxRequests /\ req.op \in {"none", "read", "write"}
  /\ req.len \in 0..MaxRequest
  /\ outcome \in {"none", "Ok", "Error"}
  /\ DOMAIN disk = Bytes(DiskBytes)
  /\ placed \in 0..req.len

\* The block device is a byte file: see ByteFile for what that promises.
File == INSTANCE ByteFile
          WITH Length <- DiskBytes, running <- pc # "idle",
               output <- IF outcome = "Ok" THEN output ELSE <<>>
FileSpec == File!Spec
=============================================================================
