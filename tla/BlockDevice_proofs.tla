-------------------------- MODULE BlockDevice_proofs --------------------------
(***************************************************************************)
(* RkBlockDevice is a byte file: proof that the parts of a request,        *)
(* however it is aligned and wherever it fails, are steps of ByteFile, for *)
(* every size of sector, device and request.                               *)
(***************************************************************************)
EXTENDS BlockDevice, ByteStore_proofs

\* n sectors in bytes.
B(n) == n * SectorSize

\* Where the parts of a request are: the position is behind its start and
\* before its end, and whole sectors begin at a sector.
Shape ==
  pc # "idle" =>
    /\ req.op \in {"read", "write"} /\ outcome = "none"
    /\ pos <= cur /\ Moved < req.len
    /\ pc = "middle" => Offset(cur) = 0 /\ Left >= SectorSize
    /\ pc = "writeback" => req.op = "write"

IsStorage(d) == d = [b \in Bytes(DiskBytes) |-> d[b]]

\* The storage and the buffers hold what is behind the position; the sector
\* that is to be written back, also what comes next.
IsBuffer == output = [k \in Bytes(req.len) |-> output[k]]
Delivered(n) == \A k \in Bytes(n) : output[k] = disk[pos + k]

Content ==
  /\ IsStorage(disk)
  /\ pc # "idle" =>
       /\ placed = IF req.op = "write" THEN Moved ELSE 0
       /\ disk = Overlay(base, pos, Data, placed)
  /\ req.op = "write" => output = <<>>
  /\ pc # "idle" /\ req.op = "read" => IsBuffer /\ Delivered(Moved)
  /\ pc = "writeback" =>
       Puts(disk, B(Lba(cur)), SectorSize, tmp, cur, HeadLen, Data, pos)

FileInv == TypeOK /\ Shape /\ Content

-----------------------------------------------------------------------------
(* Where a part of a request is.                                           *)

LEMMA Geometry ==
  /\ SectorSize \in Nat \ {0} /\ DiskSectors \in Nat \ {0}
  /\ LbaLimit \in Nat /\ PosLimit \in Nat /\ MaxRequest \in Nat /\ MaxRequests \in Nat
  /\ DiskBytes \in Nat /\ DiskBytes = B(DiskSectors)
BY GeometryAssumption DEF DiskBytes, B

LEMMA Bytewise ==
  ASSUME NEW a \in Int, NEW b \in Int
  PROVE  /\ B(a) \in Int /\ B(1) = SectorSize
         /\ B(a + b) = B(a) + B(b)
         /\ a <= b => B(a) <= B(b)
<1>1. SectorSize \in Nat \ {0}
  BY Geometry
<1>. QED
  BY <1>1, MulDistr, MulMono DEF B

LEMMA Whereabouts ==
  ASSUME TypeOK, Shape, pc # "idle"
  PROVE  /\ pos \in Nat /\ cur \in Nat /\ Moved \in Nat /\ req.len \in Nat
         /\ Left \in Nat \ {0} /\ Moved + Left = req.len /\ cur = pos + Moved
         /\ Lba(cur) \in Nat /\ Offset(cur) \in 0..SectorSize - 1
         /\ cur = B(Lba(cur)) + Offset(cur) /\ B(Lba(cur)) \in Nat
         /\ HeadLen \in 1..Left /\ Offset(cur) + HeadLen <= SectorSize
<1>1. /\ pos \in Nat /\ cur \in Nat /\ Moved \in Nat /\ req.len \in Nat
      /\ Left \in Nat \ {0} /\ Moved + Left = req.len /\ cur = pos + Moved
  BY Geometry DEF TypeOK, Shape, Moved, Left
<1>2. /\ Lba(cur) \in Nat /\ Offset(cur) \in 0..SectorSize - 1
      /\ cur = B(Lba(cur)) + Offset(cur)
  BY <1>1, Geometry, DivMod DEF Lba, Offset, B
<1>3. HeadLen \in 1..Left /\ Offset(cur) + HeadLen <= SectorSize
  BY <1>1, <1>2, Geometry DEF HeadLen, Least
<1>4. B(Lba(cur)) \in Nat
  BY <1>2, Geometry DEF B
<1>. QED
  BY <1>1, <1>2, <1>3, <1>4

(* The whole sectors of the rest of a request.                             *)
LEMMA WholeSectors ==
  ASSUME TypeOK, Shape, pc = "middle"
  PROVE  /\ AlignedSectors \in Nat \ {0} /\ B(AlignedSectors) \in 1..Left
         /\ cur = B(Lba(cur))
<1>1. /\ Left \in Nat /\ Left >= SectorSize /\ Offset(cur) = 0
      /\ cur = B(Lba(cur)) + Offset(cur) /\ B(Lba(cur)) \in Nat
  BY Whereabouts DEF Shape
<1> DEFINE q == Left \div SectorSize
<1>2. /\ q \in Nat /\ Left % SectorSize \in 0..SectorSize - 1
      /\ Left = q * SectorSize + (Left % SectorSize)
  BY <1>1, Geometry, DivMod
<1> HIDE DEF q
<1>3. q # 0
  BY <1>1, <1>2, Geometry
<1>4. q * SectorSize \in Nat /\ SectorSize <= q * SectorSize
  <2>1. 1 \in Int /\ 1 <= q /\ q \in Int
    BY <1>2, <1>3
  <2>2. B(1) <= B(q) /\ B(q) \in Int /\ B(1) = SectorSize
    BY <2>1, Bytewise
  <2>. QED
    BY <2>2, Geometry DEF B
<1>5. B(q) \in 1..Left
  BY <1>1, <1>2, <1>4, Geometry DEF B
<1>. QED
  BY <1>1, <1>2, <1>3, <1>5 DEF AlignedSectors, q

(* The next part is one there is something left for.                       *)
LEMMA PartIs ==
  ASSUME NEW p, NEW n
  PROVE  /\ Part(p, n) \in {"done", "head", "middle", "tail"}
         /\ Part(p, n) = "done" <=> n = 0
         /\ Part(p, n) = "middle" => Offset(p) = 0 /\ n >= SectorSize
BY DEF Part

\* A part of n bytes succeeds.
PartDone(n) ==
  /\ n \in 1..Left /\ cur + n <= DiskBytes
  /\ Continue(n)
  /\ UNCHANGED <<req, base>>
  /\ placed' = IF req.op = "write" THEN Moved + n ELSE 0
  /\ disk' = Overlay(base, pos, Data, placed')
  /\ req.op = "write" => UNCHANGED output
  /\ req.op = "read" => /\ output' = Overlay(output, Moved, Slice(disk, cur, n), n)
                        /\ disk' = disk

\* A part fails, with some first part of a write in place.
PartFails ==
  /\ GiveUp
  /\ UNCHANGED <<req, base, output>>
  /\ placed' \in placed..(IF req.op = "write" THEN req.len ELSE 0)
  /\ disk' = Overlay(base, pos, Data, placed')

LEMMA PartDoneHow ==
  ASSUME TypeOK, Shape, pc # "idle", NEW n, PartDone(n)
  PROVE  /\ n \in Nat \ {0} /\ n <= Left
         /\ \/ /\ n = Left /\ pc' = "idle" /\ outcome' = "Ok" /\ pos' = pos + req.len
               /\ cur' = 0 /\ tmp' = NoSector
            \/ /\ n < Left /\ pc' \in {"head", "middle", "tail"} /\ UNCHANGED <<pos, outcome>>
               /\ cur' = cur + n /\ tmp' = NoSector
               /\ pc' = "middle" => Offset(cur + n) = 0 /\ Left - n >= SectorSize
<1>1. /\ Left \in Nat \ {0} /\ Moved + Left = req.len /\ cur = pos + Moved
      /\ pos \in Nat /\ Moved \in Nat
  BY Whereabouts
<1>2. n \in Nat \ {0} /\ n <= Left
  BY <1>1 DEF PartDone
<1> DEFINE next == Part(cur + n, Left - n)
<1>3. /\ next \in {"done", "head", "middle", "tail"}
      /\ next = "done" <=> Left - n = 0
      /\ next = "middle" => Offset(cur + n) = 0 /\ Left - n >= SectorSize
  BY PartIs
<1>4. \/ next = "done" /\ pc' = "idle" /\ outcome' = "Ok" /\ pos' = cur + n /\ cur' = 0 /\ tmp' = NoSector
      \/ next # "done" /\ pc' = next /\ cur' = cur + n /\ tmp' = NoSector /\ UNCHANGED <<pos, outcome>>
  BY DEF PartDone, Continue, Return
<1> HIDE DEF next
<1>5. next = "done" <=> n = Left
  BY <1>1, <1>2, <1>3
<1>6. CASE n = Left
  <2>1. cur + n = pos + req.len
    BY <1>1, <1>2, <1>6
  <2>. QED
    BY <1>2, <1>4, <1>5, <1>6, <2>1
<1>7. CASE n # Left
  <2>1. n < Left
    BY <1>1, <1>2, <1>7
  <2>2. next # "done"
    BY <1>5, <1>7
  <2>3. /\ pc' \in {"head", "middle", "tail"} /\ cur' = cur + n /\ tmp' = NoSector
        /\ UNCHANGED <<pos, outcome>>
        /\ pc' = "middle" => Offset(cur + n) = 0 /\ Left - n >= SectorSize
    BY <1>3, <1>4, <2>2
  <2>. QED
    BY <1>2, <2>1, <2>3
<1>. QED
  BY <1>6, <1>7

-----------------------------------------------------------------------------
(* A part that succeeds, and one that fails, keep the invariant.           *)

LEMMA WriteSoFar ==
  ASSUME FileInv, pc # "idle"
  PROVE  /\ DOMAIN base = Bytes(DiskBytes) /\ Bytes(DiskBytes) \subseteq Int
         /\ disk = Overlay(base, pos, Data, placed)
         /\ req.op \in {"read", "write"} /\ outcome = "none"
         /\ placed = IF req.op = "write" THEN Moved ELSE 0
         /\ \A k : IsStorage(Overlay(base, pos, Data, k))
<1>1. disk = Overlay(base, pos, Data, placed) /\ DOMAIN disk = Bytes(DiskBytes)
  BY DEF FileInv, Content, TypeOK
<1>2. DOMAIN base = Bytes(DiskBytes)
  BY <1>1 DEF Overlay
<1>3. \A k : IsStorage(Overlay(base, pos, Data, k))
  BY <1>2 DEF IsStorage, Overlay
<1>. QED
  BY <1>1, <1>2, <1>3 DEF FileInv, Content, Shape, Bytes

LEMMA PartDoneShape ==
  ASSUME FileInv, pc # "idle", NEW n, PartDone(n)
  PROVE  TypeOK' /\ Shape'
<1>1. /\ Left \in Nat \ {0} /\ Moved + Left = req.len /\ cur = pos + Moved /\ req.len \in Nat
      /\ pos \in Nat /\ Moved \in Nat /\ cur \in Nat /\ n \in Nat \ {0} /\ n <= Left
      /\ DiskBytes \in Nat /\ cur + n <= DiskBytes /\ req' = req
  BY Whereabouts, PartDoneHow, Geometry DEF PartDone, FileInv
<1>2. DOMAIN disk' = Bytes(DiskBytes)
  BY WriteSoFar DEF PartDone, Overlay
<1>3. placed' \in 0..req.len
  BY <1>1 DEF PartDone
<1>4. CASE n = Left
  <2>1. /\ pc' = "idle" /\ outcome' = "Ok" /\ pos' = pos + req.len /\ cur' = 0
        /\ pos + req.len = cur + n
    BY <1>1, <1>4, PartDoneHow DEF FileInv
  <2>2. pos' \in 0..DiskBytes /\ cur' \in 0..DiskBytes
    BY <1>1, <2>1
  <2>. QED
    BY <1>1, <1>2, <1>3, <2>1, <2>2 DEF TypeOK, Shape, FileInv
<1>5. CASE n # Left
  <2>1. n < Left
    BY <1>1, <1>5
  <2>2. /\ pc' \in {"head", "middle", "tail"} /\ UNCHANGED <<pos, outcome>> /\ cur' = cur + n
        /\ pc' = "middle" => Offset(cur + n) = 0 /\ Left - n >= SectorSize
    BY <2>1, <1>5, PartDoneHow DEF FileInv
  <2>3. Moved' = Moved + n /\ Left' = Left - n
    BY <1>1, <2>2 DEF Moved, Left
  <2>4. Offset(cur)' = Offset(cur + n)
    BY <2>2 DEF Offset
  <2>5. cur' \in 0..DiskBytes /\ pos' <= cur' /\ Moved' < req'.len
    BY <1>1, <2>1, <2>2, <2>3
  <2>6. TypeOK'
    BY <1>1, <1>2, <1>3, <2>2, <2>5 DEF TypeOK, FileInv
  <2>7. Shape'
    BY <1>1, <2>2, <2>3, <2>4, <2>5 DEF Shape, FileInv
  <2>. QED
    BY <2>6, <2>7
<1>. QED
  BY <1>4, <1>5

(* A read that goes on where another ended.                                *)
LEMMA ReadOn ==
  ASSUME FileInv, pc # "idle", req.op = "read", NEW n, PartDone(n)
  PROVE  /\ output' = [k \in Bytes(req.len) |-> output'[k]]
         /\ \A k \in Bytes(Moved + n) : output'[k] = disk[pos + k]
<1>1. /\ IsBuffer /\ Delivered(Moved) /\ req.len \in Nat
      /\ Moved \in Nat /\ n \in Nat /\ Moved + n <= req.len /\ cur = pos + Moved /\ pos \in Nat
      /\ output' = Overlay(output, Moved, Slice(disk, cur, n), n)
  BY Whereabouts, PartDoneHow DEF FileInv, Content, PartDone
<1>2. output' = [b \in Bytes(req.len) |->
                   IF Moved <= b /\ b < Moved + n THEN Slice(disk, cur, n)[b - Moved] ELSE output[b]]
  BY <1>1 DEF IsBuffer, Overlay
<1>3. ASSUME NEW k \in Bytes(Moved + n)
      PROVE  output'[k] = disk[pos + k]
  <2>1. k \in Bytes(req.len) /\ k \in Int /\ 0 <= k /\ k < Moved + n
    BY <1>1 DEF Bytes
  <2>2. CASE k < Moved
    <3>1. k \in Bytes(Moved)
      BY <1>1, <2>1, <2>2 DEF Bytes
    <3>2. output[k] = disk[pos + k]
      BY <1>1, <3>1 DEF Delivered
    <3>. QED
      BY <1>1, <1>2, <2>1, <2>2, <3>2
  <2>3. CASE ~(k < Moved)
    <3>1. k - Moved \in Bytes(n) /\ cur + (k - Moved) = pos + k
      BY <1>1, <2>1, <2>3 DEF Bytes
    <3>2. Slice(disk, cur, n)[k - Moved] = disk[pos + k]
      BY <3>1 DEF Slice
    <3>. QED
      BY <1>1, <1>2, <2>1, <2>3, <3>2
  <2>. QED
    BY <2>2, <2>3
<1>. QED
  BY <1>2, <1>3

LEMMA PartDoneContent ==
  ASSUME FileInv, pc # "idle", NEW n, PartDone(n)
  PROVE  Content'
<1>1. IsStorage(disk)'
  BY WriteSoFar DEF PartDone, IsStorage
<1>2. /\ req' = req /\ base' = base /\ pc' # "writeback"
      /\ placed' = IF req.op = "write" THEN Moved + n ELSE 0
      /\ disk' = Overlay(base, pos, Data, placed')
      /\ req.op = "write" => output' = output
      /\ req.op \in {"read", "write"}
  BY WriteSoFar, PartDoneHow DEF PartDone, FileInv
<1>3. pc' # "idle" => pos' = pos /\ Moved' = Moved + n
  <2>1. pc' # "idle" => pos' = pos /\ cur' = cur + n
    BY PartDoneHow DEF FileInv
  <2>2. cur \in Nat /\ pos \in Nat /\ n \in Nat
    BY Whereabouts, PartDoneHow DEF FileInv
  <2>. QED
    BY <2>1, <2>2 DEF Moved
<1>4. Data' = Data
  BY <1>2 DEF Data
<1>5. pc' # "idle" =>
        /\ placed' = IF req'.op = "write" THEN Moved' ELSE 0
        /\ disk' = Overlay(base', pos', Data', placed')
  BY <1>2, <1>3, <1>4
<1>6. (req.op = "write" => output = <<>>)'
  BY <1>2 DEF FileInv, Content
<1>7. CASE req.op = "read"
  <2>1. /\ output' = [k \in Bytes(req.len) |-> output'[k]]
        /\ \A k \in Bytes(Moved + n) : output'[k] = disk[pos + k]
        /\ disk' = disk
    BY <1>7, ReadOn DEF PartDone
  <2>2. IsBuffer'
    BY <1>2, <2>1 DEF IsBuffer
  <2>3. pc' # "idle" => \A k \in Bytes(Moved') : output'[k] = disk'[pos' + k]
    BY <1>3, <2>1
  <2>4. pc' # "idle" => Delivered(Moved)'
    BY <2>3 DEF Delivered
  <2>. QED
    BY <1>1, <1>2, <1>5, <1>6, <2>2, <2>4 DEF Content
<1>8. CASE req.op = "write"
  BY <1>1, <1>2, <1>5, <1>6, <1>8 DEF Content
<1>. QED
  BY <1>2, <1>7, <1>8

LEMMA PartFailsInv ==
  ASSUME FileInv, pc # "idle", PartFails
  PROVE  FileInv'
<1>1. /\ pc' = "idle" /\ outcome' = "Error" /\ cur' = 0 /\ UNCHANGED <<pos, req, output>>
      /\ placed' \in placed..(IF req.op = "write" THEN req.len ELSE 0)
      /\ disk' = Overlay(base, pos, Data, placed')
  BY DEF PartFails, GiveUp, Return
<1>2. placed' \in 0..req.len
  BY <1>1 DEF FileInv, TypeOK
<1>3. DOMAIN disk' = Bytes(DiskBytes) /\ IsStorage(disk')
  BY <1>1, WriteSoFar DEF Overlay
<1>4. 0 \in 0..DiskBytes
  BY Geometry
<1>5. TypeOK'
  BY <1>1, <1>2, <1>3, <1>4 DEF FileInv, TypeOK
<1>. QED
  BY <1>1, <1>3, <1>5 DEF FileInv, Shape, Content, IsStorage

-----------------------------------------------------------------------------
(* What the parts of a request are to the users of the file.               *)

LEMMA SameBytes ==
  /\ \A d, at, f, n : File!Overlay(d, at, f, n) = Overlay(d, at, f, n)
  /\ \A id, n : File!CallData(id, n) = CallData(id, n)
  /\ \A f, at, n : File!Slice(f, at, n) = Slice(f, at, n)
  /\ \A n : File!Bytes(n) = Bytes(n) /\ File!InitialStorage(n) = InitialStorage(n)
BY DEF File!Overlay, Overlay, File!CallData, CallData, File!Slice, Slice, File!Bytes, Bytes,
   File!InitialStorage, InitialStorage, File!Byte, Byte

LEMMA Puts1 ==
  ASSUME NEW k, k \in placed..(IF req.op = "write" THEN req.len ELSE 0),
         placed' = k, disk' = Overlay(base, pos, Data, k)
  PROVE  File!PutUpTo(k)
BY SameBytes DEF File!PutUpTo, Data

LEMMA DoneIsFileStep ==
  ASSUME FileInv, pc # "idle", NEW n, PartDone(n)
  PROVE  [File!Next]_(File!vars)
<1>1. /\ Left \in Nat \ {0} /\ Moved + Left = req.len /\ Moved \in Nat /\ req.len \in Nat
      /\ n \in Nat \ {0} /\ n <= Left /\ cur = pos + Moved /\ pos \in Nat
      /\ req.op \in {"read", "write"} /\ outcome = "none"
      /\ placed = IF req.op = "write" THEN Moved ELSE 0
  BY Whereabouts, PartDoneHow, WriteSoFar DEF FileInv
<1>2. /\ UNCHANGED <<req, base>> /\ placed' = IF req.op = "write" THEN Moved + n ELSE 0
      /\ disk' = Overlay(base, pos, Data, placed') /\ cur + n <= DiskBytes
      /\ req.op = "read" => disk' = disk
      /\ req.op = "write" => output' = <<>>
  BY <1>1 DEF PartDone, FileInv, Content
<1>3. placed' \in placed..(IF req.op = "write" THEN req.len ELSE 0)
  BY <1>1, <1>2
<1>4. File!PutUpTo(placed')
  BY <1>2, <1>3, Puts1
<1>5. CASE n = Left
  <2>1. pc' = "idle" /\ outcome' = "Ok" /\ pos' = pos + req.len
    BY <1>1, <1>5, PartDoneHow DEF FileInv
  <2>2. placed' = (IF req.op = "write" THEN req.len ELSE 0) /\ pos + req.len <= DiskBytes
    BY <1>1, <1>2, <1>5
  <2>3. output' = IF req.op = "read" THEN Slice(disk, pos, req.len) ELSE <<>>
    <3>1. CASE req.op = "read"
      <4>1. Moved + n = req.len
        BY <1>1, <1>5
      <4>2. /\ output' = [k \in Bytes(req.len) |-> output'[k]]
            /\ \A k \in Bytes(req.len) : output'[k] = disk[pos + k]
        BY <3>1, <4>1, ReadOn
      <4>. QED
        BY <3>1, <4>2 DEF Slice
    <3>. QED
      BY <1>1, <1>2, <3>1
  <2>4. File!Succeed
    BY <1>2, <1>4, <2>1, <2>2, <2>3, SameBytes DEF File!Succeed
  <2>. QED
    BY <2>4 DEF File!Next
<1>6. CASE n # Left
  <2>1. pc' # "idle" /\ UNCHANGED <<pos, outcome>>
    BY <1>1, <1>6, PartDoneHow DEF FileInv
  <2>2. CASE req.op = "read"
    BY <1>1, <1>2, <2>1, <2>2 DEF File!vars
  <2>3. CASE req.op = "write"
    <3>1. placed' \in 0..MaxRequest
      BY <1>1, <1>2, <2>3, Geometry DEF FileInv, TypeOK
    <3>2. File!Place
      BY <1>1, <1>2, <1>4, <2>1, <3>1 DEF File!Place
    <3>. QED
      BY <3>2 DEF File!Next
  <2>. QED
    BY <1>1, <2>2, <2>3
<1>. QED
  BY <1>5, <1>6

LEMMA FailIsFileStep ==
  ASSUME FileInv, pc # "idle", PartFails
  PROVE  [File!Next]_(File!vars)
<1>1. /\ pc' = "idle" /\ outcome' = "Error" /\ UNCHANGED <<pos, req, base, output>>
      /\ placed' \in placed..(IF req.op = "write" THEN req.len ELSE 0)
      /\ disk' = Overlay(base, pos, Data, placed') /\ outcome = "none"
  BY WriteSoFar DEF PartFails, GiveUp, Return
<1>2. placed' \in 0..MaxRequest
  BY <1>1, Geometry DEF FileInv, TypeOK
<1>3. File!PutUpTo(placed')
  BY <1>1, Puts1
<1>4. File!Fail
  BY <1>1, <1>2, <1>3 DEF File!Fail
<1>. QED
  BY <1>4 DEF File!Next

-----------------------------------------------------------------------------
(* The parts of a request.                                                 *)

LEMMA SectorOnDisk ==
  ASSUME FileInv, pc # "idle", NEW k \in Nat, Lba(cur) + k <= DiskSectors
  PROVE  B(Lba(cur)) + B(k) <= DiskBytes
<1>1. Lba(cur) \in Int /\ k \in Int /\ Lba(cur) + k \in Int /\ DiskSectors \in Int
  BY Whereabouts, Geometry DEF FileInv
<1>2. B(Lba(cur) + k) = B(Lba(cur)) + B(k)
  BY <1>1, Bytewise
<1>3. B(Lba(cur) + k) <= B(DiskSectors)
  BY <1>1, Bytewise
<1>. QED
  BY <1>2, <1>3, Geometry

LEMMA HeadOnDisk ==
  ASSUME FileInv, pc # "idle", LbaOk(Lba(cur), 1)
  PROVE  cur + HeadLen <= DiskBytes
<1>1. /\ cur = B(Lba(cur)) + Offset(cur) /\ Offset(cur) + HeadLen <= SectorSize
      /\ B(Lba(cur)) \in Nat /\ HeadLen \in Nat /\ Offset(cur) \in Nat
  BY Whereabouts DEF FileInv
<1>2. B(1) = SectorSize
  BY Bytewise
<1>3. B(Lba(cur)) + B(1) <= DiskBytes
  BY SectorOnDisk DEF LbaOk
<1>. QED
  BY <1>1, <1>2, <1>3, Geometry

(* k sectors of a write, from the sector of the position on, reach the     *)
(* storage.                                                                *)
LEMMA StoreOn ==
  ASSUME FileInv, pc # "idle", req.op = "write", NEW k \in Nat, NEW g, NEW l \in Nat,
         Puts(disk, B(Lba(cur)), B(k), g, cur, l, Data, pos), cur + l <= B(Lba(cur)) + B(k),
         Store(Lba(cur), g, k)
  PROVE  disk' = Overlay(base, pos, Data, Moved + l)
<1> DEFINE a == B(Lba(cur))
           m == B(k)
           f == Data
           n == Moved
<1>1. /\ a \in Int /\ n \in Nat /\ pos \in Int /\ cur = pos + n /\ a <= cur /\ cur + l <= a + m
  BY Whereabouts DEF FileInv
<1>2. m \in Nat
  BY Geometry DEF B
<1>3. DOMAIN base \subseteq Int
  BY WriteSoFar
<1>4. disk = Overlay(base, pos, f, n)
  BY WriteSoFar
<1>5. Puts(disk, a, m, g, cur, l, f, pos)
  OBVIOUS
<1>6. disk' = Overlay(disk, a, g, m)
  BY DEF Store, B
<1> HIDE DEF a, m, f, n
<1>7. Overlay(disk, a, g, m) = Overlay(base, pos, f, n + l)
  BY <1>1, <1>2, <1>3, <1>4, <1>5, OverlayPut
<1>. QED
  BY <1>6, <1>7 DEF f, n

LEMMA StaysOrFails ==
  ASSUME FileInv, pc # "idle", GiveUp, UNCHANGED <<req, base, output, disk, placed>>
  PROVE  PartFails
<1>1. placed \in placed..(IF req.op = "write" THEN req.len ELSE 0)
  BY Whereabouts, WriteSoFar DEF FileInv
<1>. QED
  BY <1>1, WriteSoFar DEF PartFails

LEMMA FailsAfter ==
  ASSUME FileInv, pc # "idle", req.op = "write", GiveUp, UNCHANGED <<req, base, output>>,
         NEW l \in 0..Left, placed' = Moved + l, disk' = Overlay(base, pos, Data, Moved + l)
  PROVE  PartFails
<1>1. Moved + l \in placed..req.len
  BY Whereabouts, WriteSoFar DEF FileInv
<1>. QED
  BY <1>1 DEF PartFails

\* A step is one of the file, and keeps the invariant.
Refines == FileInv' /\ [File!Next]_(File!vars)

LEMMA Outcome ==
  ASSUME FileInv, pc # "idle", PartFails \/ \E n : PartDone(n)
  PROVE  Refines
<1>1. CASE PartFails
  BY <1>1, PartFailsInv, FailIsFileStep DEF Refines
<1>2. ASSUME NEW n, PartDone(n) PROVE Refines
  BY <1>2, PartDoneShape, PartDoneContent, DoneIsFileStep DEF Refines, FileInv
<1>. QED
  BY <1>1, <1>2

LEMMA ReadSectorRefines == ASSUME FileInv, ReadSector PROVE Refines
<1> DEFINE s == Slice(disk, Lba(cur) * SectorSize, SectorSize)
<1>1. /\ pc \in {"head", "tail"} /\ UNCHANGED <<req, disk, base, placed>>
      /\ \/ /\ LbaOk(Lba(cur), 1) /\ req.op = "read"
            /\ output' = Overlay(output, Moved, Slice(s, Offset(cur), HeadLen), HeadLen)
            /\ Continue(HeadLen)
         \/ /\ LbaOk(Lba(cur), 1) /\ req.op # "read"
            /\ tmp' = Overlay(s, Offset(cur), Slice(Data, Moved, HeadLen), HeadLen)
            /\ pc' = "writeback"
            /\ UNCHANGED <<pos, cur, outcome, output>>
         \/ GiveUp /\ UNCHANGED output
  BY DEF ReadSector
<1>2. pc # "idle"
  BY <1>1
<1>3. /\ pos \in Nat /\ cur \in Nat /\ Moved \in Nat /\ cur = pos + Moved
      /\ Offset(cur) \in Nat /\ HeadLen \in Nat /\ HeadLen \in 1..Left
      /\ cur = B(Lba(cur)) + Offset(cur) /\ B(Lba(cur)) \in Nat
      /\ Offset(cur) + HeadLen <= SectorSize /\ SectorSize \in Nat
  BY <1>2, Whereabouts, Geometry DEF FileInv
<1>4. s = [j \in Bytes(SectorSize) |-> disk[B(Lba(cur)) + j]]
  BY DEF Slice, B
<1> HIDE DEF s
<1>5. CASE GiveUp /\ UNCHANGED output
  BY <1>1, <1>2, <1>5, StaysOrFails, Outcome
<1>6. CASE /\ LbaOk(Lba(cur), 1) /\ req.op = "read"
           /\ output' = Overlay(output, Moved, Slice(s, Offset(cur), HeadLen), HeadLen)
           /\ Continue(HeadLen)
  <2>1. Slice(s, Offset(cur), HeadLen) = Slice(disk, cur, HeadLen)
    <3>1. ASSUME NEW k \in Bytes(HeadLen)
          PROVE  s[Offset(cur) + k] = disk[cur + k]
      <4>1. /\ Offset(cur) + k \in Bytes(SectorSize)
            /\ B(Lba(cur)) + (Offset(cur) + k) = cur + k
        BY <1>3 DEF Bytes
      <4>. QED
        BY <1>4, <4>1
    <3>. QED
      BY <3>1 DEF Slice
  <2>2. cur + HeadLen <= DiskBytes
    BY <1>2, <1>6, HeadOnDisk
  <2>3. placed = 0 /\ disk = Overlay(base, pos, Data, placed)
    BY <1>2, <1>6, WriteSoFar
  <2>4. PartDone(HeadLen)
    BY <1>1, <1>3, <1>6, <2>1, <2>2, <2>3 DEF PartDone
  <2>. QED
    BY <1>2, <2>4, Outcome
<1>7. CASE /\ LbaOk(Lba(cur), 1) /\ req.op # "read"
           /\ tmp' = Overlay(s, Offset(cur), Slice(Data, Moved, HeadLen), HeadLen)
           /\ pc' = "writeback"
           /\ UNCHANGED <<pos, cur, outcome, output>>
  <2>1. req.op = "write"
    BY <1>2, <1>7, WriteSoFar
  <2>2. Puts(disk, B(Lba(cur)), SectorSize, tmp', cur, HeadLen, Data, pos)
    <3> SUFFICES ASSUME NEW j \in 0..SectorSize - 1
                 PROVE  tmp'[j] = IF cur <= B(Lba(cur)) + j /\ B(Lba(cur)) + j < cur + HeadLen
                                  THEN Data[(B(Lba(cur)) + j) - pos] ELSE disk[B(Lba(cur)) + j]
      BY DEF Puts
    <3>1. /\ j \in Bytes(SectorSize) /\ j \in Int
          /\ cur <= B(Lba(cur)) + j <=> Offset(cur) <= j
          /\ B(Lba(cur)) + j < cur + HeadLen <=> j < Offset(cur) + HeadLen
      BY <1>3 DEF Bytes
    <3>2. tmp'[j] = IF Offset(cur) <= j /\ j < Offset(cur) + HeadLen
                    THEN Slice(Data, Moved, HeadLen)[j - Offset(cur)] ELSE s[j]
      BY <1>4, <1>7, <3>1 DEF Overlay
    <3>3. s[j] = disk[B(Lba(cur)) + j]
      BY <1>4, <3>1
    <3>4. Offset(cur) <= j /\ j < Offset(cur) + HeadLen =>
            Slice(Data, Moved, HeadLen)[j - Offset(cur)] = Data[(B(Lba(cur)) + j) - pos]
      <4> SUFFICES ASSUME Offset(cur) <= j, j < Offset(cur) + HeadLen
                   PROVE  Slice(Data, Moved, HeadLen)[j - Offset(cur)] = Data[(B(Lba(cur)) + j) - pos]
        OBVIOUS
      <4>1. /\ j - Offset(cur) \in Bytes(HeadLen)
            /\ Moved + (j - Offset(cur)) = (B(Lba(cur)) + j) - pos
        BY <1>3, <3>1 DEF Bytes
      <4>. QED
        BY <4>1 DEF Slice
    <3>. QED
      BY <3>1, <3>2, <3>3, <3>4
  <2>3. /\ Data' = Data /\ Moved' = Moved /\ HeadLen' = HeadLen /\ B(Lba(cur))' = B(Lba(cur))
        /\ Left' = Left
    BY <1>1, <1>7 DEF Data, Moved, HeadLen, B, Lba, Left, Offset, Least
  <2>4. Puts(disk, B(Lba(cur)), SectorSize, tmp, cur, HeadLen, Data, pos)'
    BY <1>1, <1>7, <2>2, <2>3 DEF Puts
  <2>5. TypeOK' /\ Shape'
    BY <1>1, <1>2, <1>7, <2>1, <2>3 DEF FileInv, TypeOK, Shape
  <2>6. Content'
    <3>1. IsStorage(disk)'
      BY <1>1 DEF FileInv, Content, IsStorage
    <3>. QED
      BY <1>1, <1>2, <1>7, <2>1, <2>3, <2>4, <3>1 DEF FileInv, Content
  <2>7. UNCHANGED File!vars
    BY <1>1, <1>2, <1>7 DEF File!vars
  <2>. QED
    BY <2>5, <2>6, <2>7 DEF Refines, FileInv
<1>. QED
  BY <1>1, <1>5, <1>6, <1>7

LEMMA WriteSectorRefines == ASSUME FileInv, WriteSector PROVE Refines
<1> DEFINE m == HeadLen
<1>1. /\ pc = "writeback" /\ UNCHANGED <<req, output, base>>
      /\ \/ /\ LbaOk(Lba(cur), 1) /\ Store(Lba(cur), tmp, 1)
            /\ placed' = Moved + m /\ Continue(m)
         \/ GiveUp /\ UNCHANGED <<disk, placed>>
         \/ /\ GiveUp
            /\ \E k \in 1..1 : /\ Store(Lba(cur), tmp, k)
                               /\ placed' = Moved + Least(m, k * SectorSize)
  BY DEF WriteSector, WriteGivesUp
<1>2. pc # "idle" /\ req.op = "write"
  BY <1>1 DEF FileInv, Shape
<1>3. /\ m \in Nat /\ m \in 1..Left /\ m \in 0..Left /\ cur = B(Lba(cur)) + Offset(cur)
      /\ Offset(cur) + m <= SectorSize /\ Offset(cur) \in Nat /\ SectorSize \in Nat
      /\ B(Lba(cur)) \in Nat /\ B(1) = SectorSize
  BY <1>2, Whereabouts, Geometry, Bytewise, SMTT(30) DEF FileInv
<1>4. Puts(disk, B(Lba(cur)), B(1), tmp, cur, m, Data, pos)
  BY <1>1, <1>3 DEF FileInv, Content
<1>5. Least(m, 1 * SectorSize) = m
  BY <1>3 DEF Least
<1> HIDE DEF m
<1>6. cur + m <= B(Lba(cur)) + B(1)
  BY <1>3
<1>7. Store(Lba(cur), tmp, 1) => disk' = Overlay(base, pos, Data, Moved + m)
  BY <1>2, <1>3, <1>4, <1>6, StoreOn
<1>8. CASE LbaOk(Lba(cur), 1) /\ Store(Lba(cur), tmp, 1) /\ placed' = Moved + m /\ Continue(m)
  <2>1. cur + m <= DiskBytes
    BY <1>2, <1>8, HeadOnDisk DEF m
  <2>2. PartDone(m)
    BY <1>1, <1>2, <1>3, <1>7, <1>8, <2>1 DEF PartDone
  <2>. QED
    BY <1>2, <2>2, Outcome
<1>9. CASE GiveUp /\ UNCHANGED <<disk, placed>>
  BY <1>1, <1>2, <1>9, StaysOrFails, Outcome
<1>10. CASE GiveUp /\ Store(Lba(cur), tmp, 1) /\ placed' = Moved + m
  BY <1>1, <1>2, <1>3, <1>7, <1>10, FailsAfter, Outcome
<1>11. (\E k \in 1..1 : Store(Lba(cur), tmp, k) /\ placed' = Moved + Least(m, k * SectorSize))
         => Store(Lba(cur), tmp, 1) /\ placed' = Moved + m
  <2>1. \A k \in 1..1 : k = 1
    OBVIOUS
  <2>. QED
    BY <1>5, <2>1
<1>. QED
  BY <1>1, <1>8, <1>9, <1>10, <1>11

(* The whole sectors of a write, carried out up to the k-th.               *)
LEMMA MiddlePuts ==
  ASSUME FileInv, pc = "middle", req.op = "write", NEW k \in 1..AlignedSectors,
         Store(Lba(cur), Slice(Data, Moved, AlignedSectors * SectorSize), k)
  PROVE  /\ disk' = Overlay(base, pos, Data, Moved + B(k))
         /\ B(k) \in 0..Left /\ Least(B(AlignedSectors), B(k)) = B(k)
<1> DEFINE n == B(AlignedSectors)
           g == Slice(Data, Moved, n)
<1>1. /\ pc # "idle" /\ AlignedSectors \in Nat /\ n \in 1..Left /\ cur = B(Lba(cur))
      /\ pos \in Nat /\ Moved \in Nat /\ cur = pos + Moved /\ Left \in Nat /\ cur \in Nat
  BY WholeSectors, Whereabouts DEF FileInv
<1>2. k \in Nat /\ k \in Int /\ AlignedSectors \in Int /\ k <= AlignedSectors
  BY <1>1
<1>3. B(k) <= n /\ n \in Int /\ B(k) \in Int
  BY <1>2, Bytewise
<1>4. B(k) \in Nat
  BY <1>2, Geometry DEF B
<1>5. Store(Lba(cur), g, k)
  BY DEF B
<1> HIDE DEF n
<1>6. Puts(disk, B(Lba(cur)), B(k), g, cur, B(k), Data, pos)
  <2> SUFFICES ASSUME NEW j \in 0..B(k) - 1
               PROVE  g[j] = IF cur <= B(Lba(cur)) + j /\ B(Lba(cur)) + j < cur + B(k)
                             THEN Data[(B(Lba(cur)) + j) - pos] ELSE disk[B(Lba(cur)) + j]
    BY DEF Puts
  <2>1. /\ j \in Bytes(n) /\ cur <= B(Lba(cur)) + j /\ B(Lba(cur)) + j < cur + B(k)
        /\ Moved + j = (B(Lba(cur)) + j) - pos
    BY <1>1, <1>3, <1>4 DEF Bytes
  <2>. QED
    BY <2>1 DEF Slice
<1>7. cur + B(k) <= B(Lba(cur)) + B(k)
  BY <1>1, <1>4
<1> HIDE DEF g
<1>8. disk' = Overlay(base, pos, Data, Moved + B(k))
  BY <1>1, <1>2, <1>4, <1>5, <1>6, <1>7, StoreOn
<1>. QED
  BY <1>1, <1>3, <1>4, <1>8 DEF Least, n

LEMMA MiddleRefines == ASSUME FileInv, Middle PROVE Refines
<1> DEFINE q == AlignedSectors
           n == q * SectorSize
           g == Slice(Data, Moved, n)
<1>1. /\ pc = "middle" /\ UNCHANGED <<req, base>>
      /\ \/ /\ req.op = "read" /\ LbaOk(Lba(cur), q) /\ Continue(n)
            /\ output' = Overlay(output, Moved, Slice(disk, cur, n), n)
            /\ UNCHANGED <<disk, placed>>
         \/ GiveUp /\ UNCHANGED <<disk, placed, output>>
         \/ /\ req.op = "write" /\ LbaOk(Lba(cur), q) /\ Continue(n)
            /\ Store(Lba(cur), g, q) /\ placed' = Moved + n /\ UNCHANGED output
         \/ /\ req.op = "write" /\ GiveUp /\ UNCHANGED output
            /\ \E k \in 1..q : Store(Lba(cur), g, k) /\ placed' = Moved + Least(n, k * SectorSize)
  BY DEF Middle, WriteGivesUp
<1>2. /\ pc # "idle" /\ q \in Nat \ {0} /\ n = B(q) /\ n \in 1..Left /\ cur = B(Lba(cur))
  BY <1>1, WholeSectors DEF FileInv, B
<1>3. LbaOk(Lba(cur), q) => cur + n <= DiskBytes
  BY <1>2, SectorOnDisk DEF LbaOk
<1>4. \A k : k * SectorSize = B(k)
  BY DEF B
<1>5. ASSUME NEW k \in 1..q, req.op = "write", Store(Lba(cur), g, k)
      PROVE  /\ disk' = Overlay(base, pos, Data, Moved + B(k))
             /\ B(k) \in 0..Left /\ Least(n, k * SectorSize) = B(k)
  BY <1>1, <1>2, <1>4, <1>5, MiddlePuts
<1> HIDE DEF q, n, g
<1>6. CASE /\ req.op = "read" /\ LbaOk(Lba(cur), q) /\ Continue(n)
           /\ output' = Overlay(output, Moved, Slice(disk, cur, n), n)
           /\ UNCHANGED <<disk, placed>>
  <2>1. placed = 0 /\ disk = Overlay(base, pos, Data, placed)
    BY <1>2, <1>6, WriteSoFar
  <2>2. PartDone(n)
    BY <1>1, <1>2, <1>3, <1>6, <2>1 DEF PartDone
  <2>. QED
    BY <1>2, <2>2, Outcome
<1>7. CASE GiveUp /\ UNCHANGED <<disk, placed, output>>
  BY <1>1, <1>2, <1>7, StaysOrFails, Outcome
<1>8. CASE /\ req.op = "write" /\ LbaOk(Lba(cur), q) /\ Continue(n)
           /\ Store(Lba(cur), g, q) /\ placed' = Moved + n /\ UNCHANGED output
  <2>1. q \in 1..q
    BY <1>2
  <2>2. disk' = Overlay(base, pos, Data, Moved + n)
    BY <1>2, <1>5, <1>8, <2>1
  <2>3. PartDone(n)
    BY <1>1, <1>2, <1>3, <1>8, <2>2 DEF PartDone
  <2>. QED
    BY <1>2, <2>3, Outcome
<1>9. ASSUME NEW k \in 1..q, req.op = "write", GiveUp, UNCHANGED output,
             Store(Lba(cur), g, k), placed' = Moved + Least(n, k * SectorSize)
      PROVE  Refines
  <2>1. /\ disk' = Overlay(base, pos, Data, Moved + B(k)) /\ placed' = Moved + B(k)
        /\ B(k) \in 0..Left
    BY <1>5, <1>9
  <2>. QED
    BY <1>1, <1>2, <1>9, <2>1, FailsAfter, Outcome
<1>. QED
  BY <1>1, <1>6, <1>7, <1>8, <1>9

-----------------------------------------------------------------------------
(* Requests and seeks.                                                     *)

LEMMA RequestRefines ==
  ASSUME FileInv, NEW op \in {"read", "write"}, NEW n \in 0..MaxRequest, Request(op, n)
  PROVE  Refines
<1> DEFINE r == [id |-> req.id + 1, op |-> op, len |-> n]
<1>1. /\ pc = "idle" /\ req' = r /\ base' = disk /\ placed' = 0 /\ UNCHANGED <<pos, tmp, disk>>
      /\ output' = IF op = "read" THEN Fill(Zero, n) ELSE <<>>
      /\ \/ n = 0 /\ pc' = "idle" /\ outcome' = "Ok" /\ cur' = 0
         \/ n # 0 /\ pc' = "idle" /\ outcome' = "Error" /\ cur' = 0
         \/ n # 0 /\ pc' = Part(pos, n) /\ cur' = pos /\ outcome' = "none"
  BY DEF Request, Return
<1>2. /\ n \in Nat /\ req.id \in Nat /\ req.id < MaxRequests /\ pos \in 0..DiskBytes
      /\ DiskBytes \in Nat /\ MaxRequests \in Nat
  BY Geometry DEF FileInv, TypeOK, Request
<1>3. r.id \in 0..MaxRequests /\ r.op = op /\ r.len = n /\ r.id = req.id + 1
  BY <1>2
<1>4. Bytes(0) = {}
  BY DEF Bytes
<1>5. n = 0 => output' = <<>>
  BY <1>1, <1>4 DEF Fill
<1>6. Overlay(base', pos, Data', 0) = disk
  <2>1. IsStorage(disk) /\ Bytes(DiskBytes) \subseteq Int /\ pos \in Int
    BY <1>2 DEF FileInv, Content, Bytes
  <2>. QED
    BY <1>1, <2>1, OverlayNone DEF IsStorage
<1>7. n # 0 /\ pc' = Part(pos, n) =>
        /\ pc' \in {"head", "middle", "tail"}
        /\ pc' = "middle" => Offset(pos) = 0 /\ n >= SectorSize
  BY <1>2, PartIs
<1> HIDE DEF r
<1>8. TypeOK'
  <2>1. 0 \in 0..DiskBytes /\ 0 \in 0..n
    BY <1>2
  <2>. QED
    BY <1>1, <1>2, <1>3, <1>7, <2>1 DEF FileInv, TypeOK
<1>9. cur' = pos => Moved' = 0 /\ Left' = n /\ Offset(cur)' = Offset(pos)
  BY <1>1, <1>2, <1>3 DEF Moved, Left, Offset
<1>10. Shape'
  BY <1>1, <1>2, <1>3, <1>7, <1>9 DEF Shape
<1>11. Content'
  <2>1. IsStorage(disk)'
    BY <1>1 DEF FileInv, Content, IsStorage
  <2>2. pc' # "idle" => /\ placed' = IF req'.op = "write" THEN Moved' ELSE 0
                        /\ disk' = Overlay(base', pos', Data', placed')
    BY <1>1, <1>6, <1>9
  <2>3. req'.op = "write" => output' = <<>>
    BY <1>1, <1>3
  <2>4. req'.op = "read" => IsBuffer'
    BY <1>1, <1>3 DEF IsBuffer, Fill
  <2>5. pc' # "idle" => Delivered(Moved)'
    BY <1>1, <1>4, <1>9 DEF Delivered
  <2>6. pc' # "writeback"
    BY <1>1, <1>7
  <2>. QED
    BY <2>1, <2>2, <2>3, <2>4, <2>5, <2>6 DEF Content
<1>12. [File!Next]_(File!vars)
  <2>1. CASE n = 0 /\ pc' = "idle" /\ outcome' = "Ok"
    <3>1. File!Immediate(op, n, "Ok")
      BY <1>1, <1>5, <2>1 DEF File!Immediate, r
    <3>. QED
      BY <3>1 DEF File!Next
  <2>2. CASE pc' = "idle" /\ outcome' = "Error"
    <3>1. File!Immediate(op, n, "Error")
      BY <1>1, <2>2 DEF File!Immediate, r
    <3>. QED
      BY <3>1 DEF File!Next
  <2>3. CASE n # 0 /\ pc' = Part(pos, n) /\ outcome' = "none"
    <3>1. pc' # "idle"
      BY <1>7, <2>3
    <3>2. File!Request(op, n)
      BY <1>1, <2>3, <3>1 DEF File!Request, r
    <3>. QED
      BY <3>2 DEF File!Next
  <2>. QED
    BY <1>1, <2>1, <2>2, <2>3
<1>. QED
  BY <1>8, <1>10, <1>11, <1>12 DEF Refines, FileInv

LEMMA SeekRefines ==
  ASSUME FileInv, NEW p \in 0..(DiskBytes + 1), Seek(p)
  PROVE  Refines
<1>1. /\ pc = "idle" /\ pos' = p /\ p < DiskBytes
      /\ UNCHANGED <<pc, cur, tmp, req, outcome, output, disk, base, placed>>
  BY DEF Seek
<1>2. p \in 0..DiskBytes /\ p \in Bytes(DiskBytes)
  BY <1>1, Geometry DEF Bytes
<1>3. FileInv'
  BY <1>1, <1>2 DEF FileInv, TypeOK, Shape, Content, IsStorage
<1>4. File!Seek
  BY <1>1, <1>2, SameBytes DEF File!Seek
<1>. QED
  BY <1>3, <1>4 DEF Refines, File!Next

LEMMA FileInit == Init => FileInv /\ File!Init
<1> SUFFICES ASSUME Init PROVE FileInv /\ File!Init
  OBVIOUS
<1>1. /\ pc = "idle" /\ pos = 0 /\ cur = 0 /\ req = NoRequest /\ outcome = "none" /\ output = <<>>
      /\ disk = InitialStorage(DiskBytes) /\ base = disk /\ placed = 0
  BY DEF Init
<1>2. 0 \in 0..DiskBytes /\ 0 \in 0..MaxRequests /\ 0 \in 0..MaxRequest /\ 0 \in 0..0
  BY Geometry
<1>3. IsStorage(disk) /\ DOMAIN disk = Bytes(DiskBytes)
  BY <1>1 DEF InitialStorage, CallData, IsStorage
<1>4. TypeOK
  BY <1>1, <1>2, <1>3 DEF TypeOK, NoRequest
<1>5. Content
  BY <1>1, <1>3 DEF Content, NoRequest
<1>6. File!Init
  BY <1>1, SameBytes DEF File!Init, File!NoRequest, NoRequest
<1>. QED
  BY <1>1, <1>4, <1>5, <1>6 DEF FileInv, Shape

LEMMA FileStep == FileInv /\ [Next]_vars => FileInv' /\ [File!Next]_(File!vars)
<1> SUFFICES ASSUME FileInv, [Next]_vars PROVE Refines
  BY DEF Refines
<1>1. CASE UNCHANGED vars
  <2>1. UNCHANGED <<pc, pos, cur, tmp, req, outcome, output, disk, base, placed>>
    BY <1>1 DEF vars
  <2>2. FileInv'
    BY <2>1 DEF FileInv, TypeOK, Shape, Content, IsStorage, IsBuffer, Delivered, Puts, Moved, Left,
       HeadLen, Least, Lba, Offset, Data, B
  <2>. QED
    BY <2>1, <2>2 DEF Refines, File!vars
<1>. QED
  BY <1>1, RequestRefines, ReadSectorRefines, WriteSectorRefines, MiddleRefines, SeekRefines DEF Next

(* The position of a block device never leaves the disk, and its buffers   *)
(* and counters stay in their types.                                       *)
THEOREM BlockTypes == Spec => []TypeOK
<1>1. FileInv => TypeOK
  BY DEF FileInv
<1>. QED
  BY <1>1, FileInit, FileStep, PTL DEF Spec

(* RkBlockDevice is a byte file: whatever the alignment of a read or a     *)
(* write and wherever it fails, it has done a first part of what it was    *)
(* asked, the bytes around it are as they were, and the position has moved *)
(* only if all of it is done.                                              *)
THEOREM IsAFile == Spec => FileSpec
BY FileInit, FileStep, PTL DEF Spec, FileSpec, File!Spec

=============================================================================
