-------------------------- MODULE LbaTransfer_proofs --------------------------
(***************************************************************************)
(* What write_lba, read_lba and erase_lba change, what they deliver, and   *)
(* when they may say Ok: proofs for every size of sector, chunk and        *)
(* device, any number and length of calls, and any failures.               *)
(***************************************************************************)
EXTENDS LbaTransfer, ByteStore_proofs

\* n sectors in bytes.
B(n) == n * SectorSize

\* The whole sectors of a call, and those the running call has dealt with.
WholeOf(c) == IF c.op = "erase" THEN c.len ELSE c.len \div SectorSize
Behind == next - call.pos

\* The position and the count of the code say the same, and the stage of the
\* call is the one its rest calls for.
InStep ==
  /\ pc # "idle" =>
       /\ result = "none" /\ call.op # "none"
       /\ Behind \in 0..WholeOf(call)
       /\ moved = IF call.op = "erase" THEN Behind ELSE B(Behind)
  /\ pc = "chunk" => call.op \in {"write", "read"} /\ Behind < WholeOf(call)
  /\ pc \in {"tail", "writeback"} => Behind = WholeOf(call) /\ TailLen(call) # 0
  /\ pc = "tail" => call.op \in {"write", "read"}
  /\ pc = "writeback" => call.op = "write"
  /\ pc = "erase" => call.op = "erase" /\ Behind < WholeOf(call)

-----------------------------------------------------------------------------
(* Arithmetic of sectors and bytes.                                        *)

LEMMA Sizes ==
  /\ SectorSize \in Nat \ {0} /\ MaxWriteSectors \in Nat \ {0} /\ MaxEraseSectors \in Nat \ {0}
  /\ DiskSectors \in Nat \ {0} /\ LbaLimit \in Nat \ {0} /\ MaxLen \in Nat /\ MaxCalls \in Nat
BY SizesAssumption

LEMMA BFacts ==
  ASSUME NEW a \in Int, NEW b \in Int
  PROVE  /\ B(a) \in Int /\ B(0) = 0 /\ B(1) = SectorSize
         /\ B(a + b) = B(a) + B(b) /\ B(a - b) = B(a) - B(b)
         /\ a <= b => B(a) <= B(b)
         /\ a < b => B(a) < B(b)
         /\ a \in Nat => B(a) \in Nat
<1>1. SectorSize \in Nat \ {0}
  BY Sizes
<1>2. B(a) \in Int /\ B(a + b) = B(a) + B(b) /\ B(a - b) = B(a) - B(b)
  BY <1>1, MulDistr DEF B
<1>3. B(0) = 0 /\ B(1) = SectorSize
  BY <1>1 DEF B
<1>4. a <= b => B(a) <= B(b)
  BY <1>1, MulMono DEF B
<1>5. a < b => B(a) < B(b)
  <2> SUFFICES ASSUME a + 1 <= b PROVE a * SectorSize < b * SectorSize
    BY DEF B
  <2>1. (a + 1) * SectorSize <= b * SectorSize
    BY <1>1, MulMono
  <2>2. (a + 1) * SectorSize = a * SectorSize + SectorSize
    BY <1>1, MulDistr
  <2>. QED
    BY <1>1, <2>1, <2>2, MulDistr
<1>6. a \in Nat => B(a) \in Nat
  BY <1>1 DEF B
<1>. QED
  BY <1>2, <1>3, <1>4, <1>5, <1>6

(* The lengths of a call in sectors and bytes, and its range.              *)
LEMMA CallSizes ==
  ASSUME NEW c, c.len \in Nat, c.pos \in Nat
  PROVE  /\ WholeOf(c) \in Nat /\ TargetLen(c) \in Nat
         /\ TargetLen(c) \div SectorSize = WholeOf(c)
         /\ B(WholeOf(c)) <= TargetLen(c)
         /\ c.op = "erase" =>
              /\ WholeOf(c) = c.len /\ TargetLen(c) = B(WholeOf(c))
              /\ Range(c) = c.pos..c.pos + WholeOf(c) - 1
         /\ c.op # "erase" =>
              /\ TailLen(c) \in 0..SectorSize - 1
              /\ AlignedLen(c) = B(WholeOf(c))
              /\ TargetLen(c) = c.len /\ c.len = B(WholeOf(c)) + TailLen(c)
              /\ Range(c) = c.pos..c.pos + WholeOf(c) - (IF TailLen(c) = 0 THEN 1 ELSE 0)
<1> DEFINE s == SectorSize
           q == c.len \div s
           t == c.len % s
<1>1. s \in Nat \ {0}
  BY Sizes
<1>2. q \in Nat /\ t \in 0..s - 1 /\ c.len = q * s + t
  BY <1>1, DivMod
<1>3. CASE c.op = "erase"
  <2>1. WholeOf(c) = c.len /\ TargetLen(c) = c.len * s /\ Range(c) = c.pos..(c.pos + c.len - 1)
    BY <1>3 DEF WholeOf, TargetLen, Range
  <2>2. c.len * s \in Nat
    BY <1>1
  <2>3. (c.len * s + 0) \div s = c.len
    BY <1>1, <2>2, DivExact
  <2>4. c.len * s + 0 = c.len * s
    BY <2>2
  <2>. QED
    BY <1>3, <2>1, <2>2, <2>3, <2>4 DEF B
<1>4. CASE c.op # "erase"
  <2>1. /\ WholeOf(c) = q /\ TargetLen(c) = c.len /\ TailLen(c) = t /\ AlignedLen(c) = c.len - t
        /\ Range(c) = c.pos..(c.pos + ((c.len + s - 1) \div s) - 1)
    BY <1>4 DEF WholeOf, TargetLen, TailLen, AlignedLen, Range
  <2> HIDE DEF q, t, s
  <2>2. q * s \in Nat /\ c.len - t = q * s
    BY <1>1, <1>2
  <2>3. (c.len + s - 1) \div s = IF t = 0 THEN q ELSE q + 1
    <3>1. CASE t = 0
      <4>1. c.len + s - 1 = q * s + (s - 1) /\ s - 1 \in 0..s - 1
        BY <1>1, <1>2, <2>2, <3>1
      <4>2. q * s + (s - 1) \in Nat
        BY <1>1, <2>2
      <4>3. (q * s + (s - 1)) \div s = q
        BY <1>1, <1>2, <4>1, <4>2, DivExact
      <4>. QED
        BY <3>1, <4>1, <4>3
    <3>2. CASE t # 0
      <4>1. (q + 1) * s = q * s + s
        BY <1>1, <1>2, MulDistr
      <4>2. c.len + s - 1 = (q + 1) * s + (t - 1) /\ t - 1 \in 0..s - 1
        BY <1>1, <1>2, <2>2, <3>2, <4>1
      <4>3. (q + 1) * s + (t - 1) \in Nat /\ q + 1 \in Int
        BY <1>1, <1>2, <2>2, <4>1, <4>2
      <4>4. ((q + 1) * s + (t - 1)) \div s = q + 1
        BY <1>1, <4>2, <4>3, DivExact
      <4>. QED
        BY <3>2, <4>2, <4>4
    <3>. QED
      BY <3>1, <3>2
  <2>4. Range(c) = c.pos..c.pos + q - (IF t = 0 THEN 1 ELSE 0)
    <3>1. CASE t = 0
      BY <1>2, <2>1, <2>3, <3>1
    <3>2. CASE t # 0
      <4>1. c.pos + (q + 1) - 1 = c.pos + q - 0
        BY <1>2
      <4>. QED
        BY <2>1, <2>3, <3>2, <4>1
    <3>. QED
      BY <3>1, <3>2
  <2>5. c.len \div s = q /\ c.len = q * s + t /\ q * s <= c.len
    BY <1>2, <2>2 DEF q
  <2>. QED
    BY <1>2, <1>4, <2>1, <2>2, <2>4, <2>5 DEF B, s
<1>. QED
  BY <1>3, <1>4

-----------------------------------------------------------------------------
(* Types, and the position within the call.                                *)

LEMMA Typed ==
  ASSUME TypeOK
  PROVE  /\ call.len \in Nat /\ call.pos \in Nat /\ next \in Nat
         /\ Behind \in Int /\ next = call.pos + Behind
         /\ DOMAIN disk = Disk /\ Disk \subseteq Nat /\ Disk \subseteq Int
BY Sizes DEF TypeOK, Behind, Disk, Bytes

\* The sectors a chunk of the running call may have: none is beyond its end.
Chunks == 1..WholeOf(call) - Behind

LEMMA ChunkIsWithin ==
  ASSUME TypeOK, InStep, pc = "chunk"
  PROVE  /\ ChunkSectors \in Chunks /\ moved + ChunkSectors * SectorSize = B(Behind + ChunkSectors)
         /\ moved = B(Behind)
         /\ AfterChunks(call, B(Behind + ChunkSectors)) =
              IF Behind + ChunkSectors < WholeOf(call) THEN "chunk"
              ELSE IF TailLen(call) # 0 THEN "tail" ELSE "return"
<1> DEFINE q == WholeOf(call)
           n == ChunkSectors
<1>1. /\ call.op # "erase" /\ Behind \in Nat /\ q \in Nat /\ Behind < q
      /\ AlignedLen(call) = B(q) /\ moved = B(Behind)
  BY Typed, CallSizes DEF InStep
<1>2. (AlignedLen(call) - moved) \div SectorSize = q - Behind
  <2> HIDE DEF q, n
  <2>1. B(q - Behind) = B(q) - B(Behind) /\ B(q - Behind) \in Nat /\ q - Behind \in Int
    BY <1>1, BFacts
  <2>2. B(q - Behind) \div SectorSize = q - Behind
    <3>1. 0 \in 0..SectorSize - 1 /\ SectorSize \in Nat \ {0}
      BY Sizes
    <3>2. (q - Behind) * SectorSize + 0 = B(q - Behind)
      BY <2>1 DEF B
    <3>3. ((q - Behind) * SectorSize + 0) \div SectorSize = q - Behind
      BY <2>1, <3>1, <3>2, DivExact
    <3>. QED
      BY <3>2, <3>3
  <2>. QED
    BY <1>1, <2>1, <2>2
<1>3. n \in Chunks
  BY <1>1, <1>2, Sizes DEF ChunkSectors, Least, Chunks
<1>4. n \in Int /\ Behind + n <= q
  BY <1>1, <1>3 DEF Chunks
<1> HIDE DEF n, q
<1>5. B(Behind + n) = moved + B(n)
  BY <1>1, <1>4, BFacts
<1>6. B(Behind + n) < B(q) <=> Behind + n < q
  <2>1. Behind + n < q => B(Behind + n) < B(q)
    BY <1>1, <1>4, BFacts
  <2>2. ~(Behind + n < q) => B(Behind + n) = B(q)
    <3>1. ~(Behind + n < q) => Behind + n = q
      BY <1>1, <1>4
    <3>. QED
      BY <3>1
  <2>3. B(q) \in Int
    BY <1>1, BFacts
  <2>. QED
    BY <2>1, <2>2, <2>3
<1>. QED
  BY <1>1, <1>3, <1>5, <1>6 DEF AfterChunks, B, n, q

LEMMA EraseIsWithin ==
  ASSUME TypeOK, InStep, pc = "erase"
  PROVE  LET n == Least(call.len - moved, MaxEraseSectors)
         IN  /\ n \in Chunks /\ moved + n = Behind + n /\ moved = Behind
             /\ moved + n = call.len <=> Behind + n = WholeOf(call)
<1>1. /\ call.op = "erase" /\ Behind \in Nat /\ Behind < call.len /\ moved = Behind
      /\ WholeOf(call) = call.len /\ call.len \in Nat
  BY Typed, CallSizes DEF InStep
<1>. QED
  BY <1>1, Sizes DEF Least, Chunks

(* How a command that fails can end.                                       *)
LEMMA WriteFailsHow ==
  ASSUME NEW m, WriteFails(m)
  PROVE  /\ pc' = "idle" /\ result' \in {"Usb", "CommandFailed"} /\ UNCHANGED <<next, moved>>
         /\ \/ UNCHANGED <<disk, pending, dirty>>
            \/ /\ ~dirty /\ UNCHANGED <<pending, dirty>>
               /\ \E k \in 0..m.count : Fits(m.pos, k) /\ disk' = Applied(disk, m, k)
            \/ disk' = disk /\ pending' = pending \o <<m>> /\ dirty' = TRUE
BY DEF WriteFails, NotSent, Refused, Abandoned, Return, session

LEMMA ReadFailsHow ==
  ASSUME ReadFails
  PROVE  /\ pc' = "idle" /\ result' \in {"Usb", "CommandFailed"} /\ UNCHANGED <<next, moved, disk>>
         /\ \/ UNCHANGED <<pending, dirty>>
            \/ pending' = pending \o <<>> /\ dirty' = TRUE
BY DEF ReadFails, NotSent, Abandoned, Return, session

LEMMA AppliedDomain == \A d, m, k : DOMAIN Applied(d, m, k) = DOMAIN d
BY DEF Applied, Overlay

(* A call that has failed is at no step.                                   *)
LEMMA FailShape ==
  ASSUME TypeOK, UNCHANGED <<call, asked>>, DOMAIN sector' = DOMAIN sector,
         (\E m : WriteFails(m)) \/ ReadFails
  PROVE  TypeOK' /\ InStep'
<1>1. /\ pc' = "idle" /\ result' \in {"Usb", "CommandFailed"} /\ UNCHANGED <<next, moved>>
      /\ DOMAIN disk' = DOMAIN disk /\ dirty' \in BOOLEAN
  <2>1. ASSUME NEW m, WriteFails(m)
        PROVE  DOMAIN disk' = DOMAIN disk /\ dirty' \in BOOLEAN
    BY <2>1, WriteFailsHow, AppliedDomain, ZenonT(30) DEF TypeOK
  <2>. QED
    BY <2>1, WriteFailsHow, ReadFailsHow DEF TypeOK
<1>2. TypeOK'
  BY <1>1 DEF TypeOK, Results
<1>. QED
  BY <1>1, <1>2 DEF InStep

\* A stage is the one that the rest of the call asks for after n sectors.
Suits(stage, n) ==
  /\ stage \in {"return", "chunk", "tail", "erase"}
  /\ stage = "chunk" => call.op \in {"write", "read"} /\ n < WholeOf(call)
  /\ stage = "tail" =>
       call.op \in {"write", "read"} /\ n = WholeOf(call) /\ TailLen(call) # 0
  /\ stage = "erase" => call.op = "erase" /\ n < WholeOf(call)

\* What the code counts when n sectors of the call are dealt with.
Count(n) == IF call.op = "erase" THEN n ELSE B(n)

LEMMA AdvanceShape ==
  ASSUME TypeOK, InStep, pc # "idle", UNCHANGED <<call, asked, sector, dirty>>,
         DOMAIN disk' = DOMAIN disk,
         NEW n \in Chunks, NEW stage, Suits(stage, Behind + n),
         Advance(n, Count(Behind + n), stage)
  PROVE  TypeOK' /\ InStep'
<1>1. /\ Behind \in 0..WholeOf(call) /\ WholeOf(call) \in Nat /\ call.len \in Nat
      /\ n \in Nat /\ Behind + n \in 0..WholeOf(call)
      /\ next = call.pos + Behind /\ next \in Nat /\ result = "none"
  BY Typed, CallSizes DEF InStep, Chunks
<1>2. Count(Behind + n) \in 0..call.len
  <2>1. CASE call.op = "erase"
    BY <1>1, <2>1, Typed, CallSizes DEF Count
  <2>2. CASE call.op # "erase"
    <3>1. B(Behind + n) \in Nat /\ B(Behind + n) <= B(WholeOf(call)) /\ B(WholeOf(call)) \in Nat
      <4>1. /\ Behind + n \in Int /\ WholeOf(call) \in Int /\ Behind + n <= WholeOf(call)
            /\ Behind + n \in Nat
        BY <1>1
      <4>. QED
        BY <1>1, <4>1, BFacts
    <3>2. B(WholeOf(call)) <= call.len
      BY <2>2, Typed, CallSizes
    <3>. QED
      BY <1>1, <2>2, <3>1, <3>2 DEF Count
  <2>. QED
    BY <2>1, <2>2
<1>3. CASE next + n >= LbaLimit
  <2>1. pc' = "idle" /\ result' = "LbaOverflow" /\ UNCHANGED <<next, moved>>
    BY <1>3 DEF Advance, Return
  <2>. QED
    BY <2>1 DEF TypeOK, InStep, Results
<1>4. CASE ~(next + n >= LbaLimit)
  <2>1. next' = next + n /\ moved' = Count(Behind + n) /\ Goto(stage)
    BY <1>4 DEF Advance
  <2>2. next' \in 0..LbaLimit - 1 /\ moved' \in 0..call.len
    BY <1>1, <1>2, <1>4, <2>1, Sizes
  <2>3. Behind' = Behind + n
    BY <1>1, <2>1, Typed DEF Behind
  <2>4. \/ pc' = "idle" /\ result' = "Ok"
        \/ pc' = stage /\ stage # "return" /\ result' = result
    BY <2>1 DEF Goto, Return
  <2>5. pc' \in {"idle", "chunk", "tail", "erase"} /\ result' \in Results
    BY <2>4 DEF Suits, TypeOK, Results
  <2>6. TypeOK'
    BY <2>2, <2>5 DEF TypeOK
  <2>7. InStep'
    <3>1. WholeOf(call)' = WholeOf(call) /\ TailLen(call)' = TailLen(call)
      OBVIOUS
    <3>2. pc # "idle" => call.op # "none"
      BY DEF InStep
    <3>. QED
      BY <1>1, <2>1, <2>3, <2>4, <2>5, <3>1, <3>2 DEF InStep, Suits, Count, B
  <2>. QED
    BY <2>6, <2>7
<1>. QED
  BY <1>3, <1>4

(* What a call or a session that begins does to the session: it may come   *)
(* back in step, but only when nothing is pending any more.                *)
LEMMA Resumed ==
  ASSUME Resume
  PROVE  /\ pending' = pending
         /\ dirty \in BOOLEAN => dirty' \in BOOLEAN
         /\ ~dirty' => ~dirty \/ pending = <<>>
BY DEF Resume

(* A new call is at its first sector, at the stage its length asks for.    *)
LEMMA CallShape ==
  ASSUME TypeOK, NEW op \in {"write", "read", "erase"}, NEW pos \in 0..(LbaLimit - 1),
         NEW len \in 0..MaxLen, Call(op, pos, len)
  PROVE  TypeOK' /\ InStep'
<1> DEFINE c == [id |-> call.id + 1, op |-> op, pos |-> pos, len |-> len]
<1>1. /\ pos \in Nat /\ len \in Nat /\ pos \in 0..LbaLimit - 1
      /\ call.id \in 0..MaxCalls /\ call.id < MaxCalls
  BY Sizes DEF Call, TypeOK
<1>2. /\ call' = c /\ next' = pos /\ moved' = 0 /\ sector' = Fill(Zero, SectorSize)
      /\ disk' = disk /\ dirty' \in BOOLEAN
      /\ asked' = IF op = "read" THEN asked ELSE asked \cup Range(c)
      /\ \/ len = 0 /\ pc' = "idle" /\ result' = "Ok"
         \/ /\ len # 0 /\ result' = "none"
            /\ pc' = IF op = "erase" THEN "erase" ELSE AfterChunks(c, 0)
  BY Resumed DEF Call, Return, TypeOK
<1>3. c.id = call.id + 1 /\ c.op = op /\ c.pos = pos /\ c.len = len
  OBVIOUS
<1> HIDE DEF c
<1>4. /\ WholeOf(c) \in Nat /\ Range(c) \subseteq Nat
      /\ op = "erase" => WholeOf(c) = len
      /\ op # "erase" => /\ AlignedLen(c) = B(WholeOf(c)) /\ len = B(WholeOf(c)) + TailLen(c)
                         /\ TailLen(c) \in Nat
  <2>1. \A h \in Int : pos..h \subseteq Nat
    BY <1>1
  <2>2. WholeOf(c) \in Nat
    BY <1>1, <1>3, CallSizes
  <2>3. CASE op = "erase"
    <3>1. WholeOf(c) = len /\ Range(c) = pos..pos + WholeOf(c) - 1
      BY <1>1, <1>3, <2>3, CallSizes
    <3>2. pos + WholeOf(c) - 1 \in Int
      BY <1>1, <2>2
    <3>. QED
      BY <2>1, <2>2, <2>3, <3>1, <3>2
  <2>4. CASE op # "erase"
    <3>1. /\ TailLen(c) \in 0..SectorSize - 1
          /\ AlignedLen(c) = B(WholeOf(c)) /\ len = B(WholeOf(c)) + TailLen(c)
          /\ Range(c) = pos..pos + WholeOf(c) - (IF TailLen(c) = 0 THEN 1 ELSE 0)
      BY <1>1, <1>3, <2>4, CallSizes
    <3>2. pos + WholeOf(c) - (IF TailLen(c) = 0 THEN 1 ELSE 0) \in Int
      BY <1>1, <2>2
    <3>. QED
      BY <2>1, <2>2, <2>4, <3>1, <3>2, Sizes
  <2>. QED
    BY <2>3, <2>4
<1>5. Behind' = 0
  BY <1>1, <1>2, <1>3 DEF Behind
<1>6. \/ pc' = "idle"
      \/ pc' = "erase" /\ op = "erase" /\ WholeOf(c) > 0
      \/ pc' = "chunk" /\ op # "erase" /\ WholeOf(c) > 0
      \/ pc' = "tail" /\ op # "erase" /\ WholeOf(c) = 0 /\ TailLen(c) # 0
  <2>1. CASE op = "erase"
    BY <1>1, <1>2, <1>4, <2>1
  <2>2. CASE op # "erase" /\ len # 0
    <3>1. B(0) = 0 /\ (WholeOf(c) > 0 => B(WholeOf(c)) > 0)
      BY <1>4, BFacts, SMTT(30)
    <3>2. 0 < AlignedLen(c) <=> WholeOf(c) > 0
      BY <1>4, <2>2, <3>1
    <3>3. WholeOf(c) = 0 => TailLen(c) # 0
      BY <1>4, <2>2, <3>1
    <3>. QED
      BY <1>2, <1>4, <2>2, <3>2, <3>3 DEF AfterChunks
  <2>. QED
    BY <1>2, <2>1, <2>2
<1>7. TypeOK'
  <2>1. call'.id \in 0..MaxCalls /\ call'.pos \in 0..LbaLimit - 1 /\ call'.len \in 0..MaxLen
    BY <1>1, <1>2, <1>3, Sizes
  <2>2. moved' \in 0..call'.len
    BY <1>1, <1>2, <1>3
  <2>3. DOMAIN sector' = Bytes(SectorSize)
    BY <1>2 DEF Fill
  <2>4. asked' \subseteq Nat
    BY <1>2, <1>4 DEF TypeOK
  <2>5. result' \in Results /\ pc' \in {"idle", "chunk", "tail", "writeback", "erase"}
    BY <1>2, <1>6 DEF Results
  <2>. QED
    BY <1>1, <1>2, <1>3, <2>1, <2>2, <2>3, <2>4, <2>5 DEF TypeOK
<1>8. InStep'
  <2>1. 0 \in 0..WholeOf(c) /\ B(0) = 0
    BY <1>4, BFacts
  <2>2. op # "none"
    OBVIOUS
  <2>3. WholeOf(call)' = WholeOf(c) /\ TailLen(call)' = TailLen(c)
    BY <1>2
  <2>. QED
    BY <1>2, <1>3, <1>4, <1>5, <1>6, <2>1, <2>2, <2>3 DEF InStep, B
<1>. QED
  BY <1>7, <1>8

LEMMA WriteChunkShape == ASSUME TypeOK, InStep, WriteChunk PROVE TypeOK' /\ InStep'
<1> DEFINE n == ChunkSectors
<1>1. /\ pc = "chunk" /\ call.op = "write" /\ UNCHANGED <<call, sector, asked>>
      /\ \/ /\ disk' = Applied(disk, Cmd("write", next, Slice(Data(call), moved, n * SectorSize), n), n)
            /\ Advance(n, moved + n * SectorSize, AfterChunks(call, moved + n * SectorSize))
            /\ dirty' = dirty
         \/ \E m : WriteFails(m)
  BY DEF WriteChunk, history, session
<1>2. /\ n \in Chunks /\ moved + n * SectorSize = Count(Behind + n)
      /\ AfterChunks(call, B(Behind + n)) =
           (IF Behind + n < WholeOf(call) THEN "chunk"
            ELSE IF TailLen(call) # 0 THEN "tail" ELSE "return")
      /\ Count(Behind + n) = B(Behind + n)
  BY <1>1, ChunkIsWithin DEF Count
<1> HIDE DEF n
<1>3. Suits(AfterChunks(call, B(Behind + n)), Behind + n)
  <2>1. Behind + n \in Int /\ WholeOf(call) \in Int /\ Behind + n <= WholeOf(call)
    BY <1>1, <1>2, Typed, CallSizes DEF Chunks, InStep
  <2>. QED
    BY <1>1, <1>2, <2>1 DEF Suits
<1>. QED
  BY <1>1, <1>2, <1>3, AdvanceShape, FailShape, AppliedDomain

LEMMA ReadChunkShape == ASSUME TypeOK, InStep, ReadChunk PROVE TypeOK' /\ InStep'
<1> DEFINE n == ChunkSectors
<1>1. /\ pc = "chunk" /\ call.op = "read" /\ UNCHANGED <<call, sector, asked>>
      /\ \/ /\ disk' = disk
            /\ Advance(n, moved + n * SectorSize, AfterChunks(call, moved + n * SectorSize))
            /\ dirty' = dirty
         \/ ReadFails
  BY DEF ReadChunk, history, session
<1>2. /\ n \in Chunks /\ moved + n * SectorSize = Count(Behind + n)
      /\ AfterChunks(call, B(Behind + n)) =
           (IF Behind + n < WholeOf(call) THEN "chunk"
            ELSE IF TailLen(call) # 0 THEN "tail" ELSE "return")
      /\ Count(Behind + n) = B(Behind + n)
  BY <1>1, ChunkIsWithin DEF Count
<1> HIDE DEF n
<1>3. Suits(AfterChunks(call, B(Behind + n)), Behind + n)
  <2>1. Behind + n \in Int /\ WholeOf(call) \in Int /\ Behind + n <= WholeOf(call)
    BY <1>1, <1>2, Typed, CallSizes DEF Chunks, InStep
  <2>. QED
    BY <1>1, <1>2, <2>1 DEF Suits
<1>. QED
  BY <1>1, <1>2, <1>3, AdvanceShape, FailShape

LEMMA EraseChunkShape == ASSUME TypeOK, InStep, EraseChunk PROVE TypeOK' /\ InStep'
<1> DEFINE n == Least(call.len - moved, MaxEraseSectors)
           stage == IF moved + n = call.len THEN "return" ELSE "erase"
<1>1. /\ pc = "erase" /\ UNCHANGED <<call, sector, asked>>
      /\ \/ /\ disk' = Applied(disk, Cmd("erase", next, Fill(Blank, n * SectorSize), n), n)
            /\ Advance(n, moved + n, stage)
            /\ dirty' = dirty
         \/ \E m : WriteFails(m)
  BY DEF EraseChunk, history, session
<1>2. /\ n \in Chunks /\ moved + n = Count(Behind + n) /\ call.op = "erase"
      /\ moved + n = call.len <=> Behind + n = WholeOf(call)
  BY <1>1, EraseIsWithin DEF Count, InStep
<1>3. Suits(stage, Behind + n)
  <2> HIDE DEF n
  <2>1. Behind + n \in Int /\ WholeOf(call) \in Int /\ Behind + n <= WholeOf(call)
    BY <1>1, <1>2, Typed, CallSizes DEF Chunks, InStep
  <2>. QED
    BY <1>2, <2>1 DEF Suits
<1> HIDE DEF n, stage
<1>. QED
  BY <1>1, <1>2, <1>3, AdvanceShape, FailShape, AppliedDomain

(* The partial sector is the last step of a call, and its position stays.  *)
LEMMA TailShape == ASSUME TypeOK, InStep, ReadTail \/ WriteTail PROVE TypeOK' /\ InStep'
<1>1. CASE ReadFails \/ \E m : WriteFails(m)
  <2>1. UNCHANGED <<call, asked>> /\ (ReadFails \/ \E m : WriteFails(m))
    BY <1>1 DEF ReadTail, WriteTail, history
  <2>2. CASE DOMAIN sector' = DOMAIN sector
    BY <2>1, <2>2, FailShape
  <2>3. DOMAIN sector' = DOMAIN sector
    BY DEF ReadTail, WriteTail, TypeOK, Overlay, Slice
  <2>. QED
    BY <2>2, <2>3
<1>2. CASE ReadTail /\ ~ReadFails
  <2>1. /\ pc = "tail" /\ UNCHANGED <<call, next, moved, disk, dirty, asked>>
        /\ \/ pc' = "idle" /\ result' = "Ok" /\ call.op = "read"
           \/ pc' = "writeback" /\ result' = result /\ call.op # "read"
        /\ DOMAIN sector' = Bytes(SectorSize)
    BY <1>2 DEF ReadTail, Return, session, history, TypeOK, Overlay, Slice
  <2>2. TypeOK'
    BY <2>1 DEF TypeOK, Results
  <2>3. InStep'
    BY <2>1 DEF InStep, Behind
  <2>. QED
    BY <2>2, <2>3
<1>3. CASE WriteTail /\ ~(\E m : WriteFails(m))
  <2>1. /\ UNCHANGED <<call, next, moved, dirty, asked, sector>> /\ pc' = "idle" /\ result' = "Ok"
        /\ DOMAIN disk' = DOMAIN disk
    BY <1>3, AppliedDomain DEF WriteTail, Return, session, history
  <2>. QED
    BY <2>1 DEF TypeOK, InStep, Results
<1>. QED
  BY <1>1, <1>2, <1>3

LEMMA OpenShape == ASSUME TypeOK, Open PROVE TypeOK' /\ InStep'
<1>1. /\ pc' = "idle" /\ call' = [NoCall EXCEPT !.id = call.id] /\ next' = 0 /\ moved' = 0
      /\ sector' = Fill(Zero, SectorSize) /\ result' = "none" /\ dirty' \in BOOLEAN
      /\ UNCHANGED <<disk, asked>>
  BY Resumed DEF Open, TypeOK
<1>2. call'.id = call.id /\ call'.op = "none" /\ call'.pos = 0 /\ call'.len = 0
  BY <1>1 DEF NoCall
<1>3. 0 \in 0..LbaLimit - 1 /\ 0 \in 0..MaxLen /\ 0 \in 0..0
  BY Sizes
<1>4. TypeOK'
  BY <1>1, <1>2, <1>3 DEF TypeOK, Results, Fill
<1>. QED
  BY <1>1, <1>4 DEF InStep

LEMMA LateShape == ASSUME TypeOK, InStep, Late PROVE TypeOK' /\ InStep'
<1>1. /\ UNCHANGED <<pc, call, next, moved, sector, result, dirty, asked>>
      /\ DOMAIN disk' = DOMAIN disk
  BY DEF Late, history, Applied, Overlay
<1>. QED
  BY <1>1 DEF TypeOK, InStep, Behind

LEMMA ShapeInit == Init => TypeOK /\ InStep
<1> SUFFICES ASSUME Init PROVE TypeOK /\ InStep
  OBVIOUS
<1>1. /\ pc = "idle" /\ call = NoCall /\ result = "none" /\ next = 0 /\ moved = 0
      /\ sector = Fill(Zero, SectorSize) /\ disk = Initial /\ dirty = FALSE /\ asked = {}
  BY DEF Init
<1>2. 0 \in 0..LbaLimit - 1 /\ 0 \in 0..MaxLen /\ 0 \in 0..MaxCalls /\ 0 \in 0..0
  BY Sizes
<1>3. DOMAIN disk = Disk
  BY <1>1 DEF Initial, InitialStorage, CallData, Disk
<1>4. TypeOK
  BY <1>1, <1>2, <1>3 DEF TypeOK, NoCall, Results, Fill
<1>. QED
  BY <1>1, <1>4 DEF InStep

(* Erases come in sectors, so a legal erase is a legal length in bytes.    *)
LEMMA EraseLength == \A len \in 0..(MaxLen \div SectorSize) : len \in 0..MaxLen
<1>1. /\ MaxLen \div SectorSize \in Nat
      /\ MaxLen = (MaxLen \div SectorSize) * SectorSize + (MaxLen % SectorSize)
      /\ MaxLen % SectorSize \in Nat
  BY Sizes, DivMod
<1>2. \A q, s, r, n \in Nat : s > 0 /\ n = q * s + r => q <= n
  OBVIOUS
<1>. QED
  BY <1>1, <1>2, Sizes

LEMMA ShapeStep == ASSUME TypeOK, InStep, [Next]_vars PROVE TypeOK' /\ InStep'
<1>1. ASSUME NEW op \in {"write", "read"}, NEW pos \in 0..(LbaLimit - 1), NEW len \in 0..MaxLen,
             Call(op, pos, len)
      PROVE  TypeOK' /\ InStep'
  BY <1>1, CallShape
<1>2. ASSUME NEW pos \in 0..(LbaLimit - 1), NEW len \in 0..(MaxLen \div SectorSize),
             Call("erase", pos, len)
      PROVE  TypeOK' /\ InStep'
  BY <1>2, EraseLength, CallShape
<1>3. CASE UNCHANGED vars
  BY <1>3 DEF vars, TypeOK, InStep, Behind
<1>. QED
  BY <1>1, <1>2, <1>3, WriteChunkShape, ReadChunkShape, EraseChunkShape, TailShape, OpenShape,
     LateShape DEF Next, Step

(* The loops of write_lba, read_lba and erase_lba never take a sector      *)
(* number out of its 32 bits, nor the position out of the call.            *)
THEOREM TypeCorrect == Spec => []TypeOK
BY ShapeInit, ShapeStep, PTL DEF Spec

-----------------------------------------------------------------------------
(* Nothing is pending unless the session is out of step, and a call that   *)
(* has sent commands and said Ok has left it in step.                      *)

Clean ==
  /\ ~dirty => pending = <<>>
  /\ result = "Ok" /\ call.len > 0 => ~dirty

LEMMA CleanInit == Init => Clean
BY DEF Init, Clean

LEMMA CleanStep == ASSUME Clean, [Next]_vars PROVE Clean'
<1>1. ASSUME NEW op, NEW pos, NEW len, Call(op, pos, len)
      PROVE  Clean'
  <2>1. Resume /\ call'.len = len /\ (len # 0 => result' = "none")
    BY <1>1 DEF Call
  <2>2. (~dirty => pending = <<>>)'
    BY <2>1, Resumed DEF Clean
  <2>3. (result = "Ok" /\ call.len > 0 => ~dirty)'
    BY <2>1
  <2>. QED
    BY <2>2, <2>3 DEF Clean
<1>2. CASE ReadFails \/ \E m : WriteFails(m)
  <2>1. result' # "Ok" /\ (UNCHANGED <<dirty, pending>> \/ dirty' = TRUE)
    BY <1>2, ReadFailsHow, WriteFailsHow
  <2>. QED
    BY <2>1 DEF Clean
<1>3. CASE Step /\ ~(ReadFails \/ \E m : WriteFails(m))
  <2>1. ~dirty /\ UNCHANGED <<dirty, pending>>
    BY <1>3 DEF Step, WriteChunk, ReadChunk, ReadTail, WriteTail, EraseChunk, Succeeds, session
  <2>. QED
    BY <2>1 DEF Clean
<1>4. CASE Open
  <2>1. (pending' = <<>> \/ Resume) /\ result' = "none"
    BY <1>4 DEF Open
  <2>. QED
    BY <2>1, Resumed DEF Clean
<1>5. CASE Late
  <2>1. dirty /\ UNCHANGED <<dirty, result, call>>
    BY <1>5 DEF Late, Clean
  <2>. QED
    BY <2>1 DEF Clean
<1>6. CASE UNCHANGED vars
  BY <1>6 DEF vars, Clean
<1>. QED
  BY <1>1, <1>2, <1>3, <1>4, <1>5, <1>6 DEF Next

-----------------------------------------------------------------------------
(* What may change.                                                        *)

Elements(s) == {s[i] : i \in DOMAIN s}
Sectors(m) == m.pos..m.pos + m.count - 1

\* Whatever is in the pipes was asked for, as is the rest of the call.
AskedInv ==
  /\ call.op \in {"write", "erase"} => Range(call) \subseteq asked
  /\ pending \in Seq(Elements(pending))
  /\ \A i \in DOMAIN pending :
       /\ pending[i].pos \in Nat /\ pending[i].count \in Nat
       /\ Sectors(pending[i]) \subseteq asked
  /\ OnlyAskedSectors

LEMMA SeqOfElements ==
  ASSUME NEW S, NEW s \in Seq(S)
  PROVE  s \in Seq(Elements(s))
<1>1. s = [i \in 1..Len(s) |-> s[i]] /\ Len(s) \in Nat /\ DOMAIN s = 1..Len(s)
  OBVIOUS
<1>2. \A i \in 1..Len(s) : s[i] \in Elements(s)
  BY <1>1 DEF Elements
<1>. QED
  BY <1>1, <1>2

(* A write of k sectors changes bytes of these sectors only.               *)
LEMMA OverlayAsked ==
  ASSUME DOMAIN disk = Disk, OnlyAskedSectors, NEW p \in Nat, NEW k \in Nat, NEW f,
         p..p + k - 1 \subseteq asked, UNCHANGED asked,
         disk' = Overlay(disk, p * SectorSize, f, k * SectorSize)
  PROVE  OnlyAskedSectors'
<1>1. /\ B(p) \in Nat /\ B(k) \in Nat /\ B(p + k) = B(p) + B(k)
      /\ disk' = Overlay(disk, B(p), f, B(k))
  BY BFacts DEF B
<1>2. Disk \subseteq Nat /\ DOMAIN disk \subseteq Int
  BY Sizes DEF Disk, Bytes
<1>3. SUFFICES ASSUME NEW b \in Disk, disk'[b] # Initial[b]
               PROVE  b \div SectorSize \in asked
  BY DEF OnlyAskedSectors, Disk, Initial
<1>4. CASE B(p) <= b /\ b < B(p) + B(k)
  <2>1. p * SectorSize <= b /\ b < (p + k) * SectorSize /\ b \in Nat
    BY <1>1, <1>2, <1>4 DEF B
  <2>2. b \div SectorSize \in p..(p + k) - 1
    BY <2>1, Sizes, DivBetween
  <2>. QED
    BY <2>2
<1>5. CASE ~(B(p) <= b /\ b < B(p) + B(k))
  <2>1. disk'[b] = disk[b]
    <3>1. B(p) \in Int /\ B(k) \in Int /\ b \in DOMAIN disk
      BY <1>1
    <3>2. Overlay(disk, B(p), f, B(k))[b] =
            IF B(p) <= b /\ b < B(p) + B(k) THEN f[b - B(p)] ELSE disk[b]
      BY <1>2, <3>1, OverlayShape
    <3>. QED
      BY <1>1, <1>5, <3>2
  <2>. QED
    BY <1>3, <2>1 DEF OnlyAskedSectors
<1>. QED
  BY <1>4, <1>5

(* A command that asks for nothing new, carried out, refused half-way or   *)
(* left in the pipes.                                                      *)
LEMMA CommandAsked ==
  ASSUME TypeOK, AskedInv, UNCHANGED <<call, asked>>,
         NEW m, m.pos \in Nat, m.count \in Nat, Sectors(m) \subseteq asked,
         \/ disk' = Applied(disk, m, m.count) /\ pending' = pending
         \/ WriteFails(m)
  PROVE  AskedInv'
<1>1. \/ UNCHANGED <<disk, pending>>
      \/ pending' = pending /\ \E k \in 0..m.count : disk' = Applied(disk, m, k)
      \/ disk' = disk /\ pending' = pending \o <<m>>
  <2>1. m.count \in 0..m.count
    OBVIOUS
  <2>. QED
    BY <2>1, WriteFailsHow
<1>2. call.op \in {"write", "erase"} => Range(call) \subseteq asked
  BY DEF AskedInv
<1>3. OnlyAskedSectors'
  <2>1. ASSUME NEW k \in 0..m.count, disk' = Applied(disk, m, k)
        PROVE  OnlyAskedSectors'
    <3>1. k \in Nat /\ m.pos..m.pos + k - 1 \subseteq asked
      BY DEF Sectors
    <3>. QED
      BY <2>1, <3>1, OverlayAsked DEF Applied, AskedInv, TypeOK
  <2>2. CASE disk' = disk
    BY <2>2 DEF AskedInv, OnlyAskedSectors
  <2>. QED
    BY <1>1, <2>1, <2>2
<1>4. CASE pending' = pending
  BY <1>2, <1>3, <1>4 DEF AskedInv, Sectors, Elements
<1>5. CASE pending' = pending \o <<m>>
  <2>1. /\ pending \in Seq(Elements(pending) \cup {m}) /\ <<m>> \in Seq(Elements(pending) \cup {m})
        /\ pending \in Seq(Elements(pending))
    BY DEF AskedInv
  <2>2. pending' \in Seq(Elements(pending) \cup {m})
    BY <1>5, <2>1
  <2>3. pending' \in Seq(Elements(pending'))
    BY <2>2, SeqOfElements
  <2>4. \A i \in DOMAIN pending' :
          (i \in DOMAIN pending /\ pending'[i] = pending[i]) \/ pending'[i] = m
    BY <1>5, <2>1
  <2>5. \A i \in DOMAIN pending' :
          /\ pending'[i].pos \in Nat /\ pending'[i].count \in Nat
          /\ Sectors(pending'[i]) \subseteq asked
    BY <2>4 DEF AskedInv
  <2>. QED
    BY <1>2, <1>3, <2>3, <2>5 DEF AskedInv, Sectors, Elements
<1>. QED
  BY <1>1, <1>4, <1>5

(* The sectors of a chunk, and the partial sector, are in the range.       *)
LEMMA ChunkInRange ==
  ASSUME TypeOK, InStep, pc # "idle", NEW n \in Chunks
  PROVE  next..next + n - 1 \subseteq Range(call)
<1>1. /\ Behind \in Nat /\ WholeOf(call) \in Nat /\ call.pos \in Nat /\ next = call.pos + Behind
      /\ Range(call) = call.pos..call.pos + WholeOf(call) - 1
           \/ Range(call) = call.pos..call.pos + WholeOf(call) - 0
  BY Typed, CallSizes DEF InStep
<1>. QED
  BY <1>1, SMTT(30) DEF Chunks

LEMMA TailInRange ==
  ASSUME TypeOK, InStep, pc = "writeback"
  PROVE  next \in Range(call)
<1>1. /\ WholeOf(call) \in Nat /\ call.pos \in Nat /\ next = call.pos + WholeOf(call)
      /\ call.op = "write" /\ TailLen(call) # 0
  BY Typed, CallSizes DEF InStep
<1>2. Range(call) = call.pos..call.pos + WholeOf(call) - 0
  BY <1>1, Typed, CallSizes
<1>. QED
  BY <1>1, <1>2

LEMMA AskedInit == Init => AskedInv
<1> SUFFICES ASSUME Init PROVE AskedInv
  OBVIOUS
<1>1. call = NoCall /\ disk = Initial /\ pending = <<>>
  BY DEF Init
<1>2. call.op = "none"
  BY <1>1 DEF NoCall
<1>. QED
  BY <1>1, <1>2 DEF AskedInv, OnlyAskedSectors

LEMMA WriteAsked ==
  ASSUME TypeOK, InStep, AskedInv, WriteChunk \/ EraseChunk \/ WriteTail
  PROVE  AskedInv'
<1>1. UNCHANGED <<call, asked>> /\ next \in Nat
  BY Typed DEF WriteChunk, EraseChunk, WriteTail, history
<1>2. CASE WriteChunk
  <2> DEFINE n == ChunkSectors
             m == Cmd("write", next, Slice(Data(call), moved, n * SectorSize), n)
  <2>1. /\ pc = "chunk" /\ call.op = "write"
        /\ (disk' = Applied(disk, m, n) /\ pending' = pending) \/ WriteFails(m)
    BY <1>2 DEF WriteChunk, session
  <2>2. m.pos = next /\ m.count = n
    BY DEF Cmd
  <2> HIDE DEF m, n
  <2>3. n \in Chunks
    BY <2>1, ChunkIsWithin DEF n
  <2>4. n \in Nat /\ Sectors(m) \subseteq asked
    BY <2>1, <2>2, <2>3, Typed, CallSizes, ChunkInRange DEF Chunks, InStep, Sectors, AskedInv
  <2>. QED
    BY <1>1, <2>1, <2>2, <2>4, CommandAsked
<1>3. CASE EraseChunk
  <2> DEFINE n == Least(call.len - moved, MaxEraseSectors)
             m == Cmd("erase", next, Fill(Blank, n * SectorSize), n)
  <2>1. /\ pc = "erase" /\ call.op = "erase"
        /\ (disk' = Applied(disk, m, n) /\ pending' = pending) \/ WriteFails(m)
    BY <1>3 DEF EraseChunk, session, InStep
  <2>2. m.pos = next /\ m.count = n
    BY DEF Cmd
  <2>3. n \in Chunks
    BY <2>1, EraseIsWithin
  <2> HIDE DEF m, n
  <2>4. n \in Nat /\ Sectors(m) \subseteq asked
    BY <2>1, <2>2, <2>3, Typed, CallSizes, ChunkInRange DEF Chunks, InStep, Sectors, AskedInv
  <2>. QED
    BY <1>1, <2>1, <2>2, <2>4, CommandAsked
<1>4. CASE WriteTail
  <2> DEFINE m == Cmd("write", next, sector, 1)
  <2>1. /\ pc = "writeback" /\ call.op = "write"
        /\ (disk' = Applied(disk, m, 1) /\ pending' = pending) \/ WriteFails(m)
    BY <1>4 DEF WriteTail, session, InStep
  <2>2. m.pos = next /\ m.count = 1
    BY DEF Cmd
  <2> HIDE DEF m
  <2>3. Sectors(m) \subseteq asked
    BY <1>1, <2>1, <2>2, TailInRange DEF Sectors, AskedInv
  <2>. QED
    BY <1>1, <2>1, <2>2, <2>3, CommandAsked
<1>. QED
  BY <1>2, <1>3, <1>4

LEMMA ReadAsked == ASSUME AskedInv, ReadChunk \/ ReadTail PROVE AskedInv'
<1>1. UNCHANGED <<call, asked, disk>>
  BY ReadFailsHow DEF ReadChunk, ReadTail, history
<1>2. pending' = pending
  <2>1. pending' = pending \/ pending' = pending \o <<>>
    BY ReadFailsHow DEF ReadChunk, ReadTail, session
  <2>2. pending \in Seq(Elements(pending))
    BY DEF AskedInv
  <2>. QED
    BY <2>1, <2>2
<1>. QED
  BY <1>1, <1>2 DEF AskedInv, OnlyAskedSectors, Sectors, Elements

(* What the device does late it was asked to do.                           *)
LEMMA LateAsked == ASSUME TypeOK, AskedInv, Late PROVE AskedInv'
<1> DEFINE m == pending[1]
<1>1. /\ UNCHANGED <<call, asked>> /\ pending # <<>> /\ pending' = Tail(pending)
      /\ pending \in Seq(Elements(pending)) /\ Head(pending) = m /\ 1 \in DOMAIN pending
  BY DEF Late, history, AskedInv
<1>2. PICK k \in 0..m.count :
        \E f : disk' = Overlay(disk, m.pos * SectorSize, f, k * SectorSize)
  BY <1>1 DEF Late, Applied
<1>3. m.pos \in Nat /\ m.count \in Nat /\ m.pos..m.pos + m.count - 1 \subseteq asked
  BY <1>1 DEF AskedInv, Sectors
<1> HIDE DEF m
<1>4. OnlyAskedSectors'
  <2>1. k \in Nat /\ m.pos..m.pos + k - 1 \subseteq asked
    BY <1>2, <1>3
  <2>. QED
    BY <1>1, <1>2, <1>3, <2>1, OverlayAsked DEF AskedInv, TypeOK
<1>5. /\ pending' \in Seq(Elements(pending))
      /\ \A i \in DOMAIN pending' : i + 1 \in DOMAIN pending /\ pending'[i] = pending[i + 1]
  BY <1>1
<1>6. pending' \in Seq(Elements(pending'))
  BY <1>5, SeqOfElements
<1>. QED
  BY <1>1, <1>4, <1>5, <1>6 DEF AskedInv, Sectors, Elements

LEMMA AskedStep == ASSUME TypeOK, InStep, AskedInv, [Next]_vars PROVE AskedInv'
<1>1. ASSUME NEW op \in {"write", "read", "erase"}, NEW pos, NEW len, Call(op, pos, len)
      PROVE  AskedInv'
  <2>1. /\ UNCHANGED <<disk, pending>> /\ call'.op = op /\ asked \subseteq asked'
        /\ op # "read" => Range(call') \subseteq asked'
    BY <1>1, Resumed DEF Call
  <2>. QED
    BY <2>1 DEF AskedInv, OnlyAskedSectors, Sectors, Elements
<1>2. CASE Open
  <2>1. /\ pending' = <<>> \/ pending' = pending
        /\ UNCHANGED <<disk, asked>>
        /\ call' = [NoCall EXCEPT !.id = call.id]
    BY <1>2, Resumed DEF Open
  <2>2. call'.op = "none"
    BY <2>1 DEF NoCall
  <2>3. CASE pending' = <<>>
    BY <2>1, <2>2, <2>3 DEF AskedInv, OnlyAskedSectors
  <2>4. CASE pending' = pending
    BY <2>1, <2>2, <2>4 DEF AskedInv, OnlyAskedSectors, Sectors, Elements
  <2>. QED
    BY <2>1, <2>3, <2>4
<1>3. CASE UNCHANGED vars
  BY <1>3 DEF vars, AskedInv, OnlyAskedSectors, Sectors, Elements
<1>. QED
  BY <1>1, <1>2, <1>3, WriteAsked, ReadAsked, LateAsked DEF Next, Step

(* Whatever is abandoned, spoiled by the device, or carried out late: only *)
(* sectors some write_lba or erase_lba was asked to touch ever change.     *)
THEOREM OnlyAskedChange == Spec => []OnlyAskedSectors
<1>1. AskedInv => OnlyAskedSectors
  BY DEF AskedInv
<1>. QED
  BY <1>1, ShapeInit, ShapeStep, AskedInit, AskedStep, PTL DEF Spec

-----------------------------------------------------------------------------
(* How far a write or an erase has come.                                   *)

IsStorage(d) == d = [b \in Disk |-> d[b]]

\* The storage holds what the call has done so far, the sector that is to be
\* written back holds the end of the data and what was behind it.
WriteInv ==
  /\ IsStorage(disk)
  /\ call.op \in {"write", "erase"} /\ ~dirty /\ pc # "idle" => disk = Written(B(Behind))
  /\ pc = "writeback" /\ ~dirty =>
       \A j \in Bytes(SectorSize) :
         sector[j] = IF j < TailLen(call) THEN Data(call)[moved + j]
                     ELSE disk[B(next) + j]
  /\ ChangeIsPrefix /\ OkMeansComplete

LEMMA AppliedIsStorage ==
  ASSUME IsStorage(disk), NEW m, NEW k
  PROVE  IsStorage(Applied(disk, m, k))
<1>1. DOMAIN disk = Disk
  BY DEF IsStorage
<1>. QED
  BY <1>1 DEF Applied, Overlay, IsStorage

(* The prefixes of a call: k whole sectors, or all of it.                  *)
LEMMA PrefixAt ==
  ASSUME NEW c, c.len \in Nat, c.pos \in Nat, NEW k \in 0..WholeOf(c)
  PROVE  /\ k \in 0..(TargetLen(c) \div SectorSize + 1)
         /\ Least(k * SectorSize, TargetLen(c)) = B(k)
<1>1. /\ WholeOf(c) \in Nat /\ TargetLen(c) \in Nat /\ B(WholeOf(c)) <= TargetLen(c)
      /\ TargetLen(c) \div SectorSize = WholeOf(c)
  BY CallSizes
<1>2. k \in Int /\ WholeOf(c) \in Int /\ k <= WholeOf(c)
  BY <1>1
<1>3. B(k) \in Int /\ B(WholeOf(c)) \in Int /\ B(k) <= B(WholeOf(c))
  BY <1>2, BFacts
<1>4. B(k) <= TargetLen(c)
  BY <1>1, <1>3
<1>. QED
  BY <1>1, <1>2, <1>4 DEF Least, B

LEMMA PrefixEnd ==
  ASSUME NEW c, c.len \in Nat, c.pos \in Nat
  PROVE  /\ WholeOf(c) + 1 \in 0..(TargetLen(c) \div SectorSize + 1)
         /\ Least((WholeOf(c) + 1) * SectorSize, TargetLen(c)) = TargetLen(c)
<1> DEFINE q == WholeOf(c)
<1>1. /\ q \in Nat /\ TargetLen(c) \in Nat /\ TargetLen(c) \div SectorSize = q
      /\ \/ TargetLen(c) = B(q)
         \/ TailLen(c) \in 0..SectorSize - 1 /\ TargetLen(c) = B(q) + TailLen(c)
  BY CallSizes
<1> HIDE DEF q
<1>2. B(q + 1) = B(q) + SectorSize /\ B(q) \in Nat /\ B(q + 1) \in Nat
  BY <1>1, BFacts
<1>3. TargetLen(c) <= B(q + 1)
  BY <1>1, <1>2, Sizes
<1>4. Least(B(q + 1), TargetLen(c)) = TargetLen(c)
  BY <1>1, <1>2, <1>3 DEF Least
<1>. QED
  BY <1>1, <1>4 DEF q, B

(* A command that carries the bytes the call has at its place takes the    *)
(* storage from one prefix to a longer one.                                *)
LEMMA WrittenOn ==
  ASSUME TypeOK, Behind \in Nat, disk = Written(B(Behind)), NEW m, m.pos = next,
         NEW k \in Nat, Carries(m.data, B(k), Target(call), B(Behind))
  PROVE  Applied(disk, m, k) = Written(B(Behind + k))
<1> DEFINE at == B(call.pos)
<1>1. /\ B(next) = at + B(Behind) /\ B(Behind + k) = B(Behind) + B(k)
      /\ at \in Int /\ B(Behind) \in Nat /\ B(k) \in Nat
  <2>1. /\ call.pos \in Int /\ Behind \in Int /\ k \in Int
        /\ next = call.pos + Behind
    BY Typed
  <2>2. B(call.pos + Behind) = at + B(Behind) /\ at \in Int
    BY <2>1, BFacts
  <2>3. B(Behind + k) = B(Behind) + B(k) /\ B(Behind) \in Nat
    BY <2>1, BFacts
  <2>4. B(k) \in Nat
    BY <2>1, BFacts
  <2>. QED
    BY <2>1, <2>2, <2>3, <2>4
<1>2. disk = Overlay(old, at, Target(call), B(Behind)) /\ DOMAIN old = DOMAIN disk
  BY DEF Written, B, Overlay
<1>3. DOMAIN old \subseteq Int
  BY <1>2, Typed
<1>4. Applied(disk, m, k) = Overlay(disk, at + B(Behind), m.data, B(k))
  BY <1>1 DEF Applied, B
<1>5. Written(B(Behind + k)) = Overlay(old, at, Target(call), B(Behind) + B(k))
  BY <1>1 DEF Written, B
<1>6. at \in Int /\ B(Behind) \in Nat /\ B(k) \in Nat
  BY <1>1
<1> HIDE DEF at
<1>. QED
  BY <1>2, <1>3, <1>4, <1>5, <1>6, OverlayJoin, SMTT(30)

\* A command with the next n sectors of the call, carried out or not.
CarriesOn(m, n, stage) ==
  /\ m.pos = next /\ m.count = n
  /\ Carries(m.data, B(n), Target(call), B(Behind))
  /\ \/ /\ ~dirty /\ dirty' = dirty
        /\ disk' = Applied(disk, m, n)
        /\ Advance(n, Count(Behind + n), stage)
     \/ WriteFails(m)

LEMMA ChunkWrites ==
  ASSUME TypeOK, InStep, WriteInv, pc # "idle", call.op \in {"write", "erase"},
         UNCHANGED <<old, call>>, NEW n \in Chunks, NEW m, NEW stage,
         Suits(stage, Behind + n),
         stage = "return" => TargetLen(call) = B(Behind + n),
         CarriesOn(m, n, stage)
  PROVE  WriteInv'
<1>1. /\ Behind \in Nat /\ n \in Nat /\ Behind + n \in 0..WholeOf(call)
      /\ call.len \in Nat /\ call.pos \in Nat /\ next = call.pos + Behind /\ WholeOf(call) \in Nat
  BY Typed, CallSizes DEF InStep, Chunks
<1>2. \A x : Written(x)' = Written(x)
  BY DEF Written, Target, Data
<1>3. ~dirty => disk = Written(B(Behind))
  BY DEF WriteInv
<1>4. ASSUME NEW k \in 0..n, ~dirty, disk' = Applied(disk, m, k)
      PROVE  disk' = Written(B(Behind + k)) /\ ChangeIsPrefix'
  <2>1. k \in Nat /\ Behind + k \in 0..WholeOf(call)
    BY <1>1
  <2>2. Carries(m.data, B(k), Target(call), B(Behind))
    <3>1. k \in Int /\ n \in Int /\ k <= n
      BY <1>1
    <3>2. B(k) \in Int /\ B(n) \in Int /\ B(k) <= B(n)
      BY <3>1, BFacts
    <3>3. \A j \in 0..B(k) - 1 : j \in 0..B(n) - 1
      BY <3>2
    <3>. QED
      BY <3>3 DEF CarriesOn, Carries
  <2>3. disk' = Written(B(Behind + k))
    BY <1>1, <1>3, <1>4, <2>1, <2>2, WrittenOn DEF CarriesOn
  <2>4. ChangeIsPrefix'
    BY <1>1, <1>2, <2>1, <2>3, PrefixAt DEF ChangeIsPrefix
  <2>. QED
    BY <2>3, <2>4
<1>5. IsStorage(disk')
  <2>1. disk' = disk \/ \E k : disk' = Applied(disk, m, k)
    BY WriteFailsHow DEF CarriesOn
  <2>. QED
    BY <2>1, AppliedIsStorage DEF WriteInv
<1>6. IsStorage(disk)' <=> IsStorage(disk')
  BY DEF IsStorage, Disk
<1>7. CASE ~dirty /\ dirty' = dirty /\ disk' = Applied(disk, m, n) /\ Advance(n, Count(Behind + n), stage)
  <2>1. n \in 0..n
    BY <1>1
  <2>2. disk' = Written(B(Behind + n)) /\ ChangeIsPrefix'
    BY <1>4, <1>7, <2>1
  <2>3. /\ pc' # "idle" => next' = next + n /\ pc' # "writeback"
        /\ result' = "Ok" => stage = "return"
    BY <1>7 DEF Advance, Goto, Return, Suits, InStep
  <2>4. pc' # "idle" => Behind' = Behind + n
    BY <1>1, <2>3 DEF Behind
  <2>5. OkMeansComplete'
    BY <1>2, <2>2, <2>3 DEF OkMeansComplete
  <2>6. pc' # "idle" => disk' = Written(B(Behind))'
    BY <1>2, <2>2, <2>4 DEF B
  <2>. QED
    BY <1>5, <1>6, <2>2, <2>3, <2>5, <2>6 DEF WriteInv
<1>8. CASE WriteFails(m)
  <2>1. /\ pc' = "idle" /\ result' # "Ok"
        /\ \/ UNCHANGED <<disk, dirty>>
           \/ ~dirty /\ \E k \in 0..n : disk' = Applied(disk, m, k)
           \/ dirty'
    BY <1>8, WriteFailsHow DEF CarriesOn
  <2>2. UNCHANGED <<disk, dirty>> => ChangeIsPrefix'
    BY <1>2 DEF WriteInv, ChangeIsPrefix
  <2>3. ChangeIsPrefix'
    BY <1>4, <2>1, <2>2 DEF ChangeIsPrefix
  <2>. QED
    BY <1>5, <1>6, <2>1, <2>3 DEF WriteInv, OkMeansComplete
<1>. QED
  BY <1>7, <1>8 DEF CarriesOn

LEMMA WriteInit == Init => WriteInv
<1> SUFFICES ASSUME Init PROVE WriteInv
  OBVIOUS
<1>1. disk = Initial /\ call = NoCall /\ pc = "idle" /\ result = "none"
  BY DEF Init
<1>2. call.op = "none"
  BY <1>1 DEF NoCall
<1>3. IsStorage(disk)
  BY <1>1 DEF IsStorage, Initial, InitialStorage, CallData, Disk
<1>. QED
  BY <1>1, <1>2, <1>3 DEF WriteInv, ChangeIsPrefix, OkMeansComplete

LEMMA WriteChunkWrites == ASSUME TypeOK, InStep, WriteInv, WriteChunk PROVE WriteInv'
<1> DEFINE n == ChunkSectors
           m == Cmd("write", next, Slice(Data(call), moved, n * SectorSize), n)
           stage == AfterChunks(call, moved + n * SectorSize)
<1>1. /\ pc = "chunk" /\ call.op = "write" /\ UNCHANGED <<call, old>>
      /\ \/ /\ ~dirty /\ dirty' = dirty /\ disk' = Applied(disk, m, n)
            /\ Advance(n, moved + n * SectorSize, stage)
         \/ WriteFails(m)
  BY DEF WriteChunk, history, session, Succeeds
<1>2. /\ n \in Chunks /\ moved + n * SectorSize = Count(Behind + n) /\ moved = B(Behind)
      /\ stage = IF Behind + n < WholeOf(call) THEN "chunk"
                 ELSE IF TailLen(call) # 0 THEN "tail" ELSE "return"
  BY <1>1, ChunkIsWithin DEF Count
<1>3. m.pos = next /\ m.count = n /\ m.data = Slice(Data(call), moved, B(n))
  BY DEF Cmd, B
<1> HIDE DEF m, n, stage
<1>4. /\ Behind + n \in Int /\ WholeOf(call) \in Int /\ Behind + n <= WholeOf(call)
      /\ TargetLen(call) = B(WholeOf(call)) + TailLen(call) /\ B(WholeOf(call)) \in Int
  <2>1. /\ WholeOf(call) \in Nat /\ TargetLen(call) = B(WholeOf(call)) + TailLen(call)
        /\ Behind \in Int
    BY <1>1, Typed, CallSizes
  <2>2. B(WholeOf(call)) \in Int
    BY <2>1, BFacts
  <2>. QED
    BY <1>2, <2>1, <2>2 DEF Chunks
<1>5. Suits(stage, Behind + n) /\ (stage = "return" => TargetLen(call) = B(Behind + n))
  <2>1. stage = "return" => TailLen(call) = 0 /\ Behind + n = WholeOf(call)
    BY <1>2, <1>4
  <2>. QED
    BY <1>1, <1>2, <1>4, <2>1 DEF Suits
<1>6. Carries(m.data, B(n), Target(call), B(Behind))
  BY <1>1, <1>2, <1>3 DEF Slice, Bytes, Target, Carries
<1>. QED
  BY <1>1, <1>2, <1>3, <1>5, <1>6, ChunkWrites DEF CarriesOn

LEMMA EraseChunkWrites == ASSUME TypeOK, InStep, WriteInv, EraseChunk PROVE WriteInv'
<1> DEFINE n == Least(call.len - moved, MaxEraseSectors)
           m == Cmd("erase", next, Fill(Blank, n * SectorSize), n)
           stage == IF moved + n = call.len THEN "return" ELSE "erase"
<1>1. /\ pc = "erase" /\ call.op = "erase" /\ UNCHANGED <<call, old>>
      /\ \/ /\ ~dirty /\ dirty' = dirty /\ disk' = Applied(disk, m, n)
            /\ Advance(n, moved + n, stage)
         \/ WriteFails(m)
  BY DEF EraseChunk, history, session, Succeeds, InStep
<1>2. /\ n \in Chunks /\ moved + n = Count(Behind + n)
      /\ moved + n = call.len <=> Behind + n = WholeOf(call)
  BY <1>1, EraseIsWithin DEF Count
<1>3. m.pos = next /\ m.count = n /\ m.data = Fill(Blank, B(n))
  BY DEF Cmd, B
<1>4. stage = IF Behind + n = WholeOf(call) THEN "return" ELSE "erase"
  BY <1>2
<1> HIDE DEF m, n, stage
<1>5. /\ Behind \in Nat /\ n \in Nat /\ WholeOf(call) \in Nat /\ Behind + n <= WholeOf(call)
      /\ TargetLen(call) = B(WholeOf(call)) /\ Target(call) = Fill(Blank, B(WholeOf(call)))
  BY <1>1, <1>2, Typed, CallSizes DEF Chunks, InStep, Target, B, WholeOf
<1>6. Suits(stage, Behind + n) /\ (stage = "return" => TargetLen(call) = B(Behind + n))
  BY <1>1, <1>4, <1>5 DEF Suits
<1>7. Carries(m.data, B(n), Target(call), B(Behind))
  <2>1. /\ B(Behind + n) = B(Behind) + B(n) /\ B(Behind) \in Nat
    <3>1. Behind \in Int /\ n \in Int
      BY <1>5
    <3>. QED
      BY <1>5, <3>1, BFacts
  <2>2. B(n) \in Int
    BY <1>5, BFacts
  <2>3. Behind + n \in Int /\ WholeOf(call) \in Int
    BY <1>5
  <2>4. B(Behind + n) <= B(WholeOf(call)) /\ B(Behind + n) \in Int
    BY <1>5, <2>3, BFacts
  <2>5. B(WholeOf(call)) \in Int
    BY <2>3, BFacts
  <2>6. \A j \in 0..B(n) - 1 : B(Behind) + j \in 0..B(WholeOf(call)) - 1
    BY <2>1, <2>2, <2>4, <2>5
  <2>. QED
    BY <1>3, <1>5, <2>6 DEF Fill, Bytes, Carries
<1>. QED
  BY <1>1, <1>2, <1>3, <1>6, <1>7, ChunkWrites DEF CarriesOn

(* The sector that goes back puts the end of the data in place and the     *)
(* rest of the sector as it was.                                           *)
LEMMA TailApplied ==
  ASSUME TypeOK, InStep, WriteInv, pc = "writeback", ~dirty, NEW m, m.pos = next, m.data = sector
  PROVE  Applied(disk, m, 1) = Written(TargetLen(call))
<1> DEFINE q == WholeOf(call)
           t == TailLen(call)
           at == B(call.pos)
           x == B(q)
           f == Target(call)
<1>1. /\ call.op = "write" /\ Behind = q /\ q \in Nat /\ moved = x
      /\ TargetLen(call) = x + t /\ t \in Nat /\ t <= SectorSize /\ SectorSize \in Nat
      /\ next = call.pos + q /\ call.pos \in Int
      /\ DOMAIN disk \subseteq Int
  BY Typed, CallSizes, Sizes, SMTT(30) DEF InStep
<1>2. f = Data(call)
  BY <1>1 DEF Target
<1>3. /\ disk = Overlay(old, at, f, x)
      /\ Written(TargetLen(call)) = Overlay(old, at, f, x + t)
      /\ DOMAIN old \subseteq Int
  BY <1>1 DEF WriteInv, Written, B, Overlay
<1>4. B(next) = at + x /\ at \in Int /\ x \in Nat
  <2>1. q \in Int
    BY <1>1
  <2>2. B(call.pos + q) = at + x /\ at \in Int
    BY <1>1, <2>1, BFacts
  <2>3. x \in Nat
    BY <1>1, <2>1, BFacts
  <2>. QED
    BY <1>1, <2>2, <2>3
<1> DEFINE g == [j \in 0..SectorSize - 1 |-> f[x + j]]
           p == at + x
<1>5. /\ at \in Int /\ x \in Nat /\ p \in Int /\ t \in Nat /\ SectorSize \in Nat
      /\ t <= SectorSize /\ p = at + x
  BY <1>1, <1>4
<1>6. DOMAIN disk \subseteq Int
  BY <1>1
<1>7. Patches(sector, SectorSize, g, t, disk, p)
  BY <1>1, <1>2, <1>4 DEF WriteInv, Bytes, Patches
<1>8. Carries(g, t, f, x)
  BY <1>1 DEF Carries
<1>9. Applied(disk, m, 1) = Overlay(disk, p, sector, SectorSize)
  BY <1>1, <1>4 DEF Applied, B
<1> HIDE DEF q, t, at, x, f, g, p
<1>10. Overlay(disk, p, sector, SectorSize) = Overlay(disk, p, g, t)
  BY <1>5, <1>6, <1>7, OverlayPatched
<1>11. Overlay(disk, at + x, g, t) = Overlay(old, at, f, x + t)
  BY <1>3, <1>5, <1>8, OverlayJoin
<1>. QED
  BY <1>3, <1>5, <1>9, <1>10, <1>11

LEMMA WriteTailWrites == ASSUME TypeOK, InStep, WriteInv, WriteTail PROVE WriteInv'
<1> DEFINE m == Cmd("write", next, sector, 1)
<1>1. /\ pc = "writeback" /\ UNCHANGED <<call, old>> /\ pc' = "idle"
      /\ \/ ~dirty /\ dirty' = dirty /\ disk' = Applied(disk, m, 1)
         \/ WriteFails(m) /\ result' # "Ok"
  BY WriteFailsHow DEF WriteTail, history, session, Succeeds, Return
<1>2. m.pos = next /\ m.count = 1 /\ m.data = sector
  BY DEF Cmd
<1> HIDE DEF m
<1>3. IsStorage(disk) /\ (IsStorage(disk)' <=> IsStorage(disk'))
  BY DEF WriteInv, IsStorage, Disk
<1>4. \A x : Written(x)' = Written(x)
  BY <1>1 DEF Written, Target, Data
<1>5. ASSUME ~dirty, disk' = Applied(disk, m, 1)
      PROVE  disk' = Written(TargetLen(call)) /\ ChangeIsPrefix'
  <2>1. disk' = Written(TargetLen(call))
    BY <1>1, <1>2, <1>5, TailApplied
  <2>2. ChangeIsPrefix'
    BY <1>1, <1>4, <2>1, Typed, PrefixEnd DEF ChangeIsPrefix
  <2>. QED
    BY <2>1, <2>2
<1>6. UNCHANGED <<disk, dirty>> => ChangeIsPrefix'
  BY <1>1, <1>4 DEF WriteInv, ChangeIsPrefix
<1>7. CASE ~dirty /\ dirty' = dirty /\ disk' = Applied(disk, m, 1)
  <2>1. IsStorage(disk')
    BY <1>3, <1>7, AppliedIsStorage
  <2>2. OkMeansComplete'
    BY <1>1, <1>4, <1>5, <1>7 DEF OkMeansComplete
  <2>. QED
    BY <1>1, <1>3, <1>5, <1>7, <2>1, <2>2 DEF WriteInv
<1>8. CASE WriteFails(m) /\ result' # "Ok"
  <2>1. \/ UNCHANGED <<disk, dirty>>
        \/ ~dirty /\ UNCHANGED dirty /\ \E k \in 0..1 : disk' = Applied(disk, m, k)
        \/ dirty' /\ disk' = disk
    BY <1>2, <1>8, WriteFailsHow
  <2>2. Applied(disk, m, 0) = disk
    <3>1. B(next) \in Int /\ B(0) = 0
      BY Typed, BFacts
    <3>2. Applied(disk, m, 0) = Overlay(disk, B(next), m.data, 0)
      BY <1>2, <3>1 DEF Applied, B
    <3>3. Disk \subseteq Int
      BY Typed
    <3>. QED
      BY <1>3, <3>1, <3>2, <3>3, OverlayNone DEF IsStorage
  <2>3. \/ UNCHANGED <<disk, dirty>>
        \/ ~dirty /\ disk' = Applied(disk, m, 1)
        \/ dirty' /\ disk' = disk
    BY <2>1, <2>2
  <2>4. ChangeIsPrefix'
    BY <1>5, <1>6, <2>3 DEF ChangeIsPrefix
  <2>5. IsStorage(disk')
    BY <1>3, <2>3, AppliedIsStorage
  <2>. QED
    BY <1>1, <1>3, <1>8, <2>4, <2>5 DEF WriteInv, OkMeansComplete
<1>. QED
  BY <1>1, <1>7, <1>8

LEMMA ReadWrites ==
  ASSUME TypeOK, InStep, WriteInv, ReadChunk \/ ReadTail PROVE WriteInv'
<1>1. UNCHANGED <<call, old, disk>>
  BY ReadFailsHow DEF ReadChunk, ReadTail, history
<1>2. /\ IsStorage(disk)' /\ (~dirty => disk = Written(B(Behind)) \/ call.op \notin {"write", "erase"})
      /\ \A x : Written(x)' = Written(x)
  BY <1>1 DEF WriteInv, IsStorage, Disk, Written, Target, Data, ReadChunk, ReadTail
<1>3. CASE ReadFails
  <2>1. pc' = "idle" /\ result' # "Ok" /\ (dirty' = dirty \/ dirty' = TRUE)
    BY <1>3, ReadFailsHow
  <2>2. ChangeIsPrefix'
    BY <1>1, <1>2, <2>1 DEF WriteInv, ChangeIsPrefix
  <2>. QED
    BY <1>2, <2>1, <2>2 DEF WriteInv, OkMeansComplete
<1>4. CASE call.op = "read" /\ pc' # "writeback"
  BY <1>1, <1>2, <1>4 DEF WriteInv, ChangeIsPrefix, OkMeansComplete
<1>5. CASE ReadTail /\ ~ReadFails /\ call.op = "write"
  <2> DEFINE s == Slice(disk, next * SectorSize, SectorSize)
             t == TailLen(call)
  <2>1. /\ sector' = Overlay(s, 0, Slice(Data(call), moved, t), t)
        /\ ~dirty /\ pc = "tail" /\ pc' = "writeback"
        /\ UNCHANGED <<next, moved, dirty, result>>
    BY <1>5 DEF ReadTail, Succeeds, session
  <2>2. t \in 0..SectorSize - 1
    BY <1>5, Typed, CallSizes
  <2>3. \A j \in Bytes(SectorSize) :
          sector'[j] = IF j < t THEN Data(call)[moved + j] ELSE disk[B(next) + j]
    <3>1. DOMAIN s = Bytes(SectorSize) /\ Bytes(SectorSize) \subseteq Int
      BY DEF Slice, Bytes
    <3>2. \A j \in Bytes(SectorSize) : s[j] = disk[B(next) + j]
      BY DEF Slice, B
    <3>3. \A j \in Bytes(SectorSize) : j < t => Slice(Data(call), moved, t)[j - 0] = Data(call)[moved + j]
      BY <2>2, Sizes DEF Slice, Bytes
    <3> HIDE DEF s, t
    <3>4. \A j \in Bytes(SectorSize) :
            sector'[j] = IF 0 <= j /\ j < 0 + t THEN Slice(Data(call), moved, t)[j - 0] ELSE s[j]
      BY <2>1, <3>1 DEF Overlay
    <3>. QED
      BY <2>2, <3>2, <3>3, <3>4 DEF Bytes
  <2>4. (TailLen(call))' = t /\ \A j : (Data(call)[moved + j])' = Data(call)[moved + j]
    BY <1>1, <2>1 DEF TailLen, Data
  <2> HIDE DEF t
  <2>5. \A j \in Bytes(SectorSize) :
          (sector[j] = IF j < TailLen(call) THEN Data(call)[moved + j] ELSE disk[B(next) + j])'
    BY <1>1, <2>1, <2>3, <2>4
  <2>6. disk' = Written(B(Behind))'
    BY <1>1, <1>2, <1>5, <2>1 DEF Behind
  <2>7. ChangeIsPrefix' /\ OkMeansComplete'
    BY <1>1, <1>2, <2>1 DEF WriteInv, ChangeIsPrefix, OkMeansComplete, InStep
  <2>. QED
    BY <1>2, <2>1, <2>5, <2>6, <2>7 DEF WriteInv
<1>6. \/ ReadFails
      \/ call.op = "read" /\ pc' # "writeback"
      \/ ReadTail /\ ~ReadFails /\ call.op = "write"
  <2>1. CASE ReadChunk /\ ~ReadFails
    BY <2>1 DEF ReadChunk, Advance, Goto, Return, AfterChunks
  <2>2. CASE ReadTail /\ ~ReadFails
    BY <2>2 DEF ReadTail, InStep, Return
  <2>. QED
    BY <2>1, <2>2
<1>. QED
  BY <1>3, <1>4, <1>5, <1>6

(* A call begins with nothing of it in the storage.                        *)
LEMMA CallWrites ==
  ASSUME TypeOK, WriteInv, NEW op \in {"write", "read", "erase"}, NEW pos \in 0..(LbaLimit - 1),
         NEW len \in 0..MaxLen, Call(op, pos, len)
  PROVE  WriteInv'
<1> DEFINE c == [id |-> call.id + 1, op |-> op, pos |-> pos, len |-> len]
<1>1. /\ call' = c /\ c.op = op /\ c.pos = pos /\ c.len = len
      /\ next' = pos /\ disk' = disk /\ old' = disk
      /\ pc' # "writeback" /\ (result' = "Ok" => len = 0)
  BY DEF Call, Return, AfterChunks
<1>2. pos \in Nat /\ len \in Nat /\ Disk \subseteq Int /\ IsStorage(disk)
  BY Sizes, Typed DEF WriteInv
<1> HIDE DEF c
<1>3. IsStorage(disk)'
  BY <1>1, <1>2 DEF IsStorage, Disk
<1>4. Written(0)' = disk
  <2>1. pos * SectorSize \in Int
    BY <1>2, Sizes
  <2>2. Written(0)' = Overlay(disk, pos * SectorSize, Target(c), 0)
    BY <1>1 DEF Written, Target, Data
  <2>. QED
    BY <1>2, <2>1, <2>2, OverlayNone DEF IsStorage
<1>5. B(0) = 0 /\ B(Behind)' = B(0)
  <2>1. B(0) = 0
    BY BFacts
  <2>2. Behind' = 0
    BY <1>1, <1>2 DEF Behind
  <2>. QED
    BY <2>1, <2>2 DEF B
<1>6. ChangeIsPrefix'
  <2>1. WholeOf(c) \in Nat
    BY <1>1, <1>2, CallSizes
  <2>2. 0 \in 0..WholeOf(c)
    BY <2>1
  <2>3. /\ 0 \in 0..(TargetLen(c) \div SectorSize + 1)
        /\ Least(0 * SectorSize, TargetLen(c)) = 0
    BY <1>1, <1>2, <1>5, <2>2, PrefixAt
  <2>4. TargetLen(call)' = TargetLen(c)
    BY <1>1 DEF TargetLen
  <2>5. Written(Least(0 * SectorSize, TargetLen(call)))' = disk
    BY <1>4, <2>3, <2>4
  <2>. QED
    BY <1>1, <2>3, <2>4, <2>5 DEF ChangeIsPrefix
<1>7. OkMeansComplete'
  BY <1>1, <1>2 DEF OkMeansComplete
<1>8. disk' = Written(B(Behind))'
  BY <1>1, <1>4, <1>5
<1>. QED
  BY <1>1, <1>3, <1>6, <1>7, <1>8 DEF WriteInv

LEMMA OtherWrites ==
  ASSUME TypeOK, Clean, WriteInv, Open \/ Late \/ UNCHANGED vars
  PROVE  WriteInv'
<1>1. CASE Open
  <2>1. /\ disk' = disk /\ pc' = "idle" /\ result' = "none"
        /\ call' = [NoCall EXCEPT !.id = call.id]
    BY <1>1 DEF Open
  <2>2. call'.op = "none"
    BY <2>1 DEF NoCall
  <2>. QED
    BY <2>1, <2>2 DEF WriteInv, IsStorage, Disk, ChangeIsPrefix, OkMeansComplete
<1>2. CASE Late
  <2>1. dirty /\ dirty' = dirty /\ UNCHANGED <<call, result>> /\ DOMAIN disk' = DOMAIN disk
    BY <1>2 DEF Late, Clean, Applied, Overlay
  <2>2. IsStorage(disk)'
    BY <1>2 DEF Late, Applied, Overlay, IsStorage, WriteInv, Disk
  <2>. QED
    BY <2>1, <2>2 DEF WriteInv, ChangeIsPrefix, OkMeansComplete, Clean
<1>3. CASE UNCHANGED vars
  <2>1. UNCHANGED <<disk, call, pc, dirty, result, next, moved, old, sector>>
    BY <1>3 DEF vars
  <2>. QED
    BY <2>1 DEF WriteInv, IsStorage, Disk, ChangeIsPrefix, OkMeansComplete, Written, Target,
       TargetLen, Data, Behind, B, TailLen
<1>. QED
  BY <1>1, <1>2, <1>3

LEMMA WriteStep ==
  ASSUME TypeOK, InStep, Clean, WriteInv, [Next]_vars
  PROVE  WriteInv'
<1>1. ASSUME NEW op \in {"write", "read"}, NEW pos \in 0..(LbaLimit - 1), NEW len \in 0..MaxLen,
             Call(op, pos, len)
      PROVE  WriteInv'
  BY <1>1, CallWrites
<1>2. ASSUME NEW pos \in 0..(LbaLimit - 1), NEW len \in 0..(MaxLen \div SectorSize),
             Call("erase", pos, len)
      PROVE  WriteInv'
  BY <1>2, EraseLength, CallWrites
<1>. QED
  BY <1>1, <1>2, WriteChunkWrites, EraseChunkWrites, WriteTailWrites, ReadWrites, OtherWrites
  DEF Next, Step

(* As long as no command was abandoned, what write_lba and erase_lba have  *)
(* changed is at every moment, and however the call ends, a prefix of the  *)
(* range: whole sectors, then the end of it.                               *)
THEOREM PrefixChanges == Spec => []ChangeIsPrefix
<1>1. WriteInv => ChangeIsPrefix
  BY DEF WriteInv
<1>. QED
  BY <1>1, ShapeInit, ShapeStep, CleanInit, CleanStep, WriteInit, WriteStep, PTL DEF Spec

(* A write_lba or erase_lba that returned Ok put every byte of its range   *)
(* in place and changed no other.                                          *)
THEOREM OkCompletes == Spec => []OkMeansComplete
<1>1. WriteInv => OkMeansComplete
  BY DEF WriteInv
<1>. QED
  BY <1>1, ShapeInit, ShapeStep, CleanInit, CleanStep, WriteInit, WriteStep, PTL DEF Spec

-----------------------------------------------------------------------------
(* How far a read has come.                                                *)

IsBuffer == buf = [k \in Bytes(call.len) |-> buf[k]]
Delivered(n) == \A k \in Bytes(n) : buf[k] = disk[B(call.pos) + k]

ReadInv ==
  /\ call.op = "read" => IsBuffer
  /\ call.op = "read" /\ pc # "idle" /\ ~dirty => Delivered(moved)
  /\ ReadIsExact

(* A read that goes on where another ended.                                *)
LEMMA ReadOn ==
  ASSUME IsBuffer, Delivered(moved), moved \in Nat, call.len \in Nat, B(call.pos) \in Int,
         UNCHANGED <<call, disk>>, NEW n \in Nat, moved + n <= call.len,
         NEW f, \A j \in 0..n - 1 : f[j] = disk[(B(call.pos) + moved) + j],
         buf' = Overlay(buf, moved, f, n)
  PROVE  IsBuffer' /\ \A k \in Bytes(moved + n) : buf'[k] = disk'[B(call'.pos) + k]
<1> DEFINE S == Bytes(call.len)
           at == B(call.pos)
<1>1. DOMAIN buf = S /\ S \subseteq Int
  BY DEF IsBuffer, Bytes
<1>2. buf' = [b \in S |-> IF moved <= b /\ b < moved + n THEN f[b - moved] ELSE buf[b]]
  BY <1>1 DEF Overlay
<1>3. S' = S /\ at' = at
  BY DEF B
<1>4. IsBuffer'
  BY <1>2, <1>3 DEF IsBuffer
<1>5. ASSUME NEW k \in Bytes(moved + n)
      PROVE  buf'[k] = disk[at + k]
  <2>1. k \in S /\ k \in Int /\ 0 <= k /\ k < moved + n
    BY DEF Bytes
  <2>2. CASE k < moved
    <3>1. k \in Bytes(moved)
      BY <2>1, <2>2 DEF Bytes
    <3>2. buf[k] = disk[at + k]
      BY <3>1 DEF Delivered
    <3>. QED
      BY <1>2, <2>1, <2>2, <3>2
  <2>3. CASE ~(k < moved)
    <3>1. k - moved \in 0..n - 1 /\ (at + moved) + (k - moved) = at + k
      BY <2>1, <2>3
    <3>2. f[k - moved] = disk[at + k]
      BY <3>1
    <3>. QED
      BY <1>2, <2>1, <2>3, <3>2
  <2>. QED
    BY <2>2, <2>3
<1>. QED
  BY <1>3, <1>4, <1>5

\* The next n bytes of a read reach the buffer, at their place.
BytesRead(n) ==
  /\ ~dirty /\ UNCHANGED <<call, disk, dirty>>
  /\ \E f : /\ \A j \in 0..n - 1 : f[j] = disk[(B(call.pos) + moved) + j]
            /\ buf' = Overlay(buf, moved, f, n)

LEMMA BytesReadOn ==
  ASSUME TypeOK, ReadInv, call.op = "read", pc # "idle", NEW n \in Nat, BytesRead(n),
         moved + n <= call.len,
         pc' # "idle" => moved' = moved + n,
         result' = "Ok" => moved + n = call.len
  PROVE  ReadInv'
<1>1. /\ moved \in Nat /\ call.len \in Nat /\ IsBuffer /\ Delivered(moved)
      /\ UNCHANGED <<call, disk>>
  BY Typed DEF TypeOK, ReadInv, BytesRead
<1>2. B(call.pos) \in Int
  <2>1. call.pos \in Int
    BY Typed
  <2>. QED
    BY <2>1, BFacts
<1>3. IsBuffer' /\ \A k \in Bytes(moved + n) : buf'[k] = disk'[B(call'.pos) + k]
  <2>1. PICK f : /\ \A j \in 0..n - 1 : f[j] = disk[(B(call.pos) + moved) + j]
                 /\ buf' = Overlay(buf, moved, f, n)
    BY DEF BytesRead
  <2>. QED
    BY <1>1, <1>2, <2>1, ReadOn
<1>4. pc' # "idle" => Delivered(moved)'
  BY <1>3 DEF Delivered, B
<1>5. ReadIsExact'
  <2> SUFFICES ASSUME result' = "Ok" PROVE (buf = Slice(disk, call.pos * SectorSize, call.len))'
    BY DEF ReadIsExact
  <2>1. Delivered(call.len)'
    BY <1>1, <1>3 DEF Delivered, B
  <2>. QED
    BY <1>3, <2>1 DEF IsBuffer, Delivered, Slice, B
<1>. QED
  BY <1>3, <1>4, <1>5 DEF ReadInv

LEMMA ReadInit == Init => ReadInv
<1> SUFFICES ASSUME Init PROVE ReadInv
  OBVIOUS
<1>1. call.op = "none"
  BY DEF Init, NoCall
<1>. QED
  BY <1>1 DEF ReadInv, ReadIsExact

(* A read that failed has delivered nothing it could be asked about.       *)
LEMMA FailedRead ==
  ASSUME ReadInv, UNCHANGED <<call, buf>>, pc' = "idle", result' # "Ok"
  PROVE  ReadInv'
BY DEF ReadInv, IsBuffer, ReadIsExact

LEMMA ReadChunkReads == ASSUME TypeOK, InStep, ReadInv, ReadChunk PROVE ReadInv'
<1> DEFINE n == ChunkSectors
           f == Slice(disk, next * SectorSize, n * SectorSize)
           stage == AfterChunks(call, moved + n * SectorSize)
<1>1. /\ pc = "chunk" /\ call.op = "read" /\ UNCHANGED call
      /\ \/ /\ ~dirty /\ UNCHANGED <<dirty, disk>>
            /\ buf' = Overlay(buf, moved, f, n * SectorSize)
            /\ Advance(n, moved + n * SectorSize, stage)
         \/ ReadFails /\ UNCHANGED buf
  BY DEF ReadChunk, session, Succeeds
<1>2. /\ n \in Chunks /\ moved + n * SectorSize = B(Behind + n) /\ moved = B(Behind)
      /\ stage = IF Behind + n < WholeOf(call) THEN "chunk"
                 ELSE IF TailLen(call) # 0 THEN "tail" ELSE "return"
  BY <1>1, ChunkIsWithin
<1>3. CASE ReadFails /\ UNCHANGED buf
  BY <1>1, <1>3, ReadFailsHow, FailedRead
<1>4. CASE /\ ~dirty /\ UNCHANGED <<dirty, disk>>
           /\ buf' = Overlay(buf, moved, f, n * SectorSize)
           /\ Advance(n, moved + n * SectorSize, stage)
  <2>1. f = Slice(disk, B(next), B(n)) /\ n * SectorSize = B(n)
    BY DEF B
  <2> HIDE DEF n, f, stage
  <2>2. /\ n \in Nat /\ Behind \in Int /\ n \in Int /\ call.pos \in Int /\ WholeOf(call) \in Int
        /\ Behind + n \in Int /\ Behind + n <= WholeOf(call) /\ next = call.pos + Behind
        /\ B(WholeOf(call)) <= call.len /\ call.len = B(WholeOf(call)) + TailLen(call)
        /\ call.len \in Int
    BY <1>1, <1>2, Typed, CallSizes DEF Chunks, InStep
  <2>3. B(n) \in Nat
    BY <2>2, BFacts
  <2>4. B(next) = B(call.pos) + moved
    BY <1>2, <2>2, BFacts
  <2>5. B(Behind + n) <= B(WholeOf(call)) /\ B(Behind + n) \in Int
    BY <2>2, BFacts
  <2>6. B(WholeOf(call)) \in Int
    BY <2>2, BFacts
  <2>7. \A j \in 0..B(n) - 1 : f[j] = disk[(B(call.pos) + moved) + j]
    BY <2>1, <2>4 DEF Slice, Bytes
  <2>8. BytesRead(B(n))
    BY <1>1, <1>4, <2>1, <2>7 DEF BytesRead
  <2>9. moved + B(n) = B(Behind + n) /\ moved + B(n) <= call.len
    BY <1>2, <2>1, <2>2, <2>5, <2>6
  <2>10. /\ pc' # "idle" => moved' = moved + B(n)
         /\ result' = "Ok" => stage = "return"
    BY <1>1, <1>4, <2>1 DEF Advance, Goto, Return, InStep
  <2>11. stage = "return" => moved + B(n) = call.len
    <3>1. stage = "return" => TailLen(call) = 0 /\ Behind + n = WholeOf(call)
      BY <1>2, <2>2
    <3>. QED
      BY <2>2, <2>6, <2>9, <3>1
  <2>. QED
    BY <1>1, <2>3, <2>8, <2>9, <2>10, <2>11, BytesReadOn
<1>. QED
  BY <1>1, <1>3, <1>4

LEMMA ReadTailReads == ASSUME TypeOK, InStep, ReadInv, ReadTail PROVE ReadInv'
<1> DEFINE t == TailLen(call)
           f == Slice(disk, next * SectorSize, SectorSize)
<1>1. /\ pc = "tail" /\ call.op \in {"read", "write"} /\ UNCHANGED call
      /\ \/ /\ call.op = "read" /\ ~dirty /\ UNCHANGED <<dirty, disk>>
            /\ buf' = Overlay(buf, moved, f, t) /\ pc' = "idle"
         \/ call.op = "write"
         \/ ReadFails /\ UNCHANGED buf
  BY DEF ReadTail, session, Succeeds, InStep, Return
<1>2. CASE ReadFails /\ UNCHANGED buf
  BY <1>1, <1>2, ReadFailsHow, FailedRead
<1>3. CASE call.op = "write"
  BY <1>1, <1>3 DEF ReadInv, ReadIsExact
<1>4. CASE call.op = "read" /\ ~dirty /\ UNCHANGED <<dirty, disk>>
           /\ buf' = Overlay(buf, moved, f, t) /\ pc' = "idle"
  <2>1. f = Slice(disk, B(next), SectorSize)
    BY DEF B
  <2>2. /\ t \in 0..SectorSize - 1 /\ SectorSize \in Nat
        /\ moved = B(Behind) /\ Behind = WholeOf(call) /\ WholeOf(call) \in Int
        /\ call.len = B(WholeOf(call)) + t /\ next = call.pos + Behind /\ call.pos \in Int
        /\ call.len \in Nat /\ B(Behind) \in Int
    <3>1. /\ t \in 0..SectorSize - 1 /\ SectorSize \in Nat
          /\ moved = B(Behind) /\ Behind = WholeOf(call) /\ WholeOf(call) \in Int
          /\ call.len = B(WholeOf(call)) + t /\ next = call.pos + Behind /\ call.pos \in Int
          /\ call.len \in Nat
      BY <1>1, <1>4, Typed, CallSizes, Sizes DEF InStep
    <3>2. B(WholeOf(call)) \in Int
      BY <3>1, BFacts
    <3>. QED
      BY <3>1, <3>2
  <2> HIDE DEF t, f
  <2>3. B(next) = B(call.pos) + moved
    BY <2>2, BFacts
  <2>4. \A j \in 0..t - 1 : f[j] = disk[(B(call.pos) + moved) + j]
    BY <2>1, <2>2, <2>3 DEF Slice, Bytes
  <2>5. BytesRead(t) /\ t \in Nat /\ moved + t = call.len /\ moved + t <= call.len
    BY <1>1, <1>4, <2>2, <2>4 DEF BytesRead
  <2>. QED
    BY <1>1, <1>4, <2>5, BytesReadOn
<1>. QED
  BY <1>1, <1>2, <1>3, <1>4

LEMMA CallReads ==
  ASSUME NEW op, NEW pos, NEW len \in Nat, Call(op, pos, len)
  PROVE  ReadInv'
<1>1. /\ call'.op = op /\ call'.len = len /\ call'.pos = pos /\ moved' = 0
      /\ op = "read" => buf' = Fill(Zero, len)
      /\ result' = "Ok" => len = 0
  BY DEF Call, Return
<1>2. CASE op # "read"
  BY <1>1, <1>2 DEF ReadInv, ReadIsExact
<1>3. CASE op = "read"
  <2>1. Bytes(0) = {}
    BY DEF Bytes
  <2>2. IsBuffer' /\ Delivered(moved)'
    BY <1>1, <1>3, <2>1 DEF IsBuffer, Delivered, Fill
  <2>3. ReadIsExact'
    BY <1>1, <1>3, <2>1 DEF ReadIsExact, Fill, Slice
  <2>. QED
    BY <2>2, <2>3 DEF ReadInv
<1>. QED
  BY <1>2, <1>3

(* While a read runs, or once it has said Ok, nothing is outstanding that  *)
(* could change the storage under it.                                      *)
LEMMA LateReads == ASSUME Clean, ReadInv, Late, call.len \in Nat PROVE ReadInv'
<1>1. dirty /\ dirty' = dirty /\ UNCHANGED <<call, result, buf>>
  BY DEF Late, Clean
<1>2. ReadIsExact'
  <2> SUFFICES ASSUME call.op = "read", result = "Ok"
               PROVE  (buf = Slice(disk, call.pos * SectorSize, call.len))'
    BY <1>1 DEF ReadIsExact
  <2>1. call.len = 0
    BY <1>1 DEF Clean
  <2>2. Bytes(call.len) = {}
    BY <2>1 DEF Bytes
  <2>. QED
    BY <1>1, <2>2 DEF ReadInv, ReadIsExact, Slice
<1>. QED
  BY <1>1, <1>2 DEF ReadInv, IsBuffer

LEMMA OtherReads ==
  ASSUME InStep, ReadInv, WriteChunk \/ WriteTail \/ EraseChunk \/ Open \/ UNCHANGED vars
  PROVE  ReadInv'
<1>1. CASE WriteChunk \/ WriteTail \/ EraseChunk
  <2>1. call.op # "read" /\ call' = call
    BY <1>1 DEF WriteChunk, WriteTail, EraseChunk, InStep
  <2>. QED
    BY <2>1 DEF ReadInv, ReadIsExact
<1>2. CASE Open
  <2>1. call' = [NoCall EXCEPT !.id = call.id]
    BY <1>2 DEF Open
  <2>2. call'.op = "none"
    BY <2>1 DEF NoCall
  <2>. QED
    BY <2>2 DEF ReadInv, ReadIsExact
<1>3. CASE UNCHANGED vars
  <2>1. UNCHANGED <<call, buf, disk, pc, moved, dirty, result>>
    BY <1>3 DEF vars
  <2>. QED
    BY <2>1 DEF ReadInv, ReadIsExact, IsBuffer, Delivered, B
<1>. QED
  BY <1>1, <1>2, <1>3

LEMMA ReadStep ==
  ASSUME TypeOK, InStep, Clean, ReadInv, [Next]_vars
  PROVE  ReadInv'
<1>1. ASSUME NEW op \in {"write", "read"}, NEW pos \in 0..(LbaLimit - 1), NEW len \in 0..MaxLen,
             Call(op, pos, len)
      PROVE  ReadInv'
  BY <1>1, CallReads, Sizes
<1>2. ASSUME NEW pos \in 0..(LbaLimit - 1), NEW len \in 0..(MaxLen \div SectorSize),
             Call("erase", pos, len)
      PROVE  ReadInv'
  BY <1>2, EraseLength, CallReads, Sizes
<1>. QED
  BY <1>1, <1>2, ReadChunkReads, ReadTailReads, LateReads, OtherReads, Typed DEF Next, Step

(* A read_lba that returned Ok delivered the bytes of its range, each at   *)
(* its place, and the storage still holds them.                            *)
THEOREM ReadsExactly == Spec => []ReadIsExact
<1>1. ReadInv => ReadIsExact
  BY DEF ReadInv
<1>. QED
  BY <1>1, ShapeInit, ShapeStep, CleanInit, CleanStep, ReadInit, ReadStep, PTL DEF Spec

=============================================================================
