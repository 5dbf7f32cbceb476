----------------------------- MODULE LbaTransfer -----------------------------
(***************************************************************************)
(* RkDevice::write_lba, read_lba and erase_lba (src/src/lib.rs): transfers *)
(* of any length, cut into device-sized commands that share one deadline,  *)
(* with the partial sector at the end read, patched and written back.      *)
(*                                                                         *)
(* The commands below are those of CbwTransaction, reduced to what that    *)
(* module establishes: Ok means carried out, with nothing outstanding; a   *)
(* failure may have carried out part of the command, or may leave it in    *)
(* the pipes, where it can still happen.  A command that begins out of     *)
(* step fails, but may use up what it meets, so that the next call is in   *)
(* step again.  That two tags in flight coincide, which CbwTransaction     *)
(* excepts, is left out.                                                   *)
(***************************************************************************)
EXTENDS ByteStore, Sequences

CONSTANTS
  SectorSize,         \* STORAGE_SECTOR_SIZE, 512
  MaxWriteSectors,    \* MAX_LBA_TRANSFER_SECTORS, 128
  MaxEraseSectors,    \* u16::MAX
  LbaLimit,           \* 2^32: a sector number is a u32
  DiskSectors,        \* sectors of the device
  MaxLen,             \* bound on the bytes of a call
  MaxCalls            \* bound on the calls of a behaviour

ASSUME SizesAssumption ==
  /\ SectorSize \in Nat \ {0}
  /\ MaxWriteSectors \in Nat \ {0} /\ MaxEraseSectors \in Nat \ {0}
  /\ DiskSectors \in Nat \ {0} /\ LbaLimit \in Nat /\ DiskSectors <= LbaLimit
  /\ MaxLen \in Nat /\ MaxCalls \in Nat

VARIABLES
  pc,       \* "idle", or the next step of the running call
  call,     \* the call: its number, operation, first sector and length
  next,     \* next_pos
  moved,    \* bytes of the aligned part (erase: sectors) dealt with so far
  sector,   \* the buffer of the partial sector
  buf,      \* the caller's buffer of a read
  result,   \* what the last call returned, "none" while it runs
  disk,     \* the storage (external)
  pending,  \* abandoned writes and erases the device may still carry out
  dirty,    \* out of step: an abandoned command is unanswered or unread
  old,      \* history: the storage when the call (or the session) began
  asked     \* history: sectors in the range of some write or erase

session == <<pending, dirty>>
history == <<old, asked>>
vars == <<pc, call, next, moved, sector, buf, result, disk, pending, dirty,
          old, asked>>

-----------------------------------------------------------------------------
Disk == Bytes(DiskSectors * SectorSize)
Initial == InitialStorage(DiskSectors * SectorSize)

\* The data of write call c.
Data(c) == CallData(c.id, c.len)

NoCall == [id |-> 0, op |-> "none", pos |-> 0, len |-> 0]

TailLen(c) == c.len % SectorSize
AlignedLen(c) == c.len - TailLen(c)

\* Sectors the range of a call touches.
Range(c) ==
  LET n == IF c.op = "erase" THEN c.len
           ELSE (c.len + SectorSize - 1) \div SectorSize
  IN  c.pos..(c.pos + n - 1)

-----------------------------------------------------------------------------
(* Commands.  A write or erase command is its sector, its sector count and *)
(* the bytes it puts there.                                                *)

Cmd(op, pos, data, count) == [op |-> op, pos |-> pos, data |-> data, count |-> count]

\* The first k sectors of command m reach the storage.
Applied(d, m, k) == Overlay(d, m.pos * SectorSize, m.data, k * SectorSize)

Fits(pos, count) == pos + count <= DiskSectors

\* cbw_transaction returns Ok, to a command that began in step.
Succeeds(pos, count) == ~dirty /\ Fits(pos, count)

\* What the next call or session finds: what was abandoned is still in the
\* pipes, or all of it was carried out or lost, and commands that failed have
\* read what was left of the answers.  (Which commands those are does not
\* matter here, so this allows more than the transport does.)
Resume == UNCHANGED pending /\ dirty' \in {dirty, dirty /\ pending # <<>>}

Return(r) == pc' = "idle" /\ result' = r

\* The deadline passed, or the command failed before it reached the device.
NotSent == Return("Usb") /\ UNCHANGED <<disk, session>>

\* The device reports a failure, having carried out k sectors or none.
Refused(m) ==
  /\ ~dirty
  /\ Return("CommandFailed")
  /\ \E k \in 0..m.count :
       /\ Fits(m.pos, k)
       /\ disk' = Applied(disk, m, k)
  /\ UNCHANGED session

\* The host gave the command up with some of it in the pipes.
Abandoned(ms) ==
  /\ Return("Usb")
  /\ pending' = pending \o ms
  /\ dirty' = TRUE
  /\ UNCHANGED disk

WriteFails(m) ==
  /\ NotSent \/ Refused(m) \/ Abandoned(<<m>>)
  /\ UNCHANGED <<next, moved>>

ReadFails ==
  /\ \/ NotSent
     \/ ~dirty /\ Return("CommandFailed") /\ UNCHANGED <<disk, session>>
     \/ Abandoned(<<>>)
  /\ UNCHANGED <<next, moved>>

-----------------------------------------------------------------------------
(* Calls.                                                                  *)

\* Mutant: the partial sector is forgotten.
AfterChunksNoTail(c, done) == IF done < AlignedLen(c) THEN "chunk" ELSE "return"

\* What follows the chunks of a write or read: the partial sector, if any.
AfterChunks(c, done) ==
  IF done < AlignedLen(c) THEN "chunk"
  ELSE IF TailLen(c) # 0 THEN "tail" ELSE "return"

Goto(stage) ==
  IF stage = "return" THEN Return("Ok") ELSE pc' = stage /\ UNCHANGED result

\* Mutants: the position is not checked, not advanced, or advanced by a full
\* chunk even when the chunk was short.
AdvanceUnchecked(count, done, stage) ==
  next' = next + count /\ moved' = done /\ Goto(stage)
AdvanceNowhere(count, done, stage) ==
  next' = next /\ moved' = done /\ Goto(stage)
AdvanceFull(count, done, stage) ==
  /\ next + MaxWriteSectors < LbaLimit
  /\ next' = next + MaxWriteSectors /\ moved' = done /\ Goto(stage)

\* Mutant: what is left is not counted down, and the position wraps.
AdvanceForever(count, done, stage) ==
  next' = (next + count) % LbaLimit /\ UNCHANGED <<pc, moved, result>>

\* advance_lba_by_bytes, and the checked_add of erase_lba.
Advance(count, done, stage) ==
  IF next + count >= LbaLimit
    THEN Return("LbaOverflow") /\ UNCHANGED <<next, moved>>
    ELSE /\ next' = next + count
         /\ moved' = done
         /\ Goto(stage)

Call(op, pos, len) ==
  LET c == [id |-> call.id + 1, op |-> op, pos |-> pos, len |-> len]
  IN  /\ pc = "idle"
      /\ call.id < MaxCalls
      /\ call' = c
      /\ next' = pos /\ moved' = 0
      /\ sector' = Fill(Zero, SectorSize)
      /\ buf' = IF op = "read" THEN Fill(Zero, len) ELSE <<>>
      /\ IF len = 0 THEN Return("Ok")
         ELSE /\ pc' = IF op = "erase" THEN "erase" ELSE AfterChunks(c, 0)
              /\ result' = "none"
      /\ old' = disk
      /\ asked' = IF op = "read" THEN asked ELSE asked \cup Range(c)
      /\ Resume
      /\ UNCHANGED disk

\* The next chunk of an aligned part that has been dealt with up to `moved`.
ChunkSectors ==
  Least(MaxWriteSectors, (AlignedLen(call) - moved) \div SectorSize)

WriteChunk ==
  LET count == ChunkSectors
      done  == moved + count * SectorSize
      m     == Cmd("write", next, Slice(Data(call), moved, count * SectorSize), count)
  IN  /\ pc = "chunk" /\ call.op = "write"
      /\ \/ /\ Succeeds(next, count)
            /\ disk' = Applied(disk, m, count)
            /\ Advance(count, done, AfterChunks(call, done))
            /\ UNCHANGED session
         \/ WriteFails(m)
      /\ UNCHANGED <<call, sector, buf, history>>

ReadChunk ==
  LET count == ChunkSectors
      done  == moved + count * SectorSize
  IN  /\ pc = "chunk" /\ call.op = "read"
      /\ \/ /\ Succeeds(next, count)
            /\ buf' = Overlay(buf, moved, Slice(disk, next * SectorSize, count * SectorSize),
                              count * SectorSize)
            /\ Advance(count, done, AfterChunks(call, done))
            /\ UNCHANGED <<disk, session>>
         \/ ReadFails /\ UNCHANGED buf
      /\ UNCHANGED <<call, sector, history>>

\* read_lba_raw of the sector that holds the end of the range.
ReadTail ==
  /\ pc = "tail"
  /\ \/ /\ Succeeds(next, 1)
        /\ LET s == Slice(disk, next * SectorSize, SectorSize)
           IN  IF call.op = "read"
                 THEN /\ buf' = Overlay(buf, moved, s, TailLen(call))
                      /\ UNCHANGED sector
                      /\ Return("Ok")
                 ELSE /\ sector' = Overlay(s, 0, Slice(Data(call), moved, TailLen(call)),
                                           TailLen(call))
                      /\ UNCHANGED <<buf, result>>
                      /\ pc' = "writeback"
        /\ UNCHANGED <<next, moved, disk, session>>
     \/ ReadFails /\ UNCHANGED <<buf, sector>>
  /\ UNCHANGED <<call, history>>

\* The patched sector goes back.
WriteTail ==
  LET m == Cmd("write", next, sector, 1)
  IN  /\ pc = "writeback"
      /\ \/ /\ Succeeds(next, 1)
            /\ disk' = Applied(disk, m, 1)
            /\ Return("Ok")
            /\ UNCHANGED <<next, moved, session>>
         \/ WriteFails(m)
      /\ UNCHANGED <<call, sector, buf, history>>

EraseChunk ==
  LET count == Least(call.len - moved, MaxEraseSectors)
      done  == moved + count
      m     == Cmd("erase", next, Fill(Blank, count * SectorSize), count)
  IN  /\ pc = "erase"
      /\ \/ /\ Succeeds(next, count)
            /\ disk' = Applied(disk, m, count)
            /\ Advance(count, done, IF done = call.len THEN "return" ELSE "erase")
            /\ UNCHANGED session
         \/ WriteFails(m)
      /\ UNCHANGED <<call, sector, buf, history>>

\* A new session (RkDevice::open).  set_active_configuration may flush the
\* pipes; nothing else in open does.
Open ==
  /\ pc = "idle"
  /\ (pending' = <<>> /\ dirty' = FALSE) \/ Resume
  /\ call' = [NoCall EXCEPT !.id = call.id]
  /\ next' = 0 /\ moved' = 0 /\ sector' = Fill(Zero, SectorSize) /\ buf' = <<>>
  /\ result' = "none"
  /\ old' = disk
  /\ UNCHANGED <<pc, disk, asked>>

\* The device (external) gets to the oldest abandoned command: it carries
\* out part of it, all of it, or what a spoiled data stage made of it.
Late ==
  /\ pending # <<>>
  /\ LET m == Head(pending)
     IN  \E k \in 0..m.count :
           /\ Fits(m.pos, k)
           /\ \/ disk' = Applied(disk, m, k)
              \/ /\ m.op = "write"
                 /\ disk' = Overlay(disk, m.pos * SectorSize,
                                    Fill(Spoiled, k * SectorSize), k * SectorSize)
  /\ pending' = Tail(pending)
  /\ UNCHANGED <<pc, call, next, moved, sector, buf, result, dirty, history>>

-----------------------------------------------------------------------------
Init ==
  /\ pc = "idle" /\ call = NoCall /\ result = "none"
  /\ next = 0 /\ moved = 0
  /\ sector = Fill(Zero, SectorSize) /\ buf = <<>>
  /\ disk = Initial /\ old = Initial
  /\ pending = <<>> /\ dirty = FALSE
  /\ asked = {}

Step == WriteChunk \/ ReadChunk \/ ReadTail \/ WriteTail \/ EraseChunk

Next ==
  \/ \E op \in {"write", "read"}, pos \in 0..(LbaLimit - 1), len \in 0..MaxLen :
       Call(op, pos, len)
  \/ \E pos \in 0..(LbaLimit - 1), len \in 0..(MaxLen \div SectorSize) :
       Call("erase", pos, len)
  \/ Step \/ Open \/ Late

\* Every raw command returns by its deadline, so the loops keep stepping.
Spec == Init /\ [][Next]_vars /\ WF_vars(Step)

-----------------------------------------------------------------------------
Results == {"none", "Ok", "Usb", "CommandFailed", "LbaOverflow"}

\* The variables of the code stay in their types; next_pos is a u32.
TypeOK ==
  /\ pc \in {"idle", "chunk", "tail", "writeback", "erase"}
  /\ call.op \in {"none", "write", "read", "erase"}
  /\ call.id \in 0..MaxCalls /\ call.pos \in 0..LbaLimit - 1 /\ call.len \in 0..MaxLen
  /\ next \in 0..LbaLimit - 1
  /\ moved \in 0..call.len
  /\ result \in Results
  /\ DOMAIN disk = Disk /\ DOMAIN sector = Bytes(SectorSize)
  /\ dirty \in BOOLEAN /\ asked \subseteq Nat

Target(c) == IF c.op = "erase" THEN Fill(Blank, c.len * SectorSize) ELSE Data(c)
TargetLen(c) == IF c.op = "erase" THEN c.len * SectorSize ELSE c.len

\* The storage of the call's beginning, with the first n bytes of the call.
Written(n) == Overlay(old, call.pos * SectorSize, Target(call), n)

\* A write or an erase that returned Ok put every byte of its range in place
\* and changed no other byte, the rest of the last sector included.  (An
\* empty call does not talk to the device and promises nothing.)
OkMeansComplete ==
  result = "Ok" /\ call.op \in {"write", "erase"} /\ call.len > 0 =>
    disk = Written(TargetLen(call))

\* However a write or an erase ends, and at every point on the way, what it
\* has changed is a prefix of its range: whole sectors, then the end of it.
\* Nothing is skipped, repeated or written beyond the range, as long as no
\* command was abandoned.
ChangeIsPrefix ==
  call.op \in {"write", "erase"} /\ ~dirty =>
    \E k \in 0..(TargetLen(call) \div SectorSize + 1) :
      disk = Written(Least(k * SectorSize, TargetLen(call)))

\* A read that returned Ok delivers the bytes of its range, each at its
\* place, and the storage still holds them.
ReadIsExact ==
  call.op = "read" /\ result = "Ok" =>
    buf = Slice(disk, call.pos * SectorSize, call.len)

\* Whatever is abandoned, spoiled, or carried out late, only sectors some
\* write or erase was asked to touch ever change.
OnlyAskedSectors ==
  \A b \in Disk : disk[b] # Initial[b] => (b \div SectorSize) \in asked

\* Every call returns, whatever the device does: the chunk loops end.
Returns == pc # "idle" ~> pc = "idle"

-----------------------------------------------------------------------------
(* What the documents and messages say, and the code does not do.          *)

\* README: "`lba write` automatically pads the last partial sector with
\* zeros".
TailIsZeroPadded ==
  result = "Ok" /\ call.op = "write" /\ TailLen(call) # 0 =>
    \A k \in TailLen(call)..SectorSize - 1 :
      disk[call.pos * SectorSize + AlignedLen(call) + k] = Zero

\* RkUsbError::LbaOverflow, "LBA range overflow": the range of the call does
\* not fit in the 32-bit sector space.
OverflowIsReal ==
  result = "LbaOverflow" => \E s \in Range(call) : s >= LbaLimit
=============================================================================
