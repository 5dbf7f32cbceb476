--------------------------- MODULE CbwTransaction ---------------------------
(***************************************************************************)
(* RkDevice::cbw_transaction (src/src/lib.rs): the bulk-only command       *)
(* transport every storage command of the library runs on.  A transaction  *)
(* writes a 31-byte command wrapper (CBW), moves an optional data stage,   *)
(* and reads a 13-byte status wrapper (CSW).  Any stage may be cut short   *)
(* by the deadline or by a USB error, and the code does not resynchronise  *)
(* the pipes: what the abandoned command left in them meets the next one.  *)
(*                                                                         *)
(* The host side is the code.  The device (a Loader) and the two bulk      *)
(* pipes are external: the device serves CBWs in order, answers each it    *)
(* recognises exactly once, and owes no progress.                          *)
(***************************************************************************)
EXTENDS Naturals, Sequences

CONSTANTS
  Commands,         \* command blocks: [op, out, min, buf], see Command
  Tags,             \* the values random::<u32>() may return
  MaxTransactions   \* bound on the transactions of a behaviour

MaxPacket == 512    \* bulk packet of a high-speed device, and one sector
CswLen == 13        \* size_of::<Csw>()

(***************************************************************************)
(* out: packets of the OUT data stage (0: data_out is None).               *)
(* min: cbw.data_transfer_length of an IN command, the least it accepts.   *)
(* buf: length of the data_in buffer (0: data_in is None).                 *)
(***************************************************************************)
Command == [op : STRING, out : Nat, min : Nat, buf : Nat]

ASSUME CommandsAssumption ==
  /\ Commands \subseteq Command
  /\ \A c \in Commands : c.min <= c.buf /\ (c.buf > 0 => c.min > 0)
ASSUME MaxTransactionsAssumption == MaxTransactions \in Nat

VARIABLES
  pc,       \* stage of the host: the call it makes next
  cbw,      \* the command wrapper of the current (or last) transaction
  got,      \* bytes the IN data stage has received
  status,   \* what the last cbw_transaction returned, "none" while it runs
  toDev,    \* bulk OUT pipe
  toHost,   \* bulk IN pipe
  dev,      \* the device: idle, or receiving the data stage of a CBW
  done,     \* history: ids of commands the device carried out as sent
  acked,    \* history: ids of commands whose transaction returned Ok
  seen,     \* history: ids of the commands whose reply the host consumed
  replyId,  \* history: id of the command the accepted CSW answers
  dirty,    \* history: an earlier command was unanswered or unread at Begin
  reused    \* history: the tag drawn at Begin was still in flight

hostVars == <<pc, cbw, got, status, seen, replyId, dirty, reused, acked>>
devVars  == <<dev, done>>
vars == <<pc, cbw, got, status, toDev, toHost, dev, done, acked, seen,
          replyId, dirty, reused>>

-----------------------------------------------------------------------------
(* Packets.  Every packet carries the id of the transaction it belongs to; *)
(* the host never reads it, only the properties do.                        *)

CbwPacket(w)  == [kind |-> "cbw", w |-> w]
DataPacket(w) == [kind |-> "data", w |-> w]
OutData(w, k) == [i \in 1..k |-> DataPacket(w)]

Reply(kind, w, len, st) ==
  [kind |-> kind, id |-> w.id, tag |-> w.tag, len |-> len, status |-> st]
Csw(w, st) == Reply("csw", w, CswLen, st)

\* An IN data stage of `min` bytes: whole packets, then a short one.
InData(w) ==
  LET full == w.cmd.min \div MaxPacket
      rest == w.cmd.min % MaxPacket
  IN  [i \in 1..(full + IF rest = 0 THEN 0 ELSE 1) |->
         Reply("data", w, IF i <= full THEN MaxPacket ELSE rest, 0)]

Wrapper == [id : Nat, tag : Tags, cmd : Commands]
OutPacket == [kind : {"cbw", "data"}, w : Wrapper]
InPacket == [kind : {"data", "csw"}, id : Nat, tag : Tags, len : Nat,
             status : {0, 1}]

IdleDev == [phase |-> "idle"]
BusyDev(w, need, intact) ==
  [phase |-> "data", w |-> w, need |-> need, intact |-> intact]

DevState ==
  {IdleDev} \cup [phase : {"data"}, w : Wrapper, need : Nat \ {0},
                  intact : BOOLEAN]

\* Tags of commands whose CBW, data stage or reply is still in flight.
LiveTags ==
  {toDev[i].w.tag : i \in DOMAIN toDev}
    \cup {toHost[i].tag : i \in DOMAIN toHost}
    \cup (IF dev.phase = "data" THEN {dev.w.tag} ELSE {})

\* A command that was sent and not answered, or whose answer was not read.
Unsettled ==
  \/ toHost # <<>>
  \/ dev.phase = "data"
  \/ \E i \in DOMAIN toDev : toDev[i].kind = "cbw"

-----------------------------------------------------------------------------
(* Host.                                                                   *)

Return(s) ==
  /\ pc' = "idle"
  /\ status' = s
  /\ acked' = IF s = "Ok" THEN acked \cup {cbw.id} ELSE acked

\* A public operation builds a CBW with a random tag and starts the call.
Begin(c, t) ==
  /\ pc = "idle"
  /\ cbw.id < MaxTransactions
  /\ cbw' = [id |-> cbw.id + 1, tag |-> t, cmd |-> c]
  /\ pc' = "cbw"
  /\ got' = 0
  /\ status' = "none"
  /\ seen' = {}
  /\ replyId' = 0
  /\ dirty' = Unsettled
  /\ reused' = (t \in LiveTags)
  /\ UNCHANGED <<toDev, toHost, dev, done, acked>>

\* remaining_timeout is exhausted before a stage, or the stage's transfer
\* ends with an error or a short count and nothing moved in it; also the
\* death of the process in the middle of the call.
Fail ==
  /\ pc # "idle"
  /\ Return("Usb")
  /\ UNCHANGED <<cbw, got, toDev, toHost, dev, done, seen, replyId, dirty,
                 reused>>

AfterCbw(c) ==
  IF c.out > 0 THEN "dataout" ELSE IF c.buf > 0 THEN "datain" ELSE "csw"

\* Mutant: the CBW is written again after a lost acknowledgement.
SendCbwRetried ==
  /\ pc = "cbw"
  /\ toDev' \in {Append(toDev, CbwPacket(cbw)),
                 toDev \o <<CbwPacket(cbw), CbwPacket(cbw)>>}
  /\ pc' = AfterCbw(cbw.cmd)
  /\ UNCHANGED <<status, acked, cbw, got, toHost, dev, done, seen, replyId,
                 dirty, reused>>

\* write_bulk of the CBW: accepted by the device, and the host either knows
\* it or (the acknowledgement was lost) reports an error.
SendCbw ==
  /\ pc = "cbw"
  /\ toDev' = Append(toDev, CbwPacket(cbw))
  /\ \/ /\ pc' = AfterCbw(cbw.cmd)
        /\ UNCHANGED <<status, acked>>
     \/ Return("Usb")
  /\ UNCHANGED <<cbw, got, toHost, dev, done, seen, replyId, dirty, reused>>

\* write_bulk of the OUT data stage: k of its packets reach the device; a
\* short count is an error.
SendData ==
  /\ pc = "dataout"
  /\ \E k \in 1..cbw.cmd.out :
       /\ toDev' = toDev \o OutData(cbw, k)
       /\ \/ /\ k = cbw.cmd.out
             /\ pc' = IF cbw.cmd.buf > 0 THEN "datain" ELSE "csw"
             /\ UNCHANGED <<status, acked>>
          \/ Return("Usb")
  /\ UNCHANGED <<cbw, got, toHost, dev, done, seen, replyId, dirty, reused>>

\* The count checks that follow read_bulk of the data stage.
TooShort(n, c) == n < c.min
NeverTooLong(n, c) == FALSE    \* mutant
TooLong(n, c) == n > c.buf

\* read_bulk of the IN data stage takes one packet.  A packet that does not
\* fit is an overflow error; a short packet or a full buffer ends the
\* transfer, and only then is the count checked.
ReadData ==
  /\ pc = "datain"
  /\ toHost # <<>>
  /\ LET p == Head(toHost)
         n == got + p.len
         c == cbw.cmd
         ends == p.len < MaxPacket \/ n = c.buf
     IN  /\ seen' = seen \cup {p.id}
         /\ \/ /\ TooLong(n, c)
               /\ Return("Usb")
               /\ UNCHANGED got
            \/ /\ ~TooLong(n, c) /\ ~ends
               /\ got' = n
               /\ UNCHANGED <<pc, status, acked>>
            \/ /\ ~TooLong(n, c) /\ ends
               /\ got' = n
               /\ IF TooShort(n, c)
                    THEN Return("Usb")
                    ELSE pc' = "csw" /\ UNCHANGED <<status, acked>>
  /\ toHost' = Tail(toHost)
  /\ UNCHANGED <<cbw, toDev, dev, done, replyId, dirty, reused>>

\* Mutants: the tag, or the status, is not looked at.
CswVerdictAnyTag(p, tag) ==
  IF p.len > CswLen THEN "Usb"
  ELSE IF p.len # CswLen \/ p.kind # "csw" THEN "InvalidCsw"
  ELSE IF p.status # 0 THEN "CommandFailed"
  ELSE "Ok"

CswVerdictAnyStatus(p, tag) ==
  IF p.len > CswLen THEN "Usb"
  ELSE IF p.len # CswLen \/ p.kind # "csw" THEN "InvalidCsw"
  ELSE IF p.tag # tag THEN "TagMismatch"
  ELSE "Ok"

\* The checks on the status wrapper, in the order of the code: transfer,
\* length, signature, tag, status.
CswVerdict(p, tag) ==
  IF p.len > CswLen THEN "Usb"
  ELSE IF p.len # CswLen \/ p.kind # "csw" THEN "InvalidCsw"
  ELSE IF p.tag # tag THEN "TagMismatch"
  ELSE IF p.status # 0 THEN "CommandFailed"
  ELSE "Ok"

ReadCsw ==
  /\ pc = "csw"
  /\ toHost # <<>>
  /\ LET p == Head(toHost)
     IN  /\ seen' = seen \cup {p.id}
         /\ replyId' = p.id
         /\ Return(CswVerdict(p, cbw.tag))
  /\ toHost' = Tail(toHost)
  /\ UNCHANGED <<cbw, got, toDev, dev, done, dirty, reused>>

\* RkDevice::open of a new process, on a device whose pipes were flushed by
\* set_active_configuration.  (An open that flushes nothing is a stutter.)
Open ==
  /\ pc = "idle"
  /\ toDev' = <<>> /\ toHost' = <<>> /\ dev' = IdleDev
  /\ UNCHANGED <<hostVars, done>>

-----------------------------------------------------------------------------
(* Device (external).                                                      *)

\* Carry the command out and answer it, or refuse it with a failed status.
Answer(w, intact) ==
  \/ /\ toHost' = (toHost \o InData(w)) \o <<Csw(w, 0)>>
     /\ done' = IF intact THEN done \cup {w.id} ELSE done
  \/ /\ toHost' = Append(toHost, Csw(w, 1))
     /\ UNCHANGED done

\* An idle device takes a CBW; it discards any other packet.
DevCommand ==
  /\ dev.phase = "idle"
  /\ toDev # <<>>
  /\ LET p == Head(toDev)
     IN  \/ /\ p.kind = "cbw" /\ p.w.cmd.out > 0
            /\ \/ dev' = BusyDev(p.w, p.w.cmd.out, TRUE) /\ UNCHANGED <<toHost, done>>
               \/ /\ toHost' = Append(toHost, Csw(p.w, 1))
                  /\ UNCHANGED devVars
         \/ /\ p.kind = "cbw" /\ p.w.cmd.out = 0
            /\ Answer(p.w, TRUE)
            /\ UNCHANGED dev
         \/ /\ p.kind = "data"
            /\ UNCHANGED <<toHost, dev, done>>
  /\ toDev' = Tail(toDev)
  /\ UNCHANGED hostVars

\* A device that expects data takes whatever packet comes as data.  One that
\* is not of its command (a later CBW, after an abandoned data stage) spoils
\* the command or makes the device refuse it.
DevData ==
  /\ dev.phase = "data"
  /\ toDev # <<>>
  /\ LET p == Head(toDev)
         own == p.kind = "data" /\ p.w.id = dev.w.id
         intact == dev.intact /\ own
     IN  \/ /\ dev.need > 1
            /\ dev' = BusyDev(dev.w, dev.need - 1, intact)
            /\ UNCHANGED <<toHost, done>>
         \/ /\ dev.need = 1
            /\ dev' = IdleDev
            /\ Answer(dev.w, intact)
         \/ /\ ~own
            /\ dev' = IdleDev
            /\ toHost' = Append(toHost, Csw(dev.w, 1))
            /\ UNCHANGED done
  /\ toDev' = Tail(toDev)
  /\ UNCHANGED hostVars

-----------------------------------------------------------------------------
Init ==
  /\ pc = "idle"
  /\ cbw \in {[id |-> 0, tag |-> t, cmd |-> c] : t \in Tags, c \in Commands}
  /\ got = 0
  /\ status = "none"
  /\ toDev = <<>> /\ toHost = <<>>
  /\ dev = IdleDev
  /\ done = {} /\ acked = {} /\ seen = {}
  /\ replyId = 0
  /\ dirty = FALSE /\ reused = FALSE

Host ==
  \/ \E c \in Commands, t \in Tags : Begin(c, t)
  \/ Fail \/ SendCbw \/ SendData \/ ReadData \/ ReadCsw \/ Open

Device == DevCommand \/ DevData

Next == Host \/ Device

Spec == Init /\ [][Next]_vars

-----------------------------------------------------------------------------
Pcs == {"idle", "cbw", "dataout", "datain", "csw"}
Statuses ==
  {"none", "Usb", "InvalidCsw", "TagMismatch", "CommandFailed", "Ok"}

\* Every variable stays in its type, and the data stage in its buffer.
TypeOK ==
  /\ pc \in Pcs
  /\ cbw \in Wrapper
  /\ got \in 0..cbw.cmd.buf
  /\ status \in Statuses
  /\ toDev \in Seq(OutPacket)
  /\ toHost \in Seq(InPacket)
  /\ dev \in DevState
  /\ done \subseteq Nat /\ acked \subseteq Nat /\ seen \subseteq Nat
  /\ replyId \in Nat
  /\ dirty \in BOOLEAN /\ reused \in BOOLEAN

\* A verdict the device gave, success or failure, is its verdict on this very
\* command: a CSW left in the pipe by an abandoned command is never taken for
\* the answer of a later one, unless their random tags coincide.
VerdictIsOwn ==
  status \in {"Ok", "CommandFailed"} => replyId = cbw.id \/ reused

\* Success is never reported before the device has carried the command out
\* exactly as it was sent, whatever stale packets the data stage met.
OkMeansDone == status = "Ok" => cbw.id \in done \/ reused

\* The buffer of a successful read holds bytes of this command's data stage
\* only, never bytes an abandoned read left in the pipe.
OkDataIsOwn == status = "Ok" => seen = {cbw.id} \/ reused

\* A command that begins while an earlier one is unanswered, or its answer
\* unread, is not reported as a success, whatever it meets in the pipes.  It
\* may use up what it meets, though: then the session is in step again, and
\* the command after it can succeed without a new open.
OutOfStepFails == status = "Ok" => ~dirty \/ reused

\* Success is a barrier: nothing sent before it can still reach the storage,
\* so no late execution of an abandoned command follows an acknowledged one.
OkIsBarrier ==
  status = "Ok" =>
    \/ reused
    \/ toDev = <<>> /\ toHost = <<>> /\ dev = IdleDev

-----------------------------------------------------------------------------
(* What the transport promises its callers.                                *)
Service == INSTANCE CommandService
             WITH issued <- cbw.id, running <- pc # "idle", result <- status,
                  collided <- reused

\* Every behaviour of the transport is one of the command service.
ServiceSpec == Service!Spec
=============================================================================
