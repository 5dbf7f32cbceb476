----------------------- MODULE CbwTransaction_proofs -----------------------
(* TLAPS proofs about CbwTransaction, for every set of commands, every set *)
(* of tags and any number of transactions.                                 *)
EXTENDS CbwTransaction, SequenceTheorems, TLAPS

(* The packets a step builds have the type of their pipe.                  *)
LEMMA PacketTypes ==
  ASSUME NEW w \in Wrapper
  PROVE  /\ CbwPacket(w) \in OutPacket
         /\ \A k \in Nat : OutData(w, k) \in Seq(OutPacket)
         /\ InData(w) \in Seq(InPacket)
         /\ \A st \in {0, 1} : Csw(w, st) \in InPacket
<1>1. CbwPacket(w) \in OutPacket /\ DataPacket(w) \in OutPacket
  BY DEF CbwPacket, DataPacket, OutPacket
<1>2. \A k \in Nat : OutData(w, k) \in Seq(OutPacket)
  BY <1>1 DEF OutData
<1>3. InData(w) \in Seq(InPacket)
  <2> DEFINE full == w.cmd.min \div MaxPacket
             rest == w.cmd.min % MaxPacket
             n == full + IF rest = 0 THEN 0 ELSE 1
  <2>1. w.cmd.min \in Nat
    BY CommandsAssumption DEF Wrapper, Command
  <2>2. full \in Nat /\ rest \in Nat /\ n \in Nat
    BY <2>1 DEF MaxPacket
  <2>3. \A i \in 1..n :
          Reply("data", w, IF i <= full THEN MaxPacket ELSE rest, 0) \in InPacket
    BY <2>2 DEF Reply, InPacket, Wrapper, MaxPacket
  <2>. QED
    BY <2>2, <2>3 DEF InData
<1>4. \A st \in {0, 1} : Csw(w, st) \in InPacket
  BY DEF Csw, Reply, InPacket, Wrapper, CswLen
<1>. QED
  BY <1>1, <1>2, <1>3, <1>4

(* What CswVerdict can return, and what a device verdict implies.          *)
LEMMA VerdictValues ==
  ASSUME NEW p \in InPacket, NEW t \in Tags
  PROVE  /\ CswVerdict(p, t) \in Statuses
         /\ CswVerdict(p, t) \in {"Ok", "CommandFailed"} => p.tag = t
BY DEF CswVerdict, Statuses, InPacket, CswLen

(* The head and the tail of a typed non-empty pipe.                        *)
LEMMA PipeHeads ==
  ASSUME TypeOK
  PROVE  /\ toDev # <<>> =>
              Head(toDev) \in OutPacket /\ Tail(toDev) \in Seq(OutPacket)
         /\ toHost # <<>> =>
              Head(toHost) \in InPacket /\ Tail(toHost) \in Seq(InPacket)
BY HeadTailProperties DEF TypeOK

(* The states the device can take.                                         *)
LEMMA DevStates ==
  /\ IdleDev \in DevState
  /\ \A w \in Wrapper, n \in Nat \ {0}, b \in BOOLEAN : BusyDev(w, n, b) \in DevState
  /\ \A d \in DevState :
       d.phase = "data" => d.w \in Wrapper /\ d.need \in Nat \ {0} /\ d.intact \in BOOLEAN
BY DEF IdleDev, DevState, BusyDev

(* Answer keeps the types of what it writes.                               *)
LEMMA AnswerType ==
  ASSUME TypeOK, NEW w \in Wrapper, NEW b \in BOOLEAN, Answer(w, b)
  PROVE  toHost' \in Seq(InPacket) /\ done' \subseteq Nat
<1>1. w.id \in Nat /\ toHost \in Seq(InPacket) /\ done \subseteq Nat
  BY DEF TypeOK, Wrapper
<1>2. Csw(w, 0) \in InPacket /\ Csw(w, 1) \in InPacket
  BY PacketTypes
<1>3. InData(w) \in Seq(InPacket)
  BY PacketTypes
<1>4. (toHost \o InData(w)) \o <<Csw(w, 0)>> \in Seq(InPacket)
  BY <1>1, <1>2, <1>3
<1>5. Append(toHost, Csw(w, 1)) \in Seq(InPacket)
  BY <1>1, <1>2
<1>. QED
  BY <1>1, <1>4, <1>5 DEF Answer

THEOREM TypeCorrect == Spec => []TypeOK
<1>1. Init => TypeOK
  <2>1. Init => cbw \in Wrapper
    BY DEF Init, Wrapper
  <2>2. Init => toDev \in Seq(OutPacket) /\ toHost \in Seq(InPacket)
    BY DEF Init
  <2>3. Init => dev \in DevState
    BY DEF Init, DevState
  <2>4. Init => dirty \in BOOLEAN /\ reused \in BOOLEAN
    <3>1. Init => dirty = FALSE /\ reused = FALSE
      BY DEF Init
    <3>. QED
      BY <3>1
  <2>5. Init => /\ pc \in Pcs /\ status \in Statuses
                /\ done \subseteq Nat /\ acked \subseteq Nat /\ seen \subseteq Nat
                /\ replyId \in Nat
    BY DEF Init, Pcs, Statuses
  <2>6. Init => got \in 0..cbw.cmd.buf
    BY <2>1, CommandsAssumption DEF Init, Wrapper, Command
  <2>. QED
    BY <2>1, <2>2, <2>3, <2>4, <2>5, <2>6 DEF TypeOK
<1>2. TypeOK /\ [Next]_vars => TypeOK'
  <2> SUFFICES ASSUME TypeOK, [Next]_vars
               PROVE  TypeOK'
    OBVIOUS
  <2>1. ASSUME NEW c \in Commands, NEW t \in Tags, Begin(c, t)
        PROVE  TypeOK'
    <3>1. cbw' \in Wrapper /\ cbw'.cmd = c /\ c.buf \in Nat
      BY <2>1, CommandsAssumption DEF Begin, TypeOK, Wrapper, Command
    <3>2. got' \in 0..cbw'.cmd.buf
      BY <2>1, <3>1 DEF Begin
    <3>. QED
      BY <2>1, <3>1, <3>2 DEF Begin, TypeOK, Pcs, Statuses, Unsettled
  <2>2. CASE Fail
    BY <2>2 DEF Fail, Return, TypeOK, Pcs, Statuses, Wrapper
  <2>3. CASE SendCbw
    <3>1. toDev' \in Seq(OutPacket)
      BY <2>3, PacketTypes DEF SendCbw, TypeOK
    <3>2. AfterCbw(cbw.cmd) \in Pcs
      BY DEF AfterCbw, Pcs
    <3>. QED
      BY <2>3, <3>1, <3>2 DEF SendCbw, Return, TypeOK, Pcs, Statuses, Wrapper
  <2>4. CASE SendData
    <3>1. cbw.cmd.out \in Nat
      BY CommandsAssumption DEF TypeOK, Wrapper, Command
    <3>2. toDev' \in Seq(OutPacket)
      BY <2>4, <3>1, PacketTypes DEF SendData, TypeOK
    <3>. QED
      BY <2>4, <3>2 DEF SendData, Return, TypeOK, Pcs, Statuses, Wrapper
  <2>5. CASE ReadData
    <3>1. Head(toHost) \in InPacket /\ toHost' \in Seq(InPacket)
      BY <2>5, PipeHeads DEF ReadData
    <3>2. /\ Head(toHost).id \in Nat /\ got + Head(toHost).len \in Nat
          /\ cbw' = cbw /\ cbw.cmd.buf \in Nat
      BY <2>5, <3>1, CommandsAssumption, SMTT(30) DEF ReadData, InPacket, TypeOK, Wrapper, Command
    <3>3. seen' \subseteq Nat /\ got' \in 0..cbw'.cmd.buf
      <4>1. seen' = seen \cup {Head(toHost).id} /\ seen \subseteq Nat
        BY <2>5 DEF ReadData, TypeOK
      <4>2. \/ got' = got
            \/ got' = got + Head(toHost).len /\ ~TooLong(got', cbw.cmd)
        BY <2>5 DEF ReadData
      <4>3. got \in 0..cbw.cmd.buf
        BY DEF TypeOK
      <4>4. got' \in 0..cbw.cmd.buf
        <5>1. ASSUME NEW n, NEW b \in Nat, n \in Nat, ~(n > b)
              PROVE  n \in 0..b
          BY <5>1
        <5>. QED
          BY <3>2, <4>2, <4>3, <5>1 DEF TooLong
      <4>5. seen' \subseteq Nat
        BY <3>2, <4>1
      <4>. QED
        BY <3>2, <4>4, <4>5
    <3>4. pc' \in Pcs /\ status' \in Statuses /\ acked' \subseteq Nat
      BY <2>5 DEF ReadData, Return, TypeOK, Pcs, Statuses, Wrapper
    <3>. QED
      BY <2>5, <3>1, <3>3, <3>4 DEF ReadData, TypeOK
  <2>6. CASE ReadCsw
    <3>1. Head(toHost) \in InPacket /\ toHost' \in Seq(InPacket)
      BY <2>6, PipeHeads DEF ReadCsw
    <3>2. CswVerdict(Head(toHost), cbw.tag) \in Statuses
      BY <3>1, VerdictValues DEF TypeOK, Wrapper
    <3>3. seen' \subseteq Nat /\ replyId' \in Nat
      BY <2>6, <3>1 DEF ReadCsw, TypeOK, InPacket
    <3>4. pc' \in Pcs /\ status' \in Statuses /\ acked' \subseteq Nat
      BY <2>6, <3>2 DEF ReadCsw, Return, TypeOK, Pcs, Wrapper
    <3>5. UNCHANGED <<cbw, got, toDev, dev, done, dirty, reused>>
      BY <2>6 DEF ReadCsw
    <3>. QED
      BY <3>1, <3>3, <3>4, <3>5 DEF TypeOK
  <2>7. CASE Open
    <3>1. UNCHANGED <<hostVars, done>>
      BY <2>7 DEF Open
    <3>2. toDev' \in Seq(OutPacket) /\ toHost' \in Seq(InPacket) /\ dev' \in DevState
      BY <2>7, DevStates DEF Open
    <3>. QED
      BY <3>1, <3>2 DEF hostVars, TypeOK
  <2>8. CASE DevCommand
    <3>1. Head(toDev) \in OutPacket /\ toDev' \in Seq(OutPacket)
      BY <2>8, PipeHeads DEF DevCommand
    <3> DEFINE w == Head(toDev).w
    <3>2. w \in Wrapper /\ w.cmd.out \in Nat
      BY <3>1, CommandsAssumption DEF OutPacket, Wrapper, Command
    <3>3. toHost' \in Seq(InPacket) /\ done' \subseteq Nat
      <4>1. Csw(w, 1) \in InPacket
        BY <3>2, PacketTypes
      <4>2. ASSUME Answer(w, TRUE)
            PROVE  toHost' \in Seq(InPacket) /\ done' \subseteq Nat
        BY <4>2, <3>2, AnswerType
      <4>3. Append(toHost, Csw(w, 1)) \in Seq(InPacket)
        BY <4>1 DEF TypeOK
      <4>4. toHost' = Append(toHost, Csw(w, 1)) \/ toHost' = toHost \/ Answer(w, TRUE)
        BY <2>8 DEF DevCommand
      <4>5. done' = done \/ Answer(w, TRUE)
        BY <2>8 DEF DevCommand, devVars
      <4>. QED
        BY <4>2, <4>3, <4>4, <4>5 DEF TypeOK
    <3>4. dev' \in DevState
      <4>1. dev' = dev \/ (w.cmd.out > 0 /\ dev' = BusyDev(w, w.cmd.out, TRUE))
        BY <2>8 DEF DevCommand, devVars
      <4>2. w.cmd.out > 0 => BusyDev(w, w.cmd.out, TRUE) \in DevState
        <5>1. w.cmd.out > 0 => w.cmd.out \in Nat \ {0}
          BY <3>2
        <5>. QED
          BY <5>1, <3>2, DevStates
      <4>. QED
        BY <4>1, <4>2 DEF TypeOK
    <3>. QED
      BY <2>8, <3>1, <3>3, <3>4 DEF DevCommand, hostVars, TypeOK
  <2>9. CASE DevData
    <3>1. Head(toDev) \in OutPacket /\ toDev' \in Seq(OutPacket)
      BY <2>9, PipeHeads DEF DevData
    <3>2. /\ dev.phase = "data" /\ dev.w \in Wrapper
          /\ dev.need \in Nat \ {0} /\ dev.intact \in BOOLEAN
      BY <2>9, DevStates DEF DevData, TypeOK
    <3> DEFINE own == Head(toDev).kind = "data" /\ Head(toDev).w.id = dev.w.id
               intact == dev.intact /\ own
    <3>3. intact \in BOOLEAN
      BY <3>2
    <3>4. toHost' \in Seq(InPacket) /\ done' \subseteq Nat
      <4>1. Csw(dev.w, 1) \in InPacket
        BY <3>2, PacketTypes
      <4>2. ASSUME Answer(dev.w, intact)
            PROVE  toHost' \in Seq(InPacket) /\ done' \subseteq Nat
        BY <4>2, <3>2, <3>3, AnswerType
      <4>3. Append(toHost, Csw(dev.w, 1)) \in Seq(InPacket)
        BY <4>1 DEF TypeOK
      <4>4. \/ toHost' = toHost /\ done' = done
            \/ Answer(dev.w, intact)
            \/ toHost' = Append(toHost, Csw(dev.w, 1)) /\ done' = done
        BY <2>9 DEF DevData
      <4>. QED
        BY <4>2, <4>3, <4>4 DEF TypeOK
    <3>5. dev' \in DevState
      <4>1. \/ dev.need > 1 /\ dev' = BusyDev(dev.w, dev.need - 1, intact)
            \/ dev' = IdleDev
        BY <2>9 DEF DevData
      <4>2. dev.need > 1 => BusyDev(dev.w, dev.need - 1, intact) \in DevState
        <5>1. dev.need > 1 => dev.need - 1 \in Nat \ {0}
          BY <3>2
        <5>. QED
          BY <5>1, <3>2, <3>3, DevStates
      <4>. QED
        BY <4>1, <4>2, DevStates
    <3>. QED
      BY <2>9, <3>1, <3>4, <3>5 DEF DevData, hostVars, TypeOK
  <2>10. CASE UNCHANGED vars
    BY <2>10 DEF vars, TypeOK
  <2>. QED
    BY <2>1, <2>2, <2>3, <2>4, <2>5, <2>6, <2>7, <2>8, <2>9, <2>10
    DEF Next, Host, Device
<1>. QED
  BY <1>1, <1>2, PTL DEF Spec

-----------------------------------------------------------------------------
(* Why a verdict is the command's own.  The tag check compares tags only;  *)
(* it is sound because, as long as the drawn tag was not in flight, every  *)
(* packet that carries the current tag belongs to the current command.     *)

TagOwned(p) == p.tag = cbw.tag => p.id = cbw.id

TagInv ==
  ~reused =>
    /\ \A i \in DOMAIN toDev : TagOwned(toDev[i].w)
    /\ \A i \in DOMAIN toHost : TagOwned(toHost[i])
    /\ dev.phase = "data" => TagOwned(dev.w)

(* What holds of every element of two sequences holds of the elements of   *)
(* their concatenation, and what holds of a sequence holds of its tail.    *)
LEMMA ConcatElements ==
  ASSUME NEW S, NEW s \in Seq(S), NEW t \in Seq(S), NEW i \in DOMAIN (s \o t)
  PROVE  \/ i \in DOMAIN s /\ (s \o t)[i] = s[i]
         \/ \E j \in DOMAIN t : (s \o t)[i] = t[j]
<1>1. Len(s) \in Nat /\ Len(t) \in Nat /\ i \in 1..(Len(s) + Len(t))
  OBVIOUS
<1>2. CASE i <= Len(s)
  BY <1>1, <1>2
<1>3. CASE i > Len(s)
  <2>1. i - Len(s) \in 1..Len(t) /\ (s \o t)[i] = t[i - Len(s)]
    BY <1>1, <1>3
  <2>. QED
    BY <2>1
<1>. QED
  BY <1>1, <1>2, <1>3

LEMMA TailElements ==
  ASSUME NEW S, NEW s \in Seq(S), s # <<>>, NEW i \in DOMAIN Tail(s)
  PROVE  i + 1 \in DOMAIN s /\ Tail(s)[i] = s[i + 1]
BY HeadTailProperties

(* Every reply of a command carries its id and its tag.                    *)
LEMMA AnswerElements ==
  ASSUME TypeOK, NEW w \in Wrapper, NEW b \in BOOLEAN, Answer(w, b),
         NEW i \in DOMAIN toHost'
  PROVE  \/ i \in DOMAIN toHost /\ toHost'[i] = toHost[i]
         \/ toHost'[i].id = w.id /\ toHost'[i].tag = w.tag
<1>1. \A st \in {0, 1} :
        Csw(w, st) \in InPacket /\ Csw(w, st).id = w.id /\ Csw(w, st).tag = w.tag
  BY PacketTypes DEF Csw, Reply
<1>2. /\ InData(w) \in Seq(InPacket)
      /\ \A j \in DOMAIN InData(w) :
           InData(w)[j].id = w.id /\ InData(w)[j].tag = w.tag
  BY PacketTypes DEF InData, Reply
<1>3. toHost \in Seq(InPacket)
  BY DEF TypeOK
<1>4. CASE toHost' = (toHost \o InData(w)) \o <<Csw(w, 0)>>
  <2>1. toHost \o InData(w) \in Seq(InPacket) /\ <<Csw(w, 0)>> \in Seq(InPacket)
    BY <1>1, <1>2, <1>3
  <2>2. CASE i \in DOMAIN (toHost \o InData(w)) /\ toHost'[i] = (toHost \o InData(w))[i]
    BY <2>2, <1>2, <1>3, ConcatElements
  <2>3. CASE \E j \in DOMAIN <<Csw(w, 0)>> : toHost'[i] = <<Csw(w, 0)>>[j]
    BY <2>3, <1>1
  <2>. QED
    BY <1>4, <2>1, <2>2, <2>3, ConcatElements
<1>5. CASE toHost' = Append(toHost, Csw(w, 1))
  BY <1>1, <1>3, <1>5
<1>. QED
  BY <1>4, <1>5 DEF Answer

LEMMA TagInvInit == Init => TagInv /\ VerdictIsOwn
<1>1. Init => toDev = <<>> /\ toHost = <<>> /\ dev.phase = "idle" /\ status = "none"
  BY DEF Init, IdleDev
<1>. QED
  BY <1>1 DEF TagInv, VerdictIsOwn

(* A fresh tag is on no packet in flight; a tag that is not fresh is what  *)
(* `reused` records.                                                       *)
LEMMA BeginTags ==
  ASSUME TypeOK, NEW c \in Commands, NEW t \in Tags, Begin(c, t)
  PROVE  TagInv'
<1> SUFFICES ASSUME ~reused'
             PROVE  /\ \A i \in DOMAIN toDev : toDev[i].w.tag # t
                    /\ \A i \in DOMAIN toHost : toHost[i].tag # t
                    /\ dev.phase = "data" => dev.w.tag # t
  BY DEF Begin, TagInv, TagOwned
<1>1. t \notin LiveTags
  BY DEF Begin
<1>. QED
  BY <1>1 DEF LiveTags

(* The host adds only packets of the current command.                      *)
LEMMA SendTags ==
  ASSUME TypeOK, TagInv, SendCbw \/ SendData
  PROVE  TagInv'
<1>1. UNCHANGED <<cbw, toHost, dev, reused>>
  BY DEF SendCbw, SendData
<1>2. toDev \in Seq(OutPacket) /\ cbw \in Wrapper
  BY DEF TypeOK
<1>3. ASSUME ~reused, NEW i \in DOMAIN toDev'
      PROVE  TagOwned(toDev'[i].w)
  <2>1. CASE SendCbw
    <3>1. toDev' = Append(toDev, CbwPacket(cbw)) /\ CbwPacket(cbw).w = cbw
      BY <2>1 DEF SendCbw, CbwPacket
    <3>2. \/ i \in DOMAIN toDev /\ toDev'[i] = toDev[i]
          \/ toDev'[i] = CbwPacket(cbw)
      BY <1>2, <3>1, PacketTypes
    <3>. QED
      BY <1>3, <3>1, <3>2 DEF TagInv, TagOwned
  <2>2. CASE SendData
    <3>1. PICK k \in 1..cbw.cmd.out : toDev' = toDev \o OutData(cbw, k)
      BY <2>2 DEF SendData
    <3>2. k \in Nat
      BY <1>2, CommandsAssumption DEF Wrapper, Command
    <3>3. OutData(cbw, k) \in Seq(OutPacket)
      BY <1>2, <3>2, PacketTypes
    <3>4. \A j \in DOMAIN OutData(cbw, k) : OutData(cbw, k)[j].w = cbw
      BY DEF OutData, DataPacket
    <3>5. \/ i \in DOMAIN toDev /\ toDev'[i] = toDev[i]
          \/ toDev'[i].w = cbw
      BY <1>2, <3>1, <3>3, <3>4, ConcatElements
    <3>. QED
      BY <1>3, <3>5 DEF TagInv, TagOwned
  <2>. QED
    BY <2>1, <2>2
<1>. QED
  BY <1>1, <1>3 DEF TagInv, TagOwned

(* The host takes packets away.                                            *)
LEMMA ReadTags ==
  ASSUME TypeOK, TagInv, ReadData \/ ReadCsw
  PROVE  TagInv'
<1>1. UNCHANGED <<cbw, toDev, dev, reused>> /\ toHost # <<>> /\ toHost' = Tail(toHost)
  BY DEF ReadData, ReadCsw
<1>2. toHost \in Seq(InPacket)
  BY DEF TypeOK
<1>3. ASSUME ~reused, NEW i \in DOMAIN toHost'
      PROVE  TagOwned(toHost'[i])
  <2>1. i + 1 \in DOMAIN toHost /\ toHost'[i] = toHost[i + 1]
    BY <1>1, <1>2, TailElements
  <2>. QED
    BY <1>3, <2>1 DEF TagInv
<1>. QED
  BY <1>1, <1>3 DEF TagInv, TagOwned

(* The device takes the head of its pipe, and its replies carry the tag    *)
(* and the id of a wrapper it took earlier or takes now.                   *)
LEMMA DeviceTags ==
  ASSUME TypeOK, TagInv, Device
  PROVE  TagInv'
<1>1. /\ toDev # <<>> /\ toDev' = Tail(toDev)
      /\ UNCHANGED <<cbw, reused>>
  BY DEF Device, DevCommand, DevData, hostVars
<1>2. /\ toDev \in Seq(OutPacket) /\ toHost \in Seq(InPacket)
      /\ Head(toDev) = toDev[1] /\ 1 \in DOMAIN toDev
      /\ Head(toDev).w \in Wrapper
  <2>1. Head(toDev) \in OutPacket
    BY <1>1, PipeHeads
  <2>2. Head(toDev).w \in Wrapper
    BY <2>1 DEF OutPacket
  <2>3. toDev \in Seq(OutPacket) /\ toHost \in Seq(InPacket)
    BY DEF TypeOK
  <2>. QED
    BY <1>1, <2>2, <2>3
<1>3. ASSUME ~reused, NEW i \in DOMAIN toDev'
      PROVE  TagOwned(toDev'[i].w)
  <2>1. i + 1 \in DOMAIN toDev /\ toDev'[i] = toDev[i + 1]
    BY <1>1, <1>2, TailElements
  <2>. QED
    BY <1>3, <2>1 DEF TagInv
<1>4. ~reused => TagOwned(Head(toDev).w)
  BY <1>2 DEF TagInv
<1>5. dev.phase = "data" => dev.w \in Wrapper /\ dev.intact \in BOOLEAN
  BY DevStates DEF TypeOK
<1>6. ASSUME ~reused, dev'.phase = "data"
      PROVE  TagOwned(dev'.w)
  <2>1. dev' = dev \/ dev'.w = Head(toDev).w \/ (dev.phase = "data" /\ dev'.w = dev.w)
    <3>1. CASE DevCommand
      <4>1. dev' = dev \/ dev' = BusyDev(Head(toDev).w, Head(toDev).w.cmd.out, TRUE)
        BY <3>1 DEF DevCommand, devVars
      <4>. QED
        BY <4>1 DEF BusyDev
    <3>2. CASE DevData
      BY <1>6, <3>2 DEF DevData, BusyDev, IdleDev
    <3>. QED
      BY <3>1, <3>2 DEF Device
  <2>. QED
    BY <1>4, <1>6, <2>1 DEF TagInv, TagOwned
<1>7. PICK w \in Wrapper :
        /\ ~reused => TagOwned(w)
        /\ \/ toHost' = toHost
           \/ toHost' = Append(toHost, Csw(w, 1))
           \/ \E b \in BOOLEAN : Answer(w, b)
  <2>1. CASE DevCommand
    BY <1>2, <1>4, <2>1 DEF DevCommand
  <2>2. CASE DevData
    <3>1. (dev.intact /\ Head(toDev).kind = "data" /\ Head(toDev).w.id = dev.w.id) \in BOOLEAN
      OBVIOUS
    <3>. QED
      BY <1>5, <2>2, <3>1 DEF DevData, TagInv
  <2>. QED
    BY <2>1, <2>2 DEF Device
<1>8. ASSUME ~reused, NEW i \in DOMAIN toHost'
      PROVE  TagOwned(toHost'[i])
  <2>1. Csw(w, 1) \in InPacket /\ Csw(w, 1).id = w.id /\ Csw(w, 1).tag = w.tag
    BY PacketTypes DEF Csw, Reply
  <2>2. \/ i \in DOMAIN toHost /\ toHost'[i] = toHost[i]
        \/ toHost'[i].id = w.id /\ toHost'[i].tag = w.tag
    <3>1. CASE toHost' = toHost
      BY <1>8, <3>1
    <3>2. CASE toHost' = Append(toHost, Csw(w, 1))
      BY <1>2, <2>1, <1>8, <3>2
    <3>3. CASE \E b \in BOOLEAN : Answer(w, b)
      BY <1>8, <3>3, AnswerElements
    <3>. QED
      BY <1>7, <3>1, <3>2, <3>3
  <2>. QED
    BY <1>7, <1>8, <2>2 DEF TagInv, TagOwned
<1>. QED
  BY <1>1, <1>3, <1>6, <1>8 DEF TagInv, TagOwned

LEMMA TagInvStep ==
  ASSUME TypeOK, TagInv, [Next]_vars
  PROVE  TagInv'
<1>1. ASSUME NEW c \in Commands, NEW t \in Tags, Begin(c, t)
      PROVE  TagInv'
  BY <1>1, BeginTags
<1>2. CASE Fail
  BY <1>2 DEF Fail, TagInv, TagOwned
<1>3. CASE SendCbw \/ SendData
  BY <1>3, SendTags
<1>4. CASE ReadData \/ ReadCsw
  BY <1>4, ReadTags
<1>5. CASE Open
  BY <1>5 DEF Open, IdleDev, TagInv
<1>6. CASE Device
  BY <1>6, DeviceTags
<1>7. CASE UNCHANGED vars
  BY <1>7 DEF vars, TagInv, TagOwned
<1>. QED
  BY <1>1, <1>2, <1>3, <1>4, <1>5, <1>6, <1>7 DEF Next, Host

(* The status changes only where a call begins or returns; a device's      *)
(* verdict is returned by ReadCsw alone, after the tag check.              *)
LEMMA VerdictStep ==
  ASSUME TypeOK, TagInv, VerdictIsOwn, [Next]_vars
  PROVE  VerdictIsOwn'
<1>1. CASE ReadCsw
  <2>1. /\ replyId' = Head(toHost).id /\ UNCHANGED <<cbw, reused>>
        /\ status' = CswVerdict(Head(toHost), cbw.tag) /\ toHost # <<>>
    BY <1>1 DEF ReadCsw, Return
  <2>2. Head(toHost) \in InPacket /\ Head(toHost) = toHost[1] /\ 1 \in DOMAIN toHost
    BY <2>1, PipeHeads DEF TypeOK
  <2>3. status' \in {"Ok", "CommandFailed"} => Head(toHost).tag = cbw.tag
    BY <2>1, <2>2, VerdictValues DEF TypeOK, Wrapper
  <2>4. ~reused => TagOwned(Head(toHost))
    BY <2>2 DEF TagInv
  <2>. QED
    BY <2>1, <2>3, <2>4 DEF TagOwned, VerdictIsOwn
<1>2. ASSUME NEW c \in Commands, NEW t \in Tags, Begin(c, t)
      PROVE  VerdictIsOwn'
  BY <1>2 DEF Begin, VerdictIsOwn
<1>3. CASE Fail \/ SendCbw \/ SendData \/ ReadData
  <2>1. UNCHANGED <<cbw, replyId, reused>> /\ (status' = "Usb" \/ status' = status)
    BY <1>3 DEF Fail, SendCbw, SendData, ReadData, Return
  <2>. QED
    BY <2>1 DEF VerdictIsOwn
<1>4. CASE Open \/ Device \/ UNCHANGED vars
  BY <1>4 DEF Open, Device, DevCommand, DevData, hostVars, vars, VerdictIsOwn
<1>. QED
  BY <1>1, <1>2, <1>3, <1>4 DEF Next, Host

(* A verdict is the device's verdict on this very command, for any command *)
(* set, tag set and number of abandoned transactions before it.            *)
THEOREM VerdictCorrect == Spec => []VerdictIsOwn
<1>1. Init => TagInv /\ VerdictIsOwn
  BY TagInvInit
<1>2. TypeOK /\ TagInv /\ VerdictIsOwn /\ [Next]_vars => TagInv' /\ VerdictIsOwn'
  BY TagInvStep, VerdictStep
<1>3. Spec => []TypeOK
  BY TypeCorrect
<1>. QED
  BY <1>1, <1>2, <1>3, PTL DEF Spec

-----------------------------------------------------------------------------
(* On top of the tag invariant: the transport reports success only for     *)
(* what was done, implements CommandService, and leaves nothing in the     *)
(* pipes after a success.                                                  *)

Busy == dev.phase = "data"

\* Packet p comes after command n: its wrapper is of a later command, its
\* data of n at the earliest.
After(n, p) == n <= p.w.id /\ (p.kind = "cbw" => n < p.w.id)

\* Nothing in flight, and nothing done, belongs to a command not yet issued.
IdsKnown ==
  /\ pc # "idle" => cbw.id >= 1
  /\ done \subseteq 1..cbw.id
  /\ \A i \in DOMAIN toDev : toDev[i].w.id \in 1..cbw.id
  /\ Busy => dev.w.id \in 1..cbw.id
  /\ \A i \in DOMAIN toHost : toHost[i].id <= cbw.id

\* A command that was carried out comes before the one the device is at, and
\* that before the ones that wait in its pipe, which are in order.
InOrder ==
  /\ \A i, j \in DOMAIN toDev : i < j => After(toDev[i].w.id, toDev[j])
  /\ Busy => \A j \in DOMAIN toDev : After(dev.w.id, toDev[j])
  /\ Busy => \A d \in done : d < dev.w.id
  /\ \A d \in done, j \in DOMAIN toDev : toDev[j].kind = "cbw" => d < toDev[j].w.id

\* Until its wrapper is sent, the current command has left no trace.
Unsent ==
  pc = "cbw" =>
    /\ cbw.id \notin done
    /\ \A i \in DOMAIN toDev : toDev[i].w.id < cbw.id
    /\ Busy => dev.w.id < cbw.id

\* A status wrapper that reports the success of the current command.
Success(p) == p.kind = "csw" /\ p.status = 0 /\ p.id = cbw.id

\* The data stage of the current command is never spoiled, for only a later
\* command could do that; so its success is real.
CurrentIntact ==
  /\ Busy /\ dev.w.id = cbw.id => dev.intact
  /\ \A i \in DOMAIN toHost : Success(toHost[i]) => cbw.id \in done

OrderInv == IdsKnown /\ InOrder /\ Unsent /\ CurrentIntact

-----------------------------------------------------------------------------
(* Ids are numbers.                                                        *)
LEMMA IdTypes ==
  ASSUME TypeOK
  PROVE  /\ cbw \in Wrapper /\ cbw.id \in Nat
         /\ \A i \in DOMAIN toDev : toDev[i] \in OutPacket /\ toDev[i].w.id \in Nat
         /\ \A i \in DOMAIN toHost : toHost[i] \in InPacket /\ toHost[i].id \in Nat
         /\ Busy => dev.w \in Wrapper /\ dev.w.id \in Nat /\ dev.intact \in BOOLEAN
<1>1. cbw \in Wrapper /\ toDev \in Seq(OutPacket) /\ toHost \in Seq(InPacket) /\ dev \in DevState
  BY DEF TypeOK
<1>2. /\ \A i \in DOMAIN toDev : toDev[i] \in OutPacket
      /\ \A i \in DOMAIN toHost : toHost[i] \in InPacket
  BY <1>1
<1>3. Busy => dev.w \in Wrapper /\ dev.intact \in BOOLEAN
  BY <1>1, DevStates DEF Busy
<1>. QED
  BY <1>1, <1>2, <1>3 DEF OutPacket, InPacket, Wrapper

LEMMA OrderInit == Init => OrderInv
<1> SUFFICES ASSUME Init PROVE OrderInv
  OBVIOUS
<1>1. toDev = <<>> /\ toHost = <<>> /\ done = {} /\ pc = "idle" /\ ~Busy
  BY DEF Init, IdleDev, Busy
<1>. QED
  BY <1>1 DEF OrderInv, IdsKnown, InOrder, Unsent, CurrentIntact

(* A new command has a number of its own.                                  *)
LEMMA BeginOrder ==
  ASSUME TypeOK, OrderInv, NEW c \in Commands, NEW t \in Tags, Begin(c, t)
  PROVE  OrderInv'
<1>1. cbw'.id = cbw.id + 1 /\ UNCHANGED <<toDev, toHost, dev, done>>
  BY DEF Begin
<1>2. IdsKnown' /\ Unsent'
  BY <1>1, IdTypes DEF OrderInv, IdsKnown, Unsent, Busy
<1>3. InOrder'
  BY <1>1 DEF OrderInv, InOrder, Busy, After
<1>4. CurrentIntact'
  BY <1>1, IdTypes DEF OrderInv, IdsKnown, CurrentIntact, Success, Busy
<1>. QED
  BY <1>2, <1>3, <1>4 DEF OrderInv

(* What the host sends comes after everything in its pipe.                 *)
LEMMA SendOrder ==
  ASSUME TypeOK, OrderInv, UNCHANGED <<cbw, toHost, dev, done>>,
         pc # "idle", pc' # "cbw",
         NEW q \in Seq(OutPacket), toDev' = toDev \o q,
         \A j \in DOMAIN q : q[j].w = cbw,
         \/ \A j \in DOMAIN q : q[j].kind = "data"
         \/ pc = "cbw" /\ Len(q) = 1
  PROVE  OrderInv'
<1>1. toDev \in Seq(OutPacket) /\ Len(toDev) \in Nat /\ Len(q) \in Nat
  BY DEF TypeOK
<1>2. \A i \in DOMAIN toDev' :
        \/ i \in DOMAIN toDev /\ toDev'[i] = toDev[i]
        \/ i > Len(toDev) /\ i - Len(toDev) \in DOMAIN q /\ toDev'[i] = q[i - Len(toDev)]
  BY <1>1
<1>3. \A i \in DOMAIN toDev' :
        \/ i \in DOMAIN toDev /\ toDev'[i] = toDev[i]
        \/ /\ i > Len(toDev) /\ toDev'[i].w = cbw
           /\ toDev'[i].kind = "data" \/ (pc = "cbw" /\ i = Len(toDev) + 1)
  <2>1. ASSUME NEW i \in DOMAIN toDev', i > Len(toDev), i - Len(toDev) \in DOMAIN q,
               Len(q) = 1
        PROVE  i = Len(toDev) + 1
    <3>1. i \in Nat /\ i - Len(toDev) \in 1..1
      BY <1>1, <2>1
    <3>. QED
      BY <1>1, <3>1
  <2>. QED
    BY <1>2, <2>1
<1>4. cbw.id \in Nat /\ cbw.id >= 1
  BY IdTypes DEF OrderInv, IdsKnown
<1>5. IdsKnown'
  <2>1. \A i \in DOMAIN toDev' : toDev'[i].w.id \in 1..cbw.id
    BY <1>3, <1>4 DEF OrderInv, IdsKnown
  <2>. QED
    BY <1>4, <2>1 DEF OrderInv, IdsKnown, Busy
<1>6. \A n \in Nat :
        n <= cbw.id /\ (pc = "cbw" => n < cbw.id) =>
          \A i \in DOMAIN toDev' : i > Len(toDev) => After(n, toDev'[i])
  <2> SUFFICES ASSUME NEW n \in Nat, n <= cbw.id, pc = "cbw" => n < cbw.id,
                      NEW i \in DOMAIN toDev', i > Len(toDev)
               PROVE  After(n, toDev'[i])
    OBVIOUS
  <2>1. i \notin DOMAIN toDev
    BY <1>1
  <2>. QED
    BY <1>3, <2>1 DEF After
<1>7. InOrder'
  <2>1. ASSUME NEW i \in DOMAIN toDev', NEW j \in DOMAIN toDev', i < j
        PROVE  After(toDev'[i].w.id, toDev'[j])
    <3>1. CASE j \in DOMAIN toDev
      <4>1. i \in DOMAIN toDev
        BY <1>1, <2>1, <3>1
      <4>. QED
        BY <1>1, <1>3, <2>1, <3>1, <4>1 DEF OrderInv, InOrder
    <3>2. CASE j \notin DOMAIN toDev
      <4>1. j > Len(toDev)
        BY <1>3, <3>2
      <4>2. CASE i \in DOMAIN toDev
        <5>1. toDev'[i] = toDev[i]
          BY <1>1, <1>3, <4>2
        <5>2. toDev[i].w.id \in Nat /\ toDev[i].w.id <= cbw.id
          BY <1>4, <4>2, IdTypes DEF OrderInv, IdsKnown
        <5>3. pc = "cbw" => toDev[i].w.id < cbw.id
          BY <4>2 DEF OrderInv, Unsent
        <5>. QED
          BY <1>6, <4>1, <5>1, <5>2, <5>3
      <4>3. CASE i \notin DOMAIN toDev
        <5>1. toDev'[i].w = cbw /\ toDev'[j].w = cbw
          BY <1>3, <3>2, <4>3
        <5>2. toDev'[j].kind = "data"
          <6>1. i > Len(toDev) /\ i \in Nat /\ j \in Nat
            BY <1>1, <1>3, <4>3
          <6>2. j # Len(toDev) + 1
            BY <1>1, <2>1, <6>1
          <6>. QED
            BY <1>3, <3>2, <6>2
        <5>. QED
          BY <1>4, <5>1, <5>2 DEF After
      <4>. QED
        BY <4>2, <4>3
    <3>. QED
      BY <3>1, <3>2
  <2>2. ASSUME Busy, NEW j \in DOMAIN toDev'
        PROVE  After(dev.w.id, toDev'[j])
    <3>1. dev.w.id \in Nat /\ dev.w.id <= cbw.id /\ (pc = "cbw" => dev.w.id < cbw.id)
      BY <1>4, <2>2, IdTypes DEF OrderInv, IdsKnown, Unsent
    <3>. QED
      BY <1>3, <1>6, <2>2, <3>1 DEF OrderInv, InOrder
  <2>3. ASSUME NEW d \in done, NEW j \in DOMAIN toDev', toDev'[j].kind = "cbw"
        PROVE  d < toDev'[j].w.id
    <3>1. d \in Nat /\ d <= cbw.id /\ (pc = "cbw" => d < cbw.id)
      <4>1. d \in 1..cbw.id
        BY DEF OrderInv, IdsKnown
      <4>2. pc = "cbw" => d # cbw.id
        BY DEF OrderInv, Unsent
      <4>. QED
        BY <1>4, <4>1, <4>2
    <3>2. CASE j \in DOMAIN toDev /\ toDev'[j] = toDev[j]
      BY <2>3, <3>2 DEF OrderInv, InOrder
    <3>3. CASE j > Len(toDev)
      BY <1>6, <2>3, <3>1, <3>3 DEF After
    <3>. QED
      BY <1>3, <3>2, <3>3
  <2>. QED
    BY <2>1, <2>2, <2>3 DEF OrderInv, InOrder, Busy
<1>8. Unsent'
  BY DEF Unsent
<1>9. CurrentIntact'
  BY DEF OrderInv, CurrentIntact, Success, Busy
<1>. QED
  BY <1>5, <1>7, <1>8, <1>9 DEF OrderInv

LEMMA HostSends == ASSUME TypeOK, OrderInv, SendCbw \/ SendData PROVE OrderInv'
<1>1. cbw \in Wrapper /\ toDev \in Seq(OutPacket)
  BY DEF TypeOK
<1>2. CASE SendCbw
  <2>1. CbwPacket(cbw) \in OutPacket /\ CbwPacket(cbw).w = cbw
    BY <1>1, PacketTypes DEF CbwPacket
  <2>2. toDev' = toDev \o <<CbwPacket(cbw)>>
    BY <1>1, <1>2, <2>1 DEF SendCbw
  <2>3. pc = "cbw" /\ pc' # "cbw" /\ UNCHANGED <<cbw, toHost, dev, done>>
    BY <1>2 DEF SendCbw, Return, AfterCbw
  <2>4. <<CbwPacket(cbw)>> \in Seq(OutPacket) /\ Len(<<CbwPacket(cbw)>>) = 1
    BY <2>1
  <2>5. \A j \in DOMAIN <<CbwPacket(cbw)>> : <<CbwPacket(cbw)>>[j].w = cbw
    BY <2>1
  <2>6. pc # "idle"
    BY <2>3
  <2>. QED
    BY <2>2, <2>3, <2>4, <2>5, <2>6, SendOrder
<1>3. CASE SendData
  <2>1. PICK k \in 1..cbw.cmd.out : toDev' = toDev \o OutData(cbw, k)
    BY <1>3 DEF SendData
  <2>2. k \in Nat
    BY <1>1, CommandsAssumption DEF Wrapper, Command
  <2>3. OutData(cbw, k) \in Seq(OutPacket)
    BY <1>1, <2>2, PacketTypes
  <2>4. \A j \in DOMAIN OutData(cbw, k) :
          OutData(cbw, k)[j].w = cbw /\ OutData(cbw, k)[j].kind = "data"
    BY DEF OutData, DataPacket
  <2>5. pc = "dataout" /\ pc' # "cbw" /\ UNCHANGED <<cbw, toHost, dev, done>>
    BY <1>3 DEF SendData, Return
  <2>. QED
    BY <2>1, <2>3, <2>4, <2>5, SendOrder
<1>. QED
  BY <1>2, <1>3

(* Reading takes packets from the other pipe only.                         *)
LEMMA HostReads == ASSUME TypeOK, OrderInv, ReadData \/ ReadCsw PROVE OrderInv'
<1>1. /\ UNCHANGED <<cbw, toDev, dev, done>>
      /\ toHost # <<>> /\ toHost' = Tail(toHost) /\ pc # "idle" /\ pc' # "cbw"
  BY DEF ReadData, ReadCsw, Return
<1>2. toHost \in Seq(InPacket)
  BY DEF TypeOK
<1>3. \A i \in DOMAIN toHost' : i + 1 \in DOMAIN toHost /\ toHost'[i] = toHost[i + 1]
  BY <1>1, <1>2, TailElements
<1>4. IdsKnown'
  BY <1>1, <1>3 DEF OrderInv, IdsKnown, Busy
<1>5. InOrder' /\ Unsent'
  BY <1>1 DEF OrderInv, InOrder, Unsent, Busy, After
<1>6. CurrentIntact'
  BY <1>1, <1>3 DEF OrderInv, CurrentIntact, Busy, Success
<1>. QED
  BY <1>4, <1>5, <1>6 DEF OrderInv

-----------------------------------------------------------------------------
(* The device.                                                             *)

\* Wrapper w is the one the device is at, or takes now: it comes after all
\* that is done, and before all that waits behind it in the pipe.
AtTurn(w) ==
  /\ w.id \in 1..cbw.id
  /\ pc = "cbw" => w.id < cbw.id
  /\ \A d \in done : d < w.id
  /\ \A j \in DOMAIN Tail(toDev) : After(w.id, Tail(toDev)[j])

(* What is left in the pipe is in order.                                   *)
LEMMA TailOrder ==
  ASSUME TypeOK, OrderInv, toDev # <<>>
  PROVE  /\ \A i \in DOMAIN Tail(toDev) : i + 1 \in DOMAIN toDev /\ Tail(toDev)[i] = toDev[i + 1]
         /\ \A i, j \in DOMAIN Tail(toDev) : i < j => After(Tail(toDev)[i].w.id, Tail(toDev)[j])
         /\ 1 \in DOMAIN toDev /\ Head(toDev) = toDev[1] /\ Head(toDev) \in OutPacket
         /\ \A j \in DOMAIN Tail(toDev) : After(Head(toDev).w.id, Tail(toDev)[j])
<1>1. toDev \in Seq(OutPacket)
  BY DEF TypeOK
<1>2. \A i \in DOMAIN Tail(toDev) : i + 1 \in DOMAIN toDev /\ Tail(toDev)[i] = toDev[i + 1]
  BY <1>1, TailElements
<1>3. 1 \in DOMAIN toDev /\ Head(toDev) = toDev[1] /\ Head(toDev) \in OutPacket
  BY <1>1
<1>4. \A i \in DOMAIN Tail(toDev) : i \in Nat \ {0}
  BY <1>1
<1>5. ASSUME NEW i \in DOMAIN Tail(toDev), NEW j \in DOMAIN Tail(toDev), i < j
      PROVE  After(Tail(toDev)[i].w.id, Tail(toDev)[j])
  <2>1. i + 1 < j + 1
    BY <1>4, <1>5
  <2>. QED
    BY <1>2, <2>1 DEF OrderInv, InOrder
<1>6. ASSUME NEW j \in DOMAIN Tail(toDev)
      PROVE  After(Head(toDev).w.id, Tail(toDev)[j])
  <2>1. 1 < j + 1
    BY <1>4
  <2>. QED
    BY <1>2, <1>3, <2>1 DEF OrderInv, InOrder
<1>. QED
  BY <1>2, <1>3, <1>5, <1>6

(* A wrapper an idle device takes, and the one a busy device works on, are *)
(* at their turn.                                                          *)
LEMMA TakenAtTurn ==
  ASSUME TypeOK, OrderInv, toDev # <<>>
  PROVE  /\ Head(toDev).kind = "cbw" => AtTurn(Head(toDev).w)
         /\ Busy => AtTurn(dev.w)
<1>1. Head(toDev).kind = "cbw" => AtTurn(Head(toDev).w)
  BY TailOrder DEF AtTurn, OrderInv, IdsKnown, InOrder, Unsent
<1>2. Busy => AtTurn(dev.w)
  BY TailOrder DEF AtTurn, OrderInv, IdsKnown, InOrder, Unsent
<1>. QED
  BY <1>1, <1>2

(* The device is busy with the wrapper whose turn it is.                   *)
LEMMA BusyOrder ==
  ASSUME TypeOK, OrderInv, toDev # <<>>, toDev' = Tail(toDev),
         UNCHANGED <<hostVars, toHost, done>>,
         NEW w, AtTurn(w), Busy', dev'.w = w, w.id = cbw.id => dev'.intact
  PROVE  OrderInv'
<1>1. UNCHANGED <<pc, cbw>>
  BY DEF hostVars
<1>2. IdsKnown'
  BY <1>1, TailOrder DEF OrderInv, IdsKnown, AtTurn
<1>3. InOrder'
  <2>1. \A d \in done, j \in DOMAIN toDev' : toDev'[j].kind = "cbw" => d < toDev'[j].w.id
    BY TailOrder DEF OrderInv, InOrder
  <2>2. \A i, j \in DOMAIN toDev' : i < j => After(toDev'[i].w.id, toDev'[j])
    BY TailOrder
  <2>3. (\A j \in DOMAIN toDev' : After(dev'.w.id, toDev'[j])) /\ (\A d \in done : d < dev'.w.id)
    BY DEF AtTurn
  <2>. QED
    BY <2>1, <2>2, <2>3 DEF InOrder, After
<1>4. Unsent'
  BY <1>1, TailOrder DEF OrderInv, Unsent, AtTurn
<1>5. CurrentIntact'
  BY <1>1 DEF OrderInv, CurrentIntact, Success, Busy
<1>. QED
  BY <1>2, <1>3, <1>4, <1>5 DEF OrderInv

(* The device is idle after the wrapper whose turn it was, or after a      *)
(* packet it discarded: what follows is still in order.                    *)
LEMMA IdleOrder ==
  ASSUME TypeOK, OrderInv, toDev # <<>>, toDev' = Tail(toDev),
         UNCHANGED hostVars, ~Busy',
         done' = done \/ (\E w \in Wrapper : AtTurn(w) /\ done' = done \cup {w.id}),
         \A i \in DOMAIN toHost' : toHost'[i].id <= cbw.id,
         \A i \in DOMAIN toHost' : Success(toHost'[i]) => cbw.id \in done'
  PROVE  OrderInv'
<1>1. UNCHANGED <<pc, cbw>>
  BY DEF hostVars
<1>2. done' \subseteq 1..cbw.id
  BY DEF AtTurn, OrderInv, IdsKnown
<1>3. IdsKnown'
  BY <1>1, <1>2, TailOrder DEF OrderInv, IdsKnown
<1>4. InOrder'
  <2>1. \A d \in done', j \in DOMAIN toDev' : toDev'[j].kind = "cbw" => d < toDev'[j].w.id
    BY TailOrder DEF OrderInv, InOrder, AtTurn, After
  <2>2. \A i, j \in DOMAIN toDev' : i < j => After(toDev'[i].w.id, toDev'[j])
    BY TailOrder
  <2>. QED
    BY <2>1, <2>2 DEF InOrder, After
<1>5. pc = "cbw" => cbw.id \notin done'
  BY IdTypes DEF OrderInv, Unsent, AtTurn
<1>6. Unsent'
  BY <1>1, <1>5, TailOrder DEF OrderInv, Unsent
<1>7. CurrentIntact'
  BY <1>1 DEF CurrentIntact, Success
<1>. QED
  BY <1>3, <1>4, <1>6, <1>7 DEF OrderInv

(* An answer goes into the pipe in which nothing is later; a success of    *)
(* the current command is one of a command that was done.                  *)
LEMMA AnswerOrder ==
  ASSUME TypeOK, OrderInv, NEW w \in Wrapper, w.id <= cbw.id,
         \/ toHost' = Append(toHost, Csw(w, 1)) /\ done' = done
         \/ \E b \in BOOLEAN : Answer(w, b) /\ (w.id = cbw.id => b)
  PROVE  /\ done' = done \/ done' = done \cup {w.id}
         /\ \A i \in DOMAIN toHost' : toHost'[i].id <= cbw.id
         /\ \A i \in DOMAIN toHost' : Success(toHost'[i]) => cbw.id \in done'
<1>1. done' = done \/ done' = done \cup {w.id}
  BY DEF Answer
<1>2. toHost \in Seq(InPacket)
  BY DEF TypeOK
<1>3. CASE toHost' = Append(toHost, Csw(w, 1)) /\ done' = done
  <2>1. Csw(w, 1) \in InPacket /\ Csw(w, 1).id = w.id /\ Csw(w, 1).status = 1
    BY PacketTypes DEF Csw, Reply
  <2>2. \A i \in DOMAIN toHost' :
          (i \in DOMAIN toHost /\ toHost'[i] = toHost[i]) \/ toHost'[i] = Csw(w, 1)
    BY <1>2, <1>3, <2>1
  <2>. QED
    BY <1>1, <1>3, <2>1, <2>2 DEF OrderInv, IdsKnown, CurrentIntact, Success
<1>4. ASSUME NEW b \in BOOLEAN, Answer(w, b), w.id = cbw.id => b,
             done' = (IF b THEN done \cup {w.id} ELSE done)
      PROVE  /\ \A i \in DOMAIN toHost' : toHost'[i].id <= cbw.id
             /\ \A i \in DOMAIN toHost' : Success(toHost'[i]) => cbw.id \in done'
  <2>1. \A i \in DOMAIN toHost' :
          (i \in DOMAIN toHost /\ toHost'[i] = toHost[i]) \/ toHost'[i].id = w.id
    BY <1>4, AnswerElements
  <2>. QED
    BY <1>4, <2>1 DEF OrderInv, IdsKnown, CurrentIntact, Success
<1>5. CASE \E b \in BOOLEAN : Answer(w, b) /\ (w.id = cbw.id => b)
  <2>1. PICK b \in BOOLEAN : Answer(w, b) /\ (w.id = cbw.id => b)
    BY <1>5
  <2>2. \/ done' = (IF b THEN done \cup {w.id} ELSE done)
        \/ toHost' = Append(toHost, Csw(w, 1)) /\ done' = done
    BY <2>1 DEF Answer
  <2>. QED
    BY <1>1, <1>3, <1>4, <2>1, <2>2
<1>. QED
  BY <1>3, <1>5

LEMMA DevCommandOrder == ASSUME TypeOK, OrderInv, DevCommand PROVE OrderInv'
<1>1. /\ toDev # <<>> /\ toDev' = Tail(toDev) /\ UNCHANGED hostVars /\ ~Busy
  BY DEF DevCommand, Busy
<1> DEFINE p == Head(toDev)
<1>2. p \in OutPacket /\ p.w \in Wrapper
  BY <1>1, PipeHeads DEF OutPacket
<1>3. p.kind = "cbw" => AtTurn(p.w)
  BY <1>1, TakenAtTurn
<1>4. CASE p.kind = "cbw" /\ dev' = BusyDev(p.w, p.w.cmd.out, TRUE) /\ UNCHANGED <<toHost, done>>
  <2>1. Busy' /\ dev'.w = p.w /\ dev'.intact
    BY <1>4 DEF BusyDev, Busy
  <2>. QED
    BY <1>1, <1>3, <1>4, <2>1, BusyOrder
<1>5. CASE /\ p.kind = "cbw" /\ dev' = dev
           /\ \/ toHost' = Append(toHost, Csw(p.w, 1)) /\ done' = done
              \/ Answer(p.w, TRUE)
  <2>1. p.w.id <= cbw.id
    BY <1>3, <1>5, IdTypes DEF AtTurn
  <2>2. /\ done' = done \/ done' = done \cup {p.w.id}
        /\ \A i \in DOMAIN toHost' : toHost'[i].id <= cbw.id
        /\ \A i \in DOMAIN toHost' : Success(toHost'[i]) => cbw.id \in done'
    BY <1>2, <1>5, <2>1, AnswerOrder
  <2>3. ~Busy'
    BY <1>1, <1>5 DEF Busy
  <2>4. done' = done \/ \E w \in Wrapper : AtTurn(w) /\ done' = done \cup {w.id}
    BY <1>2, <1>3, <1>5, <2>2
  <2>. QED
    BY <1>1, <2>2, <2>3, <2>4, IdleOrder
<1>6. CASE UNCHANGED <<toHost, dev, done>>
  <2>1. /\ \A i \in DOMAIN toHost' : toHost'[i].id <= cbw.id
        /\ \A i \in DOMAIN toHost' : Success(toHost'[i]) => cbw.id \in done'
    BY <1>6 DEF OrderInv, IdsKnown, CurrentIntact
  <2>2. ~Busy' /\ done' = done
    BY <1>1, <1>6 DEF Busy
  <2>. QED
    BY <1>1, <2>1, <2>2, IdleOrder
<1>. QED
  BY <1>4, <1>5, <1>6 DEF DevCommand, devVars

(* The packet that meets a device busy with the current command is its own *)
(* data: a wrapper behind it would be of a later command.                  *)
LEMMA CurrentDataIsOwn ==
  ASSUME TypeOK, OrderInv, Busy, toDev # <<>>, dev.w.id = cbw.id
  PROVE  Head(toDev).kind = "data" /\ Head(toDev).w.id = dev.w.id /\ dev.intact
<1>1. 1 \in DOMAIN toDev /\ Head(toDev) = toDev[1] /\ Head(toDev) \in OutPacket
  BY TailOrder
<1>2. After(dev.w.id, Head(toDev)) /\ Head(toDev).w.id \in 1..cbw.id
  BY <1>1 DEF OrderInv, InOrder, IdsKnown
<1>3. Head(toDev).kind \in {"cbw", "data"}
  BY <1>1 DEF OutPacket
<1>. QED
  BY <1>2, <1>3, IdTypes DEF After, OrderInv, CurrentIntact

LEMMA DevDataOrder == ASSUME TypeOK, OrderInv, DevData PROVE OrderInv'
<1>1. /\ toDev # <<>> /\ toDev' = Tail(toDev) /\ UNCHANGED hostVars /\ Busy
  BY DEF DevData, Busy
<1> DEFINE own == Head(toDev).kind = "data" /\ Head(toDev).w.id = dev.w.id
           intact == dev.intact /\ own
<1>2. AtTurn(dev.w) /\ dev.w \in Wrapper /\ intact \in BOOLEAN
  BY <1>1, TakenAtTurn, IdTypes
<1>3. dev.w.id = cbw.id => intact
  BY <1>1, CurrentDataIsOwn
<1>4. CASE dev' = BusyDev(dev.w, dev.need - 1, intact) /\ UNCHANGED <<toHost, done>>
  <2>1. Busy' /\ dev'.w = dev.w /\ dev'.intact = intact
    BY <1>4 DEF BusyDev, Busy
  <2>. QED
    BY <1>1, <1>2, <1>3, <1>4, <2>1, BusyOrder
<1>5. CASE /\ dev' = IdleDev
           /\ \/ toHost' = Append(toHost, Csw(dev.w, 1)) /\ done' = done
              \/ Answer(dev.w, intact)
  <2>1. dev.w.id <= cbw.id
    BY <1>2, IdTypes DEF AtTurn
  <2>2. /\ done' = done \/ done' = done \cup {dev.w.id}
        /\ \A i \in DOMAIN toHost' : toHost'[i].id <= cbw.id
        /\ \A i \in DOMAIN toHost' : Success(toHost'[i]) => cbw.id \in done'
    BY <1>2, <1>3, <1>5, <2>1, AnswerOrder
  <2>3. ~Busy'
    BY <1>5 DEF Busy, IdleDev
  <2>4. done' = done \/ \E w \in Wrapper : AtTurn(w) /\ done' = done \cup {w.id}
    BY <1>2, <2>2
  <2>. QED
    BY <1>1, <2>2, <2>3, <2>4, IdleOrder
<1>. QED
  BY <1>4, <1>5 DEF DevData

-----------------------------------------------------------------------------
LEMMA OrderStep == ASSUME TypeOK, OrderInv, [Next]_vars PROVE OrderInv'
<1>1. ASSUME NEW c \in Commands, NEW t \in Tags, Begin(c, t)
      PROVE  OrderInv'
  BY <1>1, BeginOrder
<1>2. CASE Fail
  BY <1>2 DEF Fail, Return, OrderInv, IdsKnown, InOrder, Unsent, CurrentIntact, Busy, After, Success
<1>3. CASE SendCbw \/ SendData
  BY <1>3, HostSends
<1>4. CASE ReadData \/ ReadCsw
  BY <1>4, HostReads
<1>5. CASE Open
  <2>1. toDev' = <<>> /\ toHost' = <<>> /\ ~Busy' /\ UNCHANGED <<pc, cbw, done>> /\ pc = "idle"
    BY <1>5 DEF Open, IdleDev, Busy, hostVars
  <2>. QED
    BY <2>1 DEF OrderInv, IdsKnown, InOrder, Unsent, CurrentIntact
<1>6. CASE Device
  BY <1>6, DevCommandOrder, DevDataOrder DEF Device
<1>7. CASE UNCHANGED vars
  BY <1>7 DEF vars, OrderInv, IdsKnown, InOrder, Unsent, CurrentIntact, Busy, After, Success
<1>. QED
  BY <1>1, <1>2, <1>3, <1>4, <1>5, <1>6, <1>7 DEF Next, Host

(* Ok is returned by ReadCsw alone, for a status wrapper that carries the  *)
(* current tag, and therefore the current number.                          *)
LEMMA OkStep ==
  ASSUME TypeOK, TagInv, OrderInv, OkMeansDone, [Next]_vars
  PROVE  OkMeansDone'
<1>1. CASE ReadCsw
  <2>1. /\ UNCHANGED <<cbw, reused, done>> /\ toHost # <<>>
        /\ status' = CswVerdict(Head(toHost), cbw.tag)
    BY <1>1 DEF ReadCsw, Return
  <2>2. Head(toHost) \in InPacket /\ Head(toHost) = toHost[1] /\ 1 \in DOMAIN toHost
    BY <2>1, PipeHeads DEF TypeOK
  <2>3. status' = "Ok" =>
          Head(toHost).tag = cbw.tag /\ Head(toHost).kind = "csw" /\ Head(toHost).status = 0
    BY <2>1, <2>2 DEF CswVerdict, InPacket
  <2>4. ~reused => TagOwned(Head(toHost))
    BY <2>2 DEF TagInv
  <2>. QED
    BY <2>1, <2>2, <2>3, <2>4 DEF TagOwned, OkMeansDone, OrderInv, CurrentIntact, Success
<1>2. ASSUME NEW c \in Commands, NEW t \in Tags, Begin(c, t)
      PROVE  OkMeansDone'
  BY <1>2 DEF Begin, OkMeansDone
<1>3. CASE Fail \/ SendCbw \/ SendData \/ ReadData
  <2>1. UNCHANGED <<cbw, reused, done>> /\ (status' = "Usb" \/ status' = status)
    BY <1>3 DEF Fail, SendCbw, SendData, ReadData, Return
  <2>. QED
    BY <2>1 DEF OkMeansDone
<1>4. CASE Open \/ Device \/ UNCHANGED vars
  <2>1. UNCHANGED <<cbw, reused, status>> /\ done \subseteq done'
    BY <1>4 DEF Open, Device, DevCommand, DevData, Answer, hostVars, devVars, vars
  <2>. QED
    BY <2>1 DEF OkMeansDone
<1>. QED
  BY <1>1, <1>2, <1>3, <1>4 DEF Next, Host

TransportInv == TypeOK /\ TagInv /\ OrderInv /\ OkMeansDone

LEMMA TransportAlways == Spec => []TransportInv
<1>1. Init => TagInv /\ OrderInv /\ OkMeansDone
  <2>1. Init => OkMeansDone
    BY DEF Init, OkMeansDone
  <2>. QED
    BY <2>1, TagInvInit, OrderInit
<1>2. TypeOK /\ TagInv /\ OrderInv /\ OkMeansDone /\ [Next]_vars =>
        TagInv' /\ OrderInv' /\ OkMeansDone'
  BY TagInvStep, OrderStep, OkStep
<1>3. Spec => []TypeOK
  BY TypeCorrect
<1>4. TypeOK /\ TagInv /\ OrderInv /\ OkMeansDone => TransportInv
  BY DEF TransportInv
<1>. QED
  BY <1>1, <1>2, <1>3, <1>4, PTL DEF Spec

(* Success is never reported before the device has carried the command out *)
(* as it was sent, whatever abandoned commands cbw_transaction meets.      *)
THEOREM OkIsDone == Spec => []OkMeansDone
<1>1. TransportInv => OkMeansDone
  BY DEF TransportInv
<1>. QED
  BY <1>1, TransportAlways, PTL

-----------------------------------------------------------------------------
(* The refinement.                                                         *)

LEMMA VerdictIsResult ==
  ASSUME NEW p \in InPacket, NEW t \in Tags
  PROVE  CswVerdict(p, t) \in Service!Failures \cup {"Ok"}
BY DEF CswVerdict, InPacket, CswLen, Service!Failures

LEMMA ServiceInit == Init => Service!Init
BY DEF Init, Service!Init

LEMMA ServiceHost ==
  ASSUME TransportInv, TransportInv', Fail \/ SendCbw \/ SendData \/ ReadData \/ ReadCsw
  PROVE  [Service!Next]_(Service!vars)
<1>1. UNCHANGED <<cbw, done, reused>> /\ pc # "idle"
  BY DEF Fail, SendCbw, SendData, ReadData, ReadCsw
<1>2. CASE pc' # "idle" /\ status' = status
  BY <1>1, <1>2 DEF Service!vars
<1>3. CASE pc' = "idle" /\ status' \in Service!Failures
  BY <1>1, <1>3 DEF Service!Next, Service!ReturnError
<1>4. CASE pc' = "idle" /\ status' = "Ok"
  <2>1. cbw.id \in done \/ reused
    BY <1>1, <1>4 DEF TransportInv, OkMeansDone
  <2>. QED
    BY <1>1, <1>4, <2>1 DEF Service!Next, Service!ReturnOk
<1>5. CASE Fail \/ SendCbw \/ SendData \/ ReadData
  <2>1. \/ pc' # "idle" /\ status' = status
        \/ pc' = "idle" /\ status' = "Usb"
    BY <1>1, <1>5 DEF Fail, SendCbw, SendData, ReadData, Return, AfterCbw
  <2>. QED
    BY <1>2, <1>3, <2>1 DEF Service!Failures
<1>6. CASE ReadCsw
  <2>1. pc' = "idle" /\ status' = CswVerdict(Head(toHost), cbw.tag) /\ toHost # <<>>
    BY <1>6 DEF ReadCsw, Return
  <2>2. Head(toHost) \in InPacket /\ cbw.tag \in Tags
    BY <2>1, PipeHeads DEF TransportInv, TypeOK, Wrapper
  <2>3. status' \in Service!Failures \cup {"Ok"}
    BY <2>1, <2>2, VerdictIsResult
  <2>. QED
    BY <1>3, <1>4, <2>1, <2>3
<1>. QED
  BY <1>5, <1>6

(* What the device adds to `done` is the command whose turn it is.         *)
LEMMA ServiceDevice ==
  ASSUME TransportInv, Device
  PROVE  [Service!Next]_(Service!vars)
<1>1. UNCHANGED <<pc, cbw, status, reused>> /\ toDev # <<>>
  BY DEF Device, DevCommand, DevData, hostVars
<1>2. Head(toDev).kind = "cbw" => AtTurn(Head(toDev).w)
  BY <1>1, TakenAtTurn DEF TransportInv
<1>3. Busy => AtTurn(dev.w)
  BY <1>1, TakenAtTurn DEF TransportInv
<1>4. CASE done' = done
  BY <1>1, <1>4 DEF Service!vars
<1>5. ASSUME NEW w, AtTurn(w), done' = done \cup {w.id}
      PROVE  [Service!Next]_(Service!vars)
  <2>1. w.id \in 1..cbw.id /\ \A d \in done : d < w.id
    BY <1>5 DEF AtTurn
  <2>2. Service!Execute(w.id)
    BY <1>1, <1>5, <2>1 DEF Service!Execute
  <2>. QED
    BY <2>1, <2>2 DEF Service!Next
<1>6. CASE DevCommand
  <2>1. done' = done \/ (Head(toDev).kind = "cbw" /\ done' = done \cup {Head(toDev).w.id})
    BY <1>6 DEF DevCommand, Answer, devVars
  <2>. QED
    BY <1>2, <1>4, <1>5, <2>1
<1>7. CASE DevData
  <2>1. Busy /\ (done' = done \/ done' = done \cup {dev.w.id})
    BY <1>7 DEF DevData, Answer, Busy
  <2>. QED
    BY <1>3, <1>4, <1>5, <2>1
<1>. QED
  BY <1>6, <1>7 DEF Device

LEMMA ServiceStep ==
  ASSUME TransportInv, TransportInv', [Next]_vars
  PROVE  [Service!Next]_(Service!vars)
<1>1. ASSUME NEW c \in Commands, NEW t \in Tags, Begin(c, t)
      PROVE  [Service!Next]_(Service!vars)
  <2>1. Service!Issue
    <3>1. /\ pc = "idle" /\ pc' # "idle" /\ status' = "none" /\ done' = done
          /\ cbw'.id = cbw.id + 1
      BY <1>1 DEF Begin
    <3>2. reused' \in BOOLEAN
      BY DEF TransportInv, TypeOK
    <3>. QED
      BY <3>1, <3>2 DEF Service!Issue
  <2>. QED
    BY <2>1 DEF Service!Next
<1>2. CASE Fail \/ SendCbw \/ SendData \/ ReadData \/ ReadCsw
  BY <1>2, ServiceHost
<1>3. CASE Open \/ UNCHANGED vars
  <2>1. UNCHANGED <<pc, cbw, status, reused, done>>
    BY <1>3 DEF Open, hostVars, vars
  <2>. QED
    BY <2>1 DEF Service!vars
<1>4. CASE Device
  BY <1>4, ServiceDevice
<1>. QED
  BY <1>1, <1>2, <1>3, <1>4 DEF Next, Host

(* The transport implements the command service: commands are carried out  *)
(* at most once and in order, and success is reported only for what was    *)
(* done.                                                                   *)
THEOREM Implementation == Spec => ServiceSpec
<1>1. Init => Service!Init
  BY ServiceInit
<1>2. TransportInv /\ TransportInv' /\ [Next]_vars => [Service!Next]_(Service!vars)
  BY ServiceStep
<1>3. Spec => []TransportInv
  BY TransportAlways
<1>. QED
  BY <1>1, <1>2, <1>3, PTL DEF Spec, ServiceSpec, Service!Spec

-----------------------------------------------------------------------------
(* What is left in the pipes after a success: nothing.  And what a success *)
(* has read: nothing that an earlier command left there.                   *)

IsCurrent(id) == id = cbw.id

\* What carries the number of the current command is the current command.
WrapperIsOne ==
  /\ \A i \in DOMAIN toDev : IsCurrent(toDev[i].w.id) => toDev[i].w = cbw
  /\ Busy /\ IsCurrent(dev.w.id) => dev.w = cbw

\* The device has no more data of the current command before it than the
\* command has, and none as long as the host has sent none.
DataIsBounded ==
  /\ pc = "dataout" => cbw.cmd.out > 0
  /\ Busy /\ IsCurrent(dev.w.id) => Len(toDev) <= dev.need
  /\ Busy /\ IsCurrent(dev.w.id) /\ pc = "dataout" =>
       toDev = <<>> /\ dev.need = cbw.cmd.out
  /\ \A i \in DOMAIN toDev :
       toDev[i].kind = "cbw" /\ IsCurrent(toDev[i].w.id) =>
         /\ Len(toDev) - i <= cbw.cmd.out
         /\ pc = "dataout" => i = Len(toDev)

\* The success of the current command is the last thing in any pipe.
SuccessIsLast ==
  \A i \in DOMAIN toHost : Success(toHost[i]) =>
    /\ i = Len(toHost) /\ toDev = <<>> /\ ~Busy
    /\ pc \notin {"cbw", "dataout"}

\* Every packet of data is followed by a packet of the same command, and the
\* success of a command that has data comes behind data.
ReplyIsWhole ==
  /\ \A i \in DOMAIN toHost : toHost[i].kind = "csw" => toHost[i].len = CswLen
  /\ \A i \in DOMAIN toHost : toHost[i].kind = "data" =>
       i < Len(toHost) /\ toHost[i + 1].id = toHost[i].id
  /\ cbw.cmd.buf > 0 =>
       \A i \in DOMAIN toHost : Success(toHost[i]) /\ i > 1 => toHost[i - 1].kind = "data"

\* A data stage that has taken a packet of an earlier command has not yet got
\* to the end of that command's reply, or has ended with it; then the status
\* stage does not find the success of the current command.
ReadIsOwn ==
  /\ pc \in {"cbw", "dataout"} => seen = {}
  /\ pc = "csw" /\ cbw.cmd.buf = 0 => seen = {}
  /\ pc = "datain" => cbw.cmd.buf > 0
  /\ pc = "datain" /\ ~(seen \subseteq {cbw.id}) =>
       toHost # <<>> /\ ~IsCurrent(toHost[1].id)
  /\ pc = "csw" /\ ~(seen \subseteq {cbw.id}) /\ toHost # <<>> => ~Success(toHost[1])

\* An earlier command that is somewhere in the pipes or in the device.
Outstanding ==
  \/ \E i \in DOMAIN toHost : ~IsCurrent(toHost[i].id)
  \/ Busy /\ ~IsCurrent(dev.w.id)
  \/ \E i \in DOMAIN toDev : toDev[i].kind = "cbw" /\ ~IsCurrent(toDev[i].w.id)

\* What an earlier command left behind is still there, or was read.
DirtIsKept ==
  dirty /\ pc # "idle" => Outstanding \/ ~(seen \subseteq {cbw.id})

PipeInv ==
  /\ WrapperIsOne /\ DataIsBounded /\ SuccessIsLast
  /\ ReplyIsWhole /\ ReadIsOwn /\ DirtIsKept
  /\ status = "Ok" => pc = "idle"
-----------------------------------------------------------------------------
(* Packets.                                                                *)

\* The reply to w: perhaps data, and a status wrapper with status st.
WholeReply(r, w, st) ==
  /\ r \in Seq(InPacket) /\ Len(r) > 0
  /\ \A j \in 1..Len(r) : r[j].id = w.id
  /\ \A j \in 1..Len(r) - 1 : r[j].kind = "data"
  /\ r[Len(r)] = Csw(w, st)
  /\ st = 0 /\ w.cmd.min > 0 => Len(r) > 1

(* The data stage of a reply is data, and there is some if it has a length.*)
LEMMA InDataShape ==
  ASSUME NEW w \in Wrapper
  PROVE  /\ InData(w) \in Seq(InPacket)
         /\ \A j \in 1..Len(InData(w)) : InData(w)[j].id = w.id /\ InData(w)[j].kind = "data"
         /\ w.cmd.min > 0 => Len(InData(w)) > 0
<1> DEFINE full == w.cmd.min \div MaxPacket
           rest == w.cmd.min % MaxPacket
           n == full + IF rest = 0 THEN 0 ELSE 1
<1>1. w.cmd.min \in Nat
  BY CommandsAssumption DEF Wrapper, Command
<1>2. full \in Nat /\ rest \in Nat /\ n \in Nat /\ (w.cmd.min > 0 => n > 0)
  <2>1. full \in Nat /\ rest \in Nat /\ n \in Nat
    BY <1>1 DEF MaxPacket
  <2>2. ASSUME NEW m \in Nat, m > 0, m % 512 = 0
        PROVE  m \div 512 > 0
    BY <2>2
  <2>3. w.cmd.min > 0 /\ rest = 0 => full > 0
    BY <1>1, <2>2 DEF MaxPacket
  <2>. QED
    BY <2>1, <2>3
<1>3. InData(w) \in Seq(InPacket)
  BY PacketTypes
<1>4. InData(w) = [i \in 1..n |-> Reply("data", w, IF i <= full THEN MaxPacket ELSE rest, 0)]
  BY DEF InData
<1>5. Len(InData(w)) = n
  BY <1>2, <1>3, <1>4
<1>. QED
  BY <1>2, <1>3, <1>4, <1>5 DEF Reply

LEMMA CswShape ==
  ASSUME NEW w \in Wrapper, NEW st \in {0, 1}
  PROVE  /\ Csw(w, st) \in InPacket
         /\ Csw(w, st).kind = "csw" /\ Csw(w, st).id = w.id
         /\ Csw(w, st).status = st /\ Csw(w, st).len = CswLen
BY PacketTypes DEF Csw, Reply

(* An answer of the device is a whole reply behind what is in the pipe.    *)
LEMMA RefusalIsReply ==
  ASSUME TypeOK, NEW w \in Wrapper, toHost' = Append(toHost, Csw(w, 1))
  PROVE  \E r : WholeReply(r, w, 1) /\ toHost' = toHost \o r
<1>1. toHost \in Seq(InPacket) /\ Csw(w, 1) \in InPacket
  BY CswShape DEF TypeOK
<1>2. toHost' = toHost \o <<Csw(w, 1)>> /\ WholeReply(<<Csw(w, 1)>>, w, 1)
  BY <1>1, CswShape DEF WholeReply
<1>. QED
  BY <1>2

LEMMA SuccessIsReply ==
  ASSUME TypeOK, NEW w \in Wrapper,
         toHost' = (toHost \o InData(w)) \o <<Csw(w, 0)>>
  PROVE  \E r : WholeReply(r, w, 0) /\ toHost' = toHost \o r
<1> DEFINE d == InData(w)
           c == <<Csw(w, 0)>>
           r == d \o c
<1>1. /\ toHost \in Seq(InPacket) /\ d \in Seq(InPacket) /\ c \in Seq(InPacket)
      /\ Len(c) = 1 /\ c[1] = Csw(w, 0) /\ Len(d) \in Nat
  BY CswShape, InDataShape DEF TypeOK
<1>2. toHost' = toHost \o r
  BY <1>1
<1>3. r \in Seq(InPacket) /\ Len(r) = Len(d) + 1
  BY <1>1
<1>4. /\ \A j \in 1..Len(d) : r[j] = d[j]
      /\ r[Len(d) + 1] = Csw(w, 0)
  BY <1>1
<1>5. ASSUME NEW j \in 1..Len(r)
      PROVE  r[j].id = w.id /\ (j \in 1..Len(r) - 1 => r[j].kind = "data")
  <2>1. CASE j \in 1..Len(d)
    BY <1>1, <1>4, <2>1, InDataShape
  <2>2. CASE j = Len(d) + 1
    BY <1>1, <1>3, <1>4, <2>2, CswShape
  <2>. QED
    BY <1>1, <1>3, <2>1, <2>2
<1>6. w.cmd.min > 0 => Len(r) > 1
  BY <1>1, <1>3, InDataShape
<1>7. WholeReply(r, w, 0)
  BY <1>1, <1>3, <1>4, <1>5, <1>6 DEF WholeReply
<1>. QED
  BY <1>2, <1>7

(* What is behind the head of a pipe has moved one place forward.          *)
LEMMA TailPlaces ==
  ASSUME NEW S, NEW s \in Seq(S), s # <<>>
  PROVE  /\ Tail(s) \in Seq(S) /\ Len(s) \in Nat /\ Len(Tail(s)) = Len(s) - 1
         /\ Head(s) = s[1] /\ 1 \in DOMAIN s
         /\ \A i \in DOMAIN Tail(s) : i \in Nat \ {0} /\ i + 1 \in DOMAIN s /\ Tail(s)[i] = s[i + 1]
         /\ \A i \in DOMAIN s : i # 1 => i - 1 \in DOMAIN Tail(s) /\ Tail(s)[i - 1] = s[i]
BY HeadTailProperties

(* What is in a pipe keeps its place, and what is added comes behind.      *)
LEMMA ConcatPlaces ==
  ASSUME NEW S, NEW s \in Seq(S), NEW r \in Seq(S)
  PROVE  /\ Len(s) \in Nat /\ Len(r) \in Nat /\ Len(s \o r) = Len(s) + Len(r)
         /\ \A i \in DOMAIN s : i \in DOMAIN (s \o r) /\ (s \o r)[i] = s[i]
         /\ \A j \in DOMAIN r : Len(s) + j \in DOMAIN (s \o r) /\ (s \o r)[Len(s) + j] = r[j]
         /\ \A i \in DOMAIN (s \o r) :
              i \in Nat /\ (i \in DOMAIN s \/ (i > Len(s) /\ i - Len(s) \in DOMAIN r))
OBVIOUS

-----------------------------------------------------------------------------
(* The host.                                                               *)

LEMMA PipeTypes ==
  ASSUME TypeOK
  PROVE  /\ toDev \in Seq(OutPacket) /\ toHost \in Seq(InPacket)
         /\ Len(toDev) \in Nat /\ Len(toHost) \in Nat
         /\ DOMAIN toDev = 1..Len(toDev) /\ DOMAIN toHost = 1..Len(toHost)
         /\ cbw \in Wrapper /\ cbw.id \in Nat /\ cbw.cmd \in Commands
         /\ cbw.cmd.out \in Nat /\ cbw.cmd.buf \in Nat /\ cbw.cmd.min \in Nat
         /\ cbw.cmd.buf > 0 => cbw.cmd.min > 0
         /\ Busy => dev.w \in Wrapper /\ dev.need \in Nat \ {0}
         /\ ~Busy => dev = IdleDev
<1>1. cbw \in Wrapper /\ toDev \in Seq(OutPacket) /\ toHost \in Seq(InPacket) /\ dev \in DevState
  BY DEF TypeOK
<1>2. Busy => dev.w \in Wrapper /\ dev.need \in Nat \ {0}
  BY <1>1, DevStates DEF Busy
<1>3. ~Busy => dev = IdleDev
  BY <1>1 DEF Busy, DevState
<1>. QED
  BY <1>1, <1>2, <1>3, CommandsAssumption DEF Wrapper, Command

LEMMA PipeInit == Init => PipeInv
<1> SUFFICES ASSUME Init PROVE PipeInv
  OBVIOUS
<1>1. /\ toDev = <<>> /\ toHost = <<>> /\ pc = "idle" /\ ~Busy
      /\ dirty = FALSE /\ status = "none" /\ seen = {}
  BY DEF Init, IdleDev, Busy
<1>. QED
  BY <1>1 DEF PipeInv, WrapperIsOne, DataIsBounded, SuccessIsLast, ReplyIsWhole,
              ReadIsOwn, DirtIsKept

(* A new command has a number that nothing in flight has.                  *)
LEMMA BeginPipe ==
  ASSUME TypeOK, OrderInv, PipeInv, NEW c \in Commands, NEW t \in Tags, Begin(c, t)
  PROVE  PipeInv'
<1>1. /\ cbw'.id = cbw.id + 1 /\ pc' = "cbw" /\ seen' = {} /\ status' = "none"
      /\ dirty' = Unsettled /\ UNCHANGED <<toDev, toHost, dev>>
  BY DEF Begin
<1>2. /\ \A i \in DOMAIN toDev : toDev[i].w.id # cbw'.id
      /\ Busy => dev.w.id # cbw'.id
      /\ \A i \in DOMAIN toHost : toHost[i].id # cbw'.id
  <2>1. \A n \in Nat : n <= cbw.id => n # cbw.id + 1
    BY IdTypes
  <2>. QED
    BY <1>1, <2>1, IdTypes DEF OrderInv, IdsKnown
<1>3. WrapperIsOne' /\ DataIsBounded' /\ SuccessIsLast'
  BY <1>1, <1>2 DEF WrapperIsOne, DataIsBounded, SuccessIsLast, IsCurrent, Success, Busy
<1>4. ReplyIsWhole' /\ ReadIsOwn'
  BY <1>1, <1>2 DEF PipeInv, ReplyIsWhole, ReadIsOwn, Success
<1>5. DirtIsKept'
  <2>1. Unsettled => Outstanding'
    BY <1>1, <1>2, PipeTypes, SMTT(30) DEF Unsettled, Outstanding, IsCurrent, Busy
  <2>. QED
    BY <1>1, <2>1 DEF DirtIsKept
<1>. QED
  BY <1>1, <1>3, <1>4, <1>5 DEF PipeInv

(* Nothing that is outstanding goes away when the host sends.              *)
LEMMA SendKeeps ==
  ASSUME TypeOK, NEW q \in Seq(OutPacket), toDev' = toDev \o q,
         UNCHANGED <<cbw, toHost, dev>>, Outstanding
  PROVE  Outstanding'
BY ConcatPlaces, PipeTypes DEF Outstanding, IsCurrent, Busy

LEMMA SendCbwPipe == ASSUME TypeOK, OrderInv, PipeInv, SendCbw PROVE PipeInv'
<1> DEFINE q == <<CbwPacket(cbw)>>
<1>1. /\ pc = "cbw" /\ UNCHANGED <<cbw, toHost, dev, seen, dirty>>
      /\ \/ pc' = AfterCbw(cbw.cmd) /\ status' = status
         \/ pc' = "idle" /\ status' = "Usb"
  BY DEF SendCbw, Return
<1>2. /\ q \in Seq(OutPacket) /\ Len(q) = 1 /\ q[1].w = cbw /\ q[1].kind = "cbw"
      /\ DOMAIN q = {1}
  BY PipeTypes, PacketTypes DEF CbwPacket
<1>3. toDev' = toDev \o q
  <2>1. CbwPacket(cbw) \in OutPacket /\ toDev \in Seq(OutPacket)
    BY PipeTypes, PacketTypes
  <2>2. toDev' = Append(toDev, CbwPacket(cbw))
    BY DEF SendCbw
  <2>. QED
    BY <2>1, <2>2
<1>4. /\ Len(toDev') = Len(toDev) + 1
      /\ \A i \in DOMAIN toDev' :
           \/ i \in DOMAIN toDev /\ toDev'[i] = toDev[i]
           \/ i = Len(toDev') /\ toDev'[i] = CbwPacket(cbw)
  <2>1. \A i \in Nat : i - Len(toDev) = 1 => i = Len(toDev) + 1
    BY PipeTypes
  <2>. QED
    BY <1>2, <1>3, <2>1, ConcatPlaces, PipeTypes
<1>5. /\ \A i \in DOMAIN toDev : ~IsCurrent(toDev[i].w.id)
      /\ Busy => ~IsCurrent(dev.w.id)
  BY <1>1, IdTypes DEF OrderInv, Unsent, IsCurrent
<1>6. WrapperIsOne'
  BY <1>1, <1>2, <1>4, <1>5 DEF WrapperIsOne, IsCurrent, Busy
<1>7. DataIsBounded'
  <2>1. pc' = "dataout" => cbw.cmd.out > 0
    BY <1>1 DEF AfterCbw
  <2>2. ASSUME NEW i \in DOMAIN toDev', IsCurrent(toDev'[i].w.id)
        PROVE  i = Len(toDev') /\ Len(toDev') - i <= cbw.cmd.out
    BY <1>4, <1>5, <2>2, PipeTypes
  <2>. QED
    BY <1>1, <1>5, <2>1, <2>2 DEF DataIsBounded, IsCurrent, Busy
<1>8. \A i \in DOMAIN toHost : ~Success(toHost[i])
  BY <1>1 DEF PipeInv, SuccessIsLast
<1>9. SuccessIsLast' /\ ReplyIsWhole'
  BY <1>1, <1>8 DEF PipeInv, SuccessIsLast, ReplyIsWhole, Success
<1>10. ReadIsOwn'
  BY <1>1, PipeTypes DEF PipeInv, ReadIsOwn, AfterCbw
<1>11. DirtIsKept'
  BY <1>1, <1>2, <1>3, SendKeeps DEF PipeInv, DirtIsKept
<1>. QED
  BY <1>1, <1>6, <1>7, <1>9, <1>10, <1>11 DEF PipeInv, AfterCbw

LEMMA SendDataPipe == ASSUME TypeOK, OrderInv, PipeInv, SendData PROVE PipeInv'
<1>1. /\ pc = "dataout" /\ UNCHANGED <<cbw, toHost, dev, seen, dirty>>
      /\ \/ pc' = (IF cbw.cmd.buf > 0 THEN "datain" ELSE "csw") /\ status' = status
         \/ pc' = "idle" /\ status' = "Usb"
  BY DEF SendData, Return
<1>2. PICK k \in 1..cbw.cmd.out : toDev' = toDev \o OutData(cbw, k)
  BY DEF SendData
<1> DEFINE q == OutData(cbw, k)
<1>3. /\ q \in Seq(OutPacket) /\ Len(q) = k /\ k \in Nat /\ k <= cbw.cmd.out
      /\ \A j \in DOMAIN q : q[j].w = cbw /\ q[j].kind = "data"
  <2>1. k \in Nat /\ k <= cbw.cmd.out
    BY PipeTypes
  <2>2. q \in Seq(OutPacket)
    BY <2>1, PipeTypes, PacketTypes
  <2>3. q = [j \in 1..k |-> DataPacket(cbw)]
    BY DEF OutData
  <2>. QED
    BY <2>1, <2>2, <2>3 DEF DataPacket
<1>4. /\ Len(toDev') = Len(toDev) + k
      /\ \A i \in DOMAIN toDev' :
           \/ i \in DOMAIN toDev /\ toDev'[i] = toDev[i]
           \/ toDev'[i].w = cbw /\ toDev'[i].kind = "data"
  <2>1. Len(toDev') = Len(toDev) + k
    <3>1. toDev \in Seq(OutPacket) /\ toDev' = toDev \o q
      BY <1>2, PipeTypes
    <3>2. Len(toDev \o q) = Len(toDev) + Len(q)
      BY <1>3, <3>1
    <3>. QED
      BY <1>3, <3>1, <3>2
  <2>2. ASSUME NEW i \in DOMAIN toDev'
        PROVE  \/ i \in DOMAIN toDev /\ toDev'[i] = toDev[i]
               \/ \E j \in DOMAIN q : toDev'[i] = q[j]
    <3>1. toDev \in Seq(OutPacket) /\ toDev' = toDev \o q
      BY <1>2, PipeTypes
    <3>2. i \in DOMAIN (toDev \o q)
      BY <3>1
    <3>3. \/ i \in DOMAIN toDev /\ (toDev \o q)[i] = toDev[i]
          \/ \E j \in DOMAIN q : (toDev \o q)[i] = q[j]
      BY <1>3, <3>1, <3>2, ConcatElements
    <3>. QED
      BY <3>1, <3>3
  <2>. QED
    BY <1>3, <2>1, <2>2
<1>5. WrapperIsOne'
  BY <1>1, <1>4 DEF PipeInv, WrapperIsOne, IsCurrent, Busy
<1>6. DataIsBounded'
  <2>1. pc' # "dataout"
    BY <1>1
  <2>2. Busy /\ IsCurrent(dev.w.id) => Len(toDev') <= dev.need
    BY <1>1, <1>3, <1>4, PipeTypes DEF PipeInv, DataIsBounded
  <2>3. ASSUME NEW i \in DOMAIN toDev', toDev'[i].kind = "cbw", IsCurrent(toDev'[i].w.id)
        PROVE  Len(toDev') - i <= cbw.cmd.out
    <3>1. i \in DOMAIN toDev /\ toDev'[i] = toDev[i]
      BY <1>4, <2>3
    <3>2. i = Len(toDev)
      BY <1>1, <2>3, <3>1 DEF PipeInv, DataIsBounded
    <3>. QED
      BY <1>3, <1>4, <3>2, PipeTypes
  <2>. QED
    BY <1>1, <2>1, <2>2, <2>3 DEF DataIsBounded, IsCurrent, Busy
<1>7. \A i \in DOMAIN toHost : ~Success(toHost[i])
  BY <1>1 DEF PipeInv, SuccessIsLast
<1>8. SuccessIsLast' /\ ReplyIsWhole'
  BY <1>1, <1>7 DEF PipeInv, SuccessIsLast, ReplyIsWhole, Success
<1>9. ReadIsOwn'
  BY <1>1, PipeTypes DEF PipeInv, ReadIsOwn
<1>10. DirtIsKept'
  BY <1>1, <1>2, <1>3, SendKeeps DEF PipeInv, DirtIsKept
<1>. QED
  BY <1>1, <1>5, <1>6, <1>8, <1>9, <1>10 DEF PipeInv

(* Taking the head of a pipe leaves the replies behind it whole, and takes *)
(* note of the command it was of.                                          *)
LEMMA ReadPipe ==
  ASSUME TypeOK, PipeInv, toHost # <<>>, toHost' = Tail(toHost),
         UNCHANGED <<cbw, toDev, dev, dirty>>, seen' = seen \cup {toHost[1].id},
         pc \in {"datain", "csw"}, pc' \in {"datain", "csw", "idle"}
  PROVE  WrapperIsOne' /\ DataIsBounded' /\ SuccessIsLast' /\ ReplyIsWhole' /\ DirtIsKept'
<1>1. /\ toHost \in Seq(InPacket) /\ Len(toHost) \in Nat /\ Len(toHost') = Len(toHost) - 1
      /\ \A i \in DOMAIN toHost' :
           i \in Nat \ {0} /\ i + 1 \in DOMAIN toHost /\ toHost'[i] = toHost[i + 1]
      /\ \A i \in DOMAIN toHost : i # 1 => i - 1 \in DOMAIN toHost' /\ toHost'[i - 1] = toHost[i]
  <2>1. toHost \in Seq(InPacket)
    BY DEF TypeOK
  <2>. QED
    BY <2>1, TailPlaces
<1>2. WrapperIsOne' /\ DataIsBounded'
  BY DEF PipeInv, WrapperIsOne, DataIsBounded, IsCurrent, Busy
<1>3. SuccessIsLast'
  <2>1. ASSUME NEW i \in DOMAIN toHost', Success(toHost[i])'
        PROVE  i = Len(toHost') /\ toDev = <<>> /\ ~Busy
    <3>1. Success(toHost[i + 1]) /\ i + 1 \in DOMAIN toHost /\ i \in Nat
      BY <1>1, <2>1 DEF Success
    <3>2. i + 1 = Len(toHost) /\ toDev = <<>> /\ ~Busy
      BY <3>1 DEF PipeInv, SuccessIsLast
    <3>. QED
      BY <1>1, <3>1, <3>2
  <2>. QED
    BY <2>1 DEF SuccessIsLast, Success, Busy
<1>4. ReplyIsWhole'
  <2>1. \A i \in DOMAIN toHost' : toHost'[i].kind = "csw" => toHost'[i].len = CswLen
    BY <1>1 DEF PipeInv, ReplyIsWhole
  <2>2. ASSUME NEW i \in DOMAIN toHost', toHost'[i].kind = "data"
        PROVE  i < Len(toHost') /\ toHost'[i + 1].id = toHost'[i].id
    <3>1. /\ i + 1 \in DOMAIN toHost /\ i \in Nat \ {0} /\ toHost'[i] = toHost[i + 1]
          /\ i + 1 < Len(toHost) /\ toHost[(i + 1) + 1].id = toHost[i + 1].id
      BY <1>1, <2>2 DEF PipeInv, ReplyIsWhole
    <3>2. i < Len(toHost') /\ (i + 1) + 1 \in DOMAIN toHost /\ (i + 1) + 1 # 1
      BY <1>1, <3>1
    <3>3. toHost'[i + 1] = toHost[(i + 1) + 1]
      <4>1. ((i + 1) + 1) - 1 = i + 1
        BY <3>1
      <4>. QED
        BY <1>1, <3>2, <4>1
    <3>. QED
      BY <3>1, <3>2, <3>3
  <2>3. ASSUME cbw.cmd.buf > 0, NEW i \in DOMAIN toHost', Success(toHost[i])', i > 1
        PROVE  toHost'[i - 1].kind = "data"
    <3>1. /\ i + 1 \in DOMAIN toHost /\ i \in Nat \ {0} /\ Success(toHost[i + 1])
      BY <1>1, <2>3 DEF Success
    <3>2. toHost[(i + 1) - 1].kind = "data"
      BY <2>3, <3>1 DEF PipeInv, ReplyIsWhole
    <3>3. (i + 1) - 1 = i /\ i \in DOMAIN toHost /\ i # 1
      BY <1>1, <2>3, <3>1
    <3>. QED
      BY <1>1, <3>2, <3>3
  <2>. QED
    BY <2>1, <2>2, <2>3 DEF ReplyIsWhole, Success
<1>5. DirtIsKept'
  <2> SUFFICES ASSUME dirty, Outstanding \/ ~(seen \subseteq {cbw.id})
               PROVE  Outstanding' \/ ~(seen' \subseteq {cbw.id})
    BY DEF PipeInv, DirtIsKept, Outstanding, IsCurrent, Busy
  <2>1. CASE ~(seen \subseteq {cbw.id})
    BY <2>1
  <2>2. CASE \E i \in DOMAIN toHost : ~IsCurrent(toHost[i].id)
    <3>1. PICK i \in DOMAIN toHost : ~IsCurrent(toHost[i].id)
      BY <2>2
    <3>2. i = 1 => ~(seen' \subseteq {cbw.id})
      BY <3>1 DEF IsCurrent
    <3>3. i # 1 => Outstanding'
      BY <1>1, <3>1 DEF Outstanding, IsCurrent
    <3>. QED
      BY <3>2, <3>3
  <2>3. CASE \/ Busy /\ ~IsCurrent(dev.w.id)
             \/ \E i \in DOMAIN toDev : toDev[i].kind = "cbw" /\ ~IsCurrent(toDev[i].w.id)
    BY <2>3 DEF Outstanding, IsCurrent, Busy
  <2>. QED
    BY <2>1, <2>2, <2>3 DEF Outstanding
<1>. QED
  BY <1>2, <1>3, <1>4, <1>5

(* A read that goes on, or ends well, has taken data; the packet behind it *)
(* is of the same command.                                                 *)
LEMMA ReadDataPipe == ASSUME TypeOK, PipeInv, ReadData PROVE PipeInv'
<1> DEFINE p == toHost[1]
<1>1. /\ pc = "datain" /\ toHost # <<>> /\ toHost' = Tail(toHost)
      /\ UNCHANGED <<cbw, toDev, dev, dirty>> /\ seen' = seen \cup {Head(toHost).id}
      /\ \/ pc' = "idle" /\ status' = "Usb"
         \/ pc' = "datain" /\ status' = status /\ ~(Head(toHost).len < MaxPacket)
         \/ pc' = "csw" /\ status' = status
  BY DEF ReadData, Return
<1>2. /\ toHost \in Seq(InPacket) /\ Len(toHost) \in Nat /\ Head(toHost) = p /\ 1 \in DOMAIN toHost
      /\ p \in InPacket
      /\ \A i \in DOMAIN toHost' : i + 1 \in DOMAIN toHost /\ toHost'[i] = toHost[i + 1]
      /\ \A i \in DOMAIN toHost : i # 1 => i - 1 \in DOMAIN toHost' /\ toHost'[i - 1] = toHost[i]
  <2>1. toHost \in Seq(InPacket)
    BY DEF TypeOK
  <2>. QED
    BY <1>1, <2>1, TailPlaces
<1>3. WrapperIsOne' /\ DataIsBounded' /\ SuccessIsLast' /\ ReplyIsWhole' /\ DirtIsKept'
  BY <1>1, <1>2, ReadPipe
<1>4. ~(seen' \subseteq {cbw.id}) => ~IsCurrent(p.id)
  BY <1>1, <1>2 DEF PipeInv, ReadIsOwn, IsCurrent
<1>5. p.kind = "data" => 2 \in DOMAIN toHost /\ toHost[2].id = p.id
  <2>1. p.kind = "data" => 1 < Len(toHost) /\ toHost[1 + 1].id = p.id
    BY <1>2 DEF PipeInv, ReplyIsWhole
  <2>. QED
    BY <1>2, <2>1
<1>6. toHost' # <<>> => 2 \in DOMAIN toHost /\ toHost'[1] = toHost[2]
  <2>1. toHost' # <<>> => 1 \in DOMAIN toHost'
    BY <1>1, <1>2
  <2>. QED
    BY <1>2, <2>1
<1>7. CASE pc' = "datain"
  <2>1. p.kind = "data"
    BY <1>1, <1>2, <1>7 DEF PipeInv, ReplyIsWhole, InPacket, CswLen, MaxPacket
  <2>2. toHost' # <<>> /\ toHost'[1].id = p.id
    <3>1. 2 - 1 \in DOMAIN toHost' /\ toHost'[2 - 1] = toHost[2]
      BY <1>2, <1>5, <2>1
    <3>. QED
      BY <1>5, <2>1, <3>1
  <2>3. ReadIsOwn'
    BY <1>1, <1>4, <1>7, <2>2 DEF PipeInv, ReadIsOwn, IsCurrent
  <2>. QED
    BY <1>1, <1>3, <1>7, <2>3 DEF PipeInv
<1>8. CASE pc' = "csw"
  <2>1. cbw.cmd.buf > 0 /\ cbw.cmd.buf # 0
    BY <1>1, PipeTypes DEF PipeInv, ReadIsOwn
  <2>2. ASSUME ~(seen' \subseteq {cbw.id}), toHost' # <<>>
        PROVE  ~Success(toHost'[1])
    <3>1. ~IsCurrent(p.id) /\ 2 \in DOMAIN toHost /\ toHost'[1] = toHost[2]
      BY <1>4, <1>6, <2>2
    <3>2. Success(toHost[2]) => p.kind = "data"
      <4>1. Success(toHost[2]) => toHost[2 - 1].kind = "data"
        BY <2>1, <3>1 DEF PipeInv, ReplyIsWhole
      <4>. QED
        BY <4>1
    <3>. QED
      BY <1>5, <3>1, <3>2 DEF Success, IsCurrent
  <2>3. ReadIsOwn'
    BY <1>1, <1>8, <2>1, <2>2 DEF ReadIsOwn, Success
  <2>. QED
    BY <1>1, <1>3, <1>8, <2>3 DEF PipeInv
<1>9. CASE pc' = "idle"
  BY <1>1, <1>3, <1>9 DEF PipeInv, ReadIsOwn
<1>. QED
  BY <1>1, <1>7, <1>8, <1>9

LEMMA ReadCswPipe == ASSUME TypeOK, PipeInv, ReadCsw PROVE PipeInv'
<1>1. /\ pc = "csw" /\ toHost # <<>> /\ toHost' = Tail(toHost) /\ pc' = "idle"
      /\ UNCHANGED <<cbw, toDev, dev, dirty>> /\ seen' = seen \cup {Head(toHost).id}
  BY DEF ReadCsw, Return
<1>2. Head(toHost) = toHost[1]
  BY <1>1, PipeTypes
<1>3. WrapperIsOne' /\ DataIsBounded' /\ SuccessIsLast' /\ ReplyIsWhole' /\ DirtIsKept'
  BY <1>1, <1>2, ReadPipe
<1>. QED
  BY <1>1, <1>3 DEF PipeInv, ReadIsOwn

LEMMA FailPipe == ASSUME TypeOK, PipeInv, Fail PROVE PipeInv'
<1>1. /\ pc' = "idle" /\ status' = "Usb"
      /\ UNCHANGED <<cbw, toDev, toHost, dev, seen, dirty>>
  BY DEF Fail, Return
<1>. QED
  BY <1>1 DEF PipeInv, WrapperIsOne, DataIsBounded, SuccessIsLast, ReplyIsWhole,
              ReadIsOwn, DirtIsKept, IsCurrent, Success, Busy

LEMMA OpenPipe == ASSUME TypeOK, PipeInv, Open PROVE PipeInv'
<1>1. /\ pc' = "idle" /\ toDev' = <<>> /\ toHost' = <<>> /\ ~Busy'
  BY DEF Open, hostVars, IdleDev, Busy
<1>. QED
  BY <1>1 DEF PipeInv, WrapperIsOne, DataIsBounded, SuccessIsLast, ReplyIsWhole,
              ReadIsOwn, DirtIsKept

-----------------------------------------------------------------------------
(* The device.                                                             *)

\* The device takes a wrapper, discards data, or goes on with its data stage.
Takes ==
  /\ ~Busy /\ Head(toDev).kind = "cbw"
  /\ Busy' /\ dev'.w = Head(toDev).w /\ dev'.need = Head(toDev).w.cmd.out
Skips == ~Busy /\ ~Busy' /\ Head(toDev).kind = "data"
Continues == Busy /\ Busy' /\ dev.need > 1 /\ dev'.w = dev.w /\ dev'.need = dev.need - 1

\* The device answers a wrapper: the one it takes or the one it is busy with,
\* and with success only when no data of it is missing.
Answers(w, r, st) ==
  /\ ~Busy' /\ st \in {0, 1} /\ WholeReply(r, w, st) /\ toHost' = toHost \o r
  /\ \/ ~Busy /\ Head(toDev).kind = "cbw" /\ w = Head(toDev).w /\ (st = 0 => w.cmd.out = 0)
     \/ Busy /\ w = dev.w /\ (st = 0 => dev.need = 1)

LEMMA DeviceDoes ==
  ASSUME TypeOK, Device
  PROVE  /\ toDev # <<>> /\ toDev' = Tail(toDev) /\ UNCHANGED hostVars
         /\ \/ (Takes \/ Skips \/ Continues) /\ toHost' = toHost
            \/ \E w \in Wrapper, r \in Seq(InPacket), st \in {0, 1} : Answers(w, r, st)
<1>1. toDev # <<>> /\ toDev' = Tail(toDev) /\ UNCHANGED hostVars
  BY DEF Device, DevCommand, DevData
<1> DEFINE p == Head(toDev)
<1>2. p \in OutPacket /\ p.w \in Wrapper
  BY <1>1, PipeHeads DEF OutPacket
<1>3. ASSUME NEW w \in Wrapper, NEW b, Answer(w, b)
      PROVE  \E r \in Seq(InPacket), st \in {0, 1} :
               WholeReply(r, w, st) /\ toHost' = toHost \o r
  <2>1. CASE toHost' = (toHost \o InData(w)) \o <<Csw(w, 0)>>
    BY <2>1, SuccessIsReply DEF WholeReply
  <2>2. CASE toHost' = Append(toHost, Csw(w, 1))
    BY <2>2, RefusalIsReply DEF WholeReply
  <2>. QED
    BY <1>3, <2>1, <2>2 DEF Answer
<1>4. CASE DevCommand
  <2>1. ~Busy
    BY <1>4 DEF DevCommand, Busy
  <2>2. CASE p.kind = "cbw" /\ dev' = BusyDev(p.w, p.w.cmd.out, TRUE) /\ toHost' = toHost
    BY <1>1, <2>1, <2>2 DEF Takes, BusyDev, Busy
  <2>3. CASE p.kind = "cbw" /\ dev' = dev /\ toHost' = Append(toHost, Csw(p.w, 1))
    <3>1. PICK r : WholeReply(r, p.w, 1) /\ toHost' = toHost \o r
      BY <1>2, <2>3, RefusalIsReply
    <3>2. r \in Seq(InPacket) /\ Answers(p.w, r, 1)
      BY <2>1, <2>3, <3>1 DEF Answers, Busy, WholeReply
    <3>. QED
      BY <1>1, <1>2, <3>2
  <2>4. CASE p.kind = "cbw" /\ dev' = dev /\ p.w.cmd.out = 0 /\ Answer(p.w, TRUE)
    <3>1. PICK r \in Seq(InPacket), st \in {0, 1} : WholeReply(r, p.w, st) /\ toHost' = toHost \o r
      BY <1>2, <1>3, <2>4
    <3>2. r \in Seq(InPacket) /\ Answers(p.w, r, st)
      BY <2>1, <2>4, <3>1 DEF Answers, Busy, WholeReply
    <3>. QED
      BY <1>1, <1>2, <3>2
  <2>5. CASE p.kind = "data" /\ UNCHANGED <<toHost, dev>>
    BY <1>1, <2>1, <2>5 DEF Skips, Busy
  <2>. QED
    BY <1>4, <2>2, <2>3, <2>4, <2>5 DEF DevCommand, devVars
<1>5. CASE DevData
  <2>1. Busy /\ dev.w \in Wrapper
    BY <1>5, IdTypes DEF DevData, Busy
  <2>2. ASSUME NEW b, dev.need > 1, dev' = BusyDev(dev.w, dev.need - 1, b), toHost' = toHost
        PROVE  Continues
    BY <2>1, <2>2 DEF Continues, BusyDev, Busy
  <2>3. ASSUME NEW b, dev.need = 1, dev' = IdleDev, Answer(dev.w, b)
        PROVE  \E w \in Wrapper, r \in Seq(InPacket), st \in {0, 1} : Answers(w, r, st)
    <3>1. PICK r \in Seq(InPacket), st \in {0, 1} : WholeReply(r, dev.w, st) /\ toHost' = toHost \o r
      BY <1>3, <2>1, <2>3
    <3>2. r \in Seq(InPacket) /\ Answers(dev.w, r, st)
      BY <2>1, <2>3, <3>1 DEF Answers, Busy, WholeReply, IdleDev
    <3>. QED
      BY <2>1, <3>2
  <2>4. ASSUME dev' = IdleDev, toHost' = Append(toHost, Csw(dev.w, 1))
        PROVE  \E w \in Wrapper, r \in Seq(InPacket), st \in {0, 1} : Answers(w, r, st)
    <3>1. PICK r : WholeReply(r, dev.w, 1) /\ toHost' = toHost \o r
      BY <2>1, <2>4, RefusalIsReply
    <3>2. r \in Seq(InPacket) /\ Answers(dev.w, r, 1)
      BY <2>1, <2>4, <3>1 DEF Answers, Busy, WholeReply, IdleDev
    <3>. QED
      BY <2>1, <3>2
  <2>. QED
    BY <1>1, <1>5, <2>2, <2>3, <2>4 DEF DevData
<1>. QED
  BY <1>4, <1>5 DEF Device

(* What is left of the current command behind a packet the device took is  *)
(* within what the device still has to take.                               *)
LEMMA TailBounds ==
  ASSUME TypeOK, PipeInv, toDev # <<>>, toDev' = Tail(toDev), UNCHANGED hostVars
  PROVE  /\ toDev \in Seq(OutPacket) /\ Len(toDev) \in Nat /\ Len(toDev') = Len(toDev) - 1
         /\ toDev' \in Seq(OutPacket)
         /\ \A i \in DOMAIN toDev' : IsCurrent(toDev'[i].w.id) => toDev'[i].w = cbw
         /\ pc = "dataout" => cbw.cmd.out > 0
         /\ \A i \in DOMAIN toDev' :
              toDev'[i].kind = "cbw" /\ IsCurrent(toDev'[i].w.id) =>
                /\ Len(toDev') - i <= cbw.cmd.out
                /\ pc = "dataout" => i = Len(toDev')
         /\ \A i \in DOMAIN toDev : i # 1 => i - 1 \in DOMAIN toDev' /\ toDev'[i - 1] = toDev[i]
         /\ Head(toDev) = toDev[1] /\ 1 \in DOMAIN toDev
<1>1. toDev \in Seq(OutPacket)
  BY DEF TypeOK
<1>2. /\ Len(toDev) \in Nat /\ Len(toDev') = Len(toDev) - 1 /\ toDev' \in Seq(OutPacket)
      /\ Head(toDev) = toDev[1] /\ 1 \in DOMAIN toDev
      /\ \A i \in DOMAIN toDev' :
           i \in Nat \ {0} /\ i + 1 \in DOMAIN toDev /\ toDev'[i] = toDev[i + 1]
      /\ \A i \in DOMAIN toDev : i # 1 => i - 1 \in DOMAIN toDev' /\ toDev'[i - 1] = toDev[i]
  BY <1>1, TailPlaces
<1>3. ASSUME NEW i \in DOMAIN toDev', toDev'[i].kind = "cbw", IsCurrent(toDev'[i].w.id)
      PROVE  /\ Len(toDev') - i <= cbw.cmd.out
             /\ pc = "dataout" => i = Len(toDev')
  <2>1. i \in Nat /\ i + 1 \in DOMAIN toDev /\ toDev'[i] = toDev[i + 1]
    BY <1>2
  <2>2. Len(toDev) - (i + 1) <= cbw.cmd.out /\ (pc = "dataout" => i + 1 = Len(toDev))
    BY <1>3, <2>1 DEF PipeInv, DataIsBounded
  <2>. QED
    BY <1>2, <2>1, <2>2, PipeTypes
<1>. QED
  BY <1>1, <1>2, <1>3 DEF PipeInv, WrapperIsOne, DataIsBounded

(* An earlier command of which the device takes the wrapper, or a packet,  *)
(* is still in the device.                                                 *)
LEMMA QuietPipe ==
  ASSUME TypeOK, OrderInv, PipeInv, toDev # <<>>, toDev' = Tail(toDev),
         UNCHANGED hostVars, Takes \/ Skips \/ Continues, toHost' = toHost
  PROVE  PipeInv'
<1>1. UNCHANGED <<pc, cbw, seen, dirty, status, toHost>>
  BY DEF hostVars
<1>2. \A i \in DOMAIN toHost : ~Success(toHost[i])
  BY DEF PipeInv, SuccessIsLast
<1>3. WrapperIsOne'
  <2>1. Busy' /\ IsCurrent(dev'.w.id) => dev'.w = cbw
    BY TailBounds DEF Takes, Skips, Continues, PipeInv, WrapperIsOne
  <2>. QED
    BY <1>1, <2>1, TailBounds DEF WrapperIsOne, IsCurrent, Busy
<1>4. DataIsBounded'
  <2>1. ASSUME Busy', IsCurrent(dev'.w.id)
        PROVE  Len(toDev') <= dev'.need /\ (pc = "dataout" => toDev' = <<>> /\ dev'.need = cbw.cmd.out)
    <3>1. CASE Takes
      <4>1. toDev[1].kind = "cbw" /\ IsCurrent(toDev[1].w.id) /\ dev'.need = toDev[1].w.cmd.out
        BY <2>1, <3>1, TailBounds DEF Takes
      <4>2. dev'.need = cbw.cmd.out /\ Len(toDev) - 1 <= cbw.cmd.out
        BY <4>1, TailBounds DEF PipeInv, WrapperIsOne, DataIsBounded
      <4>3. pc = "dataout" => Len(toDev) = 1
        BY <4>1, TailBounds DEF PipeInv, DataIsBounded
      <4>. QED
        BY <4>2, <4>3, TailBounds
    <3>2. CASE Continues
      <4>1. /\ dev.need \in Nat /\ Len(toDev) <= dev.need /\ dev'.need = dev.need - 1
            /\ pc # "dataout"
        BY <2>1, <3>2, PipeTypes DEF Continues, PipeInv, DataIsBounded
      <4>. QED
        BY <4>1, TailBounds
    <3>. QED
      BY <2>1, <3>1, <3>2 DEF Skips
  <2>. QED
    BY <1>1, <2>1, TailBounds DEF DataIsBounded, IsCurrent, Busy
<1>5. SuccessIsLast' /\ ReplyIsWhole' /\ ReadIsOwn'
  <2>1. SuccessIsLast'
    BY <1>1, <1>2 DEF SuccessIsLast, Success
  <2>2. ReplyIsWhole'
    BY <1>1, <1>2 DEF PipeInv, ReplyIsWhole, Success
  <2>3. ReadIsOwn'
    BY <1>1 DEF PipeInv, ReadIsOwn, Success, IsCurrent
  <2>. QED
    BY <2>1, <2>2, <2>3
<1>6. Outstanding => Outstanding'
  <2>1. CASE \E i \in DOMAIN toHost : ~IsCurrent(toHost[i].id)
    BY <1>1, <2>1 DEF Outstanding, IsCurrent
  <2>2. CASE Busy /\ ~IsCurrent(dev.w.id)
    BY <1>1, <2>2 DEF Outstanding, IsCurrent, Takes, Skips, Continues, Busy
  <2>3. CASE \E i \in DOMAIN toDev : toDev[i].kind = "cbw" /\ ~IsCurrent(toDev[i].w.id)
    <3>1. PICK i \in DOMAIN toDev : toDev[i].kind = "cbw" /\ ~IsCurrent(toDev[i].w.id)
      BY <2>3
    <3>2. CASE i # 1
      <4>1. i - 1 \in DOMAIN toDev' /\ toDev'[i - 1] = toDev[i]
        BY <3>1, <3>2, TailBounds
      <4>2. PICK j : j = i - 1
        OBVIOUS
      <4>3. j \in DOMAIN toDev' /\ toDev'[j].kind = "cbw" /\ ~IsCurrent(toDev[i].w.id)
            /\ toDev'[j] = toDev[i]
        BY <3>1, <4>1, <4>2
      <4>4. (\E k \in DOMAIN toDev : toDev[k].kind = "cbw" /\ ~IsCurrent(toDev[k].w.id))'
        BY <1>1, <4>3 DEF IsCurrent
      <4>. QED
        BY <4>4 DEF Outstanding
    <3>3. CASE i = 1
      <4>1. Head(toDev).kind = "cbw" /\ ~IsCurrent(Head(toDev).w.id)
        BY <3>1, <3>3, TailBounds
      <4>2. Busy' /\ ~IsCurrent(dev'.w.id)
        BY <4>1, CurrentDataIsOwn DEF Takes, Skips, Continues, IsCurrent
      <4>. QED
        BY <1>1, <4>2 DEF Outstanding, IsCurrent, Busy
    <3>. QED
      BY <3>2, <3>3
  <2>. QED
    BY <2>1, <2>2, <2>3 DEF Outstanding
<1>. QED
  BY <1>1, <1>3, <1>4, <1>5, <1>6 DEF PipeInv, DirtIsKept

(* An earlier command that is answered is still in the pipe of replies; a  *)
(* success of the current command comes when nothing is left before it.    *)
LEMMA AnswerPipe ==
  ASSUME TypeOK, OrderInv, PipeInv, toDev # <<>>, toDev' = Tail(toDev),
         UNCHANGED hostVars,
         NEW w \in Wrapper, NEW r \in Seq(InPacket), NEW st \in {0, 1}, Answers(w, r, st)
  PROVE  PipeInv'
<1>1. UNCHANGED <<pc, cbw, seen, dirty, status>> /\ ~Busy' /\ toHost' = toHost \o r
  BY DEF hostVars, Answers
<1>2. \A i \in DOMAIN toHost : ~Success(toHost[i])
  BY DEF PipeInv, SuccessIsLast
<1>3. /\ toHost \in Seq(InPacket) /\ Len(toHost) \in Nat /\ Len(r) \in Nat
      /\ Len(toHost') = Len(toHost) + Len(r)
      /\ \A i \in DOMAIN toHost : i \in DOMAIN toHost' /\ toHost'[i] = toHost[i]
      /\ \A j \in DOMAIN r : Len(toHost) + j \in DOMAIN toHost' /\ toHost'[Len(toHost) + j] = r[j]
      /\ \A i \in DOMAIN toHost' :
           \/ i \in DOMAIN toHost
           \/ i > Len(toHost) /\ i \in Nat /\ i - Len(toHost) \in DOMAIN r
  <2>1. toHost \in Seq(InPacket)
    BY DEF TypeOK
  <2>. QED
    BY <1>1, <2>1, ConcatPlaces
<1>4. \A i \in DOMAIN toHost' :
        i \notin DOMAIN toHost => \E j \in DOMAIN r : i = Len(toHost) + j /\ toHost'[i] = r[j]
  <2>1. ASSUME NEW i \in Nat, NEW n \in Nat, i > n PROVE n + (i - n) = i
    BY <2>1
  <2>. QED
    BY <1>3, <2>1
<1>5. /\ Len(r) > 0 /\ DOMAIN r = 1..Len(r)
      /\ \A j \in DOMAIN r : r[j].id = w.id
      /\ \A j \in DOMAIN r : j # Len(r) => r[j].kind = "data"
      /\ r[Len(r)].kind = "csw" /\ r[Len(r)].status = st /\ r[Len(r)].len = CswLen
      /\ st = 0 /\ w.cmd.min > 0 => Len(r) > 1
  <2>1. WholeReply(r, w, st)
    BY DEF Answers
  <2>2. /\ Len(r) > 0 /\ DOMAIN r = 1..Len(r)
        /\ \A j \in 1..Len(r) : r[j].id = w.id
        /\ \A j \in 1..Len(r) - 1 : r[j].kind = "data"
        /\ r[Len(r)] = Csw(w, st)
        /\ st = 0 /\ w.cmd.min > 0 => Len(r) > 1
    BY <2>1 DEF WholeReply
  <2>3. \A j \in 1..Len(r) : j # Len(r) => j \in 1..Len(r) - 1
    BY <1>3
  <2>. QED
    BY <2>2, <2>3, CswShape
<1>6. \A j \in DOMAIN r : Success(r[j]) => j = Len(r) /\ st = 0 /\ IsCurrent(w.id)
  BY <1>5 DEF Success, IsCurrent
<1>7. IsCurrent(w.id) => w = cbw
  BY TailBounds DEF Answers, PipeInv, WrapperIsOne
<1>8. ASSUME st = 0, IsCurrent(w.id)
      PROVE  toDev' = <<>> /\ pc \notin {"cbw", "dataout"}
  <2>1. AtTurn(w)
    BY TakenAtTurn DEF Answers
  <2>2. pc # "cbw"
    BY <1>8, <2>1, IdTypes DEF AtTurn, IsCurrent
  <2>3. CASE ~Busy /\ toDev[1].kind = "cbw" /\ w = toDev[1].w /\ w.cmd.out = 0
    <3>1. cbw.cmd.out = 0 /\ Len(toDev) - 1 <= cbw.cmd.out
      BY <1>7, <1>8, <2>3, TailBounds DEF PipeInv, DataIsBounded
    <3>2. pc # "dataout"
      BY <3>1 DEF PipeInv, DataIsBounded
    <3>3. Len(toDev') = 0
      BY <3>1, TailBounds
    <3>. QED
      BY <2>2, <3>2, <3>3, TailBounds
  <2>4. CASE Busy /\ w = dev.w /\ dev.need = 1
    <3>1. Len(toDev) <= 1 /\ pc # "dataout"
      BY <1>8, <2>4 DEF PipeInv, DataIsBounded
    <3>2. Len(toDev') = 0
      BY <3>1, TailBounds
    <3>. QED
      BY <2>2, <3>1, <3>2, TailBounds
  <2>. QED
    BY <1>8, <2>3, <2>4, TailBounds DEF Answers
<1>9. WrapperIsOne' /\ DataIsBounded'
  BY <1>1, TailBounds DEF WrapperIsOne, DataIsBounded, IsCurrent, Busy
<1>10. \A i \in DOMAIN toHost' : Success(toHost'[i]) =>
         i = Len(toHost') /\ st = 0 /\ IsCurrent(w.id)
  BY <1>2, <1>3, <1>4, <1>6
<1>11. SuccessIsLast'
  BY <1>1, <1>8, <1>10 DEF SuccessIsLast, Success, Busy
<1>12. ReplyIsWhole'
  <2>1. \A i \in DOMAIN toHost' : toHost'[i].kind = "csw" => toHost'[i].len = CswLen
    <3>1. ASSUME NEW i \in DOMAIN toHost, toHost'[i].kind = "csw"
          PROVE  toHost'[i].len = CswLen
      BY <1>3, <3>1 DEF PipeInv, ReplyIsWhole
    <3>2. ASSUME NEW j \in DOMAIN r, r[j].kind = "csw"
          PROVE  r[j].len = CswLen
      BY <1>5, <3>2
    <3>. QED
      BY <1>4, <3>1, <3>2
  <2>2. ASSUME NEW i \in DOMAIN toHost', toHost'[i].kind = "data"
        PROVE  i < Len(toHost') /\ toHost'[i + 1].id = toHost'[i].id
    <3>1. CASE i \in DOMAIN toHost
      <4>1. toHost'[i] = toHost[i] /\ i < Len(toHost) /\ toHost[i + 1].id = toHost[i].id
        BY <1>3, <2>2, <3>1 DEF PipeInv, ReplyIsWhole
      <4>2. i + 1 \in DOMAIN toHost
        BY <1>3, <3>1, <4>1
      <4>. QED
        BY <1>3, <3>1, <4>1, <4>2
    <3>2. CASE i \notin DOMAIN toHost
      <4>1. PICK j \in DOMAIN r : i = Len(toHost) + j /\ toHost'[i] = r[j]
        BY <1>4, <3>2
      <4>2. j \in 1..Len(r) /\ j # Len(r)
        BY <1>5, <2>2, <4>1
      <4>3. j + 1 \in DOMAIN r /\ Len(toHost) + (j + 1) = i + 1 /\ i < Len(toHost')
        BY <1>3, <1>5, <4>1, <4>2
      <4>4. toHost'[i + 1] = r[j + 1]
        BY <1>3, <4>3
      <4>. QED
        BY <1>5, <4>1, <4>3, <4>4
    <3>. QED
      BY <3>1, <3>2
  <2>3. ASSUME cbw.cmd.buf > 0, NEW i \in DOMAIN toHost', Success(toHost'[i]), i > 1
        PROVE  toHost'[i - 1].kind = "data"
    <3>1. i = Len(toHost') /\ st = 0 /\ w = cbw
      BY <1>7, <1>10, <2>3
    <3>2. Len(r) > 1
      BY <1>5, <2>3, <3>1, PipeTypes
    <3>3. Len(r) - 1 \in DOMAIN r /\ Len(r) - 1 # Len(r) /\ Len(toHost) + (Len(r) - 1) = i - 1
      <4>1. i = Len(toHost) + Len(r)
        BY <1>3, <3>1
      <4>2. ASSUME NEW m \in Nat, NEW n \in Nat, n > 1
            PROVE  n - 1 \in 1..n /\ n - 1 # n /\ m + (n - 1) = (m + n) - 1
        BY <4>2
      <4>. QED
        BY <1>3, <1>5, <3>2, <4>1, <4>2
    <3>4. toHost'[i - 1] = r[Len(r) - 1]
      BY <1>3, <3>3
    <3>. QED
      BY <1>5, <3>3, <3>4
  <2>. QED
    BY <1>1, <2>1, <2>2, <2>3 DEF ReplyIsWhole, Success
<1>13. ReadIsOwn'
  <2>1. toHost # <<>> => toHost' # <<>> /\ toHost'[1] = toHost[1]
    <3>1. toHost # <<>> => 1 \in DOMAIN toHost
      BY <1>3
    <3>. QED
      BY <1>3, <3>1
  <2>2. ASSUME pc = "csw", ~(seen \subseteq {cbw.id}), toHost' # <<>>
        PROVE  ~Success(toHost'[1])
    <3>1. CASE toHost # <<>>
      BY <2>1, <2>2, <3>1 DEF PipeInv, ReadIsOwn
    <3>2. CASE toHost = <<>>
      <4>1. toHost'[1] = r[1] /\ 1 \in DOMAIN r
        BY <1>1, <1>5, <3>2
      <4>2. cbw.cmd.buf > 0
        BY <2>2, PipeTypes DEF PipeInv, ReadIsOwn
      <4>3. Success(r[1]) => 1 = Len(r) /\ st = 0 /\ w = cbw
        BY <1>6, <1>7, <4>1
      <4>4. st = 0 /\ w = cbw => Len(r) > 1
        BY <1>5, <4>2, PipeTypes
      <4>5. ~Success(r[1])
        BY <1>3, <4>3, <4>4
      <4>. QED
        BY <4>1, <4>5
    <3>. QED
      BY <3>1, <3>2
  <2>. QED
    BY <1>1, <2>1, <2>2 DEF PipeInv, ReadIsOwn, IsCurrent, Success
<1>14. Outstanding => Outstanding'
  <2>1. ASSUME ~IsCurrent(w.id)
        PROVE  Outstanding'
    <3>1. /\ 1 \in DOMAIN r /\ Len(toHost) + 1 \in DOMAIN toHost'
          /\ toHost'[Len(toHost) + 1].id = w.id
      BY <1>3, <1>5
    <3>. QED
      BY <1>1, <2>1, <3>1 DEF Outstanding, IsCurrent
  <2>2. CASE \E i \in DOMAIN toHost : ~IsCurrent(toHost[i].id)
    BY <1>1, <1>3, <2>2 DEF Outstanding, IsCurrent
  <2>3. CASE Busy /\ ~IsCurrent(dev.w.id)
    BY <2>1, <2>3 DEF Answers
  <2>4. CASE \E i \in DOMAIN toDev : toDev[i].kind = "cbw" /\ ~IsCurrent(toDev[i].w.id)
    <3>1. PICK i \in DOMAIN toDev : toDev[i].kind = "cbw" /\ ~IsCurrent(toDev[i].w.id)
      BY <2>4
    <3>2. CASE i # 1
      <4>1. i - 1 \in DOMAIN toDev' /\ toDev'[i - 1] = toDev[i]
        BY <3>1, <3>2, TailBounds
      <4>2. PICK j : j = i - 1
        OBVIOUS
      <4>3. j \in DOMAIN toDev' /\ toDev'[j].kind = "cbw" /\ ~IsCurrent(toDev[i].w.id)
            /\ toDev'[j] = toDev[i]
        BY <3>1, <4>1, <4>2
      <4>4. (\E k \in DOMAIN toDev : toDev[k].kind = "cbw" /\ ~IsCurrent(toDev[k].w.id))'
        BY <1>1, <4>3 DEF IsCurrent
      <4>. QED
        BY <4>4 DEF Outstanding
    <3>3. CASE i = 1
      <4>1. Head(toDev).kind = "cbw" /\ ~IsCurrent(Head(toDev).w.id)
        BY <3>1, <3>3, TailBounds
      <4>2. ~IsCurrent(w.id)
        BY <4>1, CurrentDataIsOwn DEF Answers, IsCurrent
      <4>. QED
        BY <2>1, <4>2
    <3>. QED
      BY <3>2, <3>3
  <2>. QED
    BY <2>2, <2>3, <2>4 DEF Outstanding
<1>. QED
  BY <1>1, <1>9, <1>11, <1>12, <1>13, <1>14 DEF PipeInv, DirtIsKept

LEMMA DevicePipe == ASSUME TypeOK, OrderInv, PipeInv, Device PROVE PipeInv'
BY DeviceDoes, QuietPipe, AnswerPipe

-----------------------------------------------------------------------------
LEMMA PipeStep == ASSUME TypeOK, OrderInv, PipeInv, [Next]_vars PROVE PipeInv'
<1>1. ASSUME NEW c \in Commands, NEW t \in Tags, Begin(c, t)
      PROVE  PipeInv'
  BY <1>1, BeginPipe
<1>2. CASE UNCHANGED vars
  BY <1>2 DEF vars, PipeInv, WrapperIsOne, DataIsBounded, SuccessIsLast, ReplyIsWhole,
              ReadIsOwn, DirtIsKept, Outstanding, IsCurrent, Success, Busy
<1>. QED
  BY <1>1, <1>2, FailPipe, SendCbwPipe, SendDataPipe, ReadDataPipe, ReadCswPipe, OpenPipe,
     DevicePipe DEF Next, Host

(* Ok is returned for a status wrapper that is the success of the current  *)
(* command.  It is the last packet of all; every packet read before it was *)
(* of this command, and nothing of an earlier one is left.                 *)
LEMMA OkReadsLast ==
  ASSUME TypeOK, TagInv, PipeInv, ReadCsw, status' = "Ok", ~reused
  PROVE  /\ toDev' = <<>> /\ toHost' = <<>> /\ dev' = IdleDev
         /\ seen' = {cbw'.id} /\ ~dirty'
<1>1. /\ pc = "csw" /\ toHost # <<>> /\ toHost' = Tail(toHost)
      /\ UNCHANGED <<cbw, toDev, dev, dirty>> /\ seen' = seen \cup {Head(toHost).id}
      /\ CswVerdict(Head(toHost), cbw.tag) = "Ok"
  BY DEF ReadCsw, Return
<1>2. /\ toHost \in Seq(InPacket) /\ Len(toHost) \in Nat /\ 1 \in DOMAIN toHost
      /\ Head(toHost) = toHost[1] /\ toHost[1] \in InPacket
      /\ toHost' \in Seq(InPacket) /\ Len(toHost') = Len(toHost) - 1
  <2>1. toHost \in Seq(InPacket)
    BY DEF TypeOK
  <2>. QED
    BY <1>1, <2>1, TailPlaces
<1>3. Success(toHost[1])
  <2>1. toHost[1].kind = "csw" /\ toHost[1].status = 0 /\ toHost[1].tag = cbw.tag
    BY <1>1, <1>2 DEF CswVerdict, InPacket
  <2>. QED
    BY <1>2, <2>1 DEF TagInv, TagOwned, Success
<1>4. 1 = Len(toHost) /\ toDev = <<>> /\ ~Busy
  BY <1>2, <1>3 DEF PipeInv, SuccessIsLast
<1>5. toHost' = <<>> /\ toDev' = <<>> /\ dev' = IdleDev
  <2>1. Len(toHost') = 0
    BY <1>2, <1>4
  <2>. QED
    BY <1>1, <1>2, <1>4, <2>1, PipeTypes
<1>6. seen \subseteq {cbw.id}
  BY <1>1, <1>3 DEF PipeInv, ReadIsOwn
<1>7. seen' = {cbw'.id}
  BY <1>1, <1>2, <1>3, <1>6 DEF Success
<1>8. ~Outstanding
  <2>1. \A i \in DOMAIN toHost : i = 1
    BY <1>2, <1>4
  <2>2. \A i \in DOMAIN toHost : IsCurrent(toHost[i].id)
    BY <1>3, <2>1 DEF Success, IsCurrent
  <2>3. DOMAIN toDev = {}
    BY <1>4
  <2>. QED
    BY <1>4, <2>2, <2>3 DEF Outstanding
<1>9. ~dirty'
  BY <1>1, <1>6, <1>8 DEF PipeInv, DirtIsKept
<1>. QED
  BY <1>5, <1>7, <1>9

\* What a success says of the pipes, of what was read and of the past.
CleanOk == OkIsBarrier /\ OkDataIsOwn /\ OutOfStepFails

(* After a success nothing happens before the next command: the device has *)
(* nothing to do.                                                          *)
LEMMA CleanStep ==
  ASSUME TypeOK, TagInv, PipeInv, CleanOk, [Next]_vars
  PROVE  CleanOk'
<1>1. CASE ReadCsw
  <2>1. reused' = reused
    BY <1>1 DEF ReadCsw
  <2>2. status' = "Ok" /\ ~reused =>
          /\ toDev' = <<>> /\ toHost' = <<>> /\ dev' = IdleDev
          /\ seen' = {cbw'.id} /\ ~dirty'
    BY <1>1, OkReadsLast
  <2>. QED
    BY <2>1, <2>2 DEF CleanOk, OkIsBarrier, OkDataIsOwn, OutOfStepFails, IdleDev
<1>2. ASSUME NEW c \in Commands, NEW t \in Tags, Begin(c, t)
      PROVE  CleanOk'
  BY <1>2 DEF Begin, CleanOk, OkIsBarrier, OkDataIsOwn, OutOfStepFails
<1>3. CASE Fail \/ SendCbw \/ SendData \/ ReadData
  <2>1. pc # "idle" /\ (status' = "Usb" \/ status' = status)
    BY <1>3 DEF Fail, SendCbw, SendData, ReadData, Return
  <2>2. status' # "Ok"
    BY <2>1 DEF PipeInv
  <2>. QED
    BY <2>2 DEF CleanOk, OkIsBarrier, OkDataIsOwn, OutOfStepFails
<1>4. CASE Open
  <2>1. /\ UNCHANGED <<status, seen, cbw, dirty, reused>>
        /\ toDev' = <<>> /\ toHost' = <<>> /\ dev' = IdleDev
    BY <1>4 DEF Open, hostVars
  <2>. QED
    BY <2>1 DEF CleanOk, OkIsBarrier, OkDataIsOwn, OutOfStepFails, IdleDev
<1>5. CASE Device
  <2>1. toDev # <<>> /\ UNCHANGED <<status, seen, cbw, dirty, reused>>
    BY <1>5 DEF Device, DevCommand, DevData, hostVars
  <2>2. status = "Ok" => reused
    BY <2>1 DEF CleanOk, OkIsBarrier
  <2>. QED
    BY <2>1, <2>2 DEF CleanOk, OkIsBarrier, OkDataIsOwn, OutOfStepFails
<1>6. CASE UNCHANGED vars
  BY <1>6 DEF vars, CleanOk, OkIsBarrier, OkDataIsOwn, OutOfStepFails
<1>. QED
  BY <1>1, <1>2, <1>3, <1>4, <1>5, <1>6 DEF Next, Host

LEMMA CleanAlways == Spec => []CleanOk
<1>1. Init => PipeInv /\ CleanOk
  <2>1. Init => CleanOk
    BY DEF Init, CleanOk, OkIsBarrier, OkDataIsOwn, OutOfStepFails
  <2>. QED
    BY <2>1, PipeInit
<1>2. TransportInv /\ PipeInv /\ CleanOk /\ [Next]_vars => PipeInv' /\ CleanOk'
  BY PipeStep, CleanStep DEF TransportInv
<1>3. Spec => []TransportInv
  BY TransportAlways
<1>. QED
  BY <1>1, <1>2, <1>3, PTL DEF Spec

(* Success is a barrier: when cbw_transaction returns Ok, no packet of any *)
(* command is left in a pipe or in the device, so nothing sent before it   *)
(* can still reach the storage.                                            *)
THEOREM OkIsTheLast == Spec => []OkIsBarrier
<1>1. CleanOk => OkIsBarrier
  BY DEF CleanOk
<1>. QED
  BY <1>1, CleanAlways, PTL

(* What a successful cbw_transaction has read is the reply to its own      *)
(* command and nothing else, whatever abandoned commands left behind.      *)
THEOREM OkReadsItsOwn == Spec => []OkDataIsOwn
<1>1. CleanOk => OkDataIsOwn
  BY DEF CleanOk
<1>. QED
  BY <1>1, CleanAlways, PTL

(* A cbw_transaction that begins while an earlier command is unanswered,   *)
(* or its answer unread, does not return Ok, whatever it reads.            *)
THEOREM OkBeginsClean == Spec => []OutOfStepFails
<1>1. CleanOk => OutOfStepFails
  BY DEF CleanOk
<1>. QED
  BY <1>1, CleanAlways, PTL
=============================================================================
