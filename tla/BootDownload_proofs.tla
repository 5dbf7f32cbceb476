-------------------------- MODULE BootDownload_proofs --------------------------
(***************************************************************************)
(* What a session may do to a device, for every set of devices, firmwares  *)
(* and sizes, and any number of arrivals and departures.                   *)
(***************************************************************************)
EXTENDS BootDownload, DeviceSelection_proofs

(***************************************************************************)
(* A session is a behaviour of DeviceSelection: whatever it does besides,  *)
(* its searches are searches, so what holds of them holds in a session.    *)
(***************************************************************************)
LEMMA SessionStepIsSearchStep == [SessionNext]_sessionVars => [Next]_vars
<1> SUFFICES ASSUME [SessionNext]_sessionVars PROVE [Next]_vars
  OBVIOUS
<1>1. CASE Search \/ SearchFails
  BY <1>1 DEF Search, SearchFails, Next
<1>2. CASE Searched \/ OpenDevice \/ ReadFile \/ SliceEntry \/ SendChunk \/ Storage
  BY <1>2 DEF Searched, OpenDevice, ReadFile, SliceEntry, SendChunk, Storage
<1>3. CASE Downloaded
  BY <1>3 DEF Downloaded, Next
<1>4. ASSUME NEW d \in Devices, Plug(d) \/ Unplug(d)
      PROVE  [Next]_vars
  BY <1>4 DEF Plug, Unplug, Next
<1>5. CASE UNCHANGED sessionVars
  BY <1>5 DEF sessionVars
<1>. QED
  BY <1>1, <1>2, <1>3, <1>4, <1>5 DEF SessionNext, Program

(***************************************************************************)
(* How the open device relates to the device of the first search: they are *)
(* the same until the second search, which goes by the address of the      *)
(* first; and nothing the search returned changes before it is used.       *)
(***************************************************************************)
Address(d) == [bus |-> d.bus, addr |-> d.addr]
FirstStages == {"open", "file", "download"}
AgainStages == {"search again", "open again"}
OpenStages == {"file", "download", "storage", "partitions"}

HandleInv ==
  /\ stage \in FirstStages => result = "Found" /\ first = chosen
  /\ stage \in AgainStages => first \in Devices /\ filter = Address(first)
  /\ stage = "open again" => result = "Found"
  /\ stage \in OpenStages => handle.bus = first.bus /\ handle.addr = first.addr

SessionInv == SelectionInv /\ SelectionTypeInv /\ HandleInv

LEMMA SessionInvInit == SessionInit => SessionInv
BY SelectionInit, SelectionTypeInit
   DEF SessionInit, SessionInv, HandleInv, FirstStages, AgainStages, OpenStages

(* A device that is found at the address of another has its address.       *)
LEMMA FoundAtAddress ==
  ASSUME NEW d \in Devices, filter = Address(d), AtAddress(chosen)
  PROVE  chosen.bus = d.bus /\ chosen.addr = d.addr
<1>1. d.bus # 0 /\ d.addr # 0
  BY DevicesAssumption DEF Device
<1>. QED
  BY <1>1 DEF AtAddress, Address

(* The search goes on, or devices come and go: what was returned stays.    *)
LEMMA SearchKeepsHandle ==
  ASSUME SelectionTypeInv, HandleInv, UNCHANGED <<stage, first, handle, filter>>,
         result = "Found" => UNCHANGED <<result, chosen>>
  PROVE  HandleInv'
BY DEF HandleInv, FirstStages, AgainStages, OpenStages, Address

LEMMA HandleNext ==
  ASSUME SessionInv, [SessionNext]_sessionVars
  PROVE  HandleInv'
<1> USE DEF FirstStages, AgainStages, OpenStages
<1>1. HandleInv /\ SelectionTypeInv /\ FoundWhereAsked
  BY DEF SessionInv, SelectionInv
<1>2. CASE Search \/ SearchFails
  <2>1. pc # "returned" /\ UNCHANGED filter
    BY <1>2
       DEF Search, SearchFails, Host, List, Register, HandleEvents, Poll, Timeout, UsbFails, args
  <2>2. result # "Found"
    BY <1>1, <2>1 DEF SelectionTypeInv
  <2>. QED
    BY <1>1, <1>2, <2>1, <2>2, SearchKeepsHandle DEF Search, SearchFails, session
<1>3. CASE Searched
  BY <1>1, <1>3 DEF Searched, End, vars, HandleInv, Address
<1>4. CASE OpenDevice
  <2>1. CASE stage = "open"
    BY <1>1, <1>4, <2>1 DEF OpenDevice, End, vars, HandleInv
  <2>2. CASE stage = "open again"
    <3>1. chosen.bus = first.bus /\ chosen.addr = first.addr
      BY <1>1, <2>2, FoundAtAddress DEF HandleInv, FoundWhereAsked
    <3>. QED
      BY <1>4, <2>2, <3>1 DEF OpenDevice, End, vars, HandleInv
  <2>. QED
    BY <1>4, <2>1, <2>2 DEF OpenDevice
<1>5. CASE ReadFile
  BY <1>1, <1>5 DEF ReadFile, End, vars, HandleInv
<1>6. CASE SliceEntry \/ SendChunk
  BY <1>1, <1>6 DEF SliceEntry, SendChunk, End, vars, HandleInv
<1>7. CASE Downloaded
  <2>1. stage = "download" /\ result = "Found" /\ first = chosen
    BY <1>1, <1>7 DEF Downloaded, HandleInv
  <2>2. CASE End("Ok") /\ UNCHANGED vars
    BY <1>7, <2>2 DEF Downloaded, End, HandleInv
  <2>3. CASE stage' = "search again" /\ SearchAgain
    <3>1. first \in Devices
      BY <1>1, <2>1 DEF SelectionTypeInv, TypeOK
    <3>2. filter' = Address(first) /\ first' = first
      BY <1>7, <2>1, <2>3 DEF Downloaded, SearchAgain, Address
    <3>. QED
      BY <2>3, <3>1, <3>2 DEF HandleInv, Address
  <2>. QED
    BY <1>7, <2>2, <2>3 DEF Downloaded
<1>8. CASE Storage
  BY <1>1, <1>8 DEF Storage, End, vars, HandleInv
<1>9. ASSUME NEW d \in Devices, Plug(d) \/ Unplug(d)
      PROVE  HandleInv'
  BY <1>1, <1>9, SearchKeepsHandle DEF Plug, Unplug, Attach, Detach, session, args
<1>10. CASE UNCHANGED sessionVars
  BY <1>1, <1>10, SearchKeepsHandle DEF sessionVars, vars, session
<1>. QED
  BY <1>2, <1>3, <1>4, <1>5, <1>6, <1>7, <1>8, <1>9, <1>10 DEF SessionNext, Program

LEMMA SessionAlways == SessionSpec => []SessionInv
<1>1. SessionInv /\ [SessionNext]_sessionVars => SessionInv'
  BY SessionStepIsSearchStep, SelectionNext, SelectionTypeNext, HandleNext
     DEF SessionInv
<1>. QED
  BY <1>1, SessionInvInit, PTL DEF SessionSpec

(* Every session is a behaviour of DeviceSelection, but for its fairness:  *)
(* the composition of the session with its devices disturbs no search.     *)
THEOREM SessionSearches == SessionSpec => Init /\ [][Next]_vars
<1>1. SessionInit => Init
  BY DEF SessionInit
<1>2. [SessionNext]_sessionVars => [Next]_vars
  BY SessionStepIsSearchStep
<1>. QED
  BY <1>1, <1>2, PTL DEF SessionSpec

(* Upgrade reaches the partitions only with a handle on the device at the  *)
(* bus and address of its first search, however often boards are plugged   *)
(* in and out while the boot image is downloaded.                          *)
THEOREM SameStorage == SessionSpec => []StorageWhereSelected
<1>1. SessionInv => StorageWhereSelected
  BY DEF SessionInv, HandleInv, OpenStages, StorageWhereSelected
<1>. QED
  BY <1>1, SessionAlways, PTL

(* In a session, too, no search says that there is no device while a       *)
(* matching one was attached all the time.                                 *)
THEOREM SessionOverlooksNone == SessionSpec => []NoneOverlooked
<1>1. SessionInv => NoneOverlooked
  BY DEF SessionInv, SelectionInv
<1>. QED
  BY <1>1, SessionAlways, PTL

-----------------------------------------------------------------------------
(***************************************************************************)
(* What gets to the device during a download, for every image, every       *)
(* number of entries, sizes and chunk length, and every way it may end.    *)
(***************************************************************************)
Queue == BootEntries(file.boot)
Request == [request : {1137, 1138}, of : Entry]

(* The requests are those of table 471, then those of table 472.           *)
QueueIs(q, d, l) ==
  /\ q \in Seq(Request)
  /\ Len(q) = Len(d) + Len(l)
  /\ \A i \in 1..Len(d) : q[i] = [request |-> 1137, of |-> d[i]]
  /\ \A i \in 1..Len(l) : q[Len(d) + i] = [request |-> 1138, of |-> l[i]]

LEMMA TaggedProperties ==
  ASSUME NEW r \in {1137, 1138}, NEW t \in Table
  PROVE  /\ Tagged(r, t) \in Seq(Request)
         /\ Len(Tagged(r, t)) = Len(t.entries)
         /\ \A i \in 1..Len(t.entries) :
              Tagged(r, t)[i] = [request |-> r, of |-> t.entries[i]]
<1> DEFINE n == Len(t.entries)
<1>1. t.entries \in Seq(Entry)
  BY DEF Table
<1>2. n \in Nat /\ DOMAIN t.entries = 1..n
  BY <1>1, LenProperties
<1>3. \A i \in 1..n : [request |-> r, of |-> t.entries[i]] \in Request
  BY <1>1, ElementOfSeq DEF Request
<1>4. Tagged(r, t) = [i \in 1..n |-> [request |-> r, of |-> t.entries[i]]]
  BY <1>2 DEF Tagged
<1> HIDE DEF n
<1>5. Tagged(r, t) \in [1..n -> Request]
  BY <1>3, <1>4
<1>6. Tagged(r, t) \in Seq(Request) /\ Len(Tagged(r, t)) = n
  BY <1>2, <1>5
<1>. QED
  BY <1>4, <1>6 DEF n

LEMMA QueueOfTwo ==
  ASSUME NEW d \in Seq(Entry), NEW l \in Seq(Entry),
         NEW a \in Seq(Request), NEW b \in Seq(Request),
         Len(a) = Len(d), Len(b) = Len(l),
         \A i \in 1..Len(d) : a[i] = [request |-> 1137, of |-> d[i]],
         \A i \in 1..Len(l) : b[i] = [request |-> 1138, of |-> l[i]]
  PROVE  QueueIs(a \o b, d, l)
<1>1. /\ a \o b \in Seq(Request) /\ Len(a \o b) = Len(a) + Len(b)
      /\ \A i \in 1..Len(a) + Len(b) :
           (a \o b)[i] = IF i <= Len(a) THEN a[i] ELSE b[i - Len(a)]
  <2>1. a \o b \in Seq(Request)
    BY ConcatProperties
  <2>2. Len(a \o b) = Len(a) + Len(b)
    BY ConcatProperties, ZenonT(30)
  <2>3. \A i \in 1..Len(a) + Len(b) :
          (a \o b)[i] = IF i <= Len(a) THEN a[i] ELSE b[i - Len(a)]
    BY ConcatProperties
  <2>. QED
    BY <2>1, <2>2, <2>3
<1>2. Len(d) \in Nat /\ Len(l) \in Nat
  BY LenProperties
<1>3. \A i \in 1..Len(d) : (a \o b)[i] = a[i]
  BY <1>1, <1>2
<1>4. \A i \in 1..Len(l) : (a \o b)[Len(d) + i] = b[i]
  BY <1>1, <1>2
<1>. QED
  BY <1>1, <1>3, <1>4 DEF QueueIs

LEMMA QueueProperties ==
  ASSUME NEW f \in Loader
  PROVE  QueueIs(BootEntries(f), f.t471.entries, f.t472.entries)
<1> DEFINE a == Tagged(1137, f.t471)
           b == Tagged(1138, f.t472)
           d == f.t471.entries
           l == f.t472.entries
<1>1. f.t471 \in Table /\ f.t472 \in Table
  BY DEF Loader
<1>2. d \in Seq(Entry) /\ l \in Seq(Entry)
  BY <1>1 DEF Table
<1>3. a \in Seq(Request) /\ b \in Seq(Request)
  BY <1>1, TaggedProperties
<1>4. Len(a) = Len(d) /\ \A i \in 1..Len(d) : a[i] = [request |-> 1137, of |-> d[i]]
  BY <1>1, TaggedProperties
<1>5. Len(b) = Len(l) /\ \A i \in 1..Len(l) : b[i] = [request |-> 1138, of |-> l[i]]
  BY <1>1, TaggedProperties
<1>6. BootEntries(f) = a \o b
  BY DEF BootEntries
<1> HIDE DEF a, b, d, l
<1>7. QueueIs(a \o b, d, l)
  BY <1>2, <1>3, <1>4, <1>5, QueueOfTwo
<1>. QED
  BY <1>6, <1>7 DEF d, l

(* No request of table 472 comes before one of table 471.                  *)
LEMMA OrderedIfQueue ==
  ASSUME NEW d \in Seq(Entry), NEW l \in Seq(Entry), NEW q, QueueIs(q, d, l),
         NEW i \in 1..Len(q) - 1
  PROVE  q[i].request <= q[i + 1].request
<1> DEFINE m == Len(d)
           n == Len(l)
<1>1. m \in Nat /\ n \in Nat
  BY LenProperties
<1>2. /\ Len(q) = m + n
      /\ \A k \in 1..m : q[k].request = 1137
      /\ \A k \in 1..n : q[m + k].request = 1138
  <2>1. Len(q) = m + n
    BY DEF QueueIs
  <2>2. ASSUME NEW k \in 1..m PROVE q[k].request = 1137
    <3>1. q[k] = [request |-> 1137, of |-> d[k]]
      BY DEF QueueIs
    <3>. QED
      BY <3>1
  <2>3. ASSUME NEW k \in 1..n PROVE q[m + k].request = 1138
    <3>1. q[m + k] = [request |-> 1138, of |-> l[k]]
      BY DEF QueueIs
    <3>. QED
      BY <3>1
  <2>. QED
    BY <2>1, <2>2, <2>3
<1> HIDE DEF m, n
<1>3. \A k \in m + 1..m + n : q[k].request = 1138
  <2> SUFFICES ASSUME NEW k \in m + 1..m + n PROVE q[k].request = 1138
    OBVIOUS
  <2>1. k - m \in 1..n /\ m + (k - m) = k
    BY <1>1
  <2>. QED
    BY <1>2, <2>1
<1>4. i \in 1..m + n - 1
  BY <1>1, <1>2
<1>5. CASE i <= m
  <2>1. q[i].request = 1137
    BY <1>1, <1>2, <1>4, <1>5
  <2>2. i + 1 \in 1..m \/ i + 1 \in m + 1..m + n
    BY <1>1, <1>4
  <2>3. q[i + 1].request \in {1137, 1138}
    BY <1>2, <1>3, <2>2
  <2>. QED
    BY <2>1, <2>3
<1>6. CASE i > m
  <2>1. i \in m + 1..m + n /\ i + 1 \in m + 1..m + n
    BY <1>1, <1>4, <1>6
  <2>. QED
    BY <1>3, <2>1
<1>. QED
  BY <1>1, <1>4, <1>5, <1>6

LEMMA QueueOrdered ==
  ASSUME NEW f \in Loader, NEW i \in 1..Len(BootEntries(f)) - 1
  PROVE  BootEntries(f)[i].request <= BootEntries(f)[i + 1].request
<1>1. f.t471.entries \in Seq(Entry) /\ f.t472.entries \in Seq(Entry)
  BY DEF Loader, Table
<1>. QED
  BY <1>1, QueueProperties, OrderedIfQueue

-----------------------------------------------------------------------------
LateStages == {"download", "search again", "open again", "storage", "partitions"}

SentTypes ==
  /\ file \in Firmwares \cup {<<>>}
  /\ stage \in LateStages \/ program # "none" => file \in Firmwares
  /\ entry \in Nat \ {0} /\ sent \in Nat
  /\ received \in Seq(Piece)

(***************************************************************************)
(* The piece that came last ends where the next one starts: within the     *)
(* current entry, or at the end of the one before.                         *)
(***************************************************************************)
LastPiece ==
  LET p == received[Len(received)]
  IN  IF sent > 0
        THEN p.request = Current.request /\ p.of = Current.of /\ p.to = sent
        ELSE entry > 1 /\ p.request = Queue[entry - 1].request /\ p.to = RequestLen(p)

ChainInv ==
  /\ BootInOrder
  /\ stage \in {"search", "open", "file"} => received = <<>> /\ entry = 1 /\ sent = 0
  /\ stage = "download" =>
       /\ entry \in 1..Len(Queue) + 1
       /\ sent > 0 => entry <= Len(Queue) /\ sent < RequestLen(Current)
       /\ received = <<>> => entry = 1 /\ sent = 0
       /\ received # <<>> => LastPiece

LEMMA FileHasLoader ==
  ASSUME file \in Firmwares
  PROVE  file.boot \in Loader
BY FirmwaresAssumption DEF Firmware

LEMMA CurrentType ==
  ASSUME file \in Firmwares, entry \in 1..Len(Queue)
  PROVE  /\ Current \in Request
         /\ RequestLen(Current) \in Nat /\ RequestLen(Current) > 0
<1>1. Queue \in Seq(Request)
  <2>1. QueueIs(Queue, file.boot.t471.entries, file.boot.t472.entries)
    BY FileHasLoader, QueueProperties DEF Queue
  <2>. QED
    BY <2>1 DEF QueueIs
<1>2. Current \in Request
  BY <1>1, ElementOfSeq DEF Current, Queue
<1>. QED
  BY <1>2, ChunksAssumption DEF Request, Entry, RequestLen

(* One more piece, of n bytes or up to n, continues the chain.             *)
LEMMA ReceiveInOrder ==
  ASSUME SentTypes, ChainInv, stage = "download", entry <= Len(Queue),
         NEW n \in Nat, n > sent, Receives(n)
  PROVE  /\ received' \in Seq(Piece) /\ received' # <<>>
         /\ BootInOrder'
         /\ received'[Len(received')] =
              [request |-> Current.request, of |-> Current.of, from |-> sent, to |-> n]
<1> DEFINE q == [request |-> Current.request, of |-> Current.of, from |-> sent, to |-> n]
<1>1. file \in Firmwares /\ entry \in 1..Len(Queue) /\ sent \in Nat /\ received \in Seq(Piece)
  BY DEF SentTypes, ChainInv, LateStages
<1>2. Current \in Request
  BY <1>1, CurrentType
<1>3. q \in Piece
  BY <1>1, <1>2 DEF Request, Piece
<1>4. received' = Append(received, q)
  BY <1>1 DEF Receives
<1>5. received # <<>> =>
        Follows(received[Len(received)], q) /\ received[Len(received)].request <= q.request
  <2> SUFFICES ASSUME received # <<>>
               PROVE  Follows(received[Len(received)], q)
                      /\ received[Len(received)].request <= q.request
    OBVIOUS
  <2>1. LastPiece
    BY DEF ChainInv
  <2>2. CASE sent > 0
    BY <1>2, <2>1, <2>2 DEF LastPiece, Follows, Request
  <2>3. CASE sent = 0
    <3>1. entry - 1 \in 1..Len(Queue) - 1 /\ (entry - 1) + 1 = entry
      BY <1>1, <2>1, <2>3 DEF LastPiece, SentTypes
    <3>2. Queue[entry - 1].request <= Queue[entry].request
      BY <1>1, <3>1, FileHasLoader, QueueOrdered DEF Queue
    <3>. QED
      BY <2>1, <2>3, <3>2 DEF LastPiece, Follows, Current, Queue
  <2>. QED
    BY <1>1, <2>2, <2>3
<1> HIDE DEF q
<1>6. /\ received' \in Seq(Piece) /\ received' # <<>>
      /\ Len(received') = Len(received) + 1 /\ Len(received) \in Nat
      /\ \A i \in 1..Len(received) : received'[i] = received[i]
      /\ received'[Len(received) + 1] = q
  BY <1>1, <1>3, <1>4, AppendProperties, LenProperties
<1>7. received = <<>> => q.from = 0
  BY DEF ChainInv, q
<1>8. received'[1].from = 0
  <2>1. CASE received = <<>>
    BY <1>6, <1>7, <2>1
  <2>2. CASE received # <<>>
    <3>1. 1 \in 1..Len(received)
      BY <1>1, <2>2, EmptySeq
    <3>. QED
      BY <1>6, <2>2, <3>1 DEF ChainInv, BootInOrder
  <2>. QED
    BY <2>1, <2>2
<1>9. ASSUME NEW i \in 1..Len(received') - 1
      PROVE  /\ Follows(received'[i], received'[i + 1])
             /\ received'[i].request <= received'[i + 1].request
  <2>1. CASE i < Len(received)
    <3>1. i \in 1..Len(received) - 1 /\ i \in 1..Len(received) /\ i + 1 \in 1..Len(received)
      BY <1>6, <2>1
    <3>2. received'[i] = received[i] /\ received'[i + 1] = received[i + 1]
      BY <1>6, <3>1
    <3>. QED
      BY <3>1, <3>2 DEF ChainInv, BootInOrder
  <2>2. CASE i = Len(received)
    <3>1. i \in 1..Len(received) /\ received # <<>>
      BY <1>6, <2>2, EmptySeq
    <3>2. received'[i] = received[i] /\ received'[i + 1] = q
      BY <1>6, <2>2, <3>1
    <3>. QED
      BY <1>5, <2>2, <3>1, <3>2
  <2>. QED
    BY <1>6, <2>1, <2>2
<1>10. BootInOrder'
  BY <1>8, <1>9 DEF BootInOrder, Follows, RequestLen
<1>. QED
  BY <1>6, <1>10 DEF q

(* A chunk is not empty, and ends within its request.                      *)
LEMMA ChunkBounds ==
  ASSUME SentTypes, ChainInv, Downloading
  PROVE  /\ file \in Firmwares /\ entry \in 1..Len(Queue) /\ Current \in Request
         /\ RequestLen(Current) \in Nat
         /\ ChunkEnd \in Nat /\ sent < ChunkEnd /\ ChunkEnd <= RequestLen(Current)
<1>1. file \in Firmwares /\ entry \in 1..Len(Queue)
  BY DEF Downloading, SentTypes, LateStages, ChainInv, Queue
<1>2. Current \in Request /\ RequestLen(Current) \in Nat /\ RequestLen(Current) > 0
  BY <1>1, CurrentType
<1>3. sent \in Nat /\ sent < RequestLen(Current)
  BY <1>2 DEF SentTypes, ChainInv, Downloading
<1>. QED
  BY <1>1, <1>2, <1>3, ChunksAssumption DEF ChunkEnd, Smaller

LEMMA SendChunkChain ==
  ASSUME SentTypes, ChainInv, SendChunk
  PROVE  SentTypes' /\ ChainInv'
<1>1. Downloading /\ stage = "download" /\ entry <= Len(Queue)
  BY DEF SendChunk, Downloading, Queue
<1>2. /\ file \in Firmwares /\ entry \in 1..Len(Queue)
      /\ RequestLen(Current) \in Nat
      /\ ChunkEnd \in Nat /\ sent < ChunkEnd /\ ChunkEnd <= RequestLen(Current)
      /\ sent \in Nat
  BY <1>1, ChunkBounds DEF SentTypes
<1>3. file' = file /\ program' = program
  BY DEF SendChunk
<1>4. CASE Receives(ChunkEnd) /\ Advance /\ UNCHANGED stage
  <2>1. /\ received' \in Seq(Piece) /\ received' # <<>> /\ BootInOrder'
        /\ received'[Len(received')] =
             [request |-> Current.request, of |-> Current.of, from |-> sent, to |-> ChunkEnd]
    BY <1>1, <1>2, <1>4, ReceiveInOrder
  <2>2. CASE ChunkEnd = RequestLen(Current)
    <3>1. entry' = entry + 1 /\ sent' = 0
      BY <1>4, <2>2 DEF Advance
    <3>2. LastPiece'
      <4>1. entry' > 1 /\ entry' - 1 = entry
        BY <1>2, <3>1
      <4>2. Queue'[entry] = Current
        BY <1>3 DEF Queue, Current
      <4>. QED
        BY <2>1, <2>2, <3>1, <4>1, <4>2 DEF LastPiece, RequestLen
    <3>. QED
      BY <1>1, <1>2, <1>3, <1>4, <2>1, <3>1, <3>2 DEF SentTypes, ChainInv, Queue
  <2>3. CASE ChunkEnd # RequestLen(Current)
    <3>1. entry' = entry /\ sent' = ChunkEnd
      BY <1>4, <2>3 DEF Advance
    <3>2. Current' = Current /\ RequestLen(Current)' = RequestLen(Current)
      BY <1>3, <3>1 DEF Current, RequestLen
    <3>3. LastPiece'
      BY <1>2, <2>1, <3>1, <3>2 DEF LastPiece
    <3>. QED
      BY <1>1, <1>2, <1>3, <1>4, <2>1, <2>3, <3>1, <3>2, <3>3
         DEF SentTypes, ChainInv, Queue
  <2>. QED
    BY <2>2, <2>3
<1>5. CASE stage' = "ended" /\ UNCHANGED <<entry, sent>>
           /\ \E n \in (IF live THEN sent..ChunkEnd ELSE {sent}) : Receives(n)
  <2>1. PICK n \in sent..ChunkEnd : Receives(n)
    BY <1>2, <1>5
  <2>2. received' \in Seq(Piece) /\ BootInOrder'
    <3>1. CASE n = sent
      BY <2>1, <3>1 DEF Receives, SentTypes, ChainInv, BootInOrder, Follows, RequestLen
    <3>2. CASE n # sent
      <4>1. n \in Nat /\ n > sent
        BY <1>2, <3>2
      <4>. QED
        BY <1>1, <2>1, <4>1, ReceiveInOrder
    <3>. QED
      BY <3>1, <3>2
  <2>. QED
    BY <1>2, <1>3, <1>5, <2>2 DEF SentTypes, ChainInv
<1>. QED
  BY <1>4, <1>5 DEF SendChunk, End

LEMMA ChainNext ==
  ASSUME SentTypes, ChainInv, [SessionNext]_sessionVars
  PROVE  SentTypes' /\ ChainInv'
<1> USE DEF LateStages
<1>1. ASSUME UNCHANGED <<stage, program, file, entry, sent, received>>
      PROVE  SentTypes' /\ ChainInv'
  BY <1>1 DEF SentTypes, ChainInv, BootInOrder, Follows, RequestLen, LastPiece,
              Current, Queue
<1>2. ASSUME UNCHANGED <<entry, sent, received>>,
             stage' \in {"search", "open", "file"} =>
               stage \in {"search", "open", "file"},
             stage' = "download" => received = <<>> /\ entry = 1 /\ sent = 0,
             file' \in Firmwares \/ (UNCHANGED <<file, program>>
                                       /\ (stage' \in LateStages => stage \in LateStages))
      PROVE  SentTypes' /\ ChainInv'
  <2>1. SentTypes'
    BY <1>2 DEF SentTypes
  <2>2. BootInOrder'
    BY <1>2 DEF ChainInv, BootInOrder, Follows, RequestLen
  <2>3. stage' = "download" => Len(Queue)' \in Nat
    <3>1. stage' = "download" => file' \in Firmwares
      BY <2>1 DEF SentTypes
    <3>2. file' \in Firmwares => Queue' \in Seq(Request)
      <4> SUFFICES ASSUME file' \in Firmwares PROVE Queue' \in Seq(Request)
        OBVIOUS
      <4>1. file'.boot \in Loader
        BY FirmwaresAssumption DEF Firmware
      <4>2. QueueIs(Queue', file'.boot.t471.entries, file'.boot.t472.entries)
        BY <4>1, QueueProperties DEF Queue
      <4>. QED
        BY <4>2 DEF QueueIs
    <3>. QED
      BY <3>1, <3>2, LenProperties
  <2>4. stage' \in {"search", "open", "file"} => received' = <<>> /\ entry' = 1 /\ sent' = 0
    BY <1>2 DEF ChainInv
  <2>5. stage' = "download" => received' = <<>> /\ entry' = 1 /\ sent' = 0
    BY <1>2
  <2>6. stage' = "download" => entry' \in 1..Len(Queue') + 1
    <3> SUFFICES ASSUME stage' = "download" PROVE entry' \in 1..Len(Queue') + 1
      OBVIOUS
    <3>1. entry' = 1
      BY <2>5
    <3>2. Len(Queue') \in Nat
      BY <2>3
    <3>. QED
      BY <3>1, <3>2
  <2>. QED
    BY <2>1, <2>2, <2>4, <2>5, <2>6 DEF ChainInv
<1>3. CASE Search \/ SearchFails
  BY <1>1, <1>3 DEF Search, SearchFails, session
<1>4. CASE Searched \/ OpenDevice \/ SliceEntry \/ Storage
  BY <1>2, <1>4 DEF Searched, OpenDevice, SliceEntry, Storage, End
<1>5. CASE ReadFile
  <2>1. received = <<>> /\ entry = 1 /\ sent = 0
    BY <1>5 DEF ReadFile, ChainInv
  <2>2. file' \in Firmwares /\ stage' \notin {"search", "open", "file"}
    BY <1>5 DEF ReadFile, End
  <2>. QED
    BY <1>2, <1>5, <2>1, <2>2 DEF ReadFile
<1>6. CASE SendChunk
  BY <1>6, SendChunkChain
<1>7. CASE Downloaded
  BY <1>2, <1>7 DEF Downloaded, End
<1>8. ASSUME NEW d \in Devices, Plug(d) \/ Unplug(d)
      PROVE  SentTypes' /\ ChainInv'
  BY <1>1, <1>8 DEF Plug, Unplug, session
<1>9. CASE UNCHANGED sessionVars
  BY <1>1, <1>9 DEF sessionVars, session
<1>. QED
  BY <1>3, <1>4, <1>5, <1>6, <1>7, <1>8, <1>9 DEF SessionNext, Program

LEMMA ChainInit == SessionInit => SentTypes /\ ChainInv
<1> SUFFICES ASSUME SessionInit PROVE SentTypes /\ ChainInv
  OBVIOUS
<1>1. received \in Seq(Piece) /\ Len(received) = 0
  BY EmptySeq DEF SessionInit
<1>. QED
  BY <1>1 DEF SessionInit, SentTypes, ChainInv, BootInOrder, LateStages

(* However a download ends, what the device got is the boot image from its *)
(* start on, gapless and in order, table 471 first.                        *)
THEOREM DownloadInOrder == SessionSpec => []BootInOrder
<1>1. ChainInv => BootInOrder
  BY DEF ChainInv
<1>2. SentTypes /\ ChainInv /\ [SessionNext]_sessionVars => (SentTypes /\ ChainInv)'
  BY ChainNext
<1>. QED
  BY <1>1, <1>2, ChainInit, PTL DEF SessionSpec

-----------------------------------------------------------------------------
(***************************************************************************)
(* Entry i was in the file and has got to the device to its last byte.     *)
(***************************************************************************)
Arrived(i) ==
  /\ InFile(file.boot, Queue[i].of)
  /\ \E p \in DOMAIN received :
       /\ received[p].request = Queue[i].request /\ received[p].of = Queue[i].of
       /\ received[p].to = RequestLen(Queue[i])

(* The moments at which the session takes the download for a success.      *)
Delivered ==
  \/ program = "download-boot" /\ outcome = "Ok"
  \/ program = "upgrade" /\ Detect(first) = "Maskrom"
     /\ stage \in {"search again", "open again", "storage", "partitions"}

WholeInv ==
  /\ outcome # "none" => stage = "ended"
  /\ stage \in {"search again", "open again", "storage", "partitions"} =>
       program = "upgrade"
  /\ stage \in {"file", "download"} => handle = first
  /\ stage = "download" =>
       /\ \A i \in 1..entry - 1 : Arrived(i)
       /\ sent > 0 => InFile(file.boot, Current.of)
  /\ Delivered => \A i \in 1..Len(Queue) : Arrived(i)

DataInv == SessionInv /\ SentTypes /\ ChainInv /\ WholeInv

(* The chunk that ends an entry completes it; what was there stays.        *)
LEMMA SendChunkWhole ==
  ASSUME DataInv, SendChunk
  PROVE  WholeInv'
<1>1. SentTypes /\ ChainInv /\ WholeInv /\ Downloading /\ stage = "download"
  BY DEF DataInv, SendChunk, Downloading
<1>2. /\ file \in Firmwares /\ entry \in 1..Len(Queue) /\ sent \in Nat
      /\ ChunkEnd \in Nat /\ sent < ChunkEnd
  BY <1>1, ChunkBounds DEF SentTypes
<1>3. UNCHANGED <<file, program, first, handle>> /\ Queue' = Queue
  BY DEF SendChunk, Queue
<1>4. outcome = "none" /\ InFile(file.boot, Current.of)
  BY <1>1, <1>2 DEF WholeInv, SendChunk
<1>5. CASE Receives(ChunkEnd) /\ Advance /\ UNCHANGED <<stage, outcome>>
  <2> DEFINE q == [request |-> Current.request, of |-> Current.of,
                   from |-> sent, to |-> ChunkEnd]
  <2>1. received' = Append(received, q)
    BY <1>2, <1>5 DEF Receives
  <2>2. /\ received' \in Seq(Piece) /\ received' # <<>> /\ received'[Len(received')] = q
    BY <1>1, <1>2, <1>5, ReceiveInOrder DEF Downloading, Queue
  <2> HIDE DEF q
  <2>3. /\ \A p \in DOMAIN received : p \in DOMAIN received' /\ received'[p] = received[p]
        /\ Len(received') \in DOMAIN received'
    BY <1>1, <2>1, <2>2 DEF SentTypes
  <2>4. ASSUME NEW i \in 1..entry - 1
        PROVE  Arrived(i)'
    <3>1. Arrived(i)
      BY <1>1 DEF WholeInv
    <3>. QED
      BY <1>3, <2>3, <3>1 DEF Arrived, RequestLen
  <2>5. CASE ChunkEnd = RequestLen(Current)
    <3>1. entry' = entry + 1 /\ sent' = 0
      BY <1>5, <2>5 DEF Advance
    <3>2. ASSUME NEW i, i = entry
          PROVE  Arrived(i)'
      <4>1. Current = Queue[i]
        BY <3>2 DEF Current, Queue
      <4>2. q.request = Queue[i].request /\ q.of = Queue[i].of
            /\ q.to = RequestLen(Queue[i])
        BY <2>5, <4>1 DEF q
      <4>3. InFile(file.boot, Queue[i].of)
        BY <1>4, <4>1
      <4>. QED
        BY <1>3, <2>2, <2>3, <4>2, <4>3 DEF Arrived, RequestLen
    <3>3. \A i \in 1..entry' - 1 : Arrived(i)'
      <4> SUFFICES ASSUME NEW i \in 1..entry' - 1 PROVE Arrived(i)'
        OBVIOUS
      <4>1. i \in 1..entry - 1 \/ i = entry
        BY <1>2, <3>1
      <4>. QED
        BY <2>4, <3>2, <4>1
    <3>. QED
      BY <1>1, <1>3, <1>4, <1>5, <3>1, <3>3 DEF WholeInv, Delivered
  <2>6. CASE ChunkEnd # RequestLen(Current)
    <3>1. entry' = entry /\ sent' = ChunkEnd /\ Current' = Current
      BY <1>3, <1>5, <2>6 DEF Advance, Current
    <3>. QED
      BY <1>1, <1>3, <1>4, <1>5, <2>4, <3>1 DEF WholeInv, Delivered
  <2>. QED
    BY <2>5, <2>6
<1>6. CASE End("Usb")
  BY <1>3, <1>6 DEF End, WholeInv, Delivered
<1>. QED
  BY <1>5, <1>6 DEF SendChunk

LEMMA WholeNext ==
  ASSUME DataInv, [SessionNext]_sessionVars
  PROVE  WholeInv'
<1> USE DEF DataInv
<1>1. ASSUME UNCHANGED session
      PROVE  WholeInv'
  BY <1>1 DEF session, WholeInv, Delivered, Arrived, Queue, Current, RequestLen
<1>2. CASE Search \/ SearchFails
  BY <1>1, <1>2 DEF Search, SearchFails
<1>3. CASE Searched
  <2>1. result # "Ok"
    BY DEF SessionInv, SelectionTypeInv, TypeOK, Results
  <2>2. UNCHANGED <<program, file, entry, sent, received, handle>>
    BY <1>3 DEF Searched
  <2>3. CASE stage = "search" /\ stage' = "open" /\ UNCHANGED outcome
    BY <2>2, <2>3 DEF WholeInv, Delivered
  <2>4. CASE stage = "search again" /\ stage' = "open again" /\ UNCHANGED <<outcome, first>>
    BY <2>2, <2>4 DEF WholeInv, Delivered, Arrived, Queue, RequestLen
  <2>5. CASE stage' = "ended" /\ outcome' # "Ok"
    BY <2>5 DEF WholeInv, Delivered
  <2>. QED
    BY <1>3, <2>1, <2>3, <2>4, <2>5 DEF Searched, End
<1>4. CASE OpenDevice
  <2>1. UNCHANGED <<program, file, entry, sent, received, first>>
    BY <1>4 DEF OpenDevice
  <2>2. CASE stage = "open" /\ stage' = "file" /\ handle' = chosen /\ UNCHANGED outcome
    <3>1. first = chosen
      BY <2>2 DEF SessionInv, HandleInv, FirstStages
    <3>. QED
      BY <2>1, <2>2, <3>1 DEF WholeInv, Delivered
  <2>3. CASE stage = "open again" /\ stage' = "storage" /\ UNCHANGED outcome
    BY <2>1, <2>3 DEF WholeInv, Delivered, Arrived, Queue, RequestLen
  <2>4. CASE stage' = "ended" /\ outcome' # "Ok"
    BY <2>4 DEF WholeInv, Delivered
  <2>. QED
    BY <1>4, <2>2, <2>3, <2>4 DEF OpenDevice, End
<1>5. CASE ReadFile
  <2>1. stage = "file" /\ handle = first /\ outcome = "none" /\ entry = 1 /\ sent = 0
    BY <1>5 DEF ReadFile, WholeInv, ChainInv
  <2>2. UNCHANGED <<first, handle, entry, sent>>
    BY <1>5 DEF ReadFile
  <2>3. CASE stage' = "ended" /\ outcome' # "Ok"
    BY <2>3 DEF WholeInv, Delivered
  <2>4. CASE stage' = "download" /\ UNCHANGED outcome
    BY <2>1, <2>2, <2>4 DEF WholeInv, Delivered
  <2>5. CASE stage' = "storage" /\ UNCHANGED outcome /\ ~NeedsBoot(program')
    <3>1. program' = "upgrade" /\ Detect(handle) # "Maskrom"
      BY <1>5, <2>5 DEF ReadFile, NeedsBoot
    <3>2. Detect(first)' # "Maskrom"
      BY <2>1, <2>2, <3>1 DEF Detect
    <3>. QED
      BY <2>1, <2>5, <3>1, <3>2 DEF WholeInv, Delivered
  <2>. QED
    BY <1>5, <2>3, <2>4, <2>5 DEF ReadFile, End
<1>6. CASE SliceEntry
  BY <1>6 DEF SliceEntry, End, WholeInv, Delivered
<1>7. CASE SendChunk
  BY <1>7, SendChunkWhole
<1>8. CASE Downloaded
  <2>1. UNCHANGED <<program, file, first, handle, entry, sent, received>>
    BY <1>8 DEF Downloaded
  <2>2. \A i \in 1..Len(Queue) : Arrived(i)
    <3>1. stage = "download" /\ entry > Len(Queue) /\ entry \in Nat
      BY <1>8 DEF Downloaded, Queue, SentTypes
    <3>2. file \in Firmwares
      BY <3>1 DEF SentTypes, LateStages
    <3>3. entry \in 1..Len(Queue) + 1
      BY <3>1 DEF ChainInv
    <3>4. Len(Queue) \in Nat
      <4>1. QueueIs(Queue, file.boot.t471.entries, file.boot.t472.entries)
        BY <3>2, FileHasLoader, QueueProperties DEF Queue
      <4>. QED
        BY <4>1, LenProperties, ZenonT(30) DEF QueueIs
    <3>5. entry - 1 = Len(Queue)
      BY <3>1, <3>3, <3>4
    <3>. QED
      BY <3>1, <3>5 DEF WholeInv
  <2>3. \A i \in 1..Len(Queue)' : Arrived(i)'
    BY <2>1, <2>2 DEF Arrived, Queue, RequestLen
  <2>. QED
    BY <1>8, <2>1, <2>3 DEF Downloaded, End, WholeInv, Delivered
<1>9. CASE Storage
  <2>1. UNCHANGED <<program, file, first, handle, entry, sent, received>>
        /\ program = "upgrade" /\ stage = "storage" /\ stage' \in {"partitions", "ended"}
        /\ (stage' = "partitions" => outcome' = outcome)
    BY <1>9 DEF Storage, End, WholeInv
  <2>. QED
    BY <2>1 DEF WholeInv, Delivered, Arrived, Queue, RequestLen
<1>10. ASSUME NEW d \in Devices, Plug(d) \/ Unplug(d)
       PROVE  WholeInv'
  <2>1. UNCHANGED <<stage, program, file, first, handle, entry, sent, received, outcome>>
    BY <1>10 DEF Plug, Unplug, session
  <2>. QED
    BY <2>1 DEF WholeInv, Delivered, Arrived, Queue, Current, RequestLen
<1>11. CASE UNCHANGED sessionVars
  BY <1>1, <1>11 DEF sessionVars
<1>. QED
  BY <1>2, <1>3, <1>4, <1>5, <1>6, <1>7, <1>8, <1>9, <1>10, <1>11 DEF SessionNext, Program

(* All entries have arrived: both tables are with the device.              *)
LEMMA AllArrived ==
  ASSUME SentTypes, Delivered, \A i \in 1..Len(Queue) : Arrived(i)
  PROVE  /\ HasWhole(file.boot)
         /\ \A t \in {file.boot.t471, file.boot.t472} :
              \A i \in DOMAIN t.entries : InFile(file.boot, t.entries[i])
<1> DEFINE d == file.boot.t471.entries
           l == file.boot.t472.entries
<1>1. file \in Firmwares
  BY DEF SentTypes, Delivered, LateStages
<1>2. QueueIs(Queue, d, l)
  BY <1>1, FileHasLoader, QueueProperties DEF Queue
<1>3. d \in Seq(Entry) /\ l \in Seq(Entry)
  BY <1>1, FileHasLoader DEF Loader, Table
<1>4. Len(d) \in Nat /\ Len(l) \in Nat /\ DOMAIN d = 1..Len(d) /\ DOMAIN l = 1..Len(l)
  BY <1>3, LenProperties
<1> HIDE DEF d, l
<1>5. ASSUME NEW i \in DOMAIN d
      PROVE  i \in 1..Len(Queue) /\ Queue[i] = [request |-> 1137, of |-> d[i]]
  BY <1>2, <1>4 DEF QueueIs
<1>6. ASSUME NEW i \in DOMAIN l
      PROVE  Len(d) + i \in 1..Len(Queue)
             /\ Queue[Len(d) + i] = [request |-> 1138, of |-> l[i]]
  BY <1>2, <1>4 DEF QueueIs
<1>7. ASSUME NEW i \in DOMAIN d
      PROVE  /\ InFile(file.boot, d[i])
             /\ \E p \in DOMAIN received :
                  received[p].request = 1137 /\ received[p].of = d[i]
                  /\ received[p].to = d[i].size + CrcLen
  <2>1. Arrived(i) /\ Queue[i] = [request |-> 1137, of |-> d[i]]
    BY <1>5
  <2>2. Queue[i].request = 1137 /\ Queue[i].of = d[i]
    BY <2>1
  <2>. QED
    BY <2>1, <2>2 DEF Arrived, RequestLen
<1>8. ASSUME NEW i \in DOMAIN l
      PROVE  /\ InFile(file.boot, l[i])
             /\ \E p \in DOMAIN received :
                  received[p].request = 1138 /\ received[p].of = l[i]
                  /\ received[p].to = l[i].size + CrcLen
  <2>1. Arrived(Len(d) + i) /\ Queue[Len(d) + i] = [request |-> 1138, of |-> l[i]]
    BY <1>6
  <2>2. Queue[Len(d) + i].request = 1138 /\ Queue[Len(d) + i].of = l[i]
    BY <2>1
  <2>. QED
    BY <2>1, <2>2 DEF Arrived, RequestLen
<1>. QED
  BY <1>7, <1>8 DEF HasWhole, d, l

LEMMA DataAlways == SessionSpec => []DataInv
<1>1. SessionInit => DataInv
  BY SessionInvInit, ChainInit DEF SessionInit, DataInv, WholeInv, Delivered
<1>2. SessionInv /\ [SessionNext]_sessionVars => SessionInv'
  BY SessionStepIsSearchStep, SelectionNext, SelectionTypeNext, HandleNext
     DEF SessionInv
<1>3. DataInv /\ [SessionNext]_sessionVars => DataInv'
  BY <1>2, ChainNext, WholeNext DEF DataInv
<1>. QED
  BY <1>1, <1>3, PTL DEF SessionSpec

(* A program that says Ok, or goes on to the storage of a board that was   *)
(* in Maskrom mode, has given the board the whole of its boot image: no    *)
(* failure of any chunk is taken for a success.                            *)
THEOREM WholeImageFirst == SessionSpec => []BootBeforeStorage
<1>1. DataInv => BootBeforeStorage
  BY AllArrived DEF DataInv, WholeInv, Delivered, BootBeforeStorage
<1>. QED
  BY <1>1, DataAlways, PTL

-----------------------------------------------------------------------------
(***************************************************************************)
(* What a file has passed when the download begins, and the types.         *)
(***************************************************************************)
LEMMA CheckedTable ==
  ASSUME NEW f, NEW t
  PROVE  /\ ParseTable(f, t) # "none"
         /\ ParseTable(f, t) = "Ok" => t.offset + t.size * t.count <= f.len
BY DEF ParseTable, ??, Check

LEMMA CheckedLoader ==
  ASSUME NEW f
  PROVE  /\ ParseLoader(f) # "none"
         /\ ParseLoader(f) = "Ok" =>
              \A t \in {f.t471, f.t472, f.loader} : t.offset + t.size * t.count <= f.len
<1>1. \A t \in {f.t471, f.t472, f.loader} :
        /\ ParseTable(f, t) # "none"
        /\ ParseTable(f, t) = "Ok" => t.offset + t.size * t.count <= f.len
  BY CheckedTable
<1>2. ParseLoader(f) # "none"
  BY <1>1 DEF ParseLoader, ??, Check
<1>3. ParseLoader(f) = "Ok" => \A t \in {f.t471, f.t472, f.loader} : ParseTable(f, t) = "Ok"
  BY DEF ParseLoader, ??, Check
<1>. QED
  BY <1>1, <1>2, <1>3

LEMMA CheckedFirmware ==
  ASSUME NEW w
  PROVE  /\ ParseFirmware(w) # "none"
         /\ ParseFirmware(w) = "Ok" => w.fwOffset + w.fwSize + Md5Len <= w.len
BY DEF ParseFirmware, ??, Check

LEMMA CheckedFile ==
  ASSUME NEW p, NEW w
  PROVE  /\ Checks(p, w) # "none"
         /\ Checks(p, w) = "Ok" =>
              /\ ParseLoader(w.boot) = "Ok"
              /\ p = "upgrade" => ParseFirmware(w) = "Ok"
<1>1. ParseLoader(w.boot) # "none" /\ ParseFirmware(w) # "none"
  BY CheckedLoader, CheckedFirmware
<1>2. ParseBoot(w) # "none" /\ (ParseBoot(w) = "Ok" => ParseLoader(w.boot) = "Ok")
  BY <1>1 DEF ParseBoot, ??, Check
<1>. QED
  BY <1>1, <1>2 DEF Checks, DownloadBootChecks, UpgradeChecks, ??, Check

(***************************************************************************)
(* The download is due from the moment it begins: the file and the first   *)
(* device stay what they were when they were checked.                      *)
(***************************************************************************)
Due ==
  /\ \A t \in {file.boot.t471, file.boot.t472, file.boot.loader} :
       t.offset + t.size * t.count <= file.boot.len
  /\ program = "upgrade" =>
       /\ Detect(first) = "Maskrom"
       /\ file.fwOffset + file.fwSize + Md5Len <= file.len

DueInv == stage = "download" \/ received # <<>> => Due

LEMMA DueNext ==
  ASSUME DataInv, DueInv, [SessionNext]_sessionVars
  PROVE  DueInv'
<1>1. ASSUME UNCHANGED <<program, file, first, received>>, stage' = "download" => stage = "download"
      PROVE  DueInv'
  BY <1>1 DEF DueInv, Due
<1>2. CASE Search \/ SearchFails
  BY <1>1, <1>2 DEF Search, SearchFails, session
<1>3. CASE Searched
  <2>1. CASE stage = "search"
    <3>1. received' = <<>> /\ stage' # "download"
      BY <1>3, <2>1 DEF Searched, End, DataInv, ChainInv
    <3>. QED
      BY <3>1 DEF DueInv
  <2>2. CASE stage = "search again"
    BY <1>1, <1>3, <2>2 DEF Searched, End
  <2>. QED
    BY <1>3, <2>1, <2>2 DEF Searched
<1>4. CASE OpenDevice \/ SliceEntry \/ Downloaded \/ Storage
  BY <1>1, <1>4 DEF OpenDevice, SliceEntry, Downloaded, Storage, End
<1>5. CASE ReadFile
  <2>1. received' = <<>> /\ first' = first /\ handle = first
    BY <1>5 DEF ReadFile, DataInv, ChainInv, WholeInv
  <2>2. ASSUME stage' = "download"
        PROVE  Due'
    <3>1. Checks(program', file') = "Ok" /\ NeedsBoot(program')
      BY <1>5, <2>2 DEF ReadFile, End
    <3>2. ParseLoader(file'.boot) = "Ok" /\ (program' = "upgrade" => ParseFirmware(file') = "Ok")
      BY <3>1, CheckedFile
    <3>3. program' = "upgrade" => Detect(first') = "Maskrom"
      BY <2>1, <3>1 DEF NeedsBoot
    <3>. QED
      BY <3>2, <3>3, CheckedLoader, CheckedFirmware DEF Due, Detect
  <2>. QED
    BY <2>1, <2>2 DEF DueInv
<1>6. CASE SendChunk
  <2>1. stage = "download" /\ UNCHANGED <<program, file, first>>
    BY <1>6 DEF SendChunk, Downloading
  <2>. QED
    BY <2>1 DEF DueInv, Due
<1>7. ASSUME NEW d \in Devices, Plug(d) \/ Unplug(d)
      PROVE  DueInv'
  BY <1>1, <1>7 DEF Plug, Unplug, session
<1>8. CASE UNCHANGED sessionVars
  BY <1>1, <1>8 DEF sessionVars, session
<1>. QED
  BY <1>2, <1>3, <1>4, <1>5, <1>6, <1>7, <1>8 DEF SessionNext, Program

(* Nothing is sent of a file whose tables, firmware or MD5 are not all     *)
(* there, and upgrade sends nothing to a board that is not in Maskrom      *)
(* mode, whatever is plugged in while it sends.                            *)
THEOREM SentWhenDue == SessionSpec => []DownloadIsDue
<1>1. SessionInit => DueInv
  BY DEF SessionInit, DueInv
<1>2. DataInv /\ DueInv /\ [SessionNext]_sessionVars => DueInv'
  BY DueNext
<1>3. DueInv => DownloadIsDue
  BY DEF DueInv, Due, DownloadIsDue
<1>. QED
  BY <1>1, <1>2, <1>3, DataAlways, PTL DEF SessionSpec

(* A device is open from the first open on, and a session that has ended   *)
(* says how.                                                               *)
OpenedStages ==
  {"file", "download", "search again", "open again", "storage", "partitions"}

HandleTypes ==
  /\ stage \in Stages /\ program \in {"none", "download-boot", "upgrade"}
  /\ first \in Devices \cup {NoDevice} /\ handle \in Devices \cup {NoDevice}
  /\ stage \in OpenedStages => handle # NoDevice
  /\ live \in BOOLEAN /\ (live => handle # NoDevice)
  /\ (stage = "ended") = (outcome # "none")

LEMMA HandleTypesNext ==
  ASSUME SessionInv, HandleTypes, [SessionNext]_sessionVars
  PROVE  HandleTypes'
<1> USE DEF Stages, OpenedStages
<1>1. /\ chosen \in Devices \cup {NoDevice} /\ (result = "Found") = (chosen # NoDevice)
      /\ result \in Results
  BY DEF SessionInv, SelectionTypeInv, TypeOK
<1>2. ASSUME UNCHANGED session
      PROVE  HandleTypes'
  BY <1>2 DEF HandleTypes, session
<1>3. CASE Search \/ SearchFails
  BY <1>2, <1>3 DEF Search, SearchFails
<1>4. CASE Searched
  <2>1. pc = "returned" => result # "none"
    BY DEF SessionInv, SelectionTypeInv
  <2>. QED
    BY <1>1, <1>4, <2>1 DEF Searched, End, HandleTypes
<1>5. CASE OpenDevice
  <2>1. chosen # NoDevice
    BY <1>1, <1>5 DEF OpenDevice, SessionInv, HandleInv, FirstStages
  <2>. QED
    BY <1>1, <1>5, <2>1, ZenonT(30) DEF OpenDevice, End, HandleTypes
<1>6. CASE ReadFile
  <2>1. Checks(program', file') # "none"
    BY CheckedFile
  <2>. QED
    BY <1>6, <2>1 DEF ReadFile, End, HandleTypes
<1>7. CASE SliceEntry \/ SendChunk
  BY <1>7 DEF SliceEntry, SendChunk, End, HandleTypes, Downloading
<1>8. CASE Downloaded
  BY <1>8 DEF Downloaded, End, HandleTypes
<1>9. CASE Storage
  <2>1. ParamChecks(ParamSize[file]) # "none"
    BY DEF ParamChecks, ??, Check
  <2>. QED
    BY <1>9, <2>1 DEF Storage, End, HandleTypes
<1>10. ASSUME NEW d \in Devices, Plug(d) \/ Unplug(d)
       PROVE  HandleTypes'
  BY <1>2, <1>10 DEF Plug, Unplug, HandleTypes
<1>11. CASE UNCHANGED sessionVars
  BY <1>2, <1>11 DEF sessionVars
<1>. QED
  BY <1>3, <1>4, <1>5, <1>6, <1>7, <1>8, <1>9, <1>10, <1>11 DEF SessionNext, Program

LEMMA HandleTypesInit == SessionInit => HandleTypes
BY DEF SessionInit, HandleTypes, Stages, OpenedStages

(* Every variable of a session stays in its type: no step uses a device    *)
(* that was never opened, and the session has an outcome exactly when it   *)
(* has ended.                                                              *)
THEOREM SessionTypes == SessionSpec => []SessionTypeOK
<1>1. SessionInv /\ HandleTypes /\ [SessionNext]_sessionVars => HandleTypes'
  BY HandleTypesNext
<1>2. DataInv /\ HandleTypes => SessionTypeOK
  <2> SUFFICES ASSUME DataInv, HandleTypes PROVE SessionTypeOK
    OBVIOUS
  <2>1. TypeOK
    BY DEF DataInv, SessionInv, SelectionTypeInv
  <2>. QED
    BY <2>1 DEF DataInv, SentTypes, HandleTypes, OpenedStages, SessionTypeOK
<1>. QED
  BY <1>1, <1>2, SessionAlways, HandleTypesInit, DataAlways, PTL DEF SessionSpec

=============================================================================
