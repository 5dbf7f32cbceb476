-------------------------- MODULE Flashing_proofs --------------------------
(***************************************************************************)
(* Proofs about Flashing, for every partition table, every list of         *)
(* commands and every size: the types, that a transfer on storage with     *)
(* small logical blocks hits its partition, and that an upgrade puts every *)
(* sector where it belongs, whatever fails.                                *)
(***************************************************************************)
EXTENDS Flashing, TLAPS, WellFoundedInduction

-----------------------------------------------------------------------------
(* Where the chunks of a sparse image start.  The library's induction      *)
(* theorems take an operator; this one takes the set of the numbers that   *)
(* have the property, and rests on Nat being well founded.                 *)

\* A set with 0 and the successor of each of its members is Nat.
LEMMA SetInduction ==
  ASSUME NEW S, S \subseteq Nat, 0 \in S, \A n \in S : n + 1 \in S
  PROVE  S = Nat
<1> SUFFICES ASSUME Nat \ S # {} PROVE FALSE
  OBVIOUS
<1>1. IsWellFoundedOn(OpToRel(<, Nat), Nat)
  BY NatLessThanWellFounded, Zenon
<1>2. \E x \in Nat \ S : \A y \in Nat \ S : ~ (<<y, x>> \in OpToRel(<, Nat))
  <2>1. Nat \ S \subseteq Nat /\ Nat \ S # {}
    OBVIOUS
  <2> QED BY <1>1, <2>1, WFMin, Zenon
<1>3. PICK x \in Nat \ S : \A y \in Nat \ S : ~ (<<y, x>> \in OpToRel(<, Nat))
  BY <1>2, Zenon
<1>4. \A y \in Nat \ S : ~ (y < x)
  BY <1>3, Zenon DEF OpToRel
<1>5. x # 0 /\ x - 1 \in Nat /\ x - 1 < x
  OBVIOUS
<1>6. x - 1 \in S
  BY <1>4, <1>5
<1> QED BY <1>5, <1>6

Sparse(e) ==
  e.block \in Nat /\ e.chunks \in Seq([type : ChunkTypes, n : Nat])

\* f is the table of the starts of the first m chunks, and of what follows.
Table(e, f, m) ==
  /\ f \in [1..(m + 1) -> Nat]
  /\ f[1] = 0
  /\ \A c \in 1..m : f[c + 1] = f[c] + ChunkLen(e, c)

StartsOf(e, f) ==
  f = [c \in 1..(Len(e.chunks) + 1) |->
         IF c = 1 THEN 0 ELSE f[c - 1] + ChunkLen(e, c - 1)]

LEMMA ChunkLenInNat ==
  ASSUME NEW e, Sparse(e), NEW c \in 1..Len(e.chunks)
  PROVE  ChunkLen(e, c) \in Nat
<1>1. e.chunks[c] \in [type : ChunkTypes, n : Nat]
  <2>1. PICK s, T : s = e.chunks /\ T = [type : ChunkTypes, n : Nat]
    OBVIOUS
  <2>2. s \in Seq(T) /\ c \in 1..Len(s)
    BY <2>1 DEF Sparse
  <2>3. s[c] \in T
    BY <2>2
  <2> QED BY <2>1, <2>3
<1>2. e.chunks[c].n \in Nat /\ e.block \in Nat
  BY <1>1 DEF Sparse
<1> QED BY <1>2 DEF ChunkLen

\* Every sparse image has such a table.
LEMMA TableExists ==
  ASSUME NEW e, Sparse(e)
  PROVE  \E f : Table(e, f, Len(e.chunks))
<1>1. Len(e.chunks) \in Nat
  BY DEF Sparse
<1> DEFINE S == {m \in Nat : m <= Len(e.chunks) => \E f : Table(e, f, m)}
<1>2. 0 \in S
  <2>1. Table(e, [c \in 1..1 |-> 0], 0)
    BY DEF Table
  <2> QED BY <2>1
<1>3. ASSUME NEW m \in S PROVE m + 1 \in S
  <2>1. m \in Nat /\ m + 1 \in Nat
    OBVIOUS
  <2>2. SUFFICES ASSUME m + 1 <= Len(e.chunks)
                 PROVE  \E f : Table(e, f, m + 1)
    BY <2>1
  <2>3. PICK f : Table(e, f, m)
    BY <1>1, <2>1, <2>2
  <2>4. ChunkLen(e, m + 1) \in Nat
    BY <1>1, <2>1, <2>2, ChunkLenInNat
  <2>5. PICK g : g = [c \in 1..(m + 2) |->
                        IF c = m + 2 THEN f[m + 1] + ChunkLen(e, m + 1) ELSE f[c]]
    OBVIOUS
  <2>6. f \in [1..(m + 1) -> Nat] /\ f[1] = 0
        /\ \A c \in 1..m : f[c + 1] = f[c] + ChunkLen(e, c)
    BY <2>3 DEF Table
  <2>7. g \in [1..(m + 2) -> Nat]
    BY <2>1, <2>4, <2>5, <2>6
  <2>8. g[1] = 0
    BY <2>1, <2>5, <2>6
  <2>9. \A c \in 1..(m + 1) : g[c + 1] = g[c] + ChunkLen(e, c)
    <3> SUFFICES ASSUME NEW c \in 1..(m + 1) PROVE g[c + 1] = g[c] + ChunkLen(e, c)
      OBVIOUS
    <3>1. CASE c = m + 1
      BY <2>1, <2>5, <3>1
    <3>2. CASE c # m + 1
      <4>1. c \in 1..m /\ c + 1 \in 1..(m + 2) /\ c + 1 # m + 2 /\ c \in 1..(m + 2) /\ c # m + 2
        BY <2>1, <3>2
      <4>2. g[c + 1] = f[c + 1] /\ g[c] = f[c]
        BY <2>5, <4>1
      <4> QED BY <2>6, <4>1, <4>2
    <3> QED BY <3>1, <3>2
  <2>10. m + 1 + 1 = m + 2
    BY <2>1
  <2>11. Table(e, g, m + 1)
    BY <2>7, <2>8, <2>9, <2>10 DEF Table
  <2> QED BY <2>11
<1>4. S = Nat
  <2>1. S \subseteq Nat
    OBVIOUS
  <2> HIDE DEF S
  <2> QED BY <1>2, <1>3, <2>1, SetInduction
<1>5. Len(e.chunks) \in S
  BY <1>1, <1>4
<1> QED BY <1>5

\* So ChunkStarts is one, being chosen among them.
LEMMA StartsTable ==
  ASSUME NEW e, Sparse(e)
  PROVE  Table(e, ChunkStarts(e), Len(e.chunks))
<1>1. PICK f : Table(e, f, Len(e.chunks))
  BY TableExists
<1>2. Len(e.chunks) \in Nat
  BY DEF Sparse
<1>3. PICK n \in Nat : n = Len(e.chunks)
  BY <1>2
<1>4. StartsOf(e, f)
  <2>1. /\ f \in [1..(n + 1) -> Nat]
        /\ f[1] = 0
        /\ \A c \in 1..n : f[c + 1] = f[c] + ChunkLen(e, c)
    BY <1>1, <1>3 DEF Table
  <2>2. ASSUME NEW c \in 1..(n + 1)
        PROVE  f[c] = IF c = 1 THEN 0 ELSE f[c - 1] + ChunkLen(e, c - 1)
    <3>1. CASE c = 1
      BY <2>1, <3>1
    <3>2. CASE c # 1
      <4>1. c - 1 \in 1..n /\ (c - 1) + 1 = c
        BY <3>2
      <4>2. f[(c - 1) + 1] = f[c - 1] + ChunkLen(e, c - 1)
        BY <2>1, <4>1
      <4> QED BY <3>2, <4>1, <4>2
    <3> QED BY <3>1, <3>2
  <2> QED BY <1>3, <2>1, <2>2 DEF StartsOf
<1>5. StartsOf(e, ChunkStarts(e))
  BY <1>4, Zenon DEF StartsOf, ChunkStarts
<1>6. PICK g : g = ChunkStarts(e)
  OBVIOUS
<1>7. g = [c \in 1..(n + 1) |-> IF c = 1 THEN 0 ELSE g[c - 1] + ChunkLen(e, c - 1)]
  BY <1>3, <1>5, <1>6 DEF StartsOf
<1>8. g[1] = 0
  BY <1>7
<1>9. \A c \in 1..n : g[c + 1] = g[c] + ChunkLen(e, c)
  <2> SUFFICES ASSUME NEW c \in 1..n PROVE g[c + 1] = g[c] + ChunkLen(e, c)
    OBVIOUS
  <2>1. c + 1 \in 1..(n + 1) /\ c + 1 # 1 /\ (c + 1) - 1 = c
    OBVIOUS
  <2>2. g[c + 1] = g[(c + 1) - 1] + ChunkLen(e, (c + 1) - 1)
    BY <1>7, <2>1
  <2> QED BY <2>1, <2>2
<1>10. g \in [1..(n + 1) -> Nat]
  <2> DEFINE S == {m \in Nat : m + 1 \in 1..(n + 1) => g[m + 1] \in Nat}
  <2>1. 0 \in S
    BY <1>8
  <2>2. ASSUME NEW m \in S PROVE m + 1 \in S
    <3>1. SUFFICES ASSUME m + 1 + 1 \in 1..(n + 1) PROVE g[m + 1 + 1] \in Nat
      OBVIOUS
    <3>2. m + 1 \in 1..n /\ m + 1 \in 1..(n + 1)
      BY <3>1
    <3>3. g[m + 1] \in Nat
      BY <3>2
    <3>4. ChunkLen(e, m + 1) \in Nat
      BY <1>3, <3>2, ChunkLenInNat
    <3> QED BY <1>9, <3>2, <3>3, <3>4
  <2>3. S = Nat
    <3>1. S \subseteq Nat
      OBVIOUS
    <3> HIDE DEF S
    <3> QED BY <2>1, <2>2, <3>1, SetInduction
  <2>4. \A c \in 1..(n + 1) : g[c] \in Nat
    <3> SUFFICES ASSUME NEW c \in 1..(n + 1) PROVE g[c] \in Nat
      OBVIOUS
    <3>1. c - 1 \in Nat /\ (c - 1) + 1 = c
      OBVIOUS
    <3>2. c - 1 \in S
      <4> HIDE DEF S
      <4> QED BY <2>3, <3>1
    <3> QED BY <3>1, <3>2
  <2> QED BY <1>7, <2>4
<1> QED BY <1>3, <1>6, <1>8, <1>9, <1>10 DEF Table

-----------------------------------------------------------------------------
(* What the table says of the chunks, and the chunks of the image.         *)

LEMMA FirstStart ==
  ASSUME NEW e, Sparse(e)
  PROVE  ChunkStart(e, 1) = 0
BY StartsTable DEF Table, ChunkStart

LEMMA NextStart ==
  ASSUME NEW e, Sparse(e), NEW c \in 1..Len(e.chunks)
  PROVE  ChunkStart(e, c + 1) = ChunkStart(e, c) + ChunkLen(e, c)
BY StartsTable, Zenon DEF Table, ChunkStart

LEMMA StartInNat ==
  ASSUME NEW e, Sparse(e), NEW c \in 1..(Len(e.chunks) + 1)
  PROVE  ChunkStart(e, c) \in Nat
<1>1. ChunkStarts(e) \in [1..(Len(e.chunks) + 1) -> Nat]
  BY StartsTable, Zenon DEF Table
<1> QED BY <1>1, Zenon DEF ChunkStart

LEMMA StartsGrow ==
  ASSUME NEW e, Sparse(e), NEW c \in 1..(Len(e.chunks) + 1),
         NEW d \in 1..(Len(e.chunks) + 1), c <= d
  PROVE  ChunkStart(e, c) <= ChunkStart(e, d)
<1>1. PICK n \in Nat : n = Len(e.chunks)
  BY DEF Sparse
<1> DEFINE S == {m \in Nat : c + m <= n + 1 => ChunkStart(e, c) <= ChunkStart(e, c + m)}
<1>2. 0 \in S
  <2>1. ChunkStart(e, c) \in Nat /\ c + 0 = c
    BY <1>1, StartInNat
  <2> QED BY <2>1
<1>3. ASSUME NEW m \in S PROVE m + 1 \in S
  <2>1. SUFFICES ASSUME c + (m + 1) <= n + 1
                 PROVE  ChunkStart(e, c) <= ChunkStart(e, c + (m + 1))
    OBVIOUS
  <2>2. c + m \in 1..n /\ c + m \in 1..(n + 1) /\ c + (m + 1) = (c + m) + 1
    BY <1>1, <2>1
  <2>3. ChunkStart(e, c) <= ChunkStart(e, c + m)
    BY <1>1, <2>2
  <2>4. ChunkStart(e, (c + m) + 1) = ChunkStart(e, c + m) + ChunkLen(e, c + m)
    BY <1>1, <2>2, NextStart
  <2>5. ChunkLen(e, c + m) \in Nat
    BY <1>1, <2>2, ChunkLenInNat
  <2>6. ChunkStart(e, c) \in Nat /\ ChunkStart(e, c + m) \in Nat
    BY <1>1, <2>2, StartInNat
  <2> QED BY <2>2, <2>3, <2>4, <2>5, <2>6
<1>4. S = Nat
  <2>1. S \subseteq Nat
    OBVIOUS
  <2> HIDE DEF S
  <2> QED BY <1>2, <1>3, <2>1, SetInduction
<1>5. d - c \in Nat /\ c + (d - c) = d
  BY <1>1
<1>6. d - c \in S
  <2> HIDE DEF S
  <2> QED BY <1>4, <1>5
<1> QED BY <1>1, <1>5, <1>6

\* A chunk ends before any later one starts.
LEMMA ChunksInOrder ==
  ASSUME NEW e, Sparse(e), NEW c \in 1..Len(e.chunks),
         NEW d \in 1..(Len(e.chunks) + 1), c < d
  PROVE  ChunkStart(e, c) + ChunkLen(e, c) <= ChunkStart(e, d)
<1>1. PICK n \in Nat : n = Len(e.chunks)
  BY DEF Sparse
<1>2. c + 1 \in 1..(n + 1) /\ c + 1 <= d
  BY <1>1
<1>3. ChunkStart(e, c + 1) <= ChunkStart(e, d)
  BY <1>1, <1>2, StartsGrow
<1> QED BY <1>3, NextStart

\* At most one chunk covers an offset.
LEMMA ChunkFound ==
  ASSUME NEW e, Sparse(e), NEW c \in 1..Len(e.chunks), NEW o \in Nat,
         ChunkStart(e, c) <= o, o < ChunkStart(e, c) + ChunkLen(e, c)
  PROVE  ChunkAt(e, o) = {c}
<1>1. PICK n \in Nat : n = Len(e.chunks)
  BY DEF Sparse
<1>2. DOMAIN e.chunks = 1..n
  BY <1>1 DEF Sparse
<1>3. c \in ChunkAt(e, o)
  BY <1>1, <1>2 DEF ChunkAt
<1>4. ASSUME NEW d \in ChunkAt(e, o) PROVE d = c
  <2>1. d \in 1..n /\ ChunkStart(e, d) <= o /\ o < ChunkStart(e, d) + ChunkLen(e, d)
    BY <1>2 DEF ChunkAt
  <2>2. /\ ChunkStart(e, c) \in Nat /\ ChunkStart(e, d) \in Nat
        /\ ChunkLen(e, c) \in Nat /\ ChunkLen(e, d) \in Nat
    <3>1. d \in 1..(n + 1) /\ c \in 1..(n + 1)
      BY <1>1, <2>1
    <3> QED BY <1>1, <2>1, <3>1, StartInNat, ChunkLenInNat
  <2>3. ~ (c < d)
    <3> SUFFICES ASSUME c < d PROVE FALSE
      OBVIOUS
    <3>1. d \in 1..(n + 1)
      BY <2>1
    <3>2. ChunkStart(e, c) + ChunkLen(e, c) <= ChunkStart(e, d)
      BY <1>1, <3>1, ChunksInOrder
    <3> QED BY <2>1, <2>2, <3>2
  <2>4. ~ (d < c)
    <3> SUFFICES ASSUME d < c PROVE FALSE
      OBVIOUS
    <3>1. c \in 1..(n + 1)
      BY <1>1
    <3>2. ChunkStart(e, d) + ChunkLen(e, d) <= ChunkStart(e, c)
      BY <1>1, <2>1, <3>1, ChunksInOrder
    <3> QED BY <2>1, <2>2, <3>2
  <2> QED BY <1>1, <2>1, <2>3, <2>4
<1> QED BY <1>3, <1>4

\* None covers what lies behind the last.
LEMMA NoneFound ==
  ASSUME NEW e, Sparse(e), NEW o \in Nat, ChunkStart(e, Len(e.chunks) + 1) <= o
  PROVE  ChunkAt(e, o) = {}
<1>1. PICK n \in Nat : n = Len(e.chunks)
  BY DEF Sparse
<1>2. SUFFICES ASSUME NEW d \in ChunkAt(e, o) PROVE FALSE
  OBVIOUS
<1>3. d \in 1..n /\ o < ChunkStart(e, d) + ChunkLen(e, d)
  BY <1>1 DEF ChunkAt, Sparse
<1>4. n + 1 \in 1..(n + 1) /\ d < n + 1 /\ d \in 1..(n + 1)
  BY <1>3
<1>5. ChunkStart(e, d) + ChunkLen(e, d) <= ChunkStart(e, n + 1)
  BY <1>1, <1>3, <1>4, ChunksInOrder
<1>6. ChunkStart(e, d) \in Nat /\ ChunkLen(e, d) \in Nat /\ ChunkStart(e, n + 1) \in Nat
  BY <1>1, <1>3, <1>4, StartInNat, ChunkLenInNat
<1> QED BY <1>1, <1>3, <1>5, <1>6

-----------------------------------------------------------------------------
(* The inductive invariant, for a known block size.                        *)

\* The types, when the block size is a known one.
Typed == TypeOK /\ lb \in Known

Moving == pc \in {"copy", "chunk"}

\* What each place of the program says of the command and of the storage.
Control ==
  /\ pc # "returned" => result = "none"
  /\ pc \in {"start", "read", "write"} => disk = Initial
  /\ pc \in {"read", "write"} => cmd.op = pc /\ cmd.name \in DOMAIN Partitions
  /\ pc = "write" => cmd.len <= PartSize(cmd.name)
  /\ pc \in {"entry", "copy", "chunk"} => Upgrading
  /\ entry # 0

\* A regular image has been copied up to the position of the device.
RegularPlace ==
  /\ pc = "copy" /\ chunk = 0
  /\ pos = PartStart(Current.name) + copied
  /\ copied <= CopyLen

\* The chunks of a sparse image in front of the current one have been written
\* or skipped, and the current one up to the position of the device.
SparsePlace ==
  /\ Current.total <= PartSize(Current.name)
  /\ chunk \in 1..(Len(Current.chunks) + 1)
  /\ pos = PartStart(Current.name) + ChunkStart(Current, chunk) + copied
  /\ pc = "chunk" => copied = 0
  /\ pc = "copy" =>
       /\ chunk <= Len(Current.chunks)
       /\ Current.chunks[chunk].type \in {"raw", "fill"}
       /\ copied <= ChunkLen(Current, chunk)

Place ==
  Moving =>
    /\ entry \in ToPartition
    /\ Current.sparse => SparsePlace
    /\ ~Current.sparse => RegularPlace

Reached(i) == i < entry \/ (i = entry /\ pc \notin {"start", "entry"})

\* A changed sector belongs to an entry whose partition has been reached.
Placed ==
  Upgrading =>
    \A s \in Changed :
      \E i \in ToPartition :
        Reached(i) /\ s \in PartitionOf(i) /\ disk[s] = Due(i, s)

\* The partition of the current entry is written up to the position.
Filled ==
  Moving /\ Apart =>
    \A s \in PartitionOf(entry) :
      disk[s] = IF s < pos THEN Content(entry, s) ELSE Initial[s]

IInv ==
  /\ Typed /\ Control /\ Place /\ Placed /\ Filled
  /\ EntriesInOrder /\ SmallBlockTransfer

\* With any other block size nothing happens.
Untouched ==
  /\ TypeOK /\ lb \notin Known
  /\ pc \in {"start", "returned"} /\ disk = Initial /\ entry = 1

-----------------------------------------------------------------------------
(* Partitions and the current entry.                                       *)

\* A partition is PartSize sectors from PartStart, in front of the last one.
LEMMA PartitionExtent ==
  ASSUME NEW name \in DOMAIN Partitions, lb \in Known
  PROVE  /\ PartStart(name) \in Nat /\ PartSize(name) \in Nat \ {0}
         /\ Partition(name, lb) = PartStart(name)..(PartStart(name) + PartSize(name) - 1)
         /\ PartStart(name) + PartSize(name) <= DiskSectors - 1
<1>1. lb \in Nat \ {0} /\ DiskSectors \in Nat
  BY SizesAssumption DEF Known
<1>2. PICK f, l : f = Partitions[name].first /\ l = Partitions[name].last
  OBVIOUS
<1>3. f \in Nat /\ l \in Nat /\ f <= l /\ Partition(name, lb) \subseteq 0..DiskSectors - 2
  BY <1>2, SizesAssumption
<1>4. PICK a, b : a = f * lb /\ b = (l - f + 1) * lb
  OBVIOUS
<1>5. a \in Nat /\ b \in Nat \ {0} /\ (l + 1) * lb = a + b
  BY <1>1, <1>3, <1>4
<1>6. PartStart(name) = a /\ PartSize(name) = b
  BY <1>2, <1>4 DEF PartStart, PartSize
<1>7. Partition(name, lb) = a..(a + b - 1)
  BY <1>2, <1>4, <1>5 DEF Partition
<1>8. a + b - 1 \in 0..DiskSectors - 2
  BY <1>3, <1>5, <1>7
<1> QED BY <1>1, <1>5, <1>6, <1>7, <1>8

LEMMA UpgradeImage ==
  ASSUME Typed, Upgrading
  PROVE  Len(Entries) \in Nat /\ DOMAIN Entries = 1..Len(Entries)
<1>1. cmd \in Commands /\ cmd.op = "upgrade"
  BY DEF Typed, TypeOK, Upgrading
<1> QED BY <1>1, CommandsAssumption DEF Entries

LEMMA EntryWellFormed ==
  ASSUME Typed, Upgrading, NEW i \in DOMAIN Entries
  PROVE  WellFormed(Entries[i])
<1>1. cmd \in Commands /\ cmd.op = "upgrade"
  BY DEF Typed, TypeOK, Upgrading
<1>2. PICK c \in Commands : c = cmd /\ c.op = "upgrade"
  BY <1>1
<1>3. i \in DOMAIN c.image
  BY <1>2 DEF Entries
<1>4. WellFormed(c.image[i])
  BY <1>2, <1>3, CommandsAssumption
<1> QED BY <1>2, <1>4 DEF Entries

LEMMA EntryToPartition ==
  ASSUME Typed, Upgrading, NEW i \in ToPartition
  PROVE  /\ i \in DOMAIN Entries /\ i \in Nat
         /\ Entries[i].name \in DOMAIN Partitions
         /\ WellFormed(Entries[i]) /\ Entries[i].sparse \in BOOLEAN
<1>1. i \in DOMAIN Entries /\ Entries[i].name \in DOMAIN Partitions
  BY DEF ToPartition
<1>2. i \in Nat
  BY <1>1, UpgradeImage
<1>3. WellFormed(Entries[i])
  BY <1>1, EntryWellFormed
<1>4. Entries[i].sparse \in BOOLEAN
  BY <1>3 DEF WellFormed
<1> QED BY <1>1, <1>2, <1>3, <1>4

LEMMA SparseEntry ==
  ASSUME NEW e, WellFormed(e), e.sparse
  PROVE  Sparse(e) /\ e.total = ChunkStart(e, Len(e.chunks) + 1)
BY DEF WellFormed, Sparse

\* What belongs at offset o of a regular entry.
LEMMA WantedRegular ==
  ASSUME NEW i, ~Entries[i].sparse, NEW o
  PROVE  Wanted(i, o) = IF o < Entries[i].len THEN <<i, 0, o>> ELSE Keep
BY DEF Wanted

\* What belongs at offset o of a sparse one, when chunk c covers it.
LEMMA WantedInChunk ==
  ASSUME NEW i, Entries[i].sparse, Sparse(Entries[i]),
         NEW c \in 1..Len(Entries[i].chunks), NEW o \in Nat,
         ChunkStart(Entries[i], c) <= o,
         o < ChunkStart(Entries[i], c) + ChunkLen(Entries[i], c)
  PROVE  /\ Entries[i].chunks[c].type = "raw" =>
              Wanted(i, o) = <<i, c, o - ChunkStart(Entries[i], c)>>
         /\ Entries[i].chunks[c].type = "fill" => Wanted(i, o) = <<i, c, 0>>
         /\ Entries[i].chunks[c].type = "dontcare" => Wanted(i, o) = Keep
<1>1. ChunkAt(Entries[i], o) = {c}
  BY ChunkFound
<1>2. (CHOOSE d \in ChunkAt(Entries[i], o) : TRUE) = c
  BY <1>1
<1>3. Wanted(i, o) =
        CASE Entries[i].chunks[c].type = "raw" -> <<i, c, o - ChunkStart(Entries[i], c)>>
          [] Entries[i].chunks[c].type = "fill" -> <<i, c, 0>>
          [] OTHER -> Keep
  BY <1>1, <1>2 DEF Wanted
<1>4. PICK t : t = Entries[i].chunks[c].type
  OBVIOUS
<1> QED BY <1>3, <1>4

\* And behind its last chunk.
LEMMA WantedBehind ==
  ASSUME NEW i, Entries[i].sparse, Sparse(Entries[i]), NEW o \in Nat,
         ChunkStart(Entries[i], Len(Entries[i].chunks) + 1) <= o
  PROVE  Wanted(i, o) = Keep
<1>1. ChunkAt(Entries[i], o) = {}
  BY NoneFound
<1> QED BY <1>1 DEF Wanted

\* A cell is not Keep.
LEMMA CellIsKept ==
  ASSUME NEW i, NEW c, NEW o
  PROVE  <<i, c, o>> # Keep
<1>1. Len(<<i, c, o>>) = 3 /\ Len(<<>>) = 0
  OBVIOUS
<1> QED BY <1>1 DEF Keep

-----------------------------------------------------------------------------
(* Where the device stands in the partition of the current entry.          *)

\* A chunk of a sparse image that passed its check lies in the partition.
LEMMA ChunkFits ==
  ASSUME Typed, Upgrading, entry \in ToPartition, Current.sparse, SparsePlace,
         NEW c \in 1..Len(Current.chunks)
  PROVE  /\ Sparse(Current)
         /\ ChunkStart(Current, c) \in Nat /\ ChunkLen(Current, c) \in Nat
         /\ ChunkStart(Current, c) + ChunkLen(Current, c) <= PartSize(Current.name)
<1>1. WellFormed(Current)
  BY EntryToPartition DEF Current
<1>2. Sparse(Current) /\ Current.total = ChunkStart(Current, Len(Current.chunks) + 1)
  BY <1>1, SparseEntry
<1>3. PICK n \in Nat : n = Len(Current.chunks)
  BY <1>2 DEF Sparse
<1>4. n + 1 \in 1..(n + 1) /\ c < n + 1 /\ c \in 1..(n + 1)
  BY <1>3
<1>5. ChunkStart(Current, c) + ChunkLen(Current, c) <= ChunkStart(Current, n + 1)
  BY <1>2, <1>3, <1>4, ChunksInOrder
<1>6. /\ ChunkStart(Current, c) \in Nat /\ ChunkStart(Current, n + 1) \in Nat
      /\ ChunkLen(Current, c) \in Nat
  BY <1>2, <1>3, <1>4, StartInNat, ChunkLenInNat
<1>7. Current.total <= PartSize(Current.name) /\ Current.total = ChunkStart(Current, n + 1)
  BY <1>2, <1>3 DEF SparsePlace
<1>8. PartSize(Current.name) \in Nat
  BY EntryToPartition, PartitionExtent DEF Current, Typed, TypeOK
<1> QED BY <1>2, <1>5, <1>6, <1>7, <1>8

\* What a copy still has to move lies in the partition, and each sector of it
\* gets the cell that belongs there.
LEMMA CopyPlace ==
  ASSUME Typed, Control, Place, pc = "copy"
  PROVE  /\ entry \in ToPartition /\ Upgrading
         /\ copied \in Nat /\ CopyLen \in Nat /\ copied <= CopyLen /\ pos \in Nat
         /\ PartStart(Current.name) \in Nat /\ PartStart(Current.name) <= pos
         /\ pos + (CopyLen - copied) <= PartStart(Current.name) + PartSize(Current.name)
         /\ CopyLen <= PartSize(Current.name)
         /\ PartStart(Current.name) + PartSize(Current.name) <= DiskSectors - 1
<1>1. entry \in ToPartition /\ Upgrading
  BY DEF Place, Moving, Control
<1>2. copied \in Nat /\ pos \in Nat
  BY SizesAssumption DEF Typed, TypeOK
<1>3. /\ Current.name \in DOMAIN Partitions /\ WellFormed(Current)
      /\ Current.sparse \in BOOLEAN
  BY <1>1, EntryToPartition DEF Current
<1>4. /\ PartStart(Current.name) \in Nat /\ PartSize(Current.name) \in Nat
      /\ PartStart(Current.name) + PartSize(Current.name) <= DiskSectors - 1
  BY <1>3, PartitionExtent DEF Typed, TypeOK
<1>5. CASE Current.sparse
  <2>1. SparsePlace
    BY <1>5 DEF Place, Moving
  <2>2. /\ chunk \in 1..(Len(Current.chunks) + 1) /\ chunk <= Len(Current.chunks)
        /\ pos = PartStart(Current.name) + ChunkStart(Current, chunk) + copied
        /\ copied <= ChunkLen(Current, chunk)
    BY <2>1 DEF SparsePlace
  <2>3. Sparse(Current)
    BY <1>3, <1>5, SparseEntry
  <2>4. chunk \in 1..Len(Current.chunks) /\ chunk # 0
    BY <2>2, <2>3 DEF Sparse
  <2>5. /\ ChunkStart(Current, chunk) \in Nat /\ ChunkLen(Current, chunk) \in Nat
        /\ ChunkStart(Current, chunk) + ChunkLen(Current, chunk) <= PartSize(Current.name)
    BY <1>1, <1>5, <2>1, <2>4, ChunkFits
  <2>6. CopyLen = ChunkLen(Current, chunk)
    BY <2>4 DEF CopyLen
  <2>7. PICK ps, size, at, len : /\ ps = PartStart(Current.name) /\ size = PartSize(Current.name)
                                 /\ at = ChunkStart(Current, chunk) /\ len = CopyLen
    OBVIOUS
  <2>8. /\ ps \in Nat /\ size \in Nat /\ at \in Nat /\ len \in Nat
        /\ at + len <= size /\ pos = ps + at + copied /\ copied <= len
    BY <1>4, <2>2, <2>5, <2>6, <2>7
  <2>9. ps <= pos /\ pos + (len - copied) <= ps + size /\ len <= size
    BY <1>2, <2>8
  <2> QED BY <1>1, <1>2, <1>4, <2>7, <2>8, <2>9
<1>6. CASE ~Current.sparse
  <2>1. chunk = 0 /\ pos = PartStart(Current.name) + copied /\ copied <= CopyLen
    BY <1>6 DEF Place, Moving, RegularPlace
  <2>2. Current.len \in Nat
    BY <1>3, <1>6 DEF WellFormed
  <2>3. CopyLen = IF Current.len <= PartSize(Current.name) THEN Current.len ELSE PartSize(Current.name)
    BY <2>1 DEF CopyLen
  <2> QED BY <1>1, <1>2, <1>4, <2>1, <2>2, <2>3
<1> QED BY <1>3, <1>5, <1>6

LEMMA CellBelongs ==
  ASSUME Typed, Control, Place, pc = "copy",
         NEW n \in Nat, copied + n <= CopyLen, NEW j \in 0..(n - 1)
  PROVE  CopyCells(n)[j] = Wanted(entry, (pos + j) - PartStart(Current.name))
<1>1. entry \in ToPartition /\ Upgrading /\ copied \in Nat /\ CopyLen \in Nat /\ pos \in Nat
      /\ PartStart(Current.name) \in Nat
  BY CopyPlace
<1>2. CopyCells(n)[j] =
        <<entry, chunk,
          IF chunk > 0 /\ Current.chunks[chunk].type = "fill" THEN 0 ELSE copied + j>>
  BY DEF CopyCells
<1>3. /\ Current.name \in DOMAIN Partitions /\ WellFormed(Current)
      /\ Current.sparse \in BOOLEAN
  BY <1>1, EntryToPartition DEF Current
<1>4. CASE Current.sparse
  <2>1. SparsePlace
    BY <1>4 DEF Place, Moving
  <2>2. /\ chunk \in 1..(Len(Current.chunks) + 1) /\ chunk <= Len(Current.chunks)
        /\ pos = PartStart(Current.name) + ChunkStart(Current, chunk) + copied
        /\ Current.chunks[chunk].type \in {"raw", "fill"}
    BY <2>1 DEF SparsePlace
  <2>3. Sparse(Current)
    BY <1>3, <1>4, SparseEntry
  <2>4. chunk \in 1..Len(Current.chunks) /\ chunk # 0 /\ chunk > 0
    BY <2>2, <2>3 DEF Sparse
  <2>5. ChunkStart(Current, chunk) \in Nat /\ ChunkLen(Current, chunk) \in Nat
    BY <1>1, <1>4, <2>1, <2>4, ChunkFits
  <2>6. CopyLen = ChunkLen(Current, chunk)
    BY <2>4 DEF CopyLen
  <2>7. PICK o : o = (pos + j) - PartStart(Current.name)
    OBVIOUS
  <2>8. /\ o \in Nat /\ ChunkStart(Current, chunk) <= o
        /\ o < ChunkStart(Current, chunk) + ChunkLen(Current, chunk)
        /\ o - ChunkStart(Current, chunk) = copied + j
    <3>1. PICK at, len, ps : /\ at = ChunkStart(Current, chunk)
                             /\ len = ChunkLen(Current, chunk)
                             /\ ps = PartStart(Current.name)
      OBVIOUS
    <3>2. at \in Nat /\ len \in Nat /\ ps \in Nat /\ copied \in Nat
      BY <1>1, <2>5, <3>1
    <3>3. pos = ps + at + copied /\ copied + n <= len
      BY <2>2, <2>6, <3>1
    <3>4. o = at + copied + j
      BY <2>7, <3>1, <3>2, <3>3
    <3> QED BY <3>1, <3>2, <3>3, <3>4
  <2>9. /\ Current.chunks[chunk].type = "raw" =>
             Wanted(entry, o) = <<entry, chunk, o - ChunkStart(Current, chunk)>>
        /\ Current.chunks[chunk].type = "fill" => Wanted(entry, o) = <<entry, chunk, 0>>
    BY <1>4, <2>3, <2>4, <2>8, WantedInChunk DEF Current
  <2>10. CASE Current.chunks[chunk].type = "raw"
    BY <1>2, <2>7, <2>8, <2>9, <2>10
  <2>11. CASE Current.chunks[chunk].type = "fill"
    BY <1>2, <2>4, <2>7, <2>9, <2>11
  <2> QED BY <2>2, <2>10, <2>11
<1>5. CASE ~Current.sparse
  <2>1. chunk = 0 /\ pos = PartStart(Current.name) + copied
    BY <1>5 DEF Place, Moving, RegularPlace
  <2>2. Current.len \in Nat /\ PartSize(Current.name) \in Nat
    BY <1>3, <1>5, PartitionExtent DEF WellFormed, Typed, TypeOK
  <2>3. CopyLen <= Current.len
    BY <2>1, <2>2 DEF CopyLen
  <2>4. (pos + j) - PartStart(Current.name) = copied + j /\ copied + j < Current.len
    BY <1>1, <2>1, <2>2, <2>3
  <2>5. Wanted(entry, copied + j) = <<entry, 0, copied + j>>
    BY <1>5, <2>4, WantedRegular DEF Current
  <2> QED BY <1>2, <2>1, <2>4, <2>5
<1> QED BY <1>3, <1>4, <1>5

-----------------------------------------------------------------------------
(* Steps.                                                                  *)

\* A step that does not change the command leaves what follows from it.
LEMMA SameCommand ==
  ASSUME UNCHANGED <<cmd, lb>>
  PROVE  /\ Upgrading' <=> Upgrading
         /\ ToPartition' = ToPartition
         /\ Entries' = Entries
         /\ \A i : PartitionOf(i)' = PartitionOf(i)
         /\ \A i, s : Due(i, s)' = Due(i, s) /\ Content(i, s)' = Content(i, s)
<1>1. Upgrading' <=> Upgrading
  BY DEF Upgrading
<1>2. Entries' = Entries
  BY DEF Entries
<1>3. ToPartition' = ToPartition
  BY <1>2 DEF ToPartition
<1>4. \A i : PartitionOf(i)' = PartitionOf(i)
  BY <1>2 DEF PartitionOf
<1>5. \A i, s : Due(i, s)' = Due(i, s)
  BY <1>2 DEF Due, Wanted, PartStart
<1>6. \A i, s : Content(i, s)' = Content(i, s)
  BY <1>5 DEF Content
<1> QED BY <1>1, <1>2, <1>3, <1>4, <1>5, <1>6

LEMMA SameApart ==
  ASSUME UNCHANGED <<cmd, lb>>
  PROVE  Apart' <=> Apart
BY SameCommand DEF Apart

\* The step writes the sectors from a up to b, of the partition of entry i,
\* with what it has for them.
Writes(i, a, b) ==
  /\ DOMAIN disk' = DOMAIN disk
  /\ \A s \in DOMAIN disk :
       IF a <= s /\ s < b
         THEN s \in PartitionOf(i) /\ disk'[s] = Due(i, s) /\ Due(i, s) # Keep
         ELSE disk'[s] = disk[s]

LEMMA NoWrites ==
  ASSUME Typed, disk' = disk, NEW i
  PROVE  Writes(i, 0, 0)
BY DEF Writes, Typed, TypeOK

LEMMA CopyWrites ==
  ASSUME Typed, Control, Place, pc = "copy",
         NEW n \in Nat, copied + n <= CopyLen, NEW k \in 0..n,
         Store(pos, CopyCells(n), k)
  PROVE  Writes(entry, pos, pos + k)
<1>1. /\ entry \in ToPartition /\ Upgrading
      /\ copied \in Nat /\ CopyLen \in Nat /\ pos \in Nat
      /\ PartStart(Current.name) \in Nat /\ PartStart(Current.name) <= pos
      /\ pos + (CopyLen - copied) <= PartStart(Current.name) + PartSize(Current.name)
  BY CopyPlace
<1>2. /\ DOMAIN disk' = DOMAIN disk
      /\ \A s \in DOMAIN disk :
           disk'[s] = IF pos <= s /\ s < pos + k THEN CopyCells(n)[s - pos] ELSE disk[s]
  BY DEF Store
<1>3. /\ Current.name \in DOMAIN Partitions /\ PartSize(Current.name) \in Nat
      /\ PartitionOf(entry) =
           PartStart(Current.name)..(PartStart(Current.name) + PartSize(Current.name) - 1)
  <2>1. Current.name \in DOMAIN Partitions
    BY <1>1, EntryToPartition DEF Current
  <2> QED BY <2>1, PartitionExtent DEF PartitionOf, Typed, TypeOK, Current
<1>4. ASSUME NEW s \in DOMAIN disk, pos <= s /\ s < pos + k
      PROVE  s \in PartitionOf(entry) /\ disk'[s] = Due(entry, s) /\ Due(entry, s) # Keep
  <2>1. s \in Nat
    BY <1>4 DEF Typed, TypeOK
  <2>2. PICK j : j = s - pos
    OBVIOUS
  <2>3. j \in 0..(n - 1) /\ s = pos + j
    BY <1>1, <1>4, <2>1, <2>2
  <2>4. CopyCells(n)[j] = Due(entry, s)
    BY <2>3, CellBelongs DEF Due, Current
  <2>5. disk'[s] = CopyCells(n)[j]
    BY <1>2, <1>4, <2>2
  <2>6. PICK ps, size : ps = PartStart(Current.name) /\ size = PartSize(Current.name)
    OBVIOUS
  <2>7. PICK len : len = CopyLen
    OBVIOUS
  <2>8. ps \in Nat /\ size \in Nat /\ len \in Nat /\ ps <= pos /\ pos + (len - copied) <= ps + size
        /\ copied + n <= len
    BY <1>1, <1>3, <2>6, <2>7
  <2>9. s \in ps..(ps + size - 1)
    BY <1>1, <1>4, <2>1, <2>8
  <2>10. CopyCells(n)[j] # Keep
    BY <2>3, CellIsKept, Zenon DEF CopyCells
  <2> QED BY <1>3, <2>4, <2>5, <2>6, <2>9, <2>10
<1> QED BY <1>2, <1>4 DEF Writes

LEMMA PlacedStep ==
  ASSUME Typed, Placed, UNCHANGED <<cmd, lb>>,
         NEW a \in Nat, NEW b \in Nat, Writes(entry, a, b),
         a < b => entry \in ToPartition /\ entry' = entry /\ pc' \notin {"start", "entry"},
         \A i \in ToPartition : Reached(i) => Reached(i)'
  PROVE  Placed'
<1> SUFFICES ASSUME Upgrading', NEW s \in Changed'
             PROVE  (\E i \in ToPartition : Reached(i) /\ s \in PartitionOf(i) /\ disk[s] = Due(i, s))'
  BY DEF Placed
<1>1. /\ Upgrading' <=> Upgrading
      /\ ToPartition' = ToPartition
      /\ \A i : PartitionOf(i)' = PartitionOf(i) /\ Due(i, s)' = Due(i, s)
  BY SameCommand
<1>2. SUFFICES \E i \in ToPartition : Reached(i)' /\ s \in PartitionOf(i) /\ disk'[s] = Due(i, s)
  BY <1>1
<1>3. s \in DOMAIN disk /\ disk'[s] # Initial[s]
  BY DEF Changed, Writes, Initial
<1>4. CASE a <= s /\ s < b
  <2>1. s \in PartitionOf(entry) /\ disk'[s] = Due(entry, s)
    BY <1>3, <1>4 DEF Writes
  <2>2. s \in Nat
    <3>1. DOMAIN disk = 0..DiskSectors - 1 /\ DiskSectors \in Nat
      BY SizesAssumption DEF Typed, TypeOK
    <3>2. s \in 0..DiskSectors - 1
      BY <1>3, <3>1, Zenon
    <3> QED BY <3>1, <3>2
  <2>3. a < b
    BY <1>4, <2>2
  <2>4. PICK i : i = entry
    OBVIOUS
  <2>5. i \in ToPartition /\ Reached(i)'
    BY <2>3, <2>4 DEF Reached
  <2> QED BY <2>1, <2>4, <2>5
<1>5. CASE ~ (a <= s /\ s < b)
  <2>1. disk'[s] = disk[s]
    BY <1>3, <1>5 DEF Writes
  <2>2. s \in Changed
    BY <1>3, <2>1 DEF Changed
  <2>3. PICK i \in ToPartition : Reached(i) /\ s \in PartitionOf(i) /\ disk[s] = Due(i, s)
    BY <1>1, <2>2 DEF Placed
  <2> QED BY <2>1, <2>3
<1> QED BY <1>4, <1>5

LEMMA SectorOfEntry ==
  ASSUME Typed, Upgrading, NEW i \in ToPartition, NEW s \in PartitionOf(i)
  PROVE  /\ s \in DOMAIN disk /\ s \in Nat
         /\ PartStart(Entries[i].name) \in Nat /\ PartSize(Entries[i].name) \in Nat
         /\ PartStart(Entries[i].name) <= s
         /\ s < PartStart(Entries[i].name) + PartSize(Entries[i].name)
<1>1. Entries[i].name \in DOMAIN Partitions
  BY EntryToPartition
<1>2. PICK ps, size : ps = PartStart(Entries[i].name) /\ size = PartSize(Entries[i].name)
  OBVIOUS
<1>3. ps \in Nat /\ size \in Nat /\ PartitionOf(i) = ps..(ps + size - 1) /\ ps + size <= DiskSectors - 1
  BY <1>1, <1>2, PartitionExtent DEF PartitionOf, Typed, TypeOK
<1>4. DOMAIN disk = 0..DiskSectors - 1 /\ DiskSectors \in Nat
  BY SizesAssumption DEF Typed, TypeOK
<1> QED BY <1>2, <1>3, <1>4

LEMMA OrderStays ==
  ASSUME Typed, EntriesInOrder, UNCHANGED <<cmd, lb>>, entry' = entry,
         NEW a \in Nat, NEW b \in Nat, Writes(entry, a, b),
         a < b => entry \in ToPartition
  PROVE  EntriesInOrder'
<1> SUFFICES ASSUME Upgrading', Apart', NEW i \in ToPartition', i < entry'
             PROVE  Holds(i)'
  BY DEF EntriesInOrder
<1>1. Upgrading /\ Apart /\ i \in ToPartition /\ i < entry
  BY SameCommand, SameApart
<1>2. \A s : PartitionOf(i)' = PartitionOf(i) /\ Content(i, s)' = Content(i, s)
  BY SameCommand
<1>3. SUFFICES ASSUME NEW s \in PartitionOf(i) PROVE disk'[s] = Content(i, s)
  BY <1>2 DEF Holds
<1>4. disk[s] = Content(i, s)
  BY <1>1 DEF EntriesInOrder, Holds
<1>5. s \in DOMAIN disk /\ s \in Nat
  BY <1>1, SectorOfEntry
<1>6. ~ (a <= s /\ s < b)
  <2> SUFFICES ASSUME a <= s, s < b PROVE FALSE
    OBVIOUS
  <2>1. entry \in ToPartition
    BY <1>5
  <2>2. s \in PartitionOf(entry)
    BY <1>5 DEF Writes
  <2>3. i # entry
    BY <1>1 DEF Typed, TypeOK
  <2> QED BY <1>1, <2>1, <2>2, <2>3 DEF Apart
<1> QED BY <1>4, <1>5, <1>6 DEF Writes

LEMMA OrderNext ==
  ASSUME Typed, EntriesInOrder, UNCHANGED <<cmd, lb, disk>>, entry' = entry + 1,
         Upgrading /\ Apart /\ entry \in ToPartition => Holds(entry)
  PROVE  EntriesInOrder'
<1> SUFFICES ASSUME Upgrading', Apart', NEW i \in ToPartition', i < entry'
             PROVE  Holds(i)'
  BY DEF EntriesInOrder
<1>1. Upgrading /\ Apart /\ i \in ToPartition
  BY SameCommand, SameApart
<1>2. i \in Nat /\ entry \in Nat
  BY <1>1, EntryToPartition DEF Typed, TypeOK
<1>3. i < entry \/ i = entry
  BY <1>2
<1>4. Holds(i)
  BY <1>1, <1>3 DEF EntriesInOrder
<1>5. \A s : PartitionOf(i)' = PartitionOf(i) /\ Content(i, s)' = Content(i, s)
  BY SameCommand
<1> QED BY <1>4, <1>5 DEF Holds

\* When its turn comes, the partition of an entry is as it was.
LEMMA FreshPartition ==
  ASSUME Typed, Control, Placed, pc = "entry", Apart, entry \in ToPartition,
         NEW s \in PartitionOf(entry)
  PROVE  disk[s] = Initial[s]
<1> SUFFICES ASSUME disk[s] # Initial[s] PROVE FALSE
  OBVIOUS
<1>1. Upgrading
  BY DEF Control
<1>2. s \in Changed
  BY <1>1, SectorOfEntry DEF Changed
<1>3. PICK i \in ToPartition : Reached(i) /\ s \in PartitionOf(i)
  BY <1>1, <1>2 DEF Placed
<1>4. i # entry
  <2>1. i < entry
    BY <1>3 DEF Reached
  <2> QED BY <2>1 DEF Typed, TypeOK
<1> QED BY <1>3, <1>4 DEF Apart

\* Behind its copy, a regular entry has nothing.
LEMMA RegularDone ==
  ASSUME Typed, Control, Place, Filled, pc = "copy", chunk = 0, copied = CopyLen, Apart
  PROVE  Holds(entry)
<1>1. entry \in ToPartition /\ Upgrading /\ Moving
  BY CopyPlace DEF Moving
<1>2. ~Current.sparse
  <2> SUFFICES ASSUME Current.sparse PROVE FALSE
    OBVIOUS
  <2>1. chunk \in 1..(Len(Current.chunks) + 1)
    BY <1>1 DEF Place, SparsePlace
  <2>2. 1 <= chunk
    <3>1. WellFormed(Current)
      BY <1>1, EntryToPartition DEF Current
    <3>2. Len(Current.chunks) \in Nat
      BY <3>1, SparseEntry DEF Sparse
    <3> QED BY <2>1, <3>2
  <2> QED BY <2>2
<1>3. WellFormed(Current) /\ Current.len \in Nat
  BY <1>1, <1>2, EntryToPartition DEF Current, WellFormed
<1>4. pos = PartStart(Current.name) + copied
  BY <1>1, <1>2 DEF Place, RegularPlace
<1>5. SUFFICES ASSUME NEW s \in PartitionOf(entry) PROVE disk[s] = Content(entry, s)
  BY DEF Holds
<1>6. disk[s] = IF s < pos THEN Content(entry, s) ELSE Initial[s]
  BY <1>1 DEF Filled
<1>7. PICK ps, size, o : /\ ps = PartStart(Current.name) /\ size = PartSize(Current.name)
                         /\ o = s - ps
  OBVIOUS
<1>8. s \in Nat /\ ps \in Nat /\ size \in Nat /\ ps <= s /\ s < ps + size
  BY <1>1, <1>7, SectorOfEntry DEF Current
<1>9. CASE s < pos
  BY <1>6, <1>9
<1>10. CASE ~ (s < pos)
  <2>1. copied = IF Current.len <= size THEN Current.len ELSE size
    BY <1>7 DEF CopyLen
  <2>2. ~ (o < Current.len)
    BY <1>3, <1>4, <1>7, <1>8, <1>10, <2>1
  <2>3. Wanted(entry, o) = Keep
    BY <1>2, <2>2, WantedRegular DEF Current
  <2>4. Due(entry, s) = Keep
    BY <1>7, <2>3 DEF Due, Current
  <2> QED BY <1>6, <1>10, <2>4 DEF Content
<1> QED BY <1>9, <1>10

\* Behind its last chunk, a sparse one has nothing.
LEMMA SparseDone ==
  ASSUME Typed, Control, Place, Filled, pc = "chunk", chunk > Len(Current.chunks), Apart
  PROVE  Holds(entry)
<1>1. entry \in ToPartition /\ Upgrading /\ Moving
  BY DEF Place, Moving, Control
<1>2. Current.sparse /\ WellFormed(Current)
  <2>1. Current.sparse \in BOOLEAN /\ WellFormed(Current)
    BY <1>1, EntryToPartition DEF Current
  <2> QED BY <1>1, <2>1 DEF Place, RegularPlace
<1>3. Sparse(Current)
  BY <1>2, SparseEntry
<1>4. /\ chunk \in 1..(Len(Current.chunks) + 1)
      /\ pos = PartStart(Current.name) + ChunkStart(Current, chunk) + copied /\ copied = 0
  BY <1>1, <1>2 DEF Place, SparsePlace
<1>5. chunk = Len(Current.chunks) + 1
  BY <1>3, <1>4 DEF Sparse
<1>6. SUFFICES ASSUME NEW s \in PartitionOf(entry) PROVE disk[s] = Content(entry, s)
  BY DEF Holds
<1>7. disk[s] = IF s < pos THEN Content(entry, s) ELSE Initial[s]
  BY <1>1 DEF Filled
<1>8. PICK ps, at, o : /\ ps = PartStart(Current.name) /\ at = ChunkStart(Current, chunk)
                       /\ o = s - ps
  OBVIOUS
<1>9. s \in Nat /\ ps \in Nat /\ ps <= s /\ at \in Nat
  BY <1>1, <1>3, <1>4, <1>8, SectorOfEntry, StartInNat DEF Current
<1>10. CASE s < pos
  BY <1>7, <1>10
<1>11. CASE ~ (s < pos)
  <2>1. o \in Nat /\ at <= o
    BY <1>4, <1>8, <1>9, <1>11
  <2>2. Wanted(entry, o) = Keep
    BY <1>2, <1>3, <1>5, <1>8, <2>1, WantedBehind DEF Current
  <2>3. Due(entry, s) = Keep
    BY <1>8, <2>2 DEF Due, Current
  <2> QED BY <1>7, <1>11, <2>3 DEF Content
<1> QED BY <1>10, <1>11

\* The next chunk of a sparse image, and where it goes.
LEMMA ChunkPlace ==
  ASSUME Typed, Control, Place, pc = "chunk", chunk <= Len(Current.chunks)
  PROVE  /\ entry \in ToPartition /\ Upgrading /\ Current.sparse
         /\ chunk \in 1..Len(Current.chunks) /\ Len(Current.chunks) \in Nat
         /\ copied = 0 /\ Sparse(Current) /\ SparsePlace
         /\ PartStart(Current.name) \in Nat
         /\ ChunkStart(Current, chunk) \in Nat /\ ChunkLen(Current, chunk) \in Nat
         /\ pos = PartStart(Current.name) + ChunkStart(Current, chunk)
         /\ pos + ChunkLen(Current, chunk) <= PartStart(Current.name) + PartSize(Current.name)
         /\ PartStart(Current.name) + PartSize(Current.name) <= DiskSectors - 1
         /\ ChunkStart(Current, chunk + 1) = ChunkStart(Current, chunk) + ChunkLen(Current, chunk)
<1>1. entry \in ToPartition /\ Upgrading /\ Moving
  BY DEF Place, Moving, Control
<1>2. Current.sparse /\ WellFormed(Current) /\ Current.name \in DOMAIN Partitions
  <2>1. Current.sparse \in BOOLEAN /\ WellFormed(Current) /\ Current.name \in DOMAIN Partitions
    BY <1>1, EntryToPartition DEF Current
  <2>2. ~ (pc = "copy")
    OBVIOUS
  <2>3. Current.sparse
    BY <1>1, <2>1, <2>2, Zenon DEF Place, RegularPlace
  <2> QED BY <2>1, <2>3
<1>3. Sparse(Current) /\ Len(Current.chunks) \in Nat
  <2>1. Sparse(Current)
    BY <1>2, SparseEntry
  <2> QED BY <2>1 DEF Sparse
<1>4. /\ SparsePlace
      /\ chunk \in 1..(Len(Current.chunks) + 1)
      /\ pos = PartStart(Current.name) + ChunkStart(Current, chunk) + copied /\ copied = 0
  BY <1>1, <1>2 DEF Place, SparsePlace
<1>5. chunk \in 1..Len(Current.chunks)
  BY <1>3, <1>4
<1>6. /\ ChunkStart(Current, chunk) \in Nat /\ ChunkLen(Current, chunk) \in Nat
      /\ ChunkStart(Current, chunk) + ChunkLen(Current, chunk) <= PartSize(Current.name)
  BY <1>1, <1>2, <1>4, <1>5, ChunkFits
<1>7. /\ PartStart(Current.name) \in Nat /\ PartSize(Current.name) \in Nat
      /\ PartStart(Current.name) + PartSize(Current.name) <= DiskSectors - 1
  BY <1>2, PartitionExtent DEF Typed, TypeOK
<1>8. ChunkStart(Current, chunk + 1) = ChunkStart(Current, chunk) + ChunkLen(Current, chunk)
  BY <1>3, <1>5, NextStart
<1>9. /\ pos = PartStart(Current.name) + ChunkStart(Current, chunk)
      /\ pos + ChunkLen(Current, chunk) <= PartStart(Current.name) + PartSize(Current.name)
  BY <1>4, <1>6, <1>7
<1> QED BY <1>1, <1>2, <1>3, <1>4, <1>5, <1>6, <1>7, <1>8, <1>9

\* The chunk after it, when the device stands behind it.
LEMMA NextChunkPlace ==
  ASSUME Typed, Upgrading, entry \in ToPartition, Current.sparse, SparsePlace,
         chunk \in 1..Len(Current.chunks),
         pos' = PartStart(Current.name) + ChunkStart(Current, chunk) + ChunkLen(Current, chunk),
         chunk' = chunk + 1, copied' = 0, pc' = "chunk",
         UNCHANGED <<cmd, lb, entry>>
  PROVE  Place'
<1>1. /\ Sparse(Current)
      /\ ChunkStart(Current, chunk) \in Nat /\ ChunkLen(Current, chunk) \in Nat
  BY ChunkFits
<1>2. PICK n, e : n = Len(Current.chunks) /\ e = Current
  OBVIOUS
<1>3. n \in Nat /\ e' = e /\ Current' = e
  BY <1>1, <1>2 DEF Sparse, Current, Entries
<1>4. chunk' \in 1..(n + 1) /\ e.total <= PartSize(e.name) /\ n = Len(e.chunks)
  BY <1>2, <1>3 DEF SparsePlace
<1>5. PartStart(e.name)' = PartStart(e.name) /\ PartSize(e.name)' = PartSize(e.name)
  BY DEF PartStart, PartSize
<1>6. PartStart(e.name) \in Nat
  BY <1>2, EntryToPartition, PartitionExtent DEF Current, Typed, TypeOK
<1>7. ChunkStart(e, chunk + 1) = ChunkStart(e, chunk) + ChunkLen(e, chunk)
  BY <1>1, <1>2, NextStart
<1>8. pos' = PartStart(e.name) + ChunkStart(e, chunk') + copied'
  BY <1>1, <1>2, <1>6, <1>7
<1>9. SparsePlace'
  BY <1>3, <1>4, <1>5, <1>8 DEF SparsePlace
<1>10. e.sparse /\ (entry \in ToPartition)'
  BY <1>2, SameCommand
<1> QED BY <1>2, <1>3, <1>9, <1>10 DEF Place

\* A chunk that is skipped has nothing for its sectors.
LEMMA GapContent ==
  ASSUME Typed, Control, Place, pc = "chunk", chunk <= Len(Current.chunks),
         Current.chunks[chunk].type = "dontcare",
         NEW s \in Nat, pos <= s, s < pos + ChunkLen(Current, chunk)
  PROVE  Content(entry, s) = Initial[s]
<1>1. /\ Current.sparse /\ Sparse(Current) /\ chunk \in 1..Len(Current.chunks)
      /\ PartStart(Current.name) \in Nat
      /\ ChunkStart(Current, chunk) \in Nat /\ ChunkLen(Current, chunk) \in Nat
      /\ pos = PartStart(Current.name) + ChunkStart(Current, chunk)
  BY ChunkPlace
<1>2. PICK ps, at, len, o : /\ ps = PartStart(Current.name) /\ at = ChunkStart(Current, chunk)
                            /\ len = ChunkLen(Current, chunk) /\ o = s - ps
  OBVIOUS
<1>3. ps \in Nat /\ at \in Nat /\ len \in Nat /\ pos = ps + at /\ s < pos + len /\ o = s - ps
  BY <1>1, <1>2
<1>4. o \in Nat /\ at <= o /\ o < at + len
  <2>1. ps + at <= s /\ s < ps + at + len
    BY <1>3
  <2> QED BY <1>3, <2>1
<1>5. Wanted(entry, o) = Keep
  BY <1>1, <1>2, <1>4, WantedInChunk DEF Current
<1>6. Due(entry, s) = Keep
  BY <1>2, <1>5 DEF Due, Current
<1> QED BY <1>6 DEF Content

\* A step that moves the device over sectors the entry has nothing for.
LEMMA FilledSkip ==
  ASSUME Typed, Upgrading, entry \in ToPartition, Filled, Moving,
         UNCHANGED <<cmd, lb, entry, disk>>, pos <= pos', pos' \in Nat,
         \A s \in PartitionOf(entry) : pos <= s /\ s < pos' => Content(entry, s) = Initial[s]
  PROVE  Filled'
<1> SUFFICES ASSUME Moving', Apart', NEW s \in PartitionOf(entry)'
             PROVE  (disk[s] = IF s < pos THEN Content(entry, s) ELSE Initial[s])'
  BY DEF Filled
<1>1. PICK i : i = entry
  OBVIOUS
<1>2. PartitionOf(entry)' = PartitionOf(i) /\ Content(entry, s)' = Content(i, s)
  <2>1. PartitionOf(i)' = PartitionOf(i) /\ Content(i, s)' = Content(i, s)
    BY SameCommand
  <2> QED BY <1>1, <2>1 DEF PartitionOf, Content, Due, Wanted, PartStart, Entries
<1>3. Apart /\ s \in PartitionOf(i) /\ s \in PartitionOf(entry) /\ Content(i, s) = Content(entry, s)
  BY <1>1, <1>2, SameApart
<1>4. disk[s] = IF s < pos THEN Content(i, s) ELSE Initial[s]
  BY <1>3 DEF Filled
<1>5. s \in Nat /\ pos \in Nat
  BY <1>3, SectorOfEntry, SizesAssumption DEF Typed, TypeOK
<1>6. pos <= s /\ s < pos' => Content(i, s) = Initial[s]
  BY <1>3
<1>7. disk'[s] = IF s < pos' THEN Content(i, s) ELSE Initial[s]
  BY <1>4, <1>5, <1>6
<1> QED BY <1>2, <1>7

LEMMA StillStep ==
  ASSUME IInv, UNCHANGED <<cmd, lb, entry, disk>>, pc' \notin {"copy", "chunk"},
         pc' \in {"start", "entry"} => pc \in {"start", "entry"}
  PROVE  Place' /\ Placed' /\ Filled' /\ EntriesInOrder'
<1>1. Place' /\ Filled'
  BY DEF Place, Filled, Moving
<1>2. PICK i : i = entry
  OBVIOUS
<1>3. Writes(entry, 0, 0)
  BY DEF Writes, IInv, Typed, TypeOK
<1>4. \A j \in ToPartition : Reached(j) => Reached(j)'
  BY DEF Reached
<1>5. Placed'
  BY <1>3, <1>4, PlacedStep DEF IInv
<1>6. EntriesInOrder'
  BY <1>3, OrderStays DEF IInv
<1> QED BY <1>1, <1>5, <1>6

\* A change of the storage by an upgrade is none of a partition transfer.
LEMMA UpgradeTransfer ==
  ASSUME Upgrading, UNCHANGED cmd
  PROVE  SmallBlockTransfer'
BY DEF SmallBlockTransfer, TransferHitsPartition, Upgrading

LEMMA UnopenedKeeps ==
  ASSUME IInv, Unopened
  PROVE  IInv'
<1>1. /\ pc = "start" /\ pc' = "returned" /\ result' = "Error"
      /\ UNCHANGED <<cmd, lb, pos, entry, chunk, copied, output, disk>>
  BY DEF Unopened, Return
<1>2. Typed'
  BY <1>1 DEF IInv, Typed, TypeOK
<1>3. Control'
  BY <1>1 DEF IInv, Control
<1>4. Place' /\ Placed' /\ Filled' /\ EntriesInOrder'
  BY <1>1, StillStep
<1>5. disk = Initial
  BY <1>1 DEF IInv, Control
<1>6. Changed' = {}
  BY <1>1, <1>5 DEF Changed
<1>7. SmallBlockTransfer'
  BY <1>1, <1>6 DEF SmallBlockTransfer, TransferHitsPartition
<1> QED BY <1>2, <1>3, <1>4, <1>7 DEF IInv

LEMMA StartReadKeeps ==
  ASSUME IInv, StartRead
  PROVE  IInv'
<1>1. /\ pc = "start" /\ cmd.op = "read"
      /\ UNCHANGED <<cmd, lb, pos, entry, chunk, copied, output, disk>>
      /\ \/ cmd.name \in DOMAIN Partitions /\ pc' = "read" /\ result' = result
         \/ pc' = "returned" /\ result' = "NotFound"
  BY DEF StartRead, Return
<1>2. pc' \in {"read", "returned"}
  BY <1>1
<1>3. Typed'
  BY <1>1, <1>2 DEF IInv, Typed, TypeOK
<1>4. Control'
  BY <1>1 DEF IInv, Control
<1>5. Place' /\ Placed' /\ Filled' /\ EntriesInOrder'
  BY <1>1, <1>2, StillStep
<1>6. SmallBlockTransfer'
  <2>1. result = "none" /\ result' # "Ok"
    BY <1>1 DEF IInv, Control
  <2> QED BY <1>1, <2>1 DEF SmallBlockTransfer, TransferHitsPartition
<1> QED BY <1>3, <1>4, <1>5, <1>6 DEF IInv

LEMMA StartWriteKeeps ==
  ASSUME IInv, StartWrite
  PROVE  IInv'
<1>1. /\ pc = "start" /\ cmd.op = "write"
      /\ UNCHANGED <<cmd, lb, pos, entry, chunk, copied, output, disk>>
      /\ \/ /\ cmd.name \in DOMAIN Partitions /\ ~ (cmd.len > PartSize(cmd.name))
            /\ pc' = "write" /\ result' = result
         \/ pc' = "returned" /\ result' = "NotFound"
         \/ pc' = "returned" /\ result' = "InputTooLarge"
  BY DEF StartWrite, Return
<1>2. pc' \in {"write", "returned"}
  BY <1>1
<1>3. Typed'
  BY <1>1, <1>2 DEF IInv, Typed, TypeOK
<1>4. Control'
  <2>1. pc' = "write" => cmd.len <= PartSize(cmd.name)
    <3> SUFFICES ASSUME pc' = "write" PROVE cmd.len <= PartSize(cmd.name)
      OBVIOUS
    <3>1. cmd.name \in DOMAIN Partitions /\ ~ (cmd.len > PartSize(cmd.name))
      BY <1>1
    <3>2. PartSize(cmd.name) \in Nat
      BY <3>1, PartitionExtent DEF IInv, Typed, TypeOK
    <3>3. cmd.len \in Nat
      BY <1>1, CommandsAssumption DEF IInv, Typed, TypeOK
    <3> QED BY <3>1, <3>2, <3>3
  <2>2. PartSize(cmd.name)' = PartSize(cmd.name)
    BY <1>1 DEF PartSize
  <2> QED BY <1>1, <1>2, <2>1, <2>2 DEF IInv, Control
<1>5. Place' /\ Placed' /\ Filled' /\ EntriesInOrder'
  BY <1>1, <1>2, StillStep
<1>6. SmallBlockTransfer'
  <2>1. result = "none" /\ result' # "Ok" /\ disk = Initial
    BY <1>1 DEF IInv, Control
  <2>2. Changed' = {}
    BY <1>1, <2>1 DEF Changed
  <2> QED BY <1>1, <2>1, <2>2 DEF SmallBlockTransfer, TransferHitsPartition
<1> QED BY <1>3, <1>4, <1>5, <1>6 DEF IInv

LEMMA StartUpgradeKeeps ==
  ASSUME IInv, StartUpgrade
  PROVE  IInv'
<1>1. /\ pc = "start" /\ cmd.op = "upgrade" /\ pc' = "entry"
      /\ UNCHANGED <<cmd, lb, pos, entry, chunk, copied, result, output, disk>>
  BY DEF StartUpgrade
<1>2. Typed'
  BY <1>1 DEF IInv, Typed, TypeOK
<1>3. Control'
  BY <1>1 DEF IInv, Control, Upgrading
<1>4. Place' /\ Placed' /\ Filled' /\ EntriesInOrder'
  BY <1>1, StillStep
<1>5. SmallBlockTransfer'
  BY <1>1, UpgradeTransfer DEF Upgrading
<1> QED BY <1>2, <1>3, <1>4, <1>5 DEF IInv

\* With logical blocks of one sector, part.first_lba is the start of the
\* partition in sectors.
LEMMA SmallBlockStart ==
  ASSUME lb = 1, NEW name \in DOMAIN Partitions
  PROVE  Lba(name) = PartStart(name)
BY SizesAssumption DEF Lba, PartStart

LEMMA ReadPartitionKeeps ==
  ASSUME IInv, ReadPartition
  PROVE  IInv'
<1>1. /\ pc = "read" /\ pc' = "returned"
      /\ UNCHANGED <<cmd, lb, pos, entry, chunk, copied, disk>>
      /\ \/ /\ output' = SubSeq([i \in 1..DiskSectors |-> disk[i - 1]],
                                Lba(cmd.name) + 1, Lba(cmd.name) + PartSize(cmd.name))
            /\ result' = "Ok"
         \/ output' = output /\ result' = "DeviceTransfer"
  BY DEF ReadPartition, Return
<1>2. cmd.op = "read" /\ cmd.name \in DOMAIN Partitions /\ result = "none"
  BY <1>1 DEF IInv, Control
<1>3. Typed'
  BY <1>1 DEF IInv, Typed, TypeOK
<1>4. Control'
  BY <1>1 DEF IInv, Control
<1>5. Place' /\ Placed' /\ Filled' /\ EntriesInOrder'
  BY <1>1, StillStep
<1>6. SmallBlockTransfer'
  <2>1. SUFFICES ASSUME lb = 1, result' = "Ok"
                 PROVE  output' = [i \in 1..PartSize(cmd.name) |-> disk[PartStart(cmd.name) + i - 1]]
    <3>1. PartSize(cmd.name)' = PartSize(cmd.name) /\ PartStart(cmd.name)' = PartStart(cmd.name)
      BY <1>1 DEF PartSize, PartStart
    <3> QED BY <1>1, <1>2, <3>1 DEF SmallBlockTransfer, TransferHitsPartition
  <2>2. PICK ps, size, d : /\ ps = PartStart(cmd.name) /\ size = PartSize(cmd.name)
                           /\ d = DiskSectors
    OBVIOUS
  <2>3. ps \in Nat /\ size \in Nat /\ ps + size <= d - 1 /\ d \in Nat
    BY <1>2, <2>2, PartitionExtent, SizesAssumption DEF IInv, Typed, TypeOK
  <2>4. Lba(cmd.name) = ps
    BY <1>2, <2>1, <2>2, SmallBlockStart
  <2>5. PICK T : T = {disk[i] : i \in 0..d}
    OBVIOUS
  <2>6. PICK s : s = [i \in 1..d |-> disk[i - 1]]
    OBVIOUS
  <2>7. s \in Seq(T) /\ Len(s) = d
    <3>1. \A i \in 1..d : s[i] \in T
      BY <2>3, <2>5, <2>6
    <3> QED BY <2>3, <2>6, <3>1
  <2>8. output' = SubSeq(s, ps + 1, ps + size)
    BY <1>1, <2>1, <2>2, <2>4, <2>6
  <2>9. SubSeq(s, ps + 1, ps + size) = [i \in 1..size |-> s[ps + i]]
    BY <2>3, <2>7
  <2>10. \A i \in 1..size : s[ps + i] = disk[ps + i - 1]
    BY <2>3, <2>6
  <2> QED BY <2>2, <2>8, <2>9, <2>10
<1> QED BY <1>3, <1>4, <1>5, <1>6 DEF IInv

\* What a partition write leaves, on storage with small blocks, when k of its
\* sectors have reached the storage.
LEMMA FileOnDisk ==
  ASSUME IInv, pc = "write", lb = 1, UNCHANGED <<cmd, lb>>,
         NEW k \in Nat, k <= cmd.len, Store(Lba(cmd.name), FileCells, k)
  PROVE  /\ Changed' \subseteq Partition(cmd.name, lb)
         /\ k = cmd.len =>
              \A j \in 0..cmd.len - 1 : disk'[PartStart(cmd.name) + j] = FileCells[j]
<1>1. /\ cmd.op = "write" /\ cmd.name \in DOMAIN Partitions
      /\ cmd.len <= PartSize(cmd.name) /\ disk = Initial
  BY DEF IInv, Control
<1>2. cmd.len \in Nat
  BY <1>1, CommandsAssumption DEF IInv, Typed, TypeOK
<1>3. PICK ps, size, len, d : /\ ps = PartStart(cmd.name) /\ size = PartSize(cmd.name)
                              /\ len = cmd.len /\ d = DiskSectors
  OBVIOUS
<1>4. /\ ps \in Nat /\ size \in Nat /\ ps + size <= d - 1 /\ d \in Nat
      /\ Partition(cmd.name, lb) = ps..(ps + size - 1)
  BY <1>1, <1>3, PartitionExtent, SizesAssumption DEF IInv, Typed, TypeOK
<1>5. Lba(cmd.name) = ps
  BY <1>1, <1>3, SmallBlockStart
<1>6. /\ DOMAIN disk = 0..d - 1
      /\ disk' = [s \in DOMAIN disk |->
                    IF ps <= s /\ s < ps + k THEN FileCells[s - ps] ELSE disk[s]]
  BY <1>3, <1>5 DEF Store, IInv, Typed, TypeOK
<1>7. len \in Nat /\ k <= len /\ len <= size
  BY <1>1, <1>2, <1>3
<1>8. Changed' \subseteq Partition(cmd.name, lb)
  <2> SUFFICES ASSUME NEW s \in Changed' PROVE s \in ps..(ps + size - 1)
    BY <1>4
  <2>1. s \in DOMAIN disk' /\ disk'[s] # Initial[s]
    BY DEF Changed, Initial
  <2>2. s \in 0..d - 1 /\ ~ (disk'[s] = disk[s])
    BY <1>1, <1>6, <2>1
  <2>3. ps <= s /\ s < ps + k
    BY <1>6, <2>2
  <2> QED BY <1>4, <1>7, <2>2, <2>3
<1>9. ASSUME k = cmd.len, NEW j \in 0..cmd.len - 1
      PROVE  disk'[PartStart(cmd.name) + j] = FileCells[j]
  <2>1. j \in Nat /\ j < k /\ k = len
    BY <1>3, <1>7, <1>9
  <2>2. PICK s : s = ps + j
    OBVIOUS
  <2>3. s \in 0..d - 1 /\ ps <= s /\ s < ps + k /\ s - ps = j
    BY <1>4, <1>7, <2>1, <2>2
  <2>4. disk'[s] = FileCells[j]
    BY <1>6, <2>3
  <2> QED BY <1>3, <2>2, <2>4
<1> QED BY <1>8, <1>9

LEMMA WritePartitionKeeps ==
  ASSUME IInv, WritePartition
  PROVE  IInv'
<1>1. /\ pc = "write" /\ pc' = "returned"
      /\ UNCHANGED <<cmd, lb, pos, entry, chunk, copied, output>>
  BY DEF WritePartition, Return
<1>2. cmd.op = "write" /\ cmd.name \in DOMAIN Partitions /\ result = "none" /\ ~Upgrading
  BY <1>1 DEF IInv, Control, Upgrading
<1>3. cmd.len \in Nat
  BY <1>2, CommandsAssumption DEF IInv, Typed, TypeOK
<1>4. PICK k \in Nat : /\ k <= cmd.len /\ Store(Lba(cmd.name), FileCells, k)
                       /\ result' = "Ok" => k = cmd.len
  <2>1. CASE Store(Lba(cmd.name), FileCells, cmd.len)
    BY <1>3, <2>1
  <2>2. CASE ~ Store(Lba(cmd.name), FileCells, cmd.len)
    <3>1. PICK k \in 0..cmd.len : Store(Lba(cmd.name), FileCells, k) /\ result' = "DeviceTransfer"
      BY <2>2 DEF WritePartition, Return
    <3> QED BY <1>3, <3>1
  <2> QED BY <2>1, <2>2
<1>5. Typed'
  <2>1. DOMAIN disk' = DOMAIN disk
    BY <1>4 DEF Store
  <2> QED BY <1>1, <2>1 DEF IInv, Typed, TypeOK
<1>6. Control'
  BY <1>1 DEF IInv, Control
<1>7. Place' /\ Placed' /\ Filled' /\ EntriesInOrder'
  <2>1. ~ Upgrading' /\ ~ Moving'
    BY <1>1, <1>2 DEF Upgrading, Moving
  <2> QED BY <2>1 DEF Place, Placed, Filled, EntriesInOrder
<1>8. SmallBlockTransfer'
  <2> SUFFICES ASSUME lb = 1
               PROVE  TransferHitsPartition'
    BY <1>1 DEF SmallBlockTransfer
  <2>1. Changed' \subseteq Partition(cmd.name, lb)
    BY <1>1, <1>4, FileOnDisk
  <2>2. result' = "Ok" =>
          \A j \in 0..cmd.len - 1 : disk'[PartStart(cmd.name) + j] = FileCells[j]
    BY <1>1, <1>4, FileOnDisk
  <2>3. PartStart(cmd.name)' = PartStart(cmd.name) /\ FileCells' = FileCells
    BY <1>1 DEF PartStart, FileCells
  <2> QED BY <1>1, <1>2, <2>1, <2>2, <2>3 DEF TransferHitsPartition
<1> QED BY <1>5, <1>6, <1>7, <1>8 DEF IInv

\* The step to the next entry, when this one is skipped or done.
LEMMA NextEntryKeeps ==
  ASSUME IInv, pc \in {"entry", "copy", "chunk"}, NextEntry,
         UNCHANGED <<cmd, lb, pos, result, output, disk>>,
         Apart /\ entry \in ToPartition => Holds(entry)
  PROVE  IInv'
<1>1. pc' = "entry" /\ entry' = entry + 1 /\ chunk' = 0 /\ copied' = 0
  BY DEF NextEntry
<1>2. Upgrading /\ result = "none" /\ entry \in Nat
  BY DEF IInv, Control, Typed, TypeOK
<1>3. Typed'
  BY <1>1, <1>2, SizesAssumption DEF IInv, Typed, TypeOK
<1>4. Control'
  BY <1>1, <1>2 DEF IInv, Control, Upgrading
<1>5. Place' /\ Filled'
  BY <1>1 DEF Place, Filled, Moving
<1>6. Placed'
  <2>1. Writes(entry, 0, 0)
    BY DEF Writes, IInv, Typed, TypeOK
  <2>2. \A j \in ToPartition : Reached(j) => Reached(j)'
    <3> SUFFICES ASSUME NEW j \in ToPartition, Reached(j) PROVE j < entry'
      BY DEF Reached
    <3>1. j \in Nat
      BY <1>2, EntryToPartition DEF IInv
    <3> QED BY <1>1, <1>2, <3>1 DEF Reached
  <2> QED BY <2>1, <2>2, PlacedStep DEF IInv
<1>7. EntriesInOrder'
  BY <1>1, OrderNext DEF IInv
<1>8. SmallBlockTransfer'
  BY <1>2, UpgradeTransfer
<1> QED BY <1>3, <1>4, <1>5, <1>6, <1>7, <1>8 DEF IInv

\* An upgrade that returns without a write.
LEMMA GiveUp ==
  ASSUME IInv, pc \in {"entry", "copy", "chunk"}, pc' = "returned",
         UNCHANGED <<cmd, lb, pos, entry, chunk, copied, output, disk>>
  PROVE  IInv'
<1>1. Upgrading
  BY DEF IInv, Control
<1>2. Typed'
  BY DEF IInv, Typed, TypeOK
<1>3. Control'
  BY DEF IInv, Control
<1>4. Place' /\ Placed' /\ Filled' /\ EntriesInOrder'
  BY StillStep
<1>5. SmallBlockTransfer'
  BY <1>1, UpgradeTransfer
<1> QED BY <1>2, <1>3, <1>4, <1>5 DEF IInv

LEMMA UnreadableKeeps ==
  ASSUME IInv, Unreadable
  PROVE  IInv'
BY GiveUp DEF Unreadable, Return

\* The start of an entry that has a partition and passes its checks.
LEMMA BeginKeeps ==
  ASSUME IInv, pc = "entry", entry <= Len(Entries), ~Skipped(Current),
         Current.name \in DOMAIN Partitions,
         Current.name = "super" => Current.sparse,
         Current.name = "super" => ~ (Current.total > PartSize("super")),
         pos' = PartStart(Current.name), copied' = 0,
         IF Current.name = "super" THEN pc' = "chunk" /\ chunk' = 1
                                   ELSE pc' = "copy" /\ chunk' = 0,
         UNCHANGED <<cmd, lb, entry, result, output, disk>>
  PROVE  IInv'
<1>1. Upgrading /\ result = "none" /\ entry \in Nat \ {0}
  BY DEF IInv, Control, Typed, TypeOK
<1>2. entry \in ToPartition
  BY <1>1, UpgradeImage DEF IInv, ToPartition, Current
<1>3. WellFormed(Current) /\ Current.sparse \in BOOLEAN
  BY <1>1, <1>2, EntryToPartition DEF IInv, Current
<1>4. PICK e, ps, size : e = Current /\ ps = PartStart(e.name) /\ size = PartSize(e.name)
  OBVIOUS
<1>5. /\ ps \in Nat /\ size \in Nat /\ ps + size <= DiskSectors - 1 /\ DiskSectors \in Nat
      /\ PartitionOf(entry) = ps..(ps + size - 1)
  <2>1. e.name \in DOMAIN Partitions
    BY <1>4
  <2> QED BY <1>4, <2>1, PartitionExtent, SizesAssumption DEF IInv, Typed, TypeOK, PartitionOf, Current
<1>6. /\ Current' = e /\ PartStart(e.name)' = ps /\ PartSize(e.name)' = size
      /\ (entry \in ToPartition)'
  <2>1. Current' = e
    BY <1>4 DEF Current, Entries
  <2>2. PartStart(e.name)' = ps /\ PartSize(e.name)' = size
    BY <1>4 DEF PartStart, PartSize
  <2> QED BY <1>2, <2>1, <2>2, SameCommand
<1>7. pc' \in {"copy", "chunk"} /\ chunk' \in Nat
  BY DEF Typed, TypeOK
<1>8. Typed'
  <2>1. pos' \in 0..DiskSectors /\ copied' \in 0..DiskSectors
    BY <1>4, <1>5
  <2> QED BY <1>7, <2>1 DEF IInv, Typed, TypeOK
<1>9. Control'
  BY <1>1, <1>7 DEF IInv, Control, Upgrading
<1>10. Place'
  <2>1. e.sparse => SparsePlace'
    <3> SUFFICES ASSUME e.sparse PROVE SparsePlace'
      OBVIOUS
    <3>1. e.name = "super" /\ Sparse(e) /\ e.total = ChunkStart(e, Len(e.chunks) + 1)
      BY <1>3, <1>4, SparseEntry DEF WellFormed
    <3>2. pc' = "chunk" /\ chunk' = 1
      BY <1>4, <3>1
    <3>3. PICK n \in Nat : n = Len(e.chunks)
      BY <3>1 DEF Sparse
    <3>4. e.total \in Nat
      <4>1. n + 1 \in 1..(n + 1)
        OBVIOUS
      <4> QED BY <3>1, <3>3, <4>1, StartInNat
    <3>5. e.total <= size
      BY <1>4, <1>5, <3>1, <3>4
    <3>6. ChunkStart(e, 1) = 0
      BY <3>1, FirstStart
    <3>7. pos' = ps + ChunkStart(e, 1) + copied'
      BY <1>4, <1>5, <3>6
    <3>8. chunk' \in 1..(n + 1)
      BY <3>2
    <3> QED BY <1>6, <3>2, <3>3, <3>5, <3>7, <3>8 DEF SparsePlace
  <2>2. ~e.sparse => RegularPlace'
    <3> SUFFICES ASSUME ~e.sparse PROVE RegularPlace'
      OBVIOUS
    <3>1. pc' = "copy" /\ chunk' = 0
      BY <1>4
    <3>2. e.len \in Nat
      BY <1>3, <1>4 DEF WellFormed
    <3>3. CopyLen' = IF e.len <= size THEN e.len ELSE size
      BY <1>6, <3>1 DEF CopyLen
    <3>4. copied' <= CopyLen' /\ pos' = ps + copied'
      BY <1>4, <1>5, <3>2, <3>3
    <3> QED BY <1>6, <3>1, <3>4 DEF RegularPlace
  <2> QED BY <1>6, <2>1, <2>2 DEF Place
<1>11. Placed'
  <2>1. Writes(entry, 0, 0)
    BY DEF Writes, IInv, Typed, TypeOK
  <2>2. \A j \in ToPartition : Reached(j) => Reached(j)'
    BY DEF Reached
  <2> QED BY <2>1, <2>2, PlacedStep DEF IInv
<1>12. Filled'
  <2> SUFFICES ASSUME Moving', Apart', NEW s \in PartitionOf(entry)'
               PROVE  (disk[s] = IF s < pos THEN Content(entry, s) ELSE Initial[s])'
    BY DEF Filled
  <2>1. Apart /\ s \in PartitionOf(entry)
    <3>1. PartitionOf(entry)' = PartitionOf(entry)
      BY DEF PartitionOf, Entries
    <3> QED BY <3>1, SameApart
  <2>2. disk[s] = Initial[s]
    BY <1>2, <2>1, FreshPartition DEF IInv
  <2>3. ~ (s < pos')
    BY <1>4, <1>5, <2>1
  <2> QED BY <2>2, <2>3
<1>13. EntriesInOrder'
  <2>1. Writes(entry, 0, 0)
    BY DEF Writes, IInv, Typed, TypeOK
  <2> QED BY <2>1, OrderStays DEF IInv
<1>14. SmallBlockTransfer'
  BY <1>1, UpgradeTransfer
<1> QED BY <1>8, <1>9, <1>10, <1>11, <1>12, <1>13, <1>14 DEF IInv

LEMMA EntryKeeps ==
  ASSUME IInv, Entry
  PROVE  IInv'
<1>1. pc = "entry" /\ UNCHANGED <<cmd, lb, output, disk>>
  BY DEF Entry
<1>2. CASE entry > Len(Entries)
  BY <1>1, <1>2, GiveUp DEF Entry, Return
<1>3. CASE ~ (entry > Len(Entries)) /\ Skipped(Current)
  <2>1. NextEntry /\ UNCHANGED <<pos, result>>
    BY <1>3 DEF Entry
  <2>2. entry \notin ToPartition
    BY <1>3 DEF ToPartition, Current
  <2> QED BY <1>1, <2>1, <2>2, NextEntryKeeps
<1>4. CASE ~ (entry > Len(Entries)) /\ ~Skipped(Current)
  <2>1. CASE Objection(Current) # "Ok"
    BY <1>1, <1>4, <2>1, GiveUp DEF Entry, Return
  <2>2. CASE Objection(Current) = "Ok"
    <3>0. /\ Current.name \in DOMAIN Partitions
          /\ Current.name = "super" => Current.sparse /\ ~ (Current.total > PartSize("super"))
      BY <2>2 DEF Objection
    <3>1. /\ pos' = PartStart(Current.name) /\ copied' = 0
          /\ IF Current.name = "super" THEN pc' = "chunk" /\ chunk' = 1
                                       ELSE pc' = "copy" /\ chunk' = 0
          /\ UNCHANGED <<entry, result>>
      BY <1>4, <2>2 DEF Entry
    <3>2. entry <= Len(Entries)
      <4>1. Len(Entries) \in Nat /\ entry \in Nat
        BY <1>1, UpgradeImage DEF IInv, Typed, TypeOK, Control
      <4> QED BY <1>4, <4>1
    <3> QED BY <1>1, <1>4, <3>0, <3>1, <3>2, BeginKeeps
  <2> QED BY <2>1, <2>2
<1> QED BY <1>2, <1>3, <1>4

\* A round of a copy that reaches the storage as a whole.
LEMMA CopyGoesOn ==
  ASSUME IInv, pc = "copy", NEW n \in Nat, copied + n <= CopyLen,
         Store(pos, CopyCells(n), n), pos' = pos + n, copied' = copied + n,
         UNCHANGED <<pc, entry, chunk, result, cmd, lb, output>>
  PROVE  IInv'
<1>1. /\ entry \in ToPartition /\ Upgrading
      /\ copied \in Nat /\ CopyLen \in Nat /\ pos \in Nat
      /\ PartStart(Current.name) \in Nat
      /\ pos + (CopyLen - copied) <= PartStart(Current.name) + PartSize(Current.name)
      /\ CopyLen <= PartSize(Current.name)
      /\ PartStart(Current.name) + PartSize(Current.name) <= DiskSectors - 1
  BY CopyPlace DEF IInv
<1>2. DiskSectors \in Nat /\ Moving
  BY SizesAssumption DEF Moving
<1>3. PICK e, ps, size, len : /\ e = Current /\ ps = PartStart(e.name)
                              /\ size = PartSize(e.name) /\ len = CopyLen
  OBVIOUS
<1>4. size \in Nat
  BY <1>1, <1>3, EntryToPartition, PartitionExtent DEF IInv, Typed, TypeOK, Current
<1>5. pos' \in 0..DiskSectors /\ copied' \in 0..DiskSectors
  BY <1>1, <1>2, <1>3, <1>4
<1>6. PICK a, b : a = pos /\ b = pos + n
  OBVIOUS
<1>7. Writes(entry, a, b) /\ a \in Nat /\ b \in Nat
  BY <1>1, <1>6, CopyWrites DEF IInv
<1>8. Typed'
  BY <1>5, <1>7 DEF IInv, Typed, TypeOK, Writes
<1>9. Control'
  BY <1>1 DEF IInv, Control, Upgrading
<1>10. /\ Current' = e /\ PartStart(e.name)' = ps /\ PartSize(e.name)' = size
       /\ CopyLen' = len /\ (entry \in ToPartition)'
  <2>1. Current' = e
    BY <1>3 DEF Current, Entries
  <2>2. PartStart(e.name)' = ps /\ PartSize(e.name)' = size
    BY <1>3 DEF PartStart, PartSize
  <2>3. CopyLen' = len
    BY <1>3, <2>1, <2>2 DEF CopyLen
  <2> QED BY <1>1, <2>1, <2>2, <2>3, SameCommand
<1>11. Place'
  <2>1. e.sparse => SparsePlace'
    <3> SUFFICES ASSUME e.sparse PROVE SparsePlace'
      OBVIOUS
    <3>1. SparsePlace
      BY <1>2, <1>3 DEF IInv, Place
    <3>2. /\ e.total <= size /\ chunk \in 1..(Len(e.chunks) + 1) /\ chunk <= Len(e.chunks)
          /\ pos = ps + ChunkStart(e, chunk) + copied
          /\ e.chunks[chunk].type \in {"raw", "fill"}
      BY <1>3, <3>1 DEF SparsePlace
    <3>3. Sparse(e)
      BY <1>1, <1>3, EntryToPartition, SparseEntry DEF IInv, Current
    <3>4. chunk \in 1..Len(e.chunks) /\ chunk # 0
      BY <3>2, <3>3 DEF Sparse
    <3>5. len = ChunkLen(e, chunk)
      BY <1>3, <3>4 DEF CopyLen
    <3>6. ChunkStart(e, chunk) \in Nat
      BY <1>1, <1>3, <3>1, <3>4, ChunkFits DEF IInv
    <3>7. pos' = ps + ChunkStart(e, chunk) + copied'
      BY <1>1, <1>3, <3>2, <3>6, SMTT(30)
    <3>8. copied' <= ChunkLen(e, chunk)
      BY <1>3, <3>5
    <3> QED BY <1>10, <3>2, <3>7, <3>8 DEF SparsePlace
  <2>2. ~e.sparse => RegularPlace'
    <3> SUFFICES ASSUME ~e.sparse PROVE RegularPlace'
      OBVIOUS
    <3>1. chunk = 0 /\ pos = ps + copied
      BY <1>2, <1>3 DEF IInv, Place, RegularPlace
    <3>2. pos' = ps + copied' /\ copied' <= len
      BY <1>1, <1>3, <3>1
    <3> QED BY <1>10, <3>1, <3>2 DEF RegularPlace
  <2> QED BY <1>10, <2>1, <2>2 DEF Place
<1>12. Placed'
  <2>1. \A j \in ToPartition : Reached(j) => Reached(j)'
    BY DEF Reached
  <2> QED BY <1>1, <1>7, <2>1, PlacedStep DEF IInv
<1>13. Filled'
  <2> SUFFICES ASSUME Moving', Apart', NEW s \in PartitionOf(entry)'
               PROVE  (disk[s] = IF s < pos THEN Content(entry, s) ELSE Initial[s])'
    BY DEF Filled
  <2>1. Apart /\ s \in PartitionOf(entry)
    <3>1. PartitionOf(entry)' = PartitionOf(entry)
      BY DEF PartitionOf, Entries
    <3> QED BY <3>1, SameApart
  <2>2. Content(entry, s)' = Content(entry, s)
    BY DEF Content, Due, Wanted, PartStart, Entries
  <2>3. disk[s] = IF s < pos THEN Content(entry, s) ELSE Initial[s]
    BY <1>2, <2>1 DEF IInv, Filled
  <2>4. s \in DOMAIN disk /\ s \in Nat
    BY <1>1, <2>1, SectorOfEntry DEF IInv
  <2>5. CASE a <= s /\ s < b
    <3>1. disk'[s] = Due(entry, s) /\ Due(entry, s) # Keep
      BY <1>7, <2>4, <2>5 DEF Writes
    <3>2. disk'[s] = Content(entry, s) /\ s < pos'
      BY <1>6, <2>5, <3>1 DEF Content
    <3> QED BY <2>2, <3>2
  <2>6. CASE ~ (a <= s /\ s < b)
    <3>1. disk'[s] = disk[s]
      BY <1>7, <2>4, <2>6 DEF Writes
    <3>2. s < pos <=> s < pos'
      BY <1>1, <1>6, <2>4, <2>6
    <3> QED BY <2>2, <2>3, <3>1, <3>2
  <2> QED BY <2>5, <2>6
<1>14. EntriesInOrder'
  BY <1>1, <1>7, OrderStays DEF IInv
<1>15. SmallBlockTransfer'
  BY <1>1, UpgradeTransfer
<1> QED BY <1>8, <1>9, <1>11, <1>12, <1>13, <1>14, <1>15 DEF IInv

\* A round that fails when k sectors of it have reached the storage.
LEMMA CopyFails ==
  ASSUME IInv, pc = "copy", NEW n \in Nat, copied + n <= CopyLen, NEW k \in 0..n,
         Store(pos, CopyCells(n), k), pc' = "returned",
         UNCHANGED <<pos, entry, chunk, copied, cmd, lb, output>>
  PROVE  IInv'
<1>1. entry \in ToPartition /\ Upgrading /\ pos \in Nat
  BY CopyPlace DEF IInv
<1>2. PICK a, b : a = pos /\ b = pos + k
  OBVIOUS
<1>3. Writes(entry, a, b) /\ a \in Nat /\ b \in Nat
  BY <1>1, <1>2, CopyWrites DEF IInv
<1>4. Typed'
  BY <1>3 DEF IInv, Typed, TypeOK, Writes
<1>5. Control'
  BY DEF IInv, Control
<1>6. Place' /\ Filled'
  BY DEF Place, Filled, Moving
<1>7. Placed'
  <2>1. \A j \in ToPartition : Reached(j) => Reached(j)'
    BY DEF Reached
  <2> QED BY <1>1, <1>3, <2>1, PlacedStep DEF IInv
<1>8. EntriesInOrder'
  BY <1>1, <1>3, OrderStays DEF IInv
<1>9. SmallBlockTransfer'
  BY <1>1, UpgradeTransfer
<1> QED BY <1>4, <1>5, <1>6, <1>7, <1>8, <1>9 DEF IInv

\* A step to the next chunk, with the device behind this one, when the entry
\* has nothing for the sectors it passes over.
LEMMA NextChunkKeeps ==
  ASSUME IInv, Moving, entry \in ToPartition, Current.sparse, SparsePlace,
         chunk \in 1..Len(Current.chunks),
         pos' = PartStart(Current.name) + ChunkStart(Current, chunk) + ChunkLen(Current, chunk),
         pos <= pos',
         \A s \in PartitionOf(entry) : pos <= s /\ s < pos' => Content(entry, s) = Initial[s],
         chunk' = chunk + 1, copied' = 0, pc' = "chunk",
         UNCHANGED <<cmd, lb, entry, disk, output, result>>
  PROVE  IInv'
<1>1. Upgrading /\ result = "none"
  BY DEF IInv, Control, Moving
<1>2. PICK ps, size, at, len, d : /\ ps = PartStart(Current.name) /\ size = PartSize(Current.name)
                                  /\ at = ChunkStart(Current, chunk)
                                  /\ len = ChunkLen(Current, chunk) /\ d = DiskSectors
  OBVIOUS
<1>3. /\ at \in Nat /\ len \in Nat /\ at + len <= size
  BY <1>1, <1>2, ChunkFits DEF IInv
<1>4. ps \in Nat /\ size \in Nat /\ ps + size <= d - 1 /\ d \in Nat
  <2>1. Current.name \in DOMAIN Partitions
    BY <1>1, EntryToPartition DEF IInv, Current
  <2> QED BY <1>2, <2>1, PartitionExtent, SizesAssumption DEF IInv, Typed, TypeOK
<1>5. pos' \in 0..d /\ pos' \in Nat
  <2>1. pos' = ps + at + len
    BY <1>2
  <2> QED BY <1>3, <1>4, <2>1
<1>6. chunk' \in Nat
  BY DEF IInv, Typed, TypeOK
<1>7. Typed'
  BY <1>2, <1>4, <1>5, <1>6 DEF IInv, Typed, TypeOK
<1>8. Control'
  BY <1>1 DEF IInv, Control, Upgrading
<1>9. Place'
  BY <1>1, NextChunkPlace DEF IInv
<1>10. Placed'
  <2>1. Writes(entry, 0, 0)
    BY DEF Writes, IInv, Typed, TypeOK
  <2>2. \A j \in ToPartition : Reached(j) => Reached(j)'
    BY DEF Reached, Moving
  <2> QED BY <2>1, <2>2, PlacedStep DEF IInv
<1>11. Filled'
  BY <1>1, <1>5, FilledSkip DEF IInv
<1>12. EntriesInOrder'
  <2>1. Writes(entry, 0, 0)
    BY DEF Writes, IInv, Typed, TypeOK
  <2> QED BY <2>1, OrderStays DEF IInv
<1>13. SmallBlockTransfer'
  BY <1>1, UpgradeTransfer
<1> QED BY <1>7, <1>8, <1>9, <1>10, <1>11, <1>12, <1>13 DEF IInv

LEMMA CopyKeeps ==
  ASSUME IInv, Copy
  PROVE  IInv'
<1>1. pc = "copy" /\ UNCHANGED <<cmd, lb, output>> /\ Moving
  BY DEF Copy, Moving
<1>2. /\ entry \in ToPartition /\ Upgrading
      /\ copied \in Nat /\ CopyLen \in Nat /\ copied <= CopyLen
  BY <1>1, CopyPlace DEF IInv
<1>3. CASE copied = CopyLen /\ chunk = 0
  <2>1. NextEntry /\ UNCHANGED <<pos, result, disk>>
    BY <1>3 DEF Copy
  <2>2. Apart => Holds(entry)
    BY <1>1, <1>3, RegularDone DEF IInv
  <2> QED BY <1>1, <2>1, <2>2, NextEntryKeeps
<1>4. CASE copied = CopyLen /\ chunk # 0
  <2>1. /\ pc' = "chunk" /\ chunk' = chunk + 1 /\ copied' = 0
        /\ UNCHANGED <<entry, pos, result, disk>>
    BY <1>4 DEF Copy
  <2>2. Current.sparse
    <3>1. Current.sparse \in BOOLEAN
      BY <1>2, EntryToPartition DEF IInv, Current
    <3> QED BY <1>1, <1>4, <3>1 DEF IInv, Place, RegularPlace
  <2>3. SparsePlace
    BY <1>1, <2>2 DEF IInv, Place
  <2>4. /\ chunk \in 1..(Len(Current.chunks) + 1) /\ chunk <= Len(Current.chunks)
        /\ pos = PartStart(Current.name) + ChunkStart(Current, chunk) + copied
    BY <1>1, <2>3 DEF SparsePlace
  <2>5. chunk \in 1..Len(Current.chunks)
    <3>1. Sparse(Current)
      BY <1>2, <2>2, EntryToPartition, SparseEntry DEF IInv, Current
    <3> QED BY <2>4, <3>1 DEF Sparse
  <2>6. copied = ChunkLen(Current, chunk)
    BY <1>4 DEF CopyLen
  <2>7. pos' = PartStart(Current.name) + ChunkStart(Current, chunk) + ChunkLen(Current, chunk)
    BY <2>1, <2>4, <2>6
  <2>8. pos \in Nat
    BY SizesAssumption DEF IInv, Typed, TypeOK
  <2>9. pos <= pos'
    BY <2>1, <2>8
  <2>10. \A s \in PartitionOf(entry) : pos <= s /\ s < pos' => Content(entry, s) = Initial[s]
    <3> SUFFICES ASSUME NEW s \in PartitionOf(entry), pos <= s, s < pos PROVE FALSE
      BY <2>1
    <3>1. s \in Nat
      BY <1>2, SectorOfEntry DEF IInv
    <3> QED BY <2>8, <3>1
  <2> QED BY <1>1, <1>2, <2>1, <2>2, <2>3, <2>5, <2>7, <2>9, <2>10, NextChunkKeeps
<1>5. CASE copied # CopyLen
  <2>1. PICK n : n = IF CopyLen - copied < CopySectors THEN CopyLen - copied ELSE CopySectors
    OBVIOUS
  <2>2. n \in Nat /\ copied + n <= CopyLen
    BY <1>2, <2>1, SizesAssumption
  <2>3. \/ /\ Store(pos, CopyCells(n), n)
           /\ pos' = pos + n
           /\ copied' = copied + n
           /\ UNCHANGED <<pc, entry, chunk, result>>
        \/ /\ \E k \in 0..n : Store(pos, CopyCells(n), k)
           /\ Return("Io")
           /\ UNCHANGED <<pos, entry, chunk, copied>>
    BY <1>5, <2>1 DEF Copy
  <2>4. CASE /\ Store(pos, CopyCells(n), n)
             /\ pos' = pos + n
             /\ copied' = copied + n
             /\ UNCHANGED <<pc, entry, chunk, result>>
    BY <1>1, <2>2, <2>4, CopyGoesOn
  <2>5. CASE /\ \E k \in 0..n : Store(pos, CopyCells(n), k)
             /\ Return("Io")
             /\ UNCHANGED <<pos, entry, chunk, copied>>
    <3>1. PICK k \in 0..n : Store(pos, CopyCells(n), k)
      BY <2>5
    <3>2. pc' = "returned"
      BY <2>5 DEF Return
    <3> QED BY <1>1, <2>2, <2>5, <3>1, <3>2, CopyFails
  <2> QED BY <2>3, <2>4, <2>5
<1> QED BY <1>3, <1>4, <1>5

\* A raw or a fill chunk is handed to the copy.
LEMMA HandToCopy ==
  ASSUME IInv, pc = "chunk", chunk <= Len(Current.chunks),
         Current.chunks[chunk].type \in {"raw", "fill"}, pc' = "copy",
         UNCHANGED <<cmd, lb, pos, entry, chunk, copied, result, output, disk>>
  PROVE  IInv'
<1>1. /\ entry \in ToPartition /\ Upgrading /\ Current.sparse
      /\ copied = 0 /\ ChunkLen(Current, chunk) \in Nat /\ SparsePlace /\ Moving
  BY ChunkPlace DEF IInv, Moving
<1>2. Typed' /\ Control'
  BY <1>1 DEF IInv, Typed, TypeOK, Control, Upgrading
<1>3. PICK e : e = Current
  OBVIOUS
<1>4. /\ Current' = e /\ (entry \in ToPartition)'
      /\ PartStart(e.name)' = PartStart(e.name) /\ PartSize(e.name)' = PartSize(e.name)
  <2>1. Current' = e
    BY <1>3 DEF Current, Entries
  <2>2. PartStart(e.name)' = PartStart(e.name) /\ PartSize(e.name)' = PartSize(e.name)
    BY DEF PartStart, PartSize
  <2> QED BY <1>1, <2>1, <2>2, SameCommand
<1>5. SparsePlace'
  <2>1. copied <= ChunkLen(e, chunk)
    BY <1>1, <1>3
  <2> QED BY <1>1, <1>3, <1>4, <2>1 DEF SparsePlace
<1>6. Place'
  BY <1>1, <1>3, <1>4, <1>5 DEF Place
<1>7. Placed'
  <2>1. Writes(entry, 0, 0)
    BY DEF Writes, IInv, Typed, TypeOK
  <2>2. \A j \in ToPartition : Reached(j) => Reached(j)'
    BY DEF Reached
  <2> QED BY <2>1, <2>2, PlacedStep DEF IInv
<1>8. Filled'
  <2>1. pos \in Nat
    BY SizesAssumption DEF IInv, Typed, TypeOK
  <2>2. \A s \in PartitionOf(entry) : pos <= s /\ s < pos' => Content(entry, s) = Initial[s]
    <3> SUFFICES ASSUME NEW s \in PartitionOf(entry), pos <= s, s < pos PROVE FALSE
      OBVIOUS
    <3>1. s \in Nat
      BY <1>1, SectorOfEntry DEF IInv
    <3> QED BY <2>1, <3>1
  <2>3. pos <= pos' /\ pos' \in Nat
    BY <2>1
  <2> QED BY <1>1, <2>2, <2>3, FilledSkip DEF IInv
<1>9. EntriesInOrder'
  <2>1. Writes(entry, 0, 0)
    BY DEF Writes, IInv, Typed, TypeOK
  <2> QED BY <2>1, OrderStays DEF IInv
<1>10. SmallBlockTransfer'
  BY <1>1, UpgradeTransfer
<1> QED BY <1>2, <1>6, <1>7, <1>8, <1>9, <1>10 DEF IInv

\* A chunk of the current image ends in front of the end of the device.
LEMMA SkipStaysInside ==
  ASSUME IInv, pc = "chunk", chunk <= Len(Current.chunks)
  PROVE  pos + ChunkLen(Current, chunk) < DiskSectors
<1>1. /\ entry \in ToPartition /\ Upgrading
      /\ PartStart(Current.name) \in Nat
      /\ ChunkStart(Current, chunk) \in Nat /\ ChunkLen(Current, chunk) \in Nat
      /\ pos = PartStart(Current.name) + ChunkStart(Current, chunk)
      /\ pos + ChunkLen(Current, chunk) <= PartStart(Current.name) + PartSize(Current.name)
      /\ PartStart(Current.name) + PartSize(Current.name) <= DiskSectors - 1
  BY ChunkPlace DEF IInv
<1>2. PICK ps, at, len, size : /\ ps = PartStart(Current.name) /\ at = ChunkStart(Current, chunk)
                               /\ len = ChunkLen(Current, chunk)
                               /\ size = PartSize(Current.name)
  OBVIOUS
<1>3. size \in Nat
  <2>1. Current.name \in DOMAIN Partitions
    BY <1>1, EntryToPartition DEF IInv, Current
  <2> QED BY <1>2, <2>1, PartitionExtent DEF IInv, Typed, TypeOK
<1>4. /\ ps \in Nat /\ at \in Nat /\ len \in Nat /\ pos = ps + at
      /\ pos + len <= ps + size /\ ps + size <= DiskSectors - 1
  BY <1>1, <1>2
<1> QED BY <1>2, <1>3, <1>4, SizesAssumption

LEMMA ChunkKeeps ==
  ASSUME IInv, Chunk
  PROVE  IInv'
<1>1. pc = "chunk" /\ UNCHANGED <<cmd, lb, output, disk>> /\ Moving
  BY DEF Chunk, Moving
<1>2. CASE chunk > Len(Current.chunks) /\ NextEntry /\ UNCHANGED <<pos, result>>
  <2>1. Apart => Holds(entry)
    BY <1>1, <1>2, SparseDone DEF IInv
  <2> QED BY <1>1, <1>2, <2>1, NextEntryKeeps
<1>3. CASE chunk <= Len(Current.chunks)
  <2>1. /\ entry \in ToPartition /\ Upgrading /\ Current.sparse
        /\ chunk \in 1..Len(Current.chunks) /\ Len(Current.chunks) \in Nat
        /\ copied = 0 /\ Sparse(Current) /\ SparsePlace
        /\ PartStart(Current.name) \in Nat
        /\ ChunkStart(Current, chunk) \in Nat /\ ChunkLen(Current, chunk) \in Nat
        /\ pos = PartStart(Current.name) + ChunkStart(Current, chunk)
    BY <1>1, <1>3, ChunkPlace DEF IInv
  <2>2. PICK ps, at, len : /\ ps = PartStart(Current.name) /\ at = ChunkStart(Current, chunk)
                           /\ len = ChunkLen(Current, chunk)
    OBVIOUS
  <2>3. ps \in Nat /\ at \in Nat /\ len \in Nat /\ pos = ps + at
    BY <2>1, <2>2
  <2>4. ~ (chunk > Len(Current.chunks))
    BY <2>1
  <2>5. UNCHANGED copied
    BY <2>4 DEF Chunk
  <2>6. PICK type : type = Current.chunks[chunk].type
    OBVIOUS
  <2>7. \/ type \in {"raw", "fill"} /\ pc' = "copy" /\ UNCHANGED <<pos, entry, chunk, result>>
        \/ type = "dontcare" /\ SeekTo(pos + ChunkLen(Current, chunk))
        \/ type = "crc32" /\ chunk' = chunk + 1 /\ UNCHANGED <<pc, pos, entry, result>>
        \/ type = "unknown" /\ Return("UnknownSparseChunkType") /\ UNCHANGED <<pos, entry, chunk>>
    BY <2>4, <2>6 DEF Chunk
  <2>8. CASE type \in {"raw", "fill"} /\ pc' = "copy" /\ UNCHANGED <<pos, entry, chunk, result>>
    BY <1>1, <1>3, <2>5, <2>6, <2>8, HandToCopy
  <2>9. CASE type = "dontcare" /\ SeekTo(pos + ChunkLen(Current, chunk))
    <3>1. pos + len < DiskSectors
      BY <1>1, <1>3, <2>2, SkipStaysInside
    <3>2. /\ pos' = pos + len /\ pc' = "chunk" /\ chunk' = chunk + 1
          /\ UNCHANGED <<entry, result>>
      BY <2>2, <2>9, <3>1 DEF SeekTo
    <3>3. pos' = PartStart(Current.name) + ChunkStart(Current, chunk) + ChunkLen(Current, chunk)
      BY <2>2, <2>3, <3>2
    <3>4. pos <= pos' /\ pos \in Nat
      BY <2>3, <3>2
    <3>5. \A s \in PartitionOf(entry) : pos <= s /\ s < pos' => Content(entry, s) = Initial[s]
      <4> SUFFICES ASSUME NEW s \in PartitionOf(entry), pos <= s, s < pos'
                   PROVE  Content(entry, s) = Initial[s]
        OBVIOUS
      <4>1. s \in Nat
        BY <2>1, SectorOfEntry DEF IInv
      <4>2. s < pos + ChunkLen(Current, chunk)
        BY <2>2, <3>2
      <4> QED BY <1>1, <1>3, <2>6, <2>9, <4>1, <4>2, GapContent DEF IInv
    <3>6. copied' = 0
      BY <2>1, <2>5
    <3> QED BY <1>1, <2>1, <3>2, <3>3, <3>4, <3>5, <3>6, NextChunkKeeps
  <2>10. CASE type = "crc32" /\ chunk' = chunk + 1 /\ UNCHANGED <<pc, pos, entry, result>>
    <3>1. len = 0
      <4>1. WellFormed(Current)
        BY <2>1, EntryToPartition DEF IInv, Current
      <4>2. DOMAIN Current.chunks = 1..Len(Current.chunks) /\ Current.block \in Nat
        BY <2>1 DEF Sparse
      <4>3. Current.chunks[chunk].n = 0
        BY <2>1, <2>6, <2>10, <4>1, <4>2 DEF WellFormed
      <4> QED BY <2>2, <4>2, <4>3 DEF ChunkLen
    <3>2. pos' = PartStart(Current.name) + ChunkStart(Current, chunk) + ChunkLen(Current, chunk)
      BY <2>2, <2>3, <2>10, <3>1
    <3>3. \A s \in PartitionOf(entry) : pos <= s /\ s < pos' => Content(entry, s) = Initial[s]
      <4> SUFFICES ASSUME NEW s \in PartitionOf(entry), pos <= s, s < pos PROVE FALSE
        BY <2>10
      <4>1. s \in Nat
        BY <2>1, SectorOfEntry DEF IInv
      <4> QED BY <2>3, <4>1
    <3>4. pos <= pos' /\ copied' = 0 /\ pc' = "chunk"
      BY <1>1, <2>1, <2>3, <2>5, <2>10
    <3> QED BY <1>1, <2>1, <2>10, <3>2, <3>3, <3>4, NextChunkKeeps
  <2>11. CASE type = "unknown" /\ Return("UnknownSparseChunkType") /\ UNCHANGED <<pos, entry, chunk>>
    BY <1>1, <2>5, <2>11, GiveUp DEF Return
  <2> QED BY <2>7, <2>8, <2>9, <2>10, <2>11
<1> QED BY <1>2, <1>3 DEF Chunk

LEMMA InitIInv == Init /\ lb \in Known => IInv
<1> SUFFICES ASSUME Init, lb \in Known PROVE IInv
  OBVIOUS
<1>1. /\ pc = "start" /\ cmd \in Commands
      /\ pos = 0 /\ entry = 1 /\ chunk = 0 /\ copied = 0
      /\ result = "none" /\ disk = Initial
  BY DEF Init
<1>2. Typed
  <2>1. 0 \in 0..DiskSectors
    BY SizesAssumption
  <2>2. DOMAIN disk = 0..DiskSectors - 1
    BY <1>1 DEF Initial
  <2> QED BY <1>1, <2>1, <2>2 DEF Typed, TypeOK
<1>3. Control /\ Place /\ Filled
  BY <1>1 DEF Control, Place, Filled, Moving
<1>4. Changed = {}
  BY <1>1 DEF Changed
<1>5. Placed
  BY <1>4 DEF Placed
<1>6. EntriesInOrder
  <2> SUFFICES ASSUME Upgrading, NEW i \in ToPartition, i < entry PROVE FALSE
    BY DEF EntriesInOrder
  <2>1. i \in 1..Len(Entries) /\ Len(Entries) \in Nat
    BY <1>2, EntryToPartition, UpgradeImage
  <2> QED BY <1>1, <2>1
<1>7. SmallBlockTransfer
  BY <1>1, <1>4 DEF SmallBlockTransfer, TransferHitsPartition
<1> QED BY <1>2, <1>3, <1>5, <1>6, <1>7 DEF IInv

LEMMA NextIInv == IInv /\ [Next]_vars => IInv'
<1> SUFFICES ASSUME IInv, [Next]_vars PROVE IInv'
  OBVIOUS
<1>1. CASE Unopened \/ UnknownSize
  BY <1>1, UnopenedKeeps DEF UnknownSize, IInv, Typed
<1>2. CASE StartRead
  BY <1>2, StartReadKeeps
<1>3. CASE ReadPartition
  BY <1>3, ReadPartitionKeeps
<1>4. CASE StartWrite
  BY <1>4, StartWriteKeeps
<1>5. CASE WritePartition
  BY <1>5, WritePartitionKeeps
<1>6. CASE StartUpgrade \/ Unreadable
  BY <1>6, StartUpgradeKeeps, UnreadableKeeps
<1>7. CASE Entry
  BY <1>7, EntryKeeps
<1>8. CASE Copy
  BY <1>8, CopyKeeps
<1>9. CASE Chunk
  BY <1>9, ChunkKeeps
<1>10. CASE UNCHANGED vars
  <2>1. /\ Typed' /\ Control' /\ Place'
    <3>1. Typed' /\ Control'
      BY <1>10 DEF vars, IInv, Typed, TypeOK, Control, Upgrading, PartSize
    <3>2. Place'
      BY <1>10 DEF vars, IInv, Place, Moving, ToPartition, Entries, Current, SparsePlace,
         RegularPlace, PartStart, PartSize, CopyLen
    <3> QED BY <3>1, <3>2
  <2>2. Placed'
    <3>1. Writes(entry, 0, 0)
      BY <1>10 DEF Writes, IInv, Typed, TypeOK, vars
    <3>2. \A j \in ToPartition : Reached(j) => Reached(j)'
      BY <1>10 DEF Reached, vars
    <3> QED BY <1>10, <3>1, <3>2, PlacedStep DEF IInv, vars
  <2>3. Filled'
    <3> SUFFICES ASSUME Moving', Apart', NEW s \in PartitionOf(entry)'
                 PROVE  (disk[s] = IF s < pos THEN Content(entry, s) ELSE Initial[s])'
      BY DEF Filled
    <3>1. PartitionOf(entry)' = PartitionOf(entry) /\ (Moving' <=> Moving)
      BY <1>10 DEF vars, PartitionOf, Entries, Moving
    <3>2. Content(entry, s)' = Content(entry, s)
      BY <1>10 DEF vars, Content, Due, Wanted, PartStart, Entries
    <3>3. Apart
      BY <1>10, SameApart DEF vars
    <3>4. disk[s] = IF s < pos THEN Content(entry, s) ELSE Initial[s]
      BY <3>1, <3>3 DEF IInv, Filled
    <3> QED BY <1>10, <3>2, <3>4 DEF vars
  <2>4. EntriesInOrder'
    <3>1. Writes(entry, 0, 0)
      BY <1>10 DEF Writes, IInv, Typed, TypeOK, vars
    <3> QED BY <1>10, <3>1, OrderStays DEF IInv, vars
  <2>5. SmallBlockTransfer'
    BY <1>10 DEF vars, IInv, SmallBlockTransfer, TransferHitsPartition, Changed, PartSize,
       PartStart, FileCells
  <2> QED BY <2>1, <2>2, <2>3, <2>4, <2>5 DEF IInv
<1> QED BY <1>1, <1>2, <1>3, <1>4, <1>5, <1>6, <1>7, <1>8, <1>9, <1>10 DEF Next

LEMMA InitUntouched == Init /\ lb \notin Known => Untouched
<1> SUFFICES ASSUME Init, lb \notin Known PROVE TypeOK
  BY DEF Untouched, Init
<1>1. 0 \in 0..DiskSectors
  BY SizesAssumption
<1>2. DOMAIN Initial = 0..DiskSectors - 1
  BY DEF Initial
<1> QED BY <1>1, <1>2 DEF Init, TypeOK

LEMMA NextUntouched == Untouched /\ [Next]_vars => Untouched'
<1> SUFFICES ASSUME Untouched, [Next]_vars PROVE Untouched'
  OBVIOUS
<1>1. UNCHANGED <<cmd, lb, pos, entry, chunk, copied, disk>> /\ pc' \in {"start", "returned"}
  BY DEF Untouched, Next, vars, Unopened, UnknownSize, Return, StartRead, ReadPartition, StartWrite,
     WritePartition, StartUpgrade, Unreadable, Entry, Copy, Chunk
<1> QED BY <1>1 DEF Untouched, TypeOK

\* One or the other holds throughout every run.
LEMMA AlwaysIInv == Spec => [](IInv \/ Untouched)
<1>1. Init => IInv \/ Untouched
  BY InitIInv, InitUntouched
<1>2. (IInv \/ Untouched) /\ [Next]_vars => (IInv \/ Untouched)'
  BY NextIInv, NextUntouched
<1> QED BY <1>1, <1>2, PTL DEF Spec

\* No sector is changed, and no entry is behind the first.
LEMMA NothingTouched ==
  ASSUME Untouched
  PROVE  /\ Changed = {} /\ disk = Initial /\ lb # 1
         /\ \A i \in ToPartition : Upgrading => ~ (i < entry)
<1>1. Changed = {} /\ disk = Initial /\ lb # 1
  BY DEF Untouched, Changed, Known
<1>2. ASSUME NEW i \in ToPartition, Upgrading PROVE ~ (i < entry)
  <2>1. PICK c \in Commands : c = cmd /\ c.op = "upgrade"
    BY <1>2 DEF Untouched, TypeOK, Upgrading
  <2>2. i \in 1..Len(c.image) /\ Len(c.image) \in Nat
    BY <2>1, CommandsAssumption DEF ToPartition, Entries
  <2> QED BY <2>2 DEF Untouched
<1> QED BY <1>1, <1>2

-----------------------------------------------------------------------------
(* The theorems.                                                           *)

\* Every variable stays in its type; in particular no seek and no write of an
\* upgrade takes the device past the end of the storage.
THEOREM FlashingTypes == Spec => []TypeOK
<1>1. IInv \/ Untouched => TypeOK
  BY DEF IInv, Typed, Untouched
<1> QED BY <1>1, AlwaysIInv, PTL

\* When an upgrade has reached an entry, and when it has returned Ok, the
\* partitions of all earlier ones hold their images, and what was there
\* before where the images do not say; at every size, for every image whose
\* entries share no sector.
THEOREM UpgradeInOrder == Spec => []EntriesInOrder
<1>1. IInv \/ Untouched => EntriesInOrder
  BY NothingTouched DEF IInv, EntriesInOrder
<1> QED BY <1>1, AlwaysIInv, PTL

\* A sector an upgrade has changed lies in the partition of an entry it has
\* reached and holds what that entry has for it, whatever fails and wherever:
\* for every image, also one that names a partition twice.
THEOREM UpgradeMisplacesNothing == Spec => []NothingMisplaced
<1>1. Untouched => NothingMisplaced
  BY NothingTouched DEF NothingMisplaced
<1>2. IInv => NothingMisplaced
  <2> SUFFICES ASSUME IInv, Upgrading, NEW s \in Changed
               PROVE  \E i \in ToPartition :
                        i <= entry /\ s \in PartitionOf(i) /\ disk[s] = Due(i, s)
    BY DEF NothingMisplaced
  <2>1. PICK i \in ToPartition : Reached(i) /\ s \in PartitionOf(i) /\ disk[s] = Due(i, s)
    BY DEF IInv, Placed
  <2>2. i \in Nat /\ entry \in Nat
    BY EntryToPartition DEF IInv, Typed, TypeOK
  <2>3. i <= entry
    BY <2>1, <2>2 DEF Reached
  <2> QED BY <2>1, <2>3
<1> QED BY <1>1, <1>2, AlwaysIInv, PTL

\* A partition read that returns Ok delivers its partition, and a partition
\* write changes nothing outside it, where a logical block is one sector: the
\* code hands part.first_lba to calls that count sectors.
THEOREM SmallBlocksTransfer == Spec => []SmallBlockTransfer
<1>1. IInv \/ Untouched => SmallBlockTransfer
  BY NothingTouched DEF IInv, SmallBlockTransfer
<1> QED BY <1>1, AlwaysIInv, PTL

-----------------------------------------------------------------------------
(* What an upgrade that returns Ok has gone through: a second invariant,   *)
(* on top of the first.                                                    *)

Seen ==
  Upgrading =>
    /\ \A i \in DOMAIN Entries : i < entry => Skipped(Entries[i]) \/ i \in ToPartition
    /\ result = "Ok" => entry > Len(Entries)

\* A step that stays at its entry and does not return Ok.
LEMMA SeenStays ==
  ASSUME Seen, UNCHANGED <<cmd, lb, entry>>, result' = result \/ result' # "Ok"
  PROVE  Seen'
<1>1. Entries' = Entries /\ ToPartition' = ToPartition /\ (Upgrading' <=> Upgrading)
  BY SameCommand
<1> QED BY <1>1 DEF Seen, Skipped

\* A step to the next entry, from one that is skipped or has its partition.
LEMMA SeenNext ==
  ASSUME IInv, Seen, Upgrading, NextEntry, UNCHANGED <<cmd, lb, result>>, result = "none",
         Skipped(Current) \/ entry \in ToPartition
  PROVE  Seen'
<1>1. Entries' = Entries /\ ToPartition' = ToPartition
  BY SameCommand
<1>2. entry' = entry + 1
  BY DEF NextEntry
<1>3. SUFFICES ASSUME NEW i \in DOMAIN Entries, i < entry'
               PROVE  Skipped(Entries[i]) \/ i \in ToPartition
  BY <1>1 DEF Seen, Skipped
<1>4. i \in Nat /\ entry \in Nat
  BY UpgradeImage DEF IInv, Typed, TypeOK
<1>5. CASE i < entry
  BY <1>5 DEF Seen
<1>6. CASE i = entry
  BY <1>6 DEF Current
<1> QED BY <1>2, <1>3, <1>4, <1>5, <1>6

LEMMA NextSeen == IInv /\ Seen /\ [Next]_vars => Seen'
<1> SUFFICES ASSUME IInv, Seen, [Next]_vars PROVE Seen'
  OBVIOUS
<1>1. CASE Unopened \/ Unreadable \/ UnknownSize
  <2>1. lb \in Known
    BY DEF IInv, Typed
  <2>2. UNCHANGED <<cmd, lb, entry>> /\ result' = "Error"
    BY <1>1, <2>1 DEF Unopened, Unreadable, UnknownSize, Return
  <2> QED BY <2>2, SeenStays
<1>2. CASE StartRead
  <2>1. UNCHANGED <<cmd, lb, entry>> /\ (result' = result \/ result' = "NotFound")
    BY <1>2 DEF StartRead, Return
  <2> QED BY <2>1, SeenStays
<1>3. CASE ReadPartition \/ WritePartition
  <2>1. pc \in {"read", "write"} /\ cmd' = cmd
    BY <1>3 DEF ReadPartition, WritePartition
  <2>2. ~Upgrading
    BY <2>1 DEF IInv, Control, Upgrading
  <2>3. ~Upgrading'
    BY <2>1, <2>2 DEF Upgrading
  <2> QED BY <2>3 DEF Seen
<1>4. CASE StartWrite
  <2>1. /\ UNCHANGED <<cmd, lb, entry>>
        /\ result' = result \/ result' = "NotFound" \/ result' = "InputTooLarge"
    BY <1>4 DEF StartWrite, Return
  <2> QED BY <2>1, SeenStays
<1>5. CASE StartUpgrade
  BY <1>5, SeenStays DEF StartUpgrade
<1>6. CASE Entry
  <2>1. pc = "entry" /\ UNCHANGED <<cmd, lb>>
    BY <1>6 DEF Entry
  <2>2. Upgrading /\ result = "none"
    BY <2>1 DEF IInv, Control
  <2>3. CASE entry > Len(Entries)
    <3>1. entry' = entry /\ Entries' = Entries /\ ToPartition' = ToPartition
      BY <1>6, <2>1, <2>3, SameCommand DEF Entry
    <3> QED BY <2>2, <2>3, <3>1 DEF Seen, Skipped
  <2>4. CASE ~ (entry > Len(Entries)) /\ Skipped(Current)
    <3>1. NextEntry /\ result' = result
      BY <1>6, <2>4 DEF Entry
    <3> QED BY <2>1, <2>2, <2>4, <3>1, SeenNext
  <2>5. CASE ~ (entry > Len(Entries)) /\ ~Skipped(Current)
    <3>1. /\ entry' = entry
          /\ result' = result \/ result' # "Ok"
      BY <1>6, <2>5 DEF Entry, Return
    <3> QED BY <2>1, <3>1, SeenStays
  <2> QED BY <2>3, <2>4, <2>5
<1>7. CASE Copy
  <2>1. pc = "copy" /\ UNCHANGED <<cmd, lb>>
    BY <1>7 DEF Copy
  <2>2. Upgrading /\ result = "none" /\ entry \in ToPartition
    BY <2>1 DEF IInv, Control, Place, Moving
  <2>3. CASE copied = CopyLen /\ chunk = 0
    <3>1. NextEntry /\ result' = result
      BY <1>7, <2>3 DEF Copy
    <3> QED BY <2>1, <2>2, <3>1, SeenNext
  <2>4. CASE ~ (copied = CopyLen /\ chunk = 0)
    <3>1. entry' = entry /\ (result' = result \/ result' = "Io")
      BY <1>7, <2>4 DEF Copy, Return
    <3> QED BY <2>1, <3>1, SeenStays
  <2> QED BY <2>3, <2>4
<1>8. CASE Chunk
  <2>1. pc = "chunk" /\ UNCHANGED <<cmd, lb>>
    BY <1>8 DEF Chunk
  <2>2. Upgrading /\ result = "none" /\ entry \in ToPartition
    BY <2>1 DEF IInv, Control, Place, Moving
  <2>3. CASE NextEntry /\ result' = result
    BY <2>1, <2>2, <2>3, SeenNext
  <2>4. CASE ~ (NextEntry /\ result' = result)
    <3>1. entry' = entry /\ (result' = result \/ result' = "Io" \/ result' = "UnknownSparseChunkType")
      BY <1>8, <2>4 DEF Chunk, Return, SeekTo
    <3> QED BY <2>1, <3>1, SeenStays
  <2> QED BY <2>3, <2>4
<1>9. CASE UNCHANGED vars
  BY <1>9, SeenStays DEF vars
<1> QED BY <1>1, <1>2, <1>3, <1>4, <1>5, <1>6, <1>7, <1>8, <1>9 DEF Next

\* An upgrade that returns Ok has written every entry it does not skip, each
\* to a partition it had, or has changed nothing, where the block size is one
\* it does not know: no size, no list of entries and no way to fail makes it
\* forget an entry or stop between the two.
THEOREM UpgradeAllOrNothing == Spec => []OkIsAllOrNothing
<1>1. Init => (IInv /\ Seen) \/ Untouched
  <2> SUFFICES ASSUME Init, lb \in Known PROVE IInv /\ Seen
    BY InitUntouched
  <2>1. IInv
    BY InitIInv
  <2>2. Seen
    <3> SUFFICES ASSUME Upgrading, NEW i \in DOMAIN Entries, i < entry PROVE FALSE
      BY DEF Seen, Init
    <3>1. i \in Nat \ {0}
      BY <2>1, UpgradeImage DEF IInv
    <3> QED BY <3>1 DEF Init
  <2> QED BY <2>1, <2>2
<1>2. ((IInv /\ Seen) \/ Untouched) /\ [Next]_vars => ((IInv /\ Seen) \/ Untouched)'
  BY NextIInv, NextSeen, NextUntouched
<1>3. IInv /\ Seen => OkIsAllOrNothing
  <2> SUFFICES ASSUME IInv, Seen, Upgrading, Apart, result = "Ok", NEW i \in DOMAIN Entries
               PROVE  Skipped(Entries[i]) \/ (i \in ToPartition /\ Holds(i))
    BY DEF OkIsAllOrNothing, IInv, Typed
  <2>1. i < entry
    <3>1. entry > Len(Entries)
      BY DEF Seen
    <3> QED BY <3>1, UpgradeImage DEF IInv, Typed, TypeOK
  <2>2. Skipped(Entries[i]) \/ i \in ToPartition
    BY <2>1 DEF Seen
  <2>3. i \in ToPartition => Holds(i)
    BY <2>1 DEF IInv, EntriesInOrder
  <2> QED BY <2>2, <2>3
<1>4. Untouched => OkIsAllOrNothing
  BY DEF OkIsAllOrNothing, Untouched
<1> QED BY <1>1, <1>2, <1>3, <1>4, PTL DEF Spec

\* No skip of an upgrade is refused by the block device, which refuses a seek
\* to its end: every well-formed image that passed the check of its size ends
\* with its partition, and partitions end in front of the device.
THEOREM SkipsAccepted == Spec => SkipIsNeverRefused
<1>1. ASSUME IInv \/ Untouched, [Next]_vars
      PROVE  [pc = "chunk" => result' # "Io"]_vars
  <2> SUFFICES ASSUME Next, pc = "chunk" PROVE result' # "Io"
    BY <1>1
  <2>1. IInv /\ result = "none"
    BY <1>1 DEF Untouched, IInv, Control
  <2>2. CASE Unreadable
    BY <2>2 DEF Unreadable, Return
  <2>3. CASE Chunk
    <3>1. CASE chunk <= Len(Current.chunks) /\ result' # result
      <4>1. pos + ChunkLen(Current, chunk) < DiskSectors
        BY <2>1, <3>1, SkipStaysInside
      <4>2. \/ SeekTo(pos + ChunkLen(Current, chunk))
            \/ result' = "UnknownSparseChunkType"
        BY <2>3, <3>1 DEF Chunk, Return
      <4> QED BY <2>1, <4>1, <4>2 DEF SeekTo
    <3>2. CASE result' = result
      BY <2>1, <3>2
    <3>3. CASE ~ (chunk <= Len(Current.chunks))
      <4>1. result' = result
        BY <2>3, <3>3 DEF Chunk
      <4> QED BY <2>1, <4>1
    <3> QED BY <3>1, <3>2, <3>3
  <2> QED BY <2>2, <2>3
      DEF Next, Unopened, UnknownSize, StartRead, ReadPartition, StartWrite, WritePartition,
          StartUpgrade, Entry, Copy
<1> QED BY <1>1, AlwaysIInv, PTL DEF Spec, SkipIsNeverRefused

=============================================================================
