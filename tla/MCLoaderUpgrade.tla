--------------------------- MODULE MCLoaderUpgrade ---------------------------
(* Small instance of LoaderUpgrade.  Areas are aligned to two sectors, and *)
(* a FlashHead has one; payloads have a few, so that the blocks of two     *)
(* images divide the same region in different places.                      *)
EXTENDS LoaderUpgrade

Sectors(of, n) == [k \in 1..n |-> [kind |-> "data", of |-> of, at |-> k]]

\* A FlashHead as docs/rkns-header-format.md has it.
RknsHead(ddr, loader) ==
  <<[kind |-> "RKNS",
     images |-> <<[offset |-> Padded(1), count |-> Len(ddr), hash |-> ddr],
                  [offset |-> Padded(1) + Padded(Len(ddr)), count |-> Len(loader),
                   hash |-> loader]>>]>>

Old(ddr, loader) == [FlashData |-> ddr, FlashBoot |-> loader]
New(ddr, loader) ==
  [FlashData |-> ddr, FlashBoot |-> loader, FlashHead |-> RknsHead(ddr, loader)]
MCPayload ==
  [shipped  |-> Old(Sectors("s ddr", 3), Sectors("s spl", 1)),
   old      |-> Old(Sectors("o ddr", 1), Sectors("o spl", 4)),
   new      |-> New(Sectors("n ddr", 2), Sectors("n spl", 1)),
   huge     |-> Old(Sectors("h ddr", 4), Sectors("h spl", 4)),
   headless |-> [FlashData |-> Sectors("x ddr", 1)],
   cut      |-> New(Sectors("c ddr", 2), Sectors("c spl", 1))]

\* A header of two, then the table, one for each entry, then the entries.
LoaderFile(names, payload, rc4, lost) ==
  LET n == Len(names)
      size(i) == Len(payload[names[i]])
      offset[i \in 1..n + 1] ==
        IF i = 1 THEN 2 + n ELSE offset[i - 1] + size(i - 1)
      table(at, entries) ==
        [offset |-> at, count |-> Len(entries), size |-> 1, entries |-> entries]
  IN  [len |-> offset[n + 1] - lost, tag |-> "LDR", rc4 |-> rc4,
       t471 |-> table(2, <<>>), t472 |-> table(2, <<>>),
       loader |-> table(2, [i \in 1..n |->
         [name |-> names[i], offset |-> offset[i], size |-> size(i)]])]

DataBoot == <<"FlashData", "FlashBoot">>
BootDataHead == <<"FlashBoot", "FlashData", "FlashHead">>
MCFile ==
  [shipped  |-> LoaderFile(DataBoot, MCPayload.shipped, FALSE, 0),
   old      |-> LoaderFile(DataBoot, MCPayload.old, TRUE, 0),
   new      |-> LoaderFile(BootDataHead, MCPayload.new, FALSE, 0),
   huge     |-> LoaderFile(DataBoot, MCPayload.huge, FALSE, 0),
   headless |-> LoaderFile(<<"FlashData">>, MCPayload.headless, FALSE, 0),
   cut      |-> LoaderFile(BootDataHead, MCPayload.cut, FALSE, 1)]
MCImages == DOMAIN MCFile
=============================================================================
