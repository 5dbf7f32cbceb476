--------------------------- MODULE MCBootDownload ---------------------------
(* Small instance of BootDownload.  Board a leaves Maskrom mode at its old *)
(* address or at another; b may turn up at the same address; c is no       *)
(* Rockchip device.                                                        *)
EXTENDS BootDownload

At(board, addr, ids, bit) ==
  [board |-> board, bus |-> 1, addr |-> addr, ids |-> ids, bit |-> bit]
MCDevices ==
  {At("a", 1, "listed", 0), At("a", 1, "listed", 1), At("a", 2, "listed", 1),
   At("b", 1, "msc", 0), At("c", 3, "foreign", 0)}
OneBoard == {At("a", 1, "listed", 0), At("a", 2, "listed", 1)}
MCFilters == {[bus |-> 0, addr |-> 0], [bus |-> 1, addr |-> 2]}
NoFilter == {[bus |-> 0, addr |-> 0]}

(* Headers of 2, entries of 1: an image of two 471 entries and one 472     *)
(* entry, whose requests take one chunk and a short one, or full chunks.   *)
MCEntry(name, offset, size) == [name |-> name, offset |-> offset, size |-> size]
MCTable(offset, entries) ==
  [offset |-> offset, count |-> Len(entries), size |-> 1, entries |-> entries]
Ddr == <<MCEntry("ddr", 6, 1), MCEntry("ddr2", 7, 2)>>
Plug472 == <<MCEntry("usbplug", 9, 1)>>
MCLoader(len, e471, e472) ==
  [len |-> len, tag |-> "LDR", rc4 |-> FALSE, t471 |-> MCTable(2, e471),
   t472 |-> MCTable(4, e472), loader |-> MCTable(5, <<>>)]
Pack(loader, md5) ==
  [len |-> 4 + loader.len + md5, tag |-> "RKFW", fwOffset |-> 2 + loader.len,
   fwSize |-> 2, bootOffset |-> 2, boot |-> loader]
Good == Pack(MCLoader(10, Ddr, Plug472), 1)
CutEntry == Pack(MCLoader(9, Ddr, Plug472), 1)    \* the last entry is not all there
CutTable == Pack(MCLoader(4, Ddr, Plug472), 1)    \* nor is a table
OneTable == Pack(MCLoader(10, Ddr, <<>>), 1)
NoMd5 == Pack(MCLoader(10, Ddr, Plug472), 0)
MCFirmwares == {Good, CutEntry, CutTable, OneTable, NoMd5}
MCParamSize == [w \in MCFirmwares |-> IF w = OneTable THEN NoParam ELSE 3]
=============================================================================
