-------------------------- MODULE MCCbwTransaction --------------------------
(* Small instance of CbwTransaction: one command of each shape the library *)
(* builds.                                                                 *)
EXTENDS CbwTransaction, TLC

CONSTANTS t1, t2, t3

WriteLba(n) == [op |-> "WRITE_LBA", out |-> n, min |-> 0, buf |-> 0]
ReadLba(n) ==
  [op |-> "READ_LBA", out |-> 0, min |-> n * MaxPacket, buf |-> n * MaxPacket]
EraseLba == [op |-> "ERASE_LBA", out |-> 0, min |-> 0, buf |-> 0]
ReadCapability == [op |-> "READ_CAPABILITY", out |-> 0, min |-> 8, buf |-> 8]
ReadFlashInfo ==
  [op |-> "READ_FLASH_INFO", out |-> 0, min |-> 11, buf |-> 512]

MCCommands == {WriteLba(2), ReadLba(2), EraseLba, ReadFlashInfo, ReadCapability}
MCTags == {t1, t2, t3}
TagSymmetry == Permutations(MCTags)
=============================================================================
