-------------------------- MODULE MCDeviceSelection --------------------------
(* Small instance of DeviceSelection alone, for what its documents say and *)
(* it does not do: a board in Maskrom and in Loader mode, and a device of  *)
(* another vendor.                                                         *)
EXTENDS DeviceSelection

At(board, addr, ids, bit) ==
  [board |-> board, bus |-> 1, addr |-> addr, ids |-> ids, bit |-> bit]
MCDevices ==
  {At("a", 1, "listed", 0), At("a", 2, "listed", 1), At("c", 3, "foreign", 0)}
MCFilters == {[bus |-> 0, addr |-> 0], [bus |-> 1, addr |-> 2]}
=============================================================================
