---------------------------- MODULE MCBlockDevice ----------------------------
(* Small instance of BlockDevice: every request of up to seven bytes at    *)
(* every byte position of a device of three three-byte sectors, so that a  *)
(* request can have a head, a middle and a tail, or lie inside a sector.   *)
EXTENDS BlockDevice
=============================================================================
