---------------------------- MODULE MCLbaTransfer ----------------------------
(* Small instance of LbaTransfer, sizes in the .cfg files: at most three   *)
(* full sectors and one partial, so a call has two chunks and a tail, on a *)
(* device that fills the whole sector space.                              *)
EXTENDS LbaTransfer
=============================================================================
