------------------------------ MODULE ByteStore ------------------------------
(***************************************************************************)
(* Byte strings and storages, shared by the modules that move data.  Both  *)
(* are functions from offsets to byte values.  A byte value says where it  *)
(* came from, so that two bytes are equal only if the same call put them   *)
(* there from the same offset of its data.                                 *)
(***************************************************************************)
EXTENDS Integers

Bytes(n) == 0..n - 1

\* from: the number of a call, 0 for the initial content of the storage.
Byte(from, at) == [from |-> from, at |-> at]
Zero == Byte(-1, 0)
Blank == Byte(-2, 0)      \* an erased byte
Spoiled == Byte(-3, 0)    \* written from a spoiled data stage

CallData(id, n) == [k \in Bytes(n) |-> Byte(id, k)]
InitialStorage(n) == CallData(0, n)
Fill(v, n) == [k \in Bytes(n) |-> v]

\* n bytes of f from offset at.
Slice(f, at, n) == [k \in Bytes(n) |-> f[at + k]]

\* d with the first n bytes of f written at offset at.
Overlay(d, at, f, n) ==
  [b \in DOMAIN d |-> IF at <= b /\ b < at + n THEN f[b - at] ELSE d[b]]

Least(a, b) == IF a <= b THEN a ELSE b
=============================================================================
