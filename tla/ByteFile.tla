------------------------------ MODULE ByteFile ------------------------------
(***************************************************************************)
(* What std::io::{Read, Write, Seek} promise the users of a block device   *)
(* (the gpt crate, std::io::copy, the sparse writer): a position and an    *)
(* array of bytes.  A write puts its bytes in place from the first on and  *)
(* nothing anywhere else; if it fails, some first part is in place and the *)
(* position has not moved; if it succeeds, all of it is, and the position  *)
(* is behind it.                                                           *)
(***************************************************************************)
EXTENDS ByteStore

CONSTANTS
  Length,       \* bytes of the file
  MaxRequest    \* bound on the bytes of a request

VARIABLES
  pos,       \* the position
  disk,      \* the bytes of the file
  req,       \* the running or last request: id, operation, length
  running,   \* the request has not returned
  outcome,   \* "none" while it runs, then "Ok" or "Error"
  base,      \* the bytes of the file when the request began
  placed,    \* bytes of a write that are in place
  output     \* the bytes a read returned

vars == <<pos, disk, req, running, outcome, base, placed, output>>

NoRequest == [id |-> 0, op |-> "none", len |-> 0]

Init ==
  /\ pos = 0 /\ disk = InitialStorage(Length) /\ base = disk
  /\ req = NoRequest /\ ~running /\ outcome = "none"
  /\ placed = 0 /\ output = <<>>

Request(op, n) ==
  /\ ~running
  /\ req' = [id |-> req.id + 1, op |-> op, len |-> n]
  /\ running' = TRUE /\ outcome' = "none"
  /\ base' = disk /\ placed' = 0 /\ output' = <<>>
  /\ UNCHANGED <<pos, disk>>

\* The first k bytes of a write are in place; a read changes nothing.
PutUpTo(k) ==
  /\ k \in placed..(IF req.op = "write" THEN req.len ELSE 0)
  /\ placed' = k
  /\ disk' = Overlay(base, pos, CallData(req.id, req.len), k)

Place ==
  /\ running
  /\ \E k \in 0..MaxRequest : PutUpTo(k)
  /\ UNCHANGED <<pos, req, running, outcome, base, output>>

Succeed ==
  /\ running
  /\ pos + req.len <= Length
  /\ PutUpTo(IF req.op = "write" THEN req.len ELSE 0)
  /\ output' = IF req.op = "read" THEN Slice(disk, pos, req.len) ELSE <<>>
  /\ pos' = pos + req.len
  /\ running' = FALSE /\ outcome' = "Ok"
  /\ UNCHANGED <<req, base>>

Fail ==
  /\ running
  /\ \E k \in 0..MaxRequest : PutUpTo(k)
  /\ running' = FALSE /\ outcome' = "Error"
  /\ UNCHANGED <<pos, req, base, output>>

\* A request that needs nothing of the file returns at once: an empty read
\* or write, or one that is refused before anything is done.
Immediate(op, n, o) ==
  /\ ~running
  /\ o = "Ok" => n = 0
  /\ req' = [id |-> req.id + 1, op |-> op, len |-> n]
  /\ outcome' = o
  /\ base' = disk /\ placed' = 0 /\ output' = <<>>
  /\ UNCHANGED <<pos, disk, running>>

Seek ==
  /\ ~running
  /\ pos' \in Bytes(Length)
  /\ UNCHANGED <<disk, req, running, outcome, base, placed, output>>

Next ==
  \/ \E op \in {"read", "write"}, n \in 0..MaxRequest :
       Request(op, n) \/ Immediate(op, n, "Ok") \/ Immediate(op, n, "Error")
  \/ Place \/ Succeed \/ Fail \/ Seek

Spec == Init /\ [][Next]_vars
=============================================================================
