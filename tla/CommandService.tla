--------------------------- MODULE CommandService ---------------------------
(***************************************************************************)
(* What a caller of the command transport may rely on.  Commands are       *)
(* issued one at a time.  The device carries out each command at most once *)
(* and never out of order, but it may do so late: after the host was told  *)
(* of an error, even while a later command runs.  Success is reported only *)
(* for a command that was carried out, so nothing issued before a success  *)
(* can still happen after it.  The one exception is a command whose tag    *)
(* collided with one still in flight, and the service cannot rule it out.  *)
(***************************************************************************)
EXTENDS Naturals

VARIABLES
  issued,    \* number of commands issued; the last one is command `issued`
  running,   \* the last command has not returned
  result,    \* what the last command returned, "none" while it runs
  done,      \* the commands the device has carried out
  collided   \* the last command drew a tag that was still in flight

vars == <<issued, running, result, done, collided>>

Failures == {"Usb", "InvalidCsw", "TagMismatch", "CommandFailed"}

Init ==
  /\ issued = 0 /\ ~running /\ result = "none" /\ done = {} /\ ~collided

Issue ==
  /\ ~running
  /\ issued' = issued + 1
  /\ running' = TRUE
  /\ result' = "none"
  /\ collided' \in BOOLEAN
  /\ UNCHANGED done

Execute(i) ==
  /\ \A j \in done : j < i
  /\ done' = done \cup {i}
  /\ UNCHANGED <<issued, running, result, collided>>

ReturnOk ==
  /\ running
  /\ issued \in done \/ collided
  /\ running' = FALSE
  /\ result' = "Ok"
  /\ UNCHANGED <<issued, done, collided>>

ReturnError ==
  /\ running
  /\ running' = FALSE
  /\ result' \in Failures
  /\ UNCHANGED <<issued, done, collided>>

Next == Issue \/ (\E i \in 1..issued : Execute(i)) \/ ReturnOk \/ ReturnError

Spec == Init /\ [][Next]_vars
=============================================================================
