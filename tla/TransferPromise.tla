-------------------------- MODULE TransferPromise --------------------------
(***************************************************************************)
(* What a transfer of a shard promises, with no sockets, frames, timeouts  *)
(* or reconnections: the shard reaches its receiver from its first unit on *)
(* and in order, nothing that arrived is stored again or taken back, and   *)
(* the transfer is confirmed (to the backend for an upload, by END for a   *)
(* download) only when all of it is there.  A transfer that cannot be      *)
(* finished is abandoned, and then stays as it is.                         *)
(***************************************************************************)
EXTENDS Naturals

CONSTANT ShardLength

VARIABLES stored,  \* how many units, from the first on, are stored
          status   \* "open", "confirmed" or "abandoned"

vars == <<stored, status>>

Init == stored = 0 /\ status = "open"

Grow ==
  /\ status = "open"
  /\ stored' \in stored + 1 .. ShardLength
  /\ UNCHANGED status

Confirm ==
  /\ status = "open"
  /\ stored = ShardLength
  /\ status' = "confirmed"
  /\ UNCHANGED stored

Abandon ==
  /\ status = "open"
  /\ status' = "abandoned"
  /\ UNCHANGED stored

Next == Grow \/ Confirm \/ Abandon

Spec == Init /\ [][Next]_vars
=============================================================================
