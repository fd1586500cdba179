--------------------------- MODULE DeliveryPromise ---------------------------
(***************************************************************************)
(* What the notification pipeline promises its callers, without batches,   *)
(* retries or crashes: a notification that was enqueued is delivered any   *)
(* number of times while it is queued, is acknowledged only after it has   *)
(* been delivered, and is never delivered again once it is acknowledged.   *)
(***************************************************************************)
EXTENDS Naturals

CONSTANT Keys   \* dedupe keys

VARIABLES
  status,     \* of each notification: none, queued, sent or failed
  delivered   \* how often each one has reached its chat

Init ==
  /\ status = [k \in Keys |-> "none"]
  /\ delivered = [k \in Keys |-> 0]

Become(k, from, to) ==
  /\ status[k] = from
  /\ status' = [status EXCEPT ![k] = to]
  /\ UNCHANGED delivered

\* The message reaches the chat.
Deliver(k) ==
  /\ status[k] = "queued"
  /\ delivered' = [delivered EXCEPT ![k] = @ + 1]
  /\ UNCHANGED status

Next ==
  \E k \in Keys :
    \/ Become(k, "none", "queued")
    \/ Become(k, "failed", "queued")
    \/ Become(k, "queued", "failed")
    \/ delivered[k] > 0 /\ Become(k, "queued", "sent")
    \/ Deliver(k)

Spec == Init /\ [][Next]_<<status, delivered>>

=============================================================================
