--------------------------- MODULE StartupKeyQueue ---------------------------
(***************************************************************************)
(* The queue in which the text service keeps the keys it accepted while    *)
(* the broker was not ready (startup_key_queue.h).  A queue is a record:   *)
(* the keys, and the generation an asynchronous edit must name to take     *)
(* them.  Every operation of the class is an operator on such a record.    *)
(***************************************************************************)
EXTENDS Naturals, Sequences

CONSTANT Capacity          \* kMaximumKeys

ASSUME CapacityAssumption == Capacity \in Nat \ {0}

NewQueue == [keys |-> <<>>, gen |-> 1]

(* Wrong on purpose: the queue takes one key more than its bound. *)
IsFullTooLate(q) == Len(q.keys) > Capacity

IsFull(q) == Len(q.keys) >= Capacity

(* Push into a queue that is not full, and a run of pushes that stops when it is. *)
Push(q, key) == [q EXCEPT !.keys = Append(@, key)]
PushAll(q, keys) ==
  LET all == q.keys \o keys
  IN  [q EXCEPT !.keys = IF Len(all) <= Capacity THEN all ELSE SubSeq(all, 1, Capacity)]

(* What Take leaves once it has handed every key out. *)
Taken(q) == [q EXCEPT !.keys = <<>>]

(* Cancel drops the keys and outdates every edit requested for them. *)
Cancelled(q) == [keys |-> <<>>, gen |-> q.gen + 1]
==============================================================================
