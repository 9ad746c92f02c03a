----------------------------- MODULE AtLeastOnce -----------------------------
(***************************************************************************)
(* What a hop of the event path promises, with no mechanism: an item that  *)
(* was offered is delivered one or more times, and may be settled (marked  *)
(* as done, never to be delivered again) only after it was delivered.      *)
(* Outbox.tla (table -> stream) and StreamConsumer.tla (stream -> handler) *)
(* both implement this module.                                             *)
(***************************************************************************)

CONSTANT Items

VARIABLES offered,     \* items the producer has committed
          delivered,   \* items handed over at least once
          settled      \* items the hop will never hand over again

avars == <<offered, delivered, settled>>

AInit == offered = {} /\ delivered = {} /\ settled = {}

Offer(i) == /\ offered' = offered \cup {i}
            /\ UNCHANGED <<delivered, settled>>

\* A delivery may be a repetition, but never of a settled item.
Deliver(i) == /\ i \in offered \ settled
              /\ delivered' = delivered \cup {i}
              /\ UNCHANGED <<offered, settled>>

Settle(i) == /\ i \in delivered
             /\ settled' = settled \cup {i}
             /\ UNCHANGED <<offered, delivered>>

ANext == \E i \in Items : Offer(i) \/ Deliver(i) \/ Settle(i)

ASpec == AInit /\ [][ANext]_avars

(***************************************************************************)
(* What a client of the promise may rely on: nothing is settled unheard,   *)
(* nothing is heard that was not said.                                     *)
(***************************************************************************)
SettledWasDelivered == settled \subseteq delivered /\ delivered \subseteq offered
=============================================================================
