-------------------------- MODULE OrderedDelivery --------------------------
(***************************************************************************)
(* What the writer promises the rest of the spawner.  Events are numbered  *)
(* in the order in which the channel accepted them.  The backend applies   *)
(* them at least once; an event is applied for the first time only         *)
(* together with, or after, every earlier event, save those that were      *)
(* dropped because they could not be encoded; a dropped event is never     *)
(* applied.                                                                *)
(***************************************************************************)
EXTENDS Naturals

VARIABLES
  accepted,  \* number of events accepted so far
  applied,   \* events the backend has applied at least once
  dropped    \* events given up: no key, or a chat id that is not a UUID

Init == accepted = 0 /\ applied = {} /\ dropped = {}

Accept ==
  /\ accepted' = accepted + 1
  /\ UNCHANGED <<applied, dropped>>

Drop ==
  /\ \E e \in (1..accepted) \ (applied \cup dropped) : dropped' = dropped \cup {e}
  /\ UNCHANGED <<accepted, applied>>

Deliver ==
  /\ \E b \in SUBSET ((1..accepted) \ dropped) :
       /\ \A e \in b : \A f \in 1..e : f \in applied \cup dropped \cup b
       /\ applied' = applied \cup b
  /\ UNCHANGED <<accepted, dropped>>

Next == Accept \/ Drop \/ Deliver

Spec == Init /\ [][Next]_<<accepted, applied, dropped>>

=============================================================================
