------------------------------- MODULE Writer -------------------------------
(***************************************************************************)
(* The writer task (writer.rs): it drains one bounded channel of events    *)
(* into the backend's /api/writes endpoint, in batches, each retried until *)
(* the backend answers 2xx.                                                *)
(*                                                                         *)
(* An event is its number in the order of acceptance.  The network and the *)
(* backend are external: a request is applied as one transaction or not at *)
(* all; its answer may be lost; and a request the client has timed out on  *)
(* may still be applied later.                                             *)
(***************************************************************************)
EXTENDS Naturals, Sequences, FiniteSets

CONSTANTS
  ChannelCap,  \* slots of the event channel (1024)
  BatchMax,    \* MAX_OPS_PER_BATCH (32)
  MaxEvents,   \* bound: events offered in a behaviour
  MaxLate      \* bound: requests the client gave up on that may still be applied

ASSUME WriterAssumption ==
  /\ ChannelCap \in Nat \ {0} /\ BatchMax \in Nat \ {0}
  /\ MaxEvents \in Nat /\ MaxLate \in Nat

VARIABLES
  accepted,  \* number of events the channel has accepted
  channel,   \* the channel
  hand,      \* the event received and not queued yet, 0 if none
  pending,   \* the task's deque of encoded operations
  counter,   \* pending_counter, read by is_idle in the main task
  phase,     \* where the task is
  late,      \* requests given up on that the backend may still apply
  applied,   \* events the backend has applied at least once
  dropped,   \* events encode_event turned down
  column     \* the event whose write the backend made last, 0 if none

vars == <<accepted, channel, hand, pending, counter, phase, late, applied,
          dropped, column>>
task == <<hand, pending, counter, phase>>
backend == <<late, applied, column>>

Elements(s) == {s[i] : i \in 1..Len(s)}

-----------------------------------------------------------------------------
(* The producers: main loop, heartbeat, importer, hermes socket            *)

\* tx.send, which waits for a slot.
Produce ==
  /\ accepted < MaxEvents /\ Len(channel) < ChannelCap
  /\ accepted' = accepted + 1
  /\ channel' = Append(channel, accepted + 1)
  /\ UNCHANGED <<task, backend, dropped>>

\* Writer::is_idle
IsIdle == Len(channel) = 0 /\ counter = 0

-----------------------------------------------------------------------------
(* The writer task                                                         *)

\* An event leaves the channel; from here to the end of enqueue neither the
\* channel nor the counter shows it.
Take ==
  /\ hand = 0 /\ channel # <<>>
  /\ hand' = Head(channel) /\ channel' = Tail(channel)
  /\ UNCHANGED <<accepted, pending, counter, backend, dropped>>

\* recv, when there is nothing left to send.
Receive ==
  /\ phase = "idle" /\ pending = <<>>
  /\ Take /\ phase' = "fill"

\* Mutant: the loop waits for a new event before it retries.
ResumeOnReceive ==
  /\ phase = "idle" /\ pending # <<>>
  /\ Take /\ phase' = "fill"

\* The top of the loop with operations left from a failed batch.
Resume ==
  /\ phase = "idle" /\ pending # <<>>
  /\ phase' = "fill"
  /\ UNCHANGED <<accepted, channel, hand, pending, counter, backend, dropped>>

\* Mutant: a batch of any size.
TryReceiveUnbounded ==
  /\ phase = "fill"
  /\ Take /\ UNCHANGED phase

\* try_recv, while there is room in the batch.
TryReceive ==
  /\ phase = "fill" /\ Len(pending) < BatchMax
  /\ Take /\ UNCHANGED phase

\* Mutant: the counter is not told of a new operation.
EnqueueUncounted ==
  /\ hand # 0
  /\ pending' = Append(pending, hand)
  /\ hand' = 0
  /\ UNCHANGED <<accepted, channel, counter, phase, backend, dropped>>

\* encode_event succeeded: the operation is queued and counted.
Enqueue ==
  /\ hand # 0
  /\ pending' = Append(pending, hand) /\ counter' = counter + 1
  /\ hand' = 0
  /\ UNCHANGED <<accepted, channel, phase, backend, dropped>>

\* encode_event had no key for the user, or no UUID.
Discard ==
  /\ hand # 0
  /\ dropped' = dropped \cup {hand}
  /\ hand' = 0
  /\ UNCHANGED <<accepted, channel, pending, counter, phase, backend>>

\* The batch is full or the channel empty.  A batch holds all that is pending,
\* which never exceeds BatchMax; it is empty when the one event received was
\* discarded.
Post ==
  /\ phase = "fill" /\ hand = 0
  /\ Len(pending) = BatchMax \/ channel = <<>>
  /\ phase' = "post"
  /\ UNCHANGED <<accepted, channel, hand, pending, counter, backend, dropped>>

\* The backend applies one request.
Apply(batch) ==
  /\ applied' = applied \cup Elements(batch)
  /\ column' = IF batch = <<>> THEN column ELSE batch[Len(batch)]

\* 2xx.
PostOk ==
  /\ phase = "post" /\ phase' = "acked"
  /\ Apply(pending)
  /\ UNCHANGED <<accepted, channel, hand, pending, counter, late, dropped>>

\* Mutant: a batch that failed is given up.
PostFailedDrops ==
  /\ phase = "post" /\ phase' = "backoff"
  /\ pending' = <<>> /\ counter' = 0
  /\ UNCHANGED <<accepted, channel, hand, backend, dropped>>

\* The answer is not 2xx, or none comes: no token, no connection, a rejection,
\* an answer lost after the backend applied the request, or a timeout of a
\* request that is still on its way.
PostFailed ==
  /\ phase = "post" /\ phase' = "backoff"
  /\ \/ UNCHANGED backend
     \/ Apply(pending) /\ UNCHANGED late
     \/ /\ Cardinality(late) < MaxLate /\ late' = late \cup {pending}
        /\ UNCHANGED <<applied, column>>
  /\ UNCHANGED <<accepted, channel, hand, pending, counter, dropped>>

\* Mutant: a batch is taken off the deque whatever the answer was.
AckAny ==
  /\ phase \in {"acked", "backoff"}
  /\ counter' = counter - Len(pending) /\ pending' = <<>>
  /\ phase' = "idle"
  /\ UNCHANGED <<accepted, channel, hand, backend, dropped>>

\* The batch is taken off the deque and off the counter.
Ack ==
  /\ phase = "acked"
  /\ counter' = counter - Len(pending) /\ pending' = <<>>
  /\ phase' = "idle"
  /\ UNCHANGED <<accepted, channel, hand, backend, dropped>>

\* Mutant: a retry moves the first operation behind the others.
RetryRotated ==
  /\ phase = "backoff" /\ phase' = "idle"
  /\ pending' = IF pending = <<>> THEN <<>> ELSE Append(Tail(pending), Head(pending))
  /\ UNCHANGED <<accepted, channel, hand, counter, backend, dropped>>

\* sleep(backoff) is over.
Retry ==
  /\ phase = "backoff" /\ phase' = "idle"
  /\ UNCHANGED <<accepted, channel, hand, pending, counter, backend, dropped>>

\* A request the client gave up on arrives, in any order with the others, or is
\* lost.  Equal requests are one element, which may stay for the next of them.
LateRequest ==
  /\ \E b \in late :
       \/ Apply(b) /\ late' \in {late, late \ {b}}
       \/ late' = late \ {b} /\ UNCHANGED <<applied, column>>
  /\ UNCHANGED <<accepted, channel, task, dropped>>

-----------------------------------------------------------------------------
Init ==
  /\ accepted = 0 /\ channel = <<>>
  /\ hand = 0 /\ pending = <<>> /\ counter = 0 /\ phase = "idle"
  /\ late = {} /\ applied = {} /\ dropped = {} /\ column = 0

TaskStep ==
  \/ Receive \/ Resume \/ TryReceive \/ Enqueue \/ Discard \/ Post \/ Ack \/ Retry

Next == Produce \/ TaskStep \/ PostOk \/ PostFailed \/ LateRequest

Spec == Init /\ [][Next]_vars

\* The task runs whenever it can, every request ends, and the backend does not
\* refuse one batch for ever: a batch it always rejects is never dropped, and
\* holds up all that follow it.
FairSpec == Spec /\ WF_vars(TaskStep) /\ WF_vars(PostFailed) /\ SF_vars(PostOk)

-----------------------------------------------------------------------------
(* Properties                                                              *)

TypeOK ==
  /\ accepted \in Nat
  /\ channel \in Seq(Nat) /\ Len(channel) <= ChannelCap
  /\ hand \in Nat
  /\ pending \in Seq(Nat) /\ Len(pending) <= BatchMax
  /\ counter \in Nat
  /\ phase \in {"idle", "fill", "post", "acked", "backoff"}
  /\ late \in SUBSET Seq(Nat) /\ IsFiniteSet(late)
  /\ applied \in SUBSET Nat /\ dropped \in SUBSET Nat /\ column \in Nat

\* The writer implements an ordered at-least-once log.
Promise == INSTANCE OrderedDelivery WITH
  accepted <- accepted, applied <- applied, dropped <- dropped
ImplementsOrderedDelivery == Promise!Spec

\* "A network flap doesn't lose messages": an event that was accepted is in the
\* channel, in the task's hands, applied by the backend, or was dropped.
NothingLost ==
  \A e \in 1..accepted :
    \/ e \in applied \cup dropped
    \/ e = hand \/ e \in Elements(pending) \/ e \in Elements(channel)

\* A retry never turns a column back to an older value: when the backend's value
\* gets older, a request that the client had given up on put it there.
OnlyLateTurnsBack ==
  [][column' < column => \E b \in late : b # <<>> /\ column' = b[Len(b)]]_vars

\* is_idle, read by the main task at any moment, overlooks one event at most:
\* the one between the channel and the counter.
IdleOverlooksOne ==
  IsIdle => \A e \in 1..accepted : e \in applied \cup dropped \/ e = hand

\* Every accepted event is applied or dropped in the end.
Delivered ==
  \A e \in 1..MaxEvents : e <= accepted ~> e \in applied \cup dropped

=============================================================================
