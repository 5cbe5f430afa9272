---------------------------- MODULE Writer_proofs ----------------------------
(***************************************************************************)
(* Safety of Writer for every channel capacity, batch size and number of   *)
(* events: nothing is lost, is_idle overlooks one event at most, a retry   *)
(* never turns a column back, and the writer implements OrderedDelivery.   *)
(*                                                                         *)
(* The inductive invariant splits the accepted events: those after Taken   *)
(* are in the channel in order, the last one taken may be in the task's    *)
(* hand, and every other one is applied, dropped or pending.  A request    *)
(* that is still on its way rests only on events applied or dropped.       *)
(***************************************************************************)
EXTENDS Writer, SequenceTheorems, FiniteSetTheorems, TLAPS

Taken == accepted - Len(channel)

\* The events that the task took and that are no longer in its hand.
Handled == {e \in 1..Taken : e # hand}

ChannelInv ==
  /\ Len(channel) <= accepted
  /\ \A i \in 1..Len(channel) : channel[i] = Taken + i

HandInv ==
  /\ hand # 0 => hand = Taken /\ phase = "fill" /\ Len(pending) < BatchMax
  /\ counter = Len(pending)

CoverInv ==
  /\ Handled = applied \cup dropped \cup Elements(pending)
  /\ (applied \cup Elements(pending)) \cap dropped = {}
  /\ phase = "acked" => Elements(pending) \subseteq applied

\* A request on its way may be applied at any moment.
Ripe(b) ==
  /\ Elements(b) \subseteq Handled \ dropped
  /\ \A e \in Elements(b) : \A f \in 1..e : f \in applied \cup dropped \cup Elements(b)

LateInv == \A b \in late : Ripe(b)

\* The last operation pending is the newest of all that were ever sent.
LastInv ==
  /\ pending # <<>> =>
       /\ \A e \in applied \cup Elements(pending) : e <= pending[Len(pending)]
       /\ \A b \in late : \A e \in Elements(b) : e <= pending[Len(pending)]
  /\ column # 0 => column \in applied

IInv == TypeOK /\ ChannelInv /\ HandInv /\ CoverInv /\ LateInv /\ LastInv

-----------------------------------------------------------------------------
\* The empty sequence has no elements.
LEMMA ElementsEmpty == Elements(<<>>) = {}
BY DEF Elements

\* Appending adds one element.
LEMMA ElementsAppend ==
  ASSUME NEW s \in Seq(Nat), NEW e \in Nat
  PROVE  Elements(Append(s, e)) = Elements(s) \cup {e}
<1>1. /\ Len(Append(s, e)) = Len(s) + 1 /\ Append(s, e)[Len(s) + 1] = e
      /\ \A i \in 1..Len(s) : Append(s, e)[i] = s[i]
      /\ Len(s) \in Nat
  BY AppendProperties, LenProperties
<1>2. \A x \in Elements(s) \cup {e} : x \in Elements(Append(s, e))
  BY <1>1 DEF Elements
<1>3. \A x \in Elements(Append(s, e)) : x \in Elements(s) \cup {e}
  BY <1>1 DEF Elements
<1> QED
  BY <1>2, <1>3

\* The elements are numbers of events.
LEMMA ElementsNat ==
  ASSUME NEW s \in Seq(Nat)
  PROVE  Elements(s) \subseteq Nat
BY ElementOfSeq DEF Elements

\* The last element is one of the elements.
LEMMA LastElement ==
  ASSUME NEW s \in Seq(Nat), s # <<>>
  PROVE  s[Len(s)] \in Elements(s) /\ s[Len(s)] \in Nat
<1>1. Len(s) \in 1..Len(s)
  BY EmptySeq, LenProperties
<1> QED
  BY <1>1, ElementOfSeq DEF Elements

\* Init establishes the invariant.
LEMMA InitIInv == Init => IInv
<1> SUFFICES ASSUME Init PROVE IInv
  OBVIOUS
<1>1. TypeOK
  BY EmptySeq, FS_EmptySet, WriterAssumption DEF Init, TypeOK
<1>2. ChannelInv /\ HandInv /\ CoverInv /\ LateInv /\ LastInv
  BY ElementsEmpty DEF Init, ChannelInv, HandInv, CoverInv, LateInv, LastInv, Handled, Taken
<1> QED
  BY <1>1, <1>2 DEF IInv

-----------------------------------------------------------------------------
(* The steps, by what they do to the invariant                             *)

\* A step of the task's phase alone.
LEMMA PhaseStep ==
  ASSUME IInv, phase' \in {"idle", "fill", "post", "backoff"},
         hand # 0 => phase' = "fill",
         UNCHANGED <<accepted, channel, hand, pending, counter, backend, dropped>>
  PROVE  IInv'
<1> USE DEF IInv, backend
<1>1. TypeOK'
  BY DEF TypeOK
<1>2. ChannelInv' /\ HandInv' /\ CoverInv' /\ LateInv' /\ LastInv'
  BY DEF ChannelInv, HandInv, CoverInv, LateInv, LastInv, Handled, Taken, Ripe, Elements
<1> QED
  BY <1>1, <1>2

\* Sending an event keeps the invariant.
LEMMA ProduceStep ==
  ASSUME IInv, Produce
  PROVE  IInv'
<1> USE DEF IInv, Produce, task, backend
<1>1. /\ Len(channel') = Len(channel) + 1 /\ channel'[Len(channel) + 1] = accepted + 1
      /\ \A i \in 1..Len(channel) : channel'[i] = channel[i]
      /\ channel' \in Seq(Nat) /\ Len(channel) \in Nat
  BY AppendProperties, LenProperties DEF TypeOK
<1>2. TypeOK'
  BY <1>1, WriterAssumption DEF TypeOK
<1>3. Taken' = Taken
  BY <1>1 DEF Taken, TypeOK
<1>4. ChannelInv'
  <2>1. accepted + 1 = Taken + (Len(channel) + 1)
    BY <1>1 DEF Taken, TypeOK
  <2>2. \A i \in 1..Len(channel') : channel'[i] = Taken' + i
    BY <1>1, <1>3, <2>1 DEF ChannelInv
  <2> QED
    BY <1>1, <2>2 DEF ChannelInv, TypeOK
<1>5. Handled' = Handled
  BY <1>3 DEF Handled
<1>6. HandInv' /\ CoverInv' /\ LateInv' /\ LastInv'
  BY <1>3, <1>5 DEF HandInv, CoverInv, LateInv, LastInv, Ripe, Elements
<1> QED
  BY <1>2, <1>4, <1>6

\* So does taking the next one from the channel.
LEMMA TakeStep ==
  ASSUME IInv, Take, phase' = "fill", Len(pending) < BatchMax
  PROVE  IInv' /\ Handled' = Handled
<1> USE DEF IInv, Take, backend
<1>1. /\ Len(channel') = Len(channel) - 1 /\ Len(channel) \in Nat \ {0}
      /\ \A i \in 1..Len(channel) - 1 : channel'[i] = channel[i + 1]
      /\ channel' \in Seq(Nat) /\ hand' = channel[1] /\ hand' \in Nat
  BY HeadTailProperties, LenProperties, EmptySeq DEF TypeOK
<1>2. TypeOK'
  BY <1>1, WriterAssumption DEF TypeOK
<1>3. Taken \in Nat /\ Taken' = Taken + 1 /\ hand' = Taken + 1
  BY <1>1 DEF Taken, TypeOK, ChannelInv
<1>4. ChannelInv'
  BY <1>1, <1>3 DEF ChannelInv, TypeOK
<1>5. Handled' = Handled
  BY <1>3 DEF Handled
<1>6. HandInv'
  BY <1>3 DEF HandInv
<1>7. CoverInv' /\ LateInv' /\ LastInv'
  BY <1>5 DEF CoverInv, LateInv, LastInv, Ripe, Elements
<1> QED
  BY <1>2, <1>4, <1>5, <1>6, <1>7

\* What the hand holds is newer than all that was handled.
LEMMA HandNewest ==
  ASSUME IInv, hand # 0
  PROVE  hand = Taken /\ Taken \in Nat \ {0} /\ \A e \in Handled : e < hand
BY LenProperties DEF IInv, HandInv, Handled, Taken, TypeOK, ChannelInv

\* So does encoding it.
LEMMA EnqueueStep ==
  ASSUME IInv, Enqueue
  PROVE  IInv'
<1> USE DEF IInv, Enqueue, backend
<1>1. /\ Len(pending') = Len(pending) + 1 /\ pending'[Len(pending')] = hand
      /\ pending' \in Seq(Nat) /\ Len(pending) \in Nat
  BY AppendProperties, LenProperties DEF TypeOK
<1>2. Elements(pending') = Elements(pending) \cup {hand}
  BY ElementsAppend DEF TypeOK
<1>3. TypeOK'
  BY <1>1, WriterAssumption DEF TypeOK, HandInv
<1>4. Taken' = Taken /\ Handled' = Handled \cup {hand} /\ hand \notin Handled
  BY HandNewest DEF Taken, Handled, TypeOK
<1>5. ChannelInv'
  BY <1>4 DEF ChannelInv
<1>6. HandInv'
  BY <1>1 DEF HandInv, TypeOK
<1>7. CoverInv'
  BY <1>2, <1>4 DEF CoverInv, HandInv
<1>8. LateInv'
  BY <1>4 DEF LateInv, Ripe, Elements
<1>9. LastInv'
  <2>1. \A e \in Handled' : e \in Nat /\ e <= hand
    BY <1>4, HandNewest DEF Handled
  <2>2. applied \cup Elements(pending') \subseteq Handled'
    BY <1>7 DEF CoverInv
  <2>3. \A b \in late : Elements(b) \subseteq Handled'
    BY <1>4 DEF LateInv, Ripe
  <2> QED
    BY <1>1, <2>1, <2>2, <2>3 DEF LastInv, Elements
<1> QED
  BY <1>3, <1>5, <1>6, <1>7, <1>8, <1>9

\* So does turning it down.
LEMMA DiscardStep ==
  ASSUME IInv, Discard
  PROVE  IInv'
<1> USE DEF IInv, Discard, backend
<1>1. TypeOK'
  BY DEF TypeOK
<1>2. Taken' = Taken /\ Handled' = Handled \cup {hand} /\ hand \notin Handled
  BY HandNewest DEF Taken, Handled, TypeOK
<1>3. ChannelInv' /\ HandInv'
  BY <1>2 DEF ChannelInv, HandInv
<1>4. CoverInv'
  BY <1>2 DEF CoverInv, HandInv, Elements
<1>5. LateInv'
  BY <1>2 DEF LateInv, Ripe, Elements
<1>6. LastInv'
  BY DEF LastInv, Elements
<1> QED
  BY <1>1, <1>3, <1>4, <1>5, <1>6

\* So does dropping the batch that was acknowledged.
LEMMA AckStep ==
  ASSUME IInv, Ack
  PROVE  IInv'
<1> USE DEF IInv, Ack, backend
<1>1. pending' = <<>> /\ Len(pending') = 0 /\ Elements(pending') = {} /\ counter' = 0
  BY EmptySeq, LenProperties, ElementsEmpty DEF HandInv, TypeOK
<1>2. TypeOK'
  BY <1>1, EmptySeq, WriterAssumption DEF TypeOK
<1>3. Taken' = Taken /\ Handled' = Handled
  BY DEF Taken, Handled
<1>4. ChannelInv' /\ HandInv'
  BY <1>1, <1>3 DEF ChannelInv, HandInv
<1>5. CoverInv'
  BY <1>1, <1>3 DEF CoverInv
<1>6. LateInv' /\ LastInv'
  BY <1>1, <1>3 DEF LateInv, LastInv, Ripe, Elements
<1> QED
  BY <1>2, <1>4, <1>5, <1>6

\* What is pending is ripe once the hand is empty.
LEMMA PendingRipe ==
  ASSUME IInv, hand = 0
  PROVE  Ripe(pending) /\ Handled = 1..Taken
<1> USE DEF IInv
<1>1. Handled = 1..Taken
  BY DEF Handled
<1>2. Elements(pending) \subseteq Handled \ dropped
  BY DEF CoverInv
<1>3. \A e \in Elements(pending) : \A f \in 1..e : f \in Handled
  BY <1>1, <1>2, LenProperties DEF Taken, TypeOK
<1> QED
  BY <1>1, <1>2, <1>3 DEF Ripe, CoverInv

\* The backend applies a request that rests only on events it has.
LEMMA ApplyStep ==
  ASSUME IInv, NEW b \in Seq(Nat), Apply(b), Ripe(b),
         \/ b = pending
         \/ b \in late,
         late' \subseteq late,
         UNCHANGED <<accepted, channel, hand, pending, counter, dropped>>,
         phase' = phase \/ (hand = 0 /\ phase' = "acked" /\ b = pending)
                        \/ (hand = 0 /\ phase' = "backoff")
  PROVE  IInv'
<1> USE DEF IInv
<1>1. Elements(b) \subseteq Nat /\ (b # <<>> => b[Len(b)] \in Elements(b) /\ b[Len(b)] \in Nat)
  BY ElementsNat, LastElement
<1>2. TypeOK'
  BY <1>1, FS_Subset DEF TypeOK, Apply
<1>3. Taken' = Taken /\ Handled' = Handled
  BY DEF Taken, Handled
<1>4. ChannelInv' /\ HandInv'
  BY <1>3 DEF ChannelInv, HandInv
<1>5. CoverInv'
  BY <1>3 DEF CoverInv, Apply, Ripe, Elements
<1>6. LateInv'
  BY <1>3 DEF LateInv, Apply, Ripe, Elements
<1>7. LastInv'
  <2>1. column' # 0 => column' \in applied'
    BY <1>1 DEF LastInv, Apply
  <2>2. pending # <<>> => \A e \in Elements(b) : e <= pending[Len(pending)]
    BY DEF LastInv
  <2> QED
    BY <2>1, <2>2 DEF LastInv, Apply, Elements
<1> QED
  BY <1>2, <1>4, <1>5, <1>6, <1>7

\* The requests on their way change: one is given up on, one is lost.
LEMMA LateStep ==
  ASSUME IInv, late' \subseteq late \cup {pending},
         late' = late \cup {pending} => hand = 0 /\ Ripe(pending),
         late' # late \cup {pending} => late' \subseteq late,
         UNCHANGED <<accepted, channel, hand, pending, counter, dropped, applied, column>>,
         phase' = phase \/ (hand = 0 /\ phase' = "backoff")
  PROVE  IInv'
<1> USE DEF IInv
<1>1. TypeOK'
  BY FS_Subset, FS_AddElement DEF TypeOK
<1>2. Taken' = Taken /\ Handled' = Handled
  BY DEF Taken, Handled
<1>3. ChannelInv' /\ HandInv'
  BY <1>2 DEF ChannelInv, HandInv
<1>4. CoverInv'
  BY <1>2 DEF CoverInv, Elements
<1>5. LateInv'
  BY <1>2 DEF LateInv, Ripe, Elements
<1>6. LastInv'
  BY DEF LastInv, Elements
<1> QED
  BY <1>1, <1>3, <1>4, <1>5, <1>6

\* So does a request that is answered.
LEMMA PostOkStep ==
  ASSUME IInv, PostOk
  PROVE  IInv'
<1>1. hand = 0 /\ pending \in Seq(Nat)
  BY DEF IInv, HandInv, PostOk, TypeOK
<1> QED
  BY <1>1, PendingRipe, ApplyStep DEF PostOk

\* So does one that is rejected, lost or given up on.
LEMMA PostFailedStep ==
  ASSUME IInv, PostFailed
  PROVE  IInv'
<1>1. hand = 0 /\ pending \in Seq(Nat) /\ Ripe(pending)
  BY PendingRipe DEF IInv, HandInv, PostFailed, TypeOK
<1>2. CASE UNCHANGED backend
  BY <1>1, <1>2, PhaseStep DEF PostFailed
<1>3. CASE Apply(pending) /\ UNCHANGED late
  BY <1>1, <1>3, ApplyStep DEF PostFailed
<1>4. CASE late' = late \cup {pending} /\ UNCHANGED <<applied, column>>
  BY <1>1, <1>4, LateStep DEF PostFailed
<1> QED
  BY <1>2, <1>3, <1>4 DEF PostFailed

\* So does one that arrives after the task gave up on it.
LEMMA LateRequestStep ==
  ASSUME IInv, LateRequest
  PROVE  IInv'
<1>1. PICK b \in late : \/ Apply(b) /\ late' \in {late, late \ {b}}
                        \/ late' = late \ {b} /\ UNCHANGED <<applied, column>>
  BY DEF LateRequest
<1>2. b \in Seq(Nat) /\ Ripe(b)
  BY DEF IInv, TypeOK, LateInv
<1>3. CASE Apply(b) /\ late' \in {late, late \ {b}}
  BY <1>2, <1>3, ApplyStep DEF LateRequest, task
<1>4. CASE late' = late \ {b} /\ UNCHANGED <<applied, column>>
  <2>1. late' \subseteq late
    BY <1>4
  <2>2. late' # late \cup {pending}
    BY <1>4
  <2> QED
    BY <1>4, <2>1, <2>2, LateStep DEF LateRequest, task
<1> QED
  BY <1>1, <1>3, <1>4

\* Every step preserves the invariant.
LEMMA NextIInv ==
  ASSUME IInv, [Next]_vars
  PROVE  IInv'
<1>1. CASE Produce
  BY <1>1, ProduceStep
<1>2. CASE Receive
  <2>1. Len(pending) < BatchMax
    BY <1>2, EmptySeq, WriterAssumption DEF Receive
  <2> QED
    BY <1>2, <2>1, TakeStep DEF Receive
<1>3. CASE Resume
  BY <1>3, PhaseStep DEF Resume, IInv, HandInv
<1>4. CASE TryReceive
  BY <1>4, TakeStep DEF TryReceive
<1>5. CASE Enqueue
  BY <1>5, EnqueueStep
<1>6. CASE Discard
  BY <1>6, DiscardStep
<1>7. CASE Post
  BY <1>7, PhaseStep DEF Post
<1>8. CASE Ack
  BY <1>8, AckStep
<1>9. CASE Retry
  BY <1>9, PhaseStep DEF Retry, IInv, HandInv
<1>10. CASE PostOk
  BY <1>10, PostOkStep
<1>11. CASE PostFailed
  BY <1>11, PostFailedStep
<1>12. CASE LateRequest
  BY <1>12, LateRequestStep
<1>13. CASE UNCHANGED vars
  <2> USE <1>13 DEF vars, IInv
  <2>1. TypeOK' /\ ChannelInv' /\ HandInv'
    BY DEF TypeOK, ChannelInv, HandInv, Taken
  <2>2. CoverInv' /\ LateInv' /\ LastInv'
    BY DEF CoverInv, LateInv, LastInv, Handled, Taken, Ripe, Elements
  <2> QED
    BY <2>1, <2>2
<1> QED
  BY <1>1, <1>2, <1>3, <1>4, <1>5, <1>6, <1>7, <1>8, <1>9, <1>10, <1>11, <1>12, <1>13
     DEF Next, TaskStep

\* The invariant holds in every state.
LEMMA Invariance == Spec => []IInv
<1>1. IInv /\ [Next]_vars => IInv'
  BY NextIInv
<1> QED
  BY <1>1, InitIInv, PTL DEF Spec

-----------------------------------------------------------------------------
(* The properties                                                          *)

\* The channel never holds more than its slots and a request never more than
\* MAX_OPS_PER_BATCH operations.
THEOREM TypeCorrect == Spec => []TypeOK
BY Invariance, PTL DEF IInv

\* Every accepted event is somewhere.
LEMMA EventsCovered ==
  ASSUME IInv, NEW e \in 1..accepted
  PROVE  \/ e \in applied \cup dropped \cup Elements(pending)
         \/ e = hand
         \/ Len(channel) # 0 /\ e \in Elements(channel)
<1>1. Len(channel) \in Nat /\ Taken \in Nat /\ accepted = Taken + Len(channel)
  BY LenProperties DEF IInv, TypeOK, ChannelInv, Taken
<1>2. CASE e \in 1..Taken
  BY <1>2 DEF IInv, CoverInv, Handled
<1>3. CASE e \notin 1..Taken
  <2>1. e - Taken \in 1..Len(channel) /\ Taken + (e - Taken) = e
    BY <1>1, <1>3
  <2>2. channel[e - Taken] = e
    BY <2>1 DEF IInv, ChannelInv
  <2> QED
    BY <1>1, <2>1, <2>2 DEF Elements
<1> QED
  BY <1>2, <1>3

\* "A network flap doesn't lose messages": an accepted event stays with the
\* writer until the backend has it, unless it cannot be encoded.
THEOREM EventsKept == Spec => []NothingLost
<1>1. IInv => NothingLost
  BY EventsCovered DEF NothingLost
<1> QED
  BY <1>1, Invariance, PTL

\* is_idle overlooks one event at most, the one in the task's hands.
THEOREM IdleOverlooks == Spec => []IdleOverlooksOne
<1>1. IInv => IdleOverlooksOne
  <2> SUFFICES ASSUME IInv, IsIdle, NEW e \in 1..accepted
               PROVE  e \in applied \cup dropped \/ e = hand
    BY DEF IdleOverlooksOne
  <2>1. Len(pending) = 0 /\ pending \in Seq(Nat) /\ Len(channel) = 0
    BY DEF IInv, HandInv, IsIdle, TypeOK
  <2>2. Elements(pending) = {}
    BY <2>1 DEF Elements
  <2> QED
    BY <2>1, <2>2, EventsCovered
<1> QED
  BY <1>1, Invariance, PTL

\* When the backend's value gets older, a late request put it there.
THEOREM RetriesKeepOrder == Spec => OnlyLateTurnsBack
<1> DEFINE Blamed == column' < column => \E b \in late : b # <<>> /\ column' = b[Len(b)]
<1>1. ASSUME IInv, [Next]_vars
      PROVE  [Blamed]_vars
  <2> SUFFICES ASSUME column' < column
               PROVE  \E b \in late : b # <<>> /\ column' = b[Len(b)]
    OBVIOUS
  <2>1. column \in Nat
    BY <1>1 DEF IInv, TypeOK
  <2>2. column' # column
    BY <2>1
  <2>3. ASSUME Apply(pending) PROVE FALSE
    <3>1. pending # <<>> /\ column' = pending[Len(pending)]
      BY <2>2, <2>3 DEF Apply
    <3>2. column' \in Nat
      BY <1>1, <3>1, LastElement DEF IInv, TypeOK
    <3>3. column # 0
      BY <2>1, <3>2
    <3>4. column <= column'
      BY <1>1, <3>1, <3>3 DEF IInv, LastInv
    <3> QED
      BY <2>1, <3>2, <3>4
  <2>4. PICK b \in late : Apply(b)
    BY <1>1, <2>2, <2>3
       DEF vars, Next, TaskStep, Produce, Receive, Resume, TryReceive, Take, Enqueue, Discard,
           Post, Ack, Retry, PostOk, PostFailed, LateRequest, backend, task
  <2> QED
    BY <2>2, <2>4 DEF Apply
<1> QED
  BY <1>1, Invariance, PTL DEF Spec, OnlyLateTurnsBack

\* A request that is ripe is delivered, and one that holds nothing new is a
\* stuttering step of the promise.
LEMMA ApplyDelivers ==
  ASSUME IInv, NEW b, Apply(b), Ripe(b), UNCHANGED <<accepted, dropped>>
  PROVE  [Promise!Next]_<<accepted, applied, dropped>>
<1>1. Elements(b) \subseteq (1..accepted) \ dropped
  BY LenProperties DEF Ripe, Handled, Taken, IInv, TypeOK
<1>2. Promise!Deliver
  BY <1>1 DEF Ripe, Apply, Promise!Deliver
<1> QED
  BY <1>2 DEF Promise!Next

\* The writer implements the ordered at-least-once log.
THEOREM Refinement == Spec => ImplementsOrderedDelivery
<1>1. Init => Promise!Init
  BY DEF Init, Promise!Init
<1>2. ASSUME IInv, [Next]_vars
      PROVE  [Promise!Next]_<<accepted, applied, dropped>>
  <2>1. CASE Produce
    BY <2>1 DEF Produce, backend, Promise!Next, Promise!Accept
  <2>2. CASE Discard
    <3>1. hand \in 1..accepted /\ hand \notin applied \cup dropped
      BY <1>2, <2>2, HandNewest, LenProperties
         DEF Discard, IInv, TypeOK, CoverInv, Taken, Handled
    <3> QED
      BY <2>2, <3>1 DEF Discard, backend, Promise!Next, Promise!Drop
  <2>3. ASSUME Apply(pending), hand = 0, UNCHANGED <<accepted, dropped>>
        PROVE  [Promise!Next]_<<accepted, applied, dropped>>
    BY <1>2, <2>3, PendingRipe, ApplyDelivers
  <2>4. CASE PostOk
    BY <1>2, <2>3, <2>4 DEF PostOk, IInv, HandInv
  <2>5. CASE PostFailed
    BY <1>2, <2>3, <2>5 DEF PostFailed, IInv, HandInv, backend
  <2>6. CASE LateRequest
    <3>1. ASSUME NEW b \in late, Apply(b)
          PROVE  [Promise!Next]_<<accepted, applied, dropped>>
      BY <1>2, <2>6, <3>1, ApplyDelivers DEF LateRequest, IInv, LateInv
    <3> QED
      BY <2>6, <3>1 DEF LateRequest
  <2>7. CASE UNCHANGED <<accepted, applied, dropped>>
    BY <2>7
  <2> QED
    BY <1>2, <2>1, <2>2, <2>4, <2>5, <2>6, <2>7
       DEF vars, Next, TaskStep, Receive, Resume, TryReceive, Take, Enqueue, Post, Ack, Retry,
           backend
<1> QED
  BY <1>1, <1>2, Invariance, PTL DEF Spec, ImplementsOrderedDelivery, Promise!Spec

=============================================================================
