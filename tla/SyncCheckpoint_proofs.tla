------------------------ MODULE SyncCheckpoint_proofs ------------------------
(***************************************************************************)
(* Safety of SyncCheckpoint for every set of chats and any number of       *)
(* operations, disconnections, restarts and passes over the bucket: the    *)
(* saved cursor is past nothing that was not looked at, and the mirror and *)
(* the state file are what a prefix of the bucket leaves.                  *)
(*                                                                         *)
(* The channel continues where the main loop has got to: Received is the   *)
(* last operation it has taken, unless the stream goes on from the         *)
(* beginning.  m stands for the furthest operation taken since the boot;   *)
(* Received is behind it only while the bucket is read again.  A row is    *)
(* settled when no operation on it lies between the two, and then what is  *)
(* staged for it, applied to the mirror, is what the bucket leaves up to   *)
(* m.  A checkpoint is at m, because the server announces one at the end   *)
(* of its log only.                                                        *)
(***************************************************************************)
EXTENDS SyncCheckpoint, SequenceTheorems, TLAPS

Before(e) == IF e.kind = "row" THEN e.at - 1 ELSE e.at

\* The last operation the main loop has taken from the channel, 0 when the
\* stream begins again.
Received == IF channel = <<>> THEN sent ELSE Before(channel[1])

Queue == {staging.messages[i] : i \in 1..Len(staging.messages)}

RangeInv(m) ==
  /\ target <= Len(log) /\ frame <= Len(log)
  /\ sent <= frame /\ (sent = frame => cursor = frame)
  /\ mirror.buckets <= Len(log) /\ disk.buckets <= Len(log) /\ snapshot <= Len(log)
  /\ m <= Len(log) /\ (conn => m <= target /\ frame <= target)

\* After operation a the stream goes on from b.
Follows(a, b) == b = a \/ (again /\ b = 0)

\* A checkpoint in the channel is as far as anything before it.
ChannelInv(m) ==
  /\ \A j \in 1..Len(channel) :
       /\ channel[j].at <= Len(log) /\ (conn => channel[j].at <= target)
       /\ channel[j].kind = "row" => channel[j].at >= 1
       /\ channel[j].kind = "complete" =>
            m <= channel[j].at /\ \A i \in 1..j - 1 : channel[i].at <= channel[j].at
  /\ \A j \in 1..Len(channel) - 1 : Follows(channel[j].at, Before(channel[j + 1]))
  /\ channel # <<>> => Follows(channel[Len(channel)].at, sent)
  /\ Received <= m /\ (Received = m \/ again)

CoverInv(m) ==
  /\ Messages(Received) \subseteq Disposed \cup Queue /\ Queue \subseteq 1..m
  /\ Messages(mirror.buckets) \subseteq Disposed
  /\ Messages(disk.buckets) \subseteq Disposed

\* While the messages of a window are handled its other rows are applied.
WindowInv(m) ==
  main = "messages" =>
    /\ snapshot = m /\ staging.projects = NoRows /\ staging.chats = NoRows
    /\ Messages(snapshot) \subseteq Disposed \cup Queue

\* No operation on the row is among those that are read again.
Settled(table, c, m) ==
  \A p \in Received + 1 .. m : ~(log[p].table = table /\ log[p].chat = c)

\* The staged rows lead from the mirror to the prefix that was received.
NetInv(m) ==
  \A c \in Chat :
    /\ staging.projects[c] <= m /\ staging.chats[c] <= m
    /\ Settled("projects", c, m) =>
         Applied(mirror.projects, staging.projects)[c] = Newest("projects", c, m)
    /\ Settled("chats", c, m) =>
         Applied(mirror.chats, staging.chats)[c] \in {0, Newest("chats", c, m)}

\* The prefix whose rows the mirror has.
Level == IF main = "messages" THEN snapshot ELSE mirror.buckets

PrefixInv ==
  /\ \A c \in Chat : /\ mirror.projects[c] = Newest("projects", c, Level)
                     /\ mirror.chats[c] \in {0, Newest("chats", c, Level)}
  /\ SavedIsPrefix

IInv(m) == /\ TypeOK /\ RangeInv(m) /\ ChannelInv(m) /\ CoverInv(m)
           /\ WindowInv(m) /\ NetInv(m) /\ PrefixInv

Inv == \E m \in Nat : IInv(m)

\* A spawner that has just read its state file.
JustStarted ==
  /\ log \in Seq(Ops) /\ disk \in [projects : Rows, buckets : Nat]
  /\ disk.buckets <= Len(log)
  /\ SavedIsPrefix /\ Messages(disk.buckets) \subseteq Disposed
  /\ crashes \in Nat /\ answered \in SUBSET Nat /\ skipped \in SUBSET Nat /\ lost \in SUBSET Nat
  /\ mirror = Loaded(disk)
  /\ cursor = disk.buckets /\ sent = disk.buckets /\ frame = disk.buckets
  /\ conn = FALSE /\ due = FALSE /\ target = 0 /\ channel = <<>>
  /\ main = "select" /\ staging = EmptyStaging /\ snapshot = 0
  /\ running = {} /\ served = <<>> /\ startOvers \in Nat /\ again = FALSE

-----------------------------------------------------------------------------
(* The bucket: what its prefixes leave                                     *)

\* The newest row of a prefix is one of its operations on that row, or 0.
LEMMA NewestRange ==
  ASSUME NEW table, NEW c, NEW k \in Nat
  PROVE  /\ Newest(table, c, k) \in 0..k
         /\ Newest(table, c, k) # 0 => Newest(table, c, k) \in Touching(table, c, k)
<1> DEFINE Last(i) == i \in Touching(table, c, k) /\ \A j \in Touching(table, c, k) : j <= i
<1>1. CASE \E i \in Touching(table, c, k) :
             log[i].op = "PUT" /\ \A j \in Touching(table, c, k) : j <= i
  <2>1. \E i : Last(i)
    BY <1>1
  <2>2. Newest(table, c, k) = CHOOSE i \in Touching(table, c, k) :
                                \A j \in Touching(table, c, k) : j <= i
    BY <1>1 DEF Newest
  <2>3. Newest(table, c, k) \in Touching(table, c, k)
    BY <2>1, <2>2
  <2> QED
    BY <2>3 DEF Touching
<1>2. CASE ~\E i \in Touching(table, c, k) :
             log[i].op = "PUT" /\ \A j \in Touching(table, c, k) : j <= i
  BY <1>2 DEF Newest
<1> QED
  BY <1>1, <1>2

\* Nothing is left by the empty prefix.
LEMMA NewestOfNone ==
  ASSUME NEW table, NEW c
  PROVE  Newest(table, c, 0) = 0
BY DEF Newest, Touching

\* One more operation decides the row it touches and no other.
LEMMA NewestNext ==
  ASSUME NEW table, NEW c, NEW k \in Nat
  PROVE  Newest(table, c, k + 1) =
           IF log[k + 1].table = table /\ log[k + 1].chat = c
           THEN IF log[k + 1].op = "PUT" THEN k + 1 ELSE 0
           ELSE Newest(table, c, k)
<1>1. CASE ~(log[k + 1].table = table /\ log[k + 1].chat = c)
  <2> DEFINE Of(S) == IF \E i \in S : log[i].op = "PUT" /\ \A j \in S : j <= i
                      THEN CHOOSE i \in S : \A j \in S : j <= i
                      ELSE 0
  <2>1. Touching(table, c, k + 1) = Touching(table, c, k)
    BY <1>1 DEF Touching
  <2>2. /\ Newest(table, c, k + 1) = Of(Touching(table, c, k + 1))
        /\ Newest(table, c, k) = Of(Touching(table, c, k))
    BY Zenon DEF Newest
  <2> HIDE DEF Of
  <2>3. Newest(table, c, k + 1) = Newest(table, c, k)
    BY <2>1, <2>2
  <2> QED
    BY <1>1, <2>3
<1>2. CASE log[k + 1].table = table /\ log[k + 1].chat = c
  <2>1. /\ k + 1 \in Touching(table, c, k + 1)
        /\ \A j \in Touching(table, c, k + 1) : j \in Nat /\ j <= k + 1
    BY <1>2 DEF Touching
  <2>2. \A i \in Touching(table, c, k + 1) :
          (\A j \in Touching(table, c, k + 1) : j <= i) <=> i = k + 1
    BY <2>1
  <2>3. (CHOOSE i \in Touching(table, c, k + 1) :
           \A j \in Touching(table, c, k + 1) : j <= i) = k + 1
    BY <2>1, <2>2
  <2> QED
    BY <1>2, <2>1, <2>2, <2>3 DEF Newest
<1> QED
  BY <1>1, <1>2

\* The last operation on a row decides it.
LEMMA NewestLast ==
  ASSUME NEW table, NEW c, NEW n \in Nat, NEW p \in 1..n,
         log[p].table = table, log[p].chat = c,
         \A i \in p + 1 .. n : ~(log[i].table = table /\ log[i].chat = c)
  PROVE  Newest(table, c, n) = IF log[p].op = "PUT" THEN p ELSE 0
<1> DEFINE T == Touching(table, c, n)
<1>1. p \in T /\ \A i \in T : i \in Nat /\ i <= p
  <2>1. \A i \in 1..n : i <= p \/ i \in p + 1 .. n
    OBVIOUS
  <2> QED
    BY <2>1 DEF Touching
<1>2. \A i \in T : (\A j \in T : j <= i) <=> i = p
  BY <1>1
<1>3. (CHOOSE i \in T : \A j \in T : j <= i) = p
  BY <1>1, <1>2
<1>4. Newest(table, c, n) = IF \E i \in T : log[i].op = "PUT" /\ \A j \in T : j <= i
                            THEN CHOOSE i \in T : \A j \in T : j <= i
                            ELSE 0
  BY DEF Newest
<1> QED
  BY <1>1, <1>2, <1>3, <1>4

\* What was in the log stays there.
LEMMA PrefixKept ==
  ASSUME NEW k \in Nat, k <= Len(log), Len(log) \in Nat,
         \A i \in 1..Len(log) : log'[i] = log[i]
  PROVE  /\ Messages(k)' = Messages(k)
         /\ \A table, c : Newest(table, c, k)' = Newest(table, c, k)
<1>1. Messages(k)' = Messages(k)
  BY DEF Messages
<1>2. ASSUME NEW table, NEW c
      PROVE  Newest(table, c, k)' = Newest(table, c, k)
  <2>1. Touching(table, c, k)' = Touching(table, c, k)
    BY DEF Touching
  <2>2. \A i \in Touching(table, c, k) : log'[i].op = log[i].op
    BY DEF Touching
  <2> QED
    BY <2>1, <2>2 DEF Newest
<1> QED
  BY <1>1, <1>2

\* The same log leaves the same rows.
LEMMA SameLog ==
  ASSUME UNCHANGED log
  PROVE  \A k : /\ Messages(k)' = Messages(k)
                /\ \A table, c : Newest(table, c, k)' = Newest(table, c, k)
BY DEF Messages, Newest, Touching

-----------------------------------------------------------------------------
(* Steps of the backend and of the stream                                  *)

\* What TypeOK says of the sequences and their elements.
LEMMA PrepareTypes ==
  ASSUME TypeOK
  PROVE  /\ Len(log) \in Nat /\ Len(channel) \in Nat /\ Len(staging.messages) \in Nat
         /\ \A i \in 1..Len(log) : log[i] \in Ops
         /\ \A j \in 1..Len(channel) : channel[j] \in Event
         /\ channel # <<>> => Len(channel) >= 1 /\ channel[1] \in Event
         /\ mirror.buckets \in Nat /\ disk.buckets \in Nat
BY LenProperties, ElementOfSeq, EmptySeq DEF TypeOK

\* What the main loop has received is in the log.
LEMMA ReceivedInLog ==
  ASSUME NEW m \in Nat, TypeOK, RangeInv(m), ChannelInv(m)
  PROVE  Received \in Nat /\ Received <= m /\ Received <= Len(log) /\ m <= Len(log)
<1>1. /\ Len(log) \in Nat /\ sent \in Nat
      /\ channel # <<>> => channel[1] \in Event /\ 1 \in 1..Len(channel)
  BY PrepareTypes DEF TypeOK
<1>2. Received <= m /\ m <= Len(log)
  BY DEF ChannelInv, RangeInv
<1>3. Received \in Nat
  BY <1>1 DEF Received, ChannelInv, Before, Event
<1> QED
  BY <1>1, <1>2, <1>3

\* A longer log changes nothing of what the staged rows make of the mirror.
LEMMA AppliedKept ==
  ASSUME NEW c \in Chat, UNCHANGED <<mirror, staging>>,
         \A n \in Nat : n <= Len(log) /\ n # 0 => log'[n] = log[n],
         staging.projects[c] \in Nat, staging.projects[c] <= Len(log),
         staging.chats[c] \in Nat, staging.chats[c] <= Len(log)
  PROVE  /\ Applied(mirror.projects, staging.projects)'[c]
              = Applied(mirror.projects, staging.projects)[c]
         /\ Applied(mirror.chats, staging.chats)'[c]
              = Applied(mirror.chats, staging.chats)[c]
<1>1. /\ Applied(mirror.projects, staging.projects)'[c]
           = IF staging.projects[c] = 0 THEN mirror.projects[c]
             ELSE IF log'[staging.projects[c]].op = "PUT" THEN staging.projects[c] ELSE 0
      /\ Applied(mirror.chats, staging.chats)'[c]
           = IF staging.chats[c] = 0 THEN mirror.chats[c]
             ELSE IF log'[staging.chats[c]].op = "PUT" THEN staging.chats[c] ELSE 0
  BY DEF Applied
<1>2. /\ Applied(mirror.projects, staging.projects)[c]
           = IF staging.projects[c] = 0 THEN mirror.projects[c]
             ELSE IF log[staging.projects[c]].op = "PUT" THEN staging.projects[c] ELSE 0
      /\ Applied(mirror.chats, staging.chats)[c]
           = IF staging.chats[c] = 0 THEN mirror.chats[c]
             ELSE IF log[staging.chats[c]].op = "PUT" THEN staging.chats[c] ELSE 0
  BY DEF Applied
<1>3. /\ staging.projects[c] # 0 => log'[staging.projects[c]] = log[staging.projects[c]]
      /\ staging.chats[c] # 0 => log'[staging.chats[c]] = log[staging.chats[c]]
  OBVIOUS
<1> QED
  BY <1>1, <1>2, <1>3

\* One transaction more in the log.
LEMMA CommitStep ==
  ASSUME NEW m \in Nat, IInv(m), NEW txn \in Seq(Ops), Commit(txn)
  PROVE  IInv(m)'
<1> USE DEF IInv, Commit, stream, position, history
<1>1. /\ log' \in Seq(Ops) /\ Len(log') = Len(log) + Len(txn) /\ Len(txn) \in Nat
      /\ \A i \in 1..Len(log) : log'[i] = log[i]
  BY ConcatProperties, LenProperties DEF TypeOK
<1>2. TypeOK'
  BY <1>1 DEF TypeOK
<1>3. Received \in Nat /\ Received <= m /\ Received <= Len(log) /\ m <= Len(log)
      /\ Len(log) \in Nat
  BY ReceivedInLog, PrepareTypes
<1>4. RangeInv(m)'
  <2>1. /\ mirror.buckets \in Nat /\ disk.buckets \in Nat /\ snapshot \in Nat
        /\ target \in Nat /\ frame \in Nat
    BY PrepareTypes DEF TypeOK
  <2> QED
    BY <1>1, <1>3, <2>1 DEF RangeInv
<1>5. Received' = Received /\ Queue' = Queue /\ Disposed' = Disposed
  BY DEF Received, Before, Queue, Disposed
<1>6. ChannelInv(m)'
  <2>1. \A j \in 1..Len(channel) : channel[j].at <= Len(log')
    <3> TAKE j \in 1..Len(channel)
    <3>1. channel[j].at \in Nat /\ channel[j].at <= Len(log)
      BY PrepareTypes DEF ChannelInv, Event
    <3> QED
      BY <1>1, <1>3, <3>1
  <2> QED
    BY <1>5, <2>1 DEF ChannelInv, Before, Follows
<1>7. \A k \in {Received, m, snapshot, mirror.buckets, disk.buckets} :
        /\ Messages(k)' = Messages(k)
        /\ \A table, c : Newest(table, c, k)' = Newest(table, c, k)
  <2>1. \A k \in {Received, m, snapshot, mirror.buckets, disk.buckets} :
          k \in Nat /\ k <= Len(log)
    BY <1>3, PrepareTypes DEF RangeInv, TypeOK
  <2> QED
    BY <1>1, <1>3, <2>1, PrefixKept
<1>8. CoverInv(m)' /\ WindowInv(m)' /\ PrefixInv'
  <2>1. /\ Messages(Received)' = Messages(Received)
        /\ Messages(snapshot)' = Messages(snapshot)
        /\ Messages(mirror.buckets)' = Messages(mirror.buckets)
        /\ Messages(disk.buckets)' = Messages(disk.buckets)
    BY <1>5, <1>7
  <2>2. CoverInv(m)'
    BY <1>5, <2>1 DEF CoverInv
  <2>3. WindowInv(m)'
    BY <1>5, <2>1 DEF WindowInv, NoRows
  <2>4. PrefixInv'
    BY <1>7 DEF PrefixInv, SavedIsPrefix, Level
  <2> QED
    BY <2>2, <2>3, <2>4
<1>9. NetInv(m)'
  <2> SUFFICES ASSUME NEW c \in Chat
               PROVE  /\ staging'.projects[c] <= m /\ staging'.chats[c] <= m
                      /\ Settled("projects", c, m)' =>
                           Applied(mirror.projects, staging.projects)'[c]
                             = Newest("projects", c, m)'
                      /\ Settled("chats", c, m)' =>
                           Applied(mirror.chats, staging.chats)'[c]
                             \in {0, Newest("chats", c, m)'}
    BY DEF NetInv
  <2>1. /\ staging.projects[c] \in Nat /\ staging.projects[c] <= m
        /\ staging.chats[c] \in Nat /\ staging.chats[c] <= m
    BY DEF NetInv, TypeOK, Rows
  <2>2. /\ Applied(mirror.projects, staging.projects)'[c]
             = Applied(mirror.projects, staging.projects)[c]
        /\ Applied(mirror.chats, staging.chats)'[c] = Applied(mirror.chats, staging.chats)[c]
    <3>1. /\ staging.projects[c] <= Len(log) /\ staging.chats[c] <= Len(log)
          /\ \A n \in Nat : n <= Len(log) /\ n # 0 => log'[n] = log[n]
      BY <1>1, <1>3, <2>1
    <3>2. mirror' = mirror /\ staging' = staging
      OBVIOUS
    <3> QED
      BY <2>1, <3>1, <3>2, AppliedKept
  <2>3. \A table : Settled(table, c, m)' => Settled(table, c, m)
    <3>1. \A p \in Received + 1 .. m : p \in 1..Len(log)
      BY <1>3
    <3>2. \A p \in Received + 1 .. m : log'[p] = log[p]
      BY <1>1, <3>1
    <3> QED
      BY <1>5, <3>2 DEF Settled
  <2> QED
    BY <1>7, <2>1, <2>2, <2>3 DEF NetInv
<1> QED
  BY <1>2, <1>4, <1>6, <1>8, <1>9

\* What the main loop has received may only fall to 0.
LEMMA SettledKept ==
  ASSUME NEW m \in Nat, Received \in Nat, Received' \in {Received, 0},
         \A p \in 1..m : log'[p] = log[p]
  PROVE  \A table, c : Settled(table, c, m)' => Settled(table, c, m)
<1> TAKE table, c
<1>1. Settled(table, c, m)' =
        (\A p \in Received' + 1 .. m : ~(log'[p].table = table /\ log'[p].chat = c))
  BY DEF Settled
<1>2. \A a, b \in Nat : (b = a \/ b = 0) => \A p \in a + 1 .. m : p \in b + 1 .. m /\ p \in 1..m
  OBVIOUS
<1>3. \A p \in Received + 1 .. m : p \in Received' + 1 .. m /\ p \in 1..m
  <2>1. Received' \in Nat /\ (Received' = Received \/ Received' = 0)
    OBVIOUS
  <2> QED
    BY <1>2, <2>1, Zenon
<1> QED
  BY <1>1, <1>3 DEF Settled

\* A step that moves neither the main loop nor what it has received, or begins
\* the stream again.
LEMMA UnmovedStep ==
  ASSUME NEW m \in Nat, IInv(m), TypeOK', RangeInv(m)', ChannelInv(m)',
         Received' \in {Received, 0},
         UNCHANGED <<log, main, staging, snapshot, mirror, disk, answered, skipped, lost>>
  PROVE  IInv(m)'
<1> USE DEF IInv
<1>1. \A k : /\ Messages(k)' = Messages(k)
             /\ \A table, c : Newest(table, c, k)' = Newest(table, c, k)
  BY SameLog
<1>2. Disposed' = Disposed /\ Queue' = Queue
  BY DEF Disposed, Queue
<1>3. CoverInv(m)'
  <2>1. Messages(Received)' = Messages(Received) \/ Messages(Received)' = {}
    <3>1. Messages(0) = {}
      BY DEF Messages
    <3>2. Messages(Received)' = Messages(Received') \/ Messages(Received)' = Messages(0)
      BY DEF Messages
    <3>3. CASE Received' = Received
      BY <1>1, <3>3
    <3>4. CASE Received' = 0
      BY <3>1, <3>4 DEF Messages
    <3> QED
      BY <3>3, <3>4
  <2> QED
    BY <1>1, <1>2, <2>1 DEF CoverInv
<1>4. WindowInv(m)'
  BY <1>1, <1>2 DEF WindowInv, NoRows
<1>5. PrefixInv'
  BY <1>1 DEF PrefixInv, SavedIsPrefix, Level
<1>6. NetInv(m)'
  <2>1. /\ Applied(mirror.projects, staging.projects)' = Applied(mirror.projects, staging.projects)
        /\ Applied(mirror.chats, staging.chats)' = Applied(mirror.chats, staging.chats)
    BY DEF Applied
  <2>2. \A table, c : Settled(table, c, m)' => Settled(table, c, m)
    BY ReceivedInLog, SettledKept
  <2> QED
    BY <1>1, <2>1, <2>2 DEF NetInv
<1> QED
  BY <1>3, <1>4, <1>5, <1>6

\* An event at the end of the channel is not what was received.
LEMMA AppendedReceived ==
  ASSUME channel \in Seq(Event), NEW e \in Event, channel' = Append(channel, e), Before(e) = sent
  PROVE  Received' = Received
<1>1. /\ channel' \in Seq(Event) /\ Len(channel') = Len(channel) + 1
      /\ \A j \in 1..Len(channel) : channel'[j] = channel[j]
      /\ channel'[Len(channel) + 1] = e
  BY AppendProperties
<1>2. Len(channel) \in Nat /\ (channel = <<>> <=> Len(channel) = 0)
  BY EmptySeq, LenProperties
<1>3. channel' # <<>>
  BY <1>1, <1>2, EmptySeq
<1> QED
  BY <1>1, <1>2, <1>3 DEF Received, Before

\* An event that continues the channel arrives at its end.
LEMMA SendStep ==
  ASSUME NEW m \in Nat, IInv(m), NEW e \in Event, channel' = Append(channel, e),
         Before(e) = sent, sent' = e.at, UNCHANGED <<log, conn, target, again>>,
         e.at <= Len(log), conn => e.at <= target,
         e.kind = "row" => e.at >= 1,
         e.kind = "complete" => conn /\ e.at = target
  PROVE  ChannelInv(m)' /\ Received' = Received /\ channel' \in Seq(Event)
                        /\ Len(channel') = Len(channel) + 1
<1> USE DEF IInv
<1>1. /\ channel' \in Seq(Event) /\ Len(channel') = Len(channel) + 1
      /\ \A j \in 1..Len(channel) : channel'[j] = channel[j]
      /\ channel'[Len(channel) + 1] = e
  BY AppendProperties DEF TypeOK
<1>2. /\ Len(channel) \in Nat /\ \A j \in 1..Len(channel) : channel[j] \in Event
      /\ (channel = <<>> <=> Len(channel) = 0)
  BY PrepareTypes, EmptySeq, LenProperties DEF TypeOK
<1>3. channel' # <<>>
  BY <1>1, <1>2, EmptySeq
<1>4. Received' = Received
  BY <1>1, <1>2, <1>3 DEF Received, Before
<1>5. ASSUME NEW j \in 1..Len(channel')
      PROVE  /\ channel'[j].at <= Len(log) /\ (conn => channel'[j].at <= target)
             /\ channel'[j].kind = "row" => channel'[j].at >= 1
             /\ channel'[j].kind = "complete" =>
                  m <= channel'[j].at /\ \A i \in 1..j - 1 : channel'[i].at <= channel'[j].at
  <2>1. CASE j \in 1..Len(channel)
    <3>1. \A i \in 1..j - 1 : i \in 1..Len(channel)
      BY <1>2, <2>1
    <3> QED
      BY <1>1, <2>1, <3>1 DEF ChannelInv
  <2>2. CASE j = Len(channel) + 1
    <3>1. channel'[j] = e
      BY <1>1, <2>2
    <3>2. \A i \in 1..j - 1 : i \in 1..Len(channel) /\ channel'[i] = channel[i]
      BY <1>1, <1>2, <2>2
    <3>3. conn => m <= target /\ \A i \in 1..j - 1 : channel'[i].at <= target
      BY <3>2 DEF RangeInv, ChannelInv
    <3> QED
      BY <3>1, <3>3
  <2> QED
    BY <1>1, <1>2, <2>1, <2>2
<1>6. \A j \in 1..Len(channel') - 1 : Follows(channel'[j].at, Before(channel'[j + 1]))
  <2> TAKE j \in 1..Len(channel') - 1
  <2>1. CASE j = Len(channel)
    BY <1>1, <1>2, <2>1, EmptySeq DEF ChannelInv
  <2>2. CASE j # Len(channel)
    <3>1. j \in 1..Len(channel) - 1 /\ j \in 1..Len(channel) /\ j + 1 \in 1..Len(channel)
      BY <1>1, <1>2, <2>2
    <3> QED
      BY <1>1, <3>1 DEF ChannelInv
  <2> QED
    BY <2>1, <2>2
<1>7. Follows(channel'[Len(channel')].at, sent')
  BY <1>1 DEF Follows
<1>8. ChannelInv(m)'
  BY <1>4, <1>5, <1>6, <1>7 DEF ChannelInv, Before, Follows
<1> QED
  BY <1>1, <1>4, <1>8

\* The stream is opened, closed, announces more or begins a frame.
LEMMA OpenStep ==
  ASSUME NEW m \in Nat, IInv(m), Connect \/ Disconnect \/ CheckpointDiff \/ DataFrame
  PROVE  IInv(m)'
<1>1. TypeOK /\ RangeInv(m) /\ ChannelInv(m)
  BY DEF IInv
<1>2. /\ Len(log) \in Nat /\ target \in Nat /\ target <= Len(log)
      /\ due \in BOOLEAN /\ conn \in BOOLEAN /\ again \in BOOLEAN /\ startOvers \in Nat
      /\ frame \in Nat /\ frame <= Len(log) /\ sent \in Nat /\ sent <= frame /\ cursor \in Nat
      /\ sent = frame => cursor = frame
      /\ conn => m <= target /\ frame <= target
      /\ m <= Len(log)
  BY <1>1, PrepareTypes DEF RangeInv, TypeOK
<1>3. UNCHANGED <<log, channel, main, staging, snapshot, mirror, disk, running, crashes,
                  served, answered, skipped, lost>>
  BY DEF Connect, Disconnect, CheckpointDiff, DataFrame, SyncOnly, history
<1>4. /\ target' \in Nat /\ target' <= Len(log)
      /\ due' \in BOOLEAN /\ conn' \in BOOLEAN
      /\ conn' => target' = Len(log) \/ (conn /\ target' = target)
  <2>1. CASE Connect
    BY <1>2, <2>1 DEF Connect
  <2>2. CASE Disconnect
    <3>1. target' = 0 /\ due' = FALSE /\ conn' = FALSE
      BY <2>2 DEF Disconnect
    <3>2. target' \in Nat /\ target' <= Len(log)
      BY <1>2, <3>1
    <3>3. due' \in BOOLEAN /\ conn' \in BOOLEAN
      BY <3>1
    <3> QED
      BY <3>1, <3>2, <3>3
  <2>3. CASE CheckpointDiff
    BY <1>2, <2>3 DEF CheckpointDiff
  <2>4. CASE DataFrame
    BY <1>2, <2>4 DEF DataFrame
  <2> QED
    BY <2>1, <2>2, <2>3, <2>4
<1>5. \/ /\ UNCHANGED <<cursor, sent, startOvers, again>>
         /\ frame' \in Nat /\ frame' <= Len(log) /\ sent <= frame'
         /\ sent = frame' => cursor = frame'
         /\ conn' => frame' <= target'
      \/ /\ startOvers' = startOvers + 1 /\ again' = TRUE
         /\ cursor' = 0 /\ sent' = 0 /\ frame' = 0
  <2>1. CASE Connect
    BY <1>2, <1>4, <2>1 DEF Connect, Retained, StartedOver, stream, position
  <2>2. CASE Disconnect
    BY <1>2, <2>2 DEF Disconnect, stream, position
  <2>3. CASE CheckpointDiff
    BY <1>2, <1>4, <2>3 DEF CheckpointDiff, Retained, StartedOver, stream, position
  <2>4. CASE DataFrame
    BY <1>2, <2>4 DEF DataFrame
  <2> QED
    BY <2>1, <2>2, <2>3, <2>4
<1>6. /\ cursor' \in Nat /\ sent' \in Nat /\ frame' \in Nat /\ frame' <= Len(log)
      /\ sent' <= frame' /\ (sent' = frame' => cursor' = frame')
      /\ startOvers' \in Nat /\ again' \in BOOLEAN
      /\ conn' => frame' <= target'
  <2>1. CASE UNCHANGED <<cursor, sent, startOvers, again>>
    <3>1. UNCHANGED again
      BY <2>1
    <3>2. again' \in BOOLEAN
      BY <1>2, <3>1
    <3>3. CASE again' # TRUE \/ sent' # 0 \/ frame' # 0 \/ cursor' # 0
      BY <1>2, <1>5, <2>1, <3>2, <3>3
    <3>4. CASE again' = TRUE /\ sent' = 0 /\ frame' = 0 /\ cursor' = 0
      <4>1. startOvers' \in Nat /\ (conn' => 0 <= target')
        BY <1>2, <1>4, <2>1
      <4> QED
        BY <1>2, <3>2, <3>4, <4>1
    <3> QED
      BY <3>3, <3>4
  <2>2. CASE ~UNCHANGED <<cursor, sent, startOvers, again>>
    <3>1. /\ startOvers' = startOvers + 1 /\ again' = TRUE
          /\ cursor' = 0 /\ sent' = 0 /\ frame' = 0
      BY <1>5, <2>2
    <3>2. again' \in BOOLEAN
      BY <3>1
    <3>3. startOvers' \in Nat /\ (conn' => 0 <= target')
      BY <1>2, <1>4, <3>1
    <3> QED
      BY <1>2, <3>1, <3>2, <3>3
  <2> QED
    BY <2>1, <2>2
<1>7. TypeOK'
  BY <1>1, <1>3, <1>4, <1>6 DEF TypeOK
<1>8. RangeInv(m)'
  <2>1. conn' => m <= target'
    BY <1>2, <1>4
  <2> QED
    BY <1>1, <1>3, <1>4, <1>6, <2>1 DEF RangeInv
<1>9. Received' = Received \/ (again' /\ Received' = 0)
  BY <1>3, <1>5 DEF Received, Before
<1>10. ChannelInv(m)'
  <2>1. \A j \in 1..Len(channel) : conn' => channel[j].at <= target'
    BY <1>1, <1>4 DEF ChannelInv
  <2>2. \A a, b : Follows(a, b) => Follows(a, b)'
    BY <1>5 DEF Follows
  <2>3. channel # <<>> => Follows(channel[Len(channel)].at, sent)'
    BY <1>1, <1>3, <1>5, <2>2 DEF ChannelInv, Follows
  <2>4. (Received <= m)' /\ (Received = m \/ again)'
    <3>1. Received <= m /\ (Received = m \/ again) /\ 0 <= m
      BY <1>1 DEF ChannelInv
    <3> QED
      BY <1>5, <1>9, <3>1
  <2>5. \A j \in 1..Len(channel) - 1 : Follows(channel[j].at, Before(channel[j + 1]))'
    <3> TAKE j \in 1..Len(channel) - 1
    <3>1. Follows(channel[j].at, Before(channel[j + 1]))
      BY <1>1 DEF ChannelInv
    <3> QED
      BY <1>3, <1>5, <3>1 DEF Follows, Before
  <2> QED
    BY <1>1, <1>3, <2>1, <2>3, <2>4, <2>5 DEF ChannelInv
<1> QED
  BY <1>3, <1>7, <1>8, <1>9, <1>10, UnmovedStep

\* A row or a checkpoint is sent; the channel is longer then.
LEMMA StreamStep ==
  ASSUME NEW m \in Nat, IInv(m),
         Connect \/ Disconnect \/ CheckpointDiff \/ DataFrame \/ SendRow \/ SendComplete
  PROVE  IInv(m)'
<1> USE DEF IInv, SyncOnly, stream, position, history
<1>1. CASE Connect \/ Disconnect \/ CheckpointDiff \/ DataFrame
  BY <1>1, OpenStep
<1>0. /\ Len(log) \in Nat /\ target \in Nat /\ target <= Len(log)
      /\ frame \in Nat /\ frame <= Len(log) /\ sent \in Nat /\ sent <= frame /\ cursor \in Nat
      /\ sent = frame => cursor = frame
      /\ conn => frame <= target
  BY PrepareTypes DEF RangeInv, TypeOK
<1>2. CASE SendRow
  <2> DEFINE e == [kind |-> "row", at |-> sent + 1]
  <2>1. /\ e \in Event /\ Before(e) = sent /\ e.at >= 1 /\ e.kind = "row"
        /\ e.at = sent + 1 /\ e.at <= Len(log) /\ (conn => e.at <= target)
    BY <1>0, <1>2 DEF Event, Before, SendRow
  <2>2. /\ channel' = Append(channel, e) /\ sent' = e.at
        /\ UNCHANGED <<log, conn, target, again>>
    BY <1>2 DEF SendRow
  <2>3. e.kind # "complete"
    OBVIOUS
  <2>4. /\ ChannelInv(m)' /\ Received' = Received
        /\ channel' \in Seq(Event) /\ Len(channel') = Len(channel) + 1
    <3> HIDE DEF e, IInv
    <3> QED
      BY <2>1, <2>2, <2>3, SendStep
  <2>5. TypeOK'
    <3>1. Len(channel') <= Capacity
      BY <1>2, <2>4, PrepareTypes, SyncAssumption DEF SendRow
    <3> QED
      BY <1>2, <2>4, <3>1, PrepareTypes DEF TypeOK, SendRow
  <2>6. RangeInv(m)'
    <3>1. /\ sent' = sent + 1 /\ cursor' = IF sent + 1 = frame THEN frame ELSE cursor
          /\ sent < frame
          /\ UNCHANGED <<log, target, frame, conn, mirror, disk, snapshot>>
      BY <1>2 DEF SendRow
    <3>2. sent' <= frame /\ (sent' = frame => cursor' = frame)
      BY <1>0, <3>1
    <3> QED
      BY <3>1, <3>2 DEF RangeInv
  <2>7. UNCHANGED <<log, main, staging, snapshot, mirror, disk, answered, skipped, lost>>
    BY <1>2 DEF SendRow
  <2> QED
    BY <2>4, <2>5, <2>6, <2>7, UnmovedStep
<1>3. CASE SendComplete
  <2> DEFINE e == [kind |-> "complete", at |-> cursor]
  <2>1. /\ e \in Event /\ Before(e) = sent /\ e.at = sent /\ e.kind = "complete"
        /\ conn /\ e.at = target /\ e.at <= Len(log)
    BY <1>0, <1>3 DEF Event, Before, SendComplete
  <2>2. /\ channel' = Append(channel, e) /\ sent' = e.at
        /\ UNCHANGED <<log, conn, target, again>>
    BY <1>3, <2>1 DEF SendComplete
  <2>3. e.kind # "row" /\ (conn => e.at <= target)
    BY <1>0, <2>1
  <2>4. /\ ChannelInv(m)' /\ Received' = Received
        /\ channel' \in Seq(Event) /\ Len(channel') = Len(channel) + 1
    <3> HIDE DEF e, IInv
    <3> QED
      BY <2>1, <2>2, <2>3, SendStep
  <2>5. TypeOK'
    <3>1. Len(channel') <= Capacity
      BY <1>3, <2>4, PrepareTypes, SyncAssumption DEF SendComplete
    <3> QED
      BY <1>3, <2>4, <3>1, PrepareTypes DEF TypeOK, SendComplete
  <2>6. RangeInv(m)'
    BY <1>3 DEF RangeInv, SendComplete
  <2>7. UNCHANGED <<log, main, staging, snapshot, mirror, disk, answered, skipped, lost>>
    BY <1>3 DEF SendComplete
  <2> QED
    BY <2>4, <2>5, <2>6, <2>7, UnmovedStep
<1> QED
  BY <1>1, <1>2, <1>3

-----------------------------------------------------------------------------
(* Steps of the main loop                                                  *)

\* An event taken from the channel is what the main loop has received then,
\* unless the stream begins again after it.
LEMMA TakeStep ==
  ASSUME NEW m \in Nat, TypeOK, RangeInv(m), ChannelInv(m),
         channel # <<>>, channel' = Tail(channel),
         UNCHANGED <<sent, log, conn, target, again>>,
         NEW n \in Nat, n = IF m < channel[1].at THEN channel[1].at ELSE m
  PROVE  /\ ChannelInv(n)' /\ Received' \in {channel[1].at, 0}
         /\ Received = Before(channel[1])
         /\ channel[1] = Head(channel) /\ channel[1] \in Event
         /\ channel' \in Seq(Event) /\ Len(channel') <= Capacity
         /\ n <= Len(log) /\ (conn => n <= target)
         /\ channel[1].kind = "row" => channel[1].at >= 1
         /\ channel[1].kind = "complete" => channel[1].at = m /\ n = m
<1>1. /\ Len(channel) \in Nat /\ Len(channel) >= 1 /\ channel[1] = Head(channel)
      /\ \A j \in 1..Len(channel) : channel[j] \in Event
      /\ 1 \in 1..Len(channel)
  BY PrepareTypes, HeadTailProperties DEF TypeOK
<1>2. /\ channel' \in Seq(Event) /\ Len(channel') = Len(channel) - 1
      /\ \A j \in 1..Len(channel') : channel'[j] = channel[j + 1]
  BY <1>1, HeadTailProperties DEF TypeOK
<1>3. channel' = <<>> <=> Len(channel) = 1
  <2>1. channel' = <<>> <=> Len(channel') = 0
    BY <1>2, EmptySeq
  <2> QED
    BY <1>1, <1>2, <2>1
<1>4. Len(channel') <= Capacity
  BY <1>1, <1>2, SyncAssumption DEF TypeOK
<1>5. Follows(channel[1].at, Received')
  <2>1. CASE channel' = <<>>
    <3>1. Received' = sent /\ Len(channel) = 1
      BY <1>3, <2>1 DEF Received
    <3> QED
      BY <3>1 DEF ChannelInv
  <2>2. CASE channel' # <<>>
    <3>1. channel'[1] = channel[2] /\ 1 \in 1..Len(channel) - 1
      BY <1>1, <1>2, <1>3, <2>2
    <3>2. Received' = Before(channel[2])
      BY <2>2, <3>1 DEF Received, Before
    <3> QED
      BY <3>1, <3>2 DEF ChannelInv
  <2> QED
    BY <2>1, <2>2
<1>6. Received = Before(channel[1])
  BY DEF Received
<1>7. /\ channel[1].at \in Nat /\ Len(log) \in Nat /\ target \in Nat
      /\ channel[1].at <= Len(log) /\ (conn => channel[1].at <= target)
      /\ channel[1].kind = "row" => channel[1].at >= 1
      /\ channel[1].kind = "complete" => m <= channel[1].at
      /\ Received <= m /\ (Received = m \/ again)
  BY <1>1, PrepareTypes DEF ChannelInv, Event, TypeOK
<1>8. /\ n <= Len(log) /\ (conn => n <= target)
      /\ channel[1].kind = "complete" => channel[1].at = m /\ n = m
  BY <1>6, <1>7 DEF RangeInv, Before
<1>9. Received' <= n /\ (Received' = n \/ again)
  <2>1. CASE channel[1].kind = "row"
    BY <1>5, <1>6, <1>7, <2>1 DEF Follows, Before
  <2>2. CASE channel[1].kind # "row"
    BY <1>1, <1>5, <1>7, <1>8, <2>2 DEF Follows, Event
  <2> QED
    BY <2>1, <2>2
<1>10. ASSUME NEW j \in 1..Len(channel')
       PROVE  /\ channel'[j].at <= Len(log) /\ (conn => channel'[j].at <= target)
              /\ channel'[j].kind = "row" => channel'[j].at >= 1
              /\ channel'[j].kind = "complete" =>
                   n <= channel'[j].at /\ \A i \in 1..j - 1 : channel'[i].at <= channel'[j].at
  <2>1. j + 1 \in 1..Len(channel) /\ channel'[j] = channel[j + 1]
    BY <1>1, <1>2
  <2>2. \A i \in 1..j - 1 : /\ i \in 1..Len(channel') /\ channel'[i] = channel[i + 1]
                           /\ i + 1 \in 1..(j + 1) - 1
    BY <1>1, <1>2
  <2>3. channel'[j].kind = "complete" => channel[1].at <= channel'[j].at /\ m <= channel'[j].at
    <3>1. 1 \in 1..(j + 1) - 1
      OBVIOUS
    <3> QED
      BY <2>1, <3>1 DEF ChannelInv
  <2> QED
    BY <2>1, <2>2, <2>3 DEF ChannelInv
<1>11. \A j \in 1..Len(channel') - 1 : Follows(channel'[j].at, Before(channel'[j + 1]))
  <2> TAKE j \in 1..Len(channel') - 1
  <2>1. /\ j \in 1..Len(channel') /\ j + 1 \in 1..Len(channel')
        /\ j + 1 \in 1..Len(channel) - 1
    BY <1>1, <1>2
  <2> QED
    BY <1>2, <2>1 DEF ChannelInv
<1>12. channel' # <<>> => Follows(channel'[Len(channel')].at, sent)
  BY <1>1, <1>2, <1>3 DEF ChannelInv
<1>13. ChannelInv(n)'
  BY <1>9, <1>10, <1>11, <1>12 DEF ChannelInv, Before, Follows
<1> QED
  BY <1>1, <1>2, <1>4, <1>5, <1>6, <1>7, <1>8, <1>13 DEF Follows

\* A row that is staged.
LEMMA StageRowStep ==
  ASSUME NEW m \in Nat, IInv(m), StageRow,
         NEW n \in Nat, n = IF m < channel[1].at THEN channel[1].at ELSE m
  PROVE  IInv(n)'
<1> DEFINE i == channel[1].at
<1>1. TypeOK /\ RangeInv(m) /\ ChannelInv(m) /\ CoverInv(m) /\ NetInv(m) /\ PrefixInv
  BY DEF IInv
<1>2. /\ main = "select" /\ channel # <<>> /\ Head(channel).kind = "row"
      /\ channel' = Tail(channel)
      /\ UNCHANGED <<log, target, due, conn, cursor, sent, frame, crashes, startOvers, again>>
      /\ UNCHANGED <<snapshot, mirror, disk, running, served, answered, skipped, lost>>
  BY DEF StageRow, Receive, MainOnly, server, stream, position, history
<1>3. /\ ChannelInv(n)' /\ Received' \in {i, 0} /\ Received = i - 1 /\ Head(channel).at = i
      /\ channel' \in Seq(Event) /\ Len(channel') <= Capacity
      /\ i \in Nat /\ i >= 1 /\ i <= Len(log) /\ Len(log) \in Nat
      /\ n <= Len(log) /\ (conn => n <= target)
  <2>1. /\ ChannelInv(n)' /\ Received' \in {i, 0} /\ Received = Before(channel[1])
        /\ channel[1] = Head(channel) /\ channel[1] \in Event
        /\ channel' \in Seq(Event) /\ Len(channel') <= Capacity
        /\ n <= Len(log) /\ (conn => n <= target)
        /\ channel[1].kind = "row" => i >= 1
    BY <1>1, <1>2, TakeStep
  <2>2. i \in Nat /\ Len(log) \in Nat /\ i <= n
    BY <1>1, <2>1, PrepareTypes DEF Event
  <2> QED
    BY <1>2, <2>1, <2>2 DEF Before
<1>0. /\ i <= n /\ m <= n /\ (n = m \/ (n = i /\ m = i - 1))
      /\ Received' \in Nat /\ Received' <= i
  BY <1>1, <1>3 DEF ChannelInv
<1>4. /\ log[i] \in Ops /\ log[i].chat \in Chat
      /\ log[i].table \in Tables /\ log[i].op \in {"PUT", "REMOVE"}
  BY <1>1, <1>3, PrepareTypes DEF Ops
<1>5. \/ log[i].table = "machine_users" /\ main' \in {"select", "save"} /\ UNCHANGED staging
      \/ /\ log[i].table = "messages" /\ UNCHANGED main
         /\ staging' = [staging EXCEPT !.messages = Append(@, i)]
      \/ /\ log[i].table = "projects" /\ UNCHANGED main
         /\ staging' = [staging EXCEPT !.projects = [@ EXCEPT ![log[i].chat] = i]]
      \/ /\ log[i].table = "chats" /\ UNCHANGED main
         /\ staging' = [staging EXCEPT !.chats = [@ EXCEPT ![log[i].chat] = i]]
  <2>1. \/ log[i].table = "machine_users" /\ main' \in {"select", "save"} /\ UNCHANGED staging
        \/ log[i].table # "machine_users" /\ Stage(log[i].table, i) /\ UNCHANGED main
    BY <1>3 DEF StageRow
  <2>2. CASE log[i].table = "projects"
    BY <2>1, <2>2 DEF Stage
  <2>3. CASE log[i].table = "chats"
    BY <2>1, <2>3 DEF Stage
  <2>4. CASE log[i].table = "messages"
    BY <2>1, <2>4 DEF Stage
  <2> QED
    BY <1>4, <2>1, <2>2, <2>3, <2>4 DEF Tables
<1>6. /\ staging \in [chats : Rows, projects : Rows, messages : Seq(Nat)]
      /\ staging' \in [chats : Rows, projects : Rows, messages : Seq(Nat)]
      /\ main' \in {"select", "save"}
  <2>1. staging \in [chats : Rows, projects : Rows, messages : Seq(Nat)]
    BY <1>1 DEF TypeOK
  <2>2. CASE log[i].table = "messages"
    <3>1. Append(staging.messages, i) \in Seq(Nat)
      BY <1>3, <2>1, AppendProperties
    <3> QED
      BY <1>2, <1>5, <2>1, <2>2, <3>1
  <2>3. CASE log[i].table = "machine_users"
    BY <1>5, <1>2, <2>1, <2>3
  <2>4. CASE log[i].table = "projects"
    <3>1. [staging.projects EXCEPT ![log[i].chat] = i] \in Rows
      BY <1>3, <1>4, <2>1 DEF Rows
    <3>2. /\ staging' = [staging EXCEPT !.projects = [staging.projects EXCEPT ![log[i].chat] = i]]
          /\ main' = main
      BY <1>5, <2>4
    <3> QED
      BY <1>2, <2>1, <3>1, <3>2
  <2>5. CASE log[i].table = "chats"
    <3>1. [staging.chats EXCEPT ![log[i].chat] = i] \in Rows
      BY <1>3, <1>4, <2>1 DEF Rows
    <3>2. /\ staging' = [staging EXCEPT !.chats = [staging.chats EXCEPT ![log[i].chat] = i]]
          /\ main' = main
      BY <1>5, <2>5
    <3> QED
      BY <1>2, <2>1, <3>1, <3>2
  <2> QED
    BY <1>4, <2>1, <2>2, <2>3, <2>4, <2>5 DEF Tables
<1>7. TypeOK'
  BY <1>1, <1>2, <1>3, <1>6 DEF TypeOK
<1>8. RangeInv(n)' /\ WindowInv(n)'
  BY <1>1, <1>2, <1>3, <1>6 DEF RangeInv, WindowInv
<1>9. \A k : /\ Messages(k)' = Messages(k)
             /\ \A table, c : Newest(table, c, k)' = Newest(table, c, k)
  BY <1>2, SameLog
<1>10. PrefixInv'
  BY <1>1, <1>2, <1>6, <1>9 DEF PrefixInv, SavedIsPrefix, Level
<1>11. CoverInv(n)'
  <2>1. Disposed' = Disposed
    BY <1>2 DEF Disposed
  <2>2. Messages(Received)' \subseteq Messages(i)
    <3>1. \A k \in Nat : k <= i => Messages(k) \subseteq Messages(i)
      BY <1>3 DEF Messages
    <3>2. Messages(Received)' = Messages(Received')
      BY <1>2 DEF Messages
    <3>3. Messages(Received') \subseteq Messages(i)
      BY <1>0, <3>1, Zenon
    <3> QED
      BY <3>2, <3>3
  <2>3. Messages(i - 1) \subseteq Disposed \cup Queue /\ Queue \subseteq 1..m
    BY <1>1, <1>3 DEF CoverInv
  <2>4. \A q \in 1..m : q \in 1..n
    BY <1>0
  <2>5. Messages(i) \subseteq Disposed \cup Queue' /\ Queue' \subseteq 1..n
    <3>1. CASE log[i].table = "messages"
      <4>1. Queue' = Queue \cup {i}
        <5>1. /\ staging.messages \in Seq(Nat) /\ Len(staging.messages) \in Nat
              /\ staging'.messages = Append(staging.messages, i)
          BY <1>5, <1>6, <3>1, LenProperties
        <5>2. /\ Len(staging'.messages) = Len(staging.messages) + 1
              /\ \A j \in 1..Len(staging.messages) : staging'.messages[j] = staging.messages[j]
              /\ staging'.messages[Len(staging.messages) + 1] = i
          BY <1>3, <5>1, AppendProperties
        <5> QED
          BY <5>1, <5>2 DEF Queue
      <4>2. Messages(i) = Messages(i - 1) \cup {i}
        BY <1>3, <3>1 DEF Messages
      <4>3. i \in 1..n
        BY <1>0, <1>3
      <4> QED
        BY <2>3, <2>4, <4>1, <4>2, <4>3
    <3>2. CASE log[i].table # "messages"
      <4>1. Queue' = Queue
        BY <1>5, <1>6, <3>2 DEF Queue
      <4>2. Messages(i) = Messages(i - 1)
        BY <1>3, <3>2 DEF Messages
      <4> QED
        BY <2>3, <2>4, <4>1, <4>2
    <3> QED
      BY <3>1, <3>2
  <2>6. /\ Messages(Received)' \subseteq Disposed' \cup Queue'
        /\ Queue' \subseteq 1..n
    BY <2>1, <2>2, <2>5
  <2>7. /\ Messages(mirror.buckets)' \subseteq Disposed'
        /\ Messages(disk.buckets)' \subseteq Disposed'
    BY <1>1, <1>2, <1>9, <2>1 DEF CoverInv
  <2> QED
    BY <2>6, <2>7 DEF CoverInv
<1>12. NetInv(n)'
  <2> SUFFICES ASSUME NEW c \in Chat
               PROVE  /\ staging'.projects[c] <= n /\ staging'.chats[c] <= n
                      /\ Settled("projects", c, n)' =>
                           Applied(mirror.projects, staging.projects)'[c]
                             = Newest("projects", c, n)'
                      /\ Settled("chats", c, n)' =>
                           Applied(mirror.chats, staging.chats)'[c]
                             \in {0, Newest("chats", c, n)'}
    BY DEF NetInv
  <2>1. /\ staging.projects[c] \in Nat /\ staging.projects[c] <= m
        /\ staging.chats[c] \in Nat /\ staging.chats[c] <= m
        /\ Settled("projects", c, m) =>
             Applied(mirror.projects, staging.projects)[c] = Newest("projects", c, m)
        /\ Settled("chats", c, m) =>
             Applied(mirror.chats, staging.chats)[c] \in {0, Newest("chats", c, m)}
    BY <1>1, <1>6 DEF NetInv, Rows
  <2>2. ASSUME NEW table, Settled(table, c, n)'
        PROVE  /\ log[i].table = table /\ log[i].chat = c =>
                    Newest(table, c, n)' = IF log[i].op = "PUT" THEN i ELSE 0
               /\ ~(log[i].table = table /\ log[i].chat = c) =>
                    Settled(table, c, m) /\ Newest(table, c, n)' = Newest(table, c, m)
    <3>1. Newest(table, c, n)' = Newest(table, c, n)
      BY <1>9
    <3>2. \A p \in i + 1 .. n : ~(log[p].table = table /\ log[p].chat = c)
      <4>1. \A p \in Received' + 1 .. n : ~(log[p].table = table /\ log[p].chat = c)
        BY <1>2, <2>2 DEF Settled
      <4>2. \A r \in Nat : r <= i => \A p \in i + 1 .. n : p \in r + 1 .. n
        BY <1>3
      <4>3. \A p \in i + 1 .. n : p \in Received' + 1 .. n
        BY <1>0, <4>2, Zenon
      <4> QED
        BY <4>1, <4>3
    <3>3. CASE log[i].table = table /\ log[i].chat = c
      <4>1. i \in 1..n
        BY <1>0, <1>3
      <4> QED
        BY <3>1, <3>2, <3>3, <4>1, NewestLast
    <3>4. CASE ~(log[i].table = table /\ log[i].chat = c)
      <4>1. Settled(table, c, m)
        <5>1. \A p \in (i - 1) + 1 .. m : p = i \/ p \in i + 1 .. n
          BY <1>0, <1>3
        <5> QED
          BY <1>3, <3>2, <3>4, <5>1 DEF Settled
      <4>2. CASE n = m
        BY <3>1, <3>4, <4>1, <4>2
      <4>3. CASE n = i /\ m = i - 1
        <5>1. n = m + 1
          BY <1>3, <4>3
        <5>2. Newest(table, c, m + 1) = Newest(table, c, m)
          BY <3>4, <4>3, <5>1, NewestNext
        <5> QED
          BY <3>1, <3>4, <4>1, <5>1, <5>2
      <4> QED
        BY <1>0, <4>2, <4>3
    <3> QED
      BY <3>3, <3>4
  <2>3. /\ staging'.projects[c] = IF log[i].table = "projects" /\ log[i].chat = c
                                 THEN i ELSE staging.projects[c]
        /\ staging'.chats[c] = IF log[i].table = "chats" /\ log[i].chat = c
                              THEN i ELSE staging.chats[c]
    BY <1>4, <1>5, <1>6 DEF Rows
  <2>4. /\ staging'.projects[c] <= n /\ staging'.chats[c] <= n
    BY <1>0, <1>3, <2>1, <2>3
  <2>5. Settled("projects", c, n)' =>
          Applied(mirror.projects, staging.projects)'[c] = Newest("projects", c, n)'
    <3> HAVE Settled("projects", c, n)'
    <3>1. Applied(mirror.projects, staging.projects)'[c] =
            IF staging'.projects[c] = 0 THEN mirror.projects[c]
            ELSE IF log[staging'.projects[c]].op = "PUT" THEN staging'.projects[c] ELSE 0
      BY <1>2 DEF Applied
    <3>2. Applied(mirror.projects, staging.projects)[c] =
            IF staging.projects[c] = 0 THEN mirror.projects[c]
            ELSE IF log[staging.projects[c]].op = "PUT" THEN staging.projects[c] ELSE 0
      BY DEF Applied
    <3>3. /\ log[i].table = "projects" /\ log[i].chat = c =>
               Newest("projects", c, n)' = IF log[i].op = "PUT" THEN i ELSE 0
          /\ ~(log[i].table = "projects" /\ log[i].chat = c) =>
               Settled("projects", c, m) /\ Newest("projects", c, n)' = Newest("projects", c, m)
      BY <2>2
    <3> QED
      BY <1>3, <2>1, <2>3, <3>1, <3>2, <3>3
  <2>6. Settled("chats", c, n)' =>
          Applied(mirror.chats, staging.chats)'[c] \in {0, Newest("chats", c, n)'}
    <3> HAVE Settled("chats", c, n)'
    <3>1. Applied(mirror.chats, staging.chats)'[c] =
            IF staging'.chats[c] = 0 THEN mirror.chats[c]
            ELSE IF log[staging'.chats[c]].op = "PUT" THEN staging'.chats[c] ELSE 0
      BY <1>2 DEF Applied
    <3>2. Applied(mirror.chats, staging.chats)[c] =
            IF staging.chats[c] = 0 THEN mirror.chats[c]
            ELSE IF log[staging.chats[c]].op = "PUT" THEN staging.chats[c] ELSE 0
      BY DEF Applied
    <3>3. /\ log[i].table = "chats" /\ log[i].chat = c =>
               Newest("chats", c, n)' = IF log[i].op = "PUT" THEN i ELSE 0
          /\ ~(log[i].table = "chats" /\ log[i].chat = c) =>
               Settled("chats", c, m) /\ Newest("chats", c, n)' = Newest("chats", c, m)
      BY <2>2
    <3> QED
      BY <1>3, <2>1, <2>3, <3>1, <3>2, <3>3
  <2> QED
    BY <2>4, <2>5, <2>6
<1> QED
  BY <1>3, <1>7, <1>8, <1>10, <1>11, <1>12 DEF IInv

\* A table with no staged rows stays what it is.
LEMMA AppliedNone ==
  ASSUME NEW rows, NEW c \in Chat
  PROVE  Applied(rows, NoRows)[c] = rows[c]
BY DEF Applied, NoRows

\* What rows and staged rows amount to are rows.
LEMMA AppliedTypes ==
  ASSUME NEW rows \in Rows, NEW staged \in Rows
  PROVE  Applied(rows, staged) \in Rows
BY DEF Applied, Rows

\* The projects and chats of a window enter the mirror.
LEMMA ApplyCheckpointStep ==
  ASSUME NEW m \in Nat, IInv(m), ApplyCheckpoint
  PROVE  IInv(m)'
<1>1. TypeOK /\ RangeInv(m) /\ ChannelInv(m) /\ CoverInv(m) /\ NetInv(m) /\ PrefixInv
  BY DEF IInv
<1>2. /\ main' = "messages" /\ channel # <<>> /\ Head(channel).kind = "complete"
      /\ channel' = Tail(channel) /\ snapshot' = Head(channel).at
      /\ staging' = [EmptyStaging EXCEPT !.messages = staging.messages]
      /\ UNCHANGED <<log, target, due, conn, cursor, sent, frame, crashes, startOvers, again>>
      /\ UNCHANGED <<disk, running, served, answered, skipped, lost>>
  BY DEF ApplyCheckpoint, Receive, MainOnly, server, stream, position, history
<1>3. /\ ChannelInv(m)' /\ Received' \in {Received, 0} /\ Received = m /\ snapshot' = m
      /\ channel' \in Seq(Event) /\ Len(channel') <= Capacity /\ m <= Len(log)
  <2>1. PICK n0 \in Nat : n0 = IF m < channel[1].at THEN channel[1].at ELSE m
    BY <1>1, <1>2, PrepareTypes DEF Event
  <2>2. /\ ChannelInv(n0)' /\ Received' \in {channel[1].at, 0}
        /\ Received = Before(channel[1])
        /\ channel[1] = Head(channel) /\ channel[1] \in Event
        /\ channel' \in Seq(Event) /\ Len(channel') <= Capacity
        /\ n0 <= Len(log)
        /\ channel[1].kind = "complete" => channel[1].at = m /\ n0 = m
    BY <1>1, <1>2, <2>1, TakeStep
  <2> QED
    BY <1>2, <2>2 DEF Before
<1>4. /\ staging' = [chats |-> NoRows, projects |-> NoRows, messages |-> staging.messages]
      /\ NoRows \in Rows
  BY <1>2 DEF EmptyStaging, NoRows, Rows
<1>5. /\ mirror' \in [chats : Rows, projects : Rows, session : SUBSET Chat, buckets : Nat]
      /\ mirror'.projects = Applied(mirror.projects, staging.projects)
      /\ mirror'.chats = Applied(mirror.chats, staging.chats)
      /\ mirror'.buckets = mirror.buckets
  <2>1. /\ mirror \in [chats : Rows, projects : Rows, session : SUBSET Chat, buckets : Nat]
        /\ Applied(mirror.projects, staging.projects) \in Rows
        /\ Applied(mirror.chats, staging.chats) \in Rows
    BY <1>1, AppliedTypes DEF TypeOK
  <2> QED
    BY <2>1 DEF ApplyCheckpoint
<1>6. TypeOK'
  <2>1. staging' \in [chats : Rows, projects : Rows, messages : Seq(Nat)] /\ snapshot' \in Nat
    BY <1>1, <1>3, <1>4 DEF TypeOK
  <2> QED
    BY <1>1, <1>2, <1>3, <1>5, <2>1 DEF TypeOK
<1>7. RangeInv(m)'
  BY <1>1, <1>2, <1>3, <1>5 DEF RangeInv
<1>9. \A k : /\ Messages(k)' = Messages(k)
             /\ \A table, c : Newest(table, c, k)' = Newest(table, c, k)
  BY <1>2, SameLog
<1>10. Disposed' = Disposed /\ Queue' = Queue /\ m \in Nat
  BY <1>2, <1>4 DEF Disposed, Queue
<1>8. CoverInv(m)' /\ WindowInv(m)'
  <2>1. Messages(m) \subseteq Disposed \cup Queue
    BY <1>1, <1>3 DEF CoverInv
  <2>2. Messages(Received)' \subseteq Messages(m)
    <3>1. Messages(0) = {}
      BY DEF Messages
    <3>2. Messages(Received)' = Messages(Received')
      BY <1>2 DEF Messages
    <3> QED
      BY <1>3, <3>1, <3>2
  <2>3. CoverInv(m)'
    BY <1>1, <1>2, <1>5, <1>9, <1>10, <2>1, <2>2 DEF CoverInv
  <2>4. WindowInv(m)'
    BY <1>3, <1>4, <1>9, <1>10, <2>1 DEF WindowInv, NoRows
  <2> QED
    BY <2>3, <2>4
<1>11. ASSUME NEW c \in Chat
       PROVE  /\ mirror'.projects[c] = Newest("projects", c, m)'
              /\ mirror'.chats[c] \in {0, Newest("chats", c, m)'}
  <2>1. Settled("projects", c, m) /\ Settled("chats", c, m)
    BY <1>3 DEF Settled
  <2> QED
    BY <1>1, <1>5, <1>9, <2>1 DEF NetInv
<1>12. PrefixInv'
  BY <1>1, <1>2, <1>3, <1>9, <1>11 DEF PrefixInv, SavedIsPrefix, Level
<1>13. NetInv(m)'
  <2> SUFFICES ASSUME NEW c \in Chat
               PROVE  /\ staging'.projects[c] <= m /\ staging'.chats[c] <= m
                      /\ Applied(mirror.projects, staging.projects)'[c]
                             = Newest("projects", c, m)'
                      /\ Applied(mirror.chats, staging.chats)'[c]
                             \in {0, Newest("chats", c, m)'}
    BY DEF NetInv
  <2>1. staging'.projects[c] = 0 /\ staging'.chats[c] = 0 /\ 0 <= m
    BY <1>4 DEF NoRows
  <2>2. /\ Applied(mirror.projects, staging.projects)'[c] = mirror'.projects[c]
        /\ Applied(mirror.chats, staging.chats)'[c] = mirror'.chats[c]
    BY <2>1 DEF Applied
  <2> QED
    BY <1>11, <2>1, <2>2
<1> QED
  BY <1>3, <1>6, <1>7, <1>8, <1>12, <1>13 DEF IInv

\* A deferred message is lost, skipped or acted on.
LEMMA MessageStep ==
  ASSUME NEW m \in Nat, IInv(m), LoseMessage \/ SkipMessage \/ ServeMessage
  PROVE  IInv(m)'
<1> DEFINE i == Head(staging.messages)
<1>1. TypeOK /\ RangeInv(m) /\ ChannelInv(m) /\ CoverInv(m) /\ WindowInv(m) /\ NetInv(m) /\ PrefixInv
  BY DEF IInv
<1>2. /\ staging.messages # <<>>
      /\ staging' = [staging EXCEPT !.messages = Tail(@)]
      /\ UNCHANGED <<log, target, due, conn, cursor, sent, frame, crashes, startOvers, again>>
      /\ UNCHANGED <<channel, main, snapshot, mirror, disk>>
  BY DEF LoseMessage, SkipMessage, ServeMessage, NextMessage, MainOnly, server, stream, position
<1>3. /\ staging.messages \in Seq(Nat) /\ staging.messages[1] = i
      /\ Len(staging.messages) \in Nat /\ Len(staging.messages) >= 1
      /\ staging' = [staging EXCEPT !.messages = Tail(staging.messages)]
      /\ staging'.messages = Tail(staging.messages)
      /\ staging'.messages \in Seq(Nat)
      /\ Len(staging'.messages) = Len(staging.messages) - 1
      /\ \A j \in 1..Len(staging'.messages) : staging'.messages[j] = staging.messages[j + 1]
  <2>1. /\ staging \in [chats : Rows, projects : Rows, messages : Seq(Nat)]
        /\ staging.messages \in Seq(Nat)
    BY <1>1 DEF TypeOK
  <2>2. staging'.messages = Tail(staging.messages)
    BY <1>2, <2>1
  <2>3. Len(staging.messages) \in Nat /\ Len(staging.messages) # 0
    BY <1>2, <2>1, LenProperties, EmptySeq
  <2> QED
    BY <1>2, <2>1, <2>2, <2>3, HeadTailProperties
<1>4. Queue = Queue' \cup {i}
  <2>1. \A j \in 1..Len(staging'.messages) : j + 1 \in 1..Len(staging.messages)
    BY <1>3
  <2>2. \A j \in 1..Len(staging.messages) : j # 1 =>
          /\ j - 1 \in 1..Len(staging'.messages)
          /\ staging'.messages[j - 1] = staging.messages[j]
    BY <1>3
  <2>3. 1 \in 1..Len(staging.messages)
    BY <1>3
  <2>4. \A x \in Queue' : x \in Queue
    BY <1>3, <2>1 DEF Queue
  <2>5. \A x \in Queue : x \in Queue' \cup {i}
    <3> TAKE x \in Queue
    <3>1. PICK j \in 1..Len(staging.messages) : x = staging.messages[j]
      BY DEF Queue
    <3>2. CASE j = 1
      BY <1>3, <3>1, <3>2
    <3>3. CASE j # 1
      <4>1. /\ j - 1 \in 1..Len(staging'.messages)
            /\ staging'.messages[j - 1] = x
        BY <2>2, <3>1, <3>3
      <4> QED
        BY <4>1 DEF Queue
    <3> QED
      BY <3>2, <3>3
  <2>6. i \in Queue
    BY <1>3, <2>3 DEF Queue
  <2> QED
    BY <2>4, <2>5, <2>6
<1>5. /\ Received' = Received /\ Received \in Nat /\ m <= Len(log)
      /\ Len(log) \in Nat
  BY <1>1, <1>2, ReceivedInLog, PrepareTypes DEF Received, Before
<1>6. i \in Nat /\ log[i].chat \in Chat
  <2>1. i \in 1..Len(log)
    <3>1. i \in 1..m
      BY <1>1, <1>4 DEF CoverInv
    <3> QED
      BY <1>5, <3>1
  <2> QED
    BY <1>1, <2>1, PrepareTypes DEF Ops
<1>7. /\ \/ lost' = lost \cup {i} /\ UNCHANGED <<running, served, answered, skipped>>
         \/ skipped' = skipped \cup {i} /\ UNCHANGED <<running, served, answered, lost>>
         \/ /\ answered' = answered \cup {i} /\ served' = Append(served, i)
            /\ running' \in {running, running \cup {log[i].chat}}
            /\ UNCHANGED <<skipped, lost>>
      /\ Disposed' = Disposed \cup {i}
  <2>1. \/ lost' = lost \cup {i} /\ UNCHANGED <<running, served, answered, skipped>>
        \/ skipped' = skipped \cup {i} /\ UNCHANGED <<running, served, answered, lost>>
        \/ /\ answered' = answered \cup {i} /\ served' = Append(served, i)
           /\ running' \in {running, running \cup {log[i].chat}}
           /\ UNCHANGED <<skipped, lost>>
    BY DEF LoseMessage, SkipMessage, ServeMessage
  <2> QED
    BY <2>1 DEF Disposed
<1>8. TypeOK'
  <2>1. /\ running' \in SUBSET Chat /\ served' \in Seq(Nat)
        /\ answered' \in SUBSET Nat /\ skipped' \in SUBSET Nat /\ lost' \in SUBSET Nat
    <3>1. /\ running \in SUBSET Chat /\ served \in Seq(Nat)
          /\ answered \in SUBSET Nat /\ skipped \in SUBSET Nat /\ lost \in SUBSET Nat
      BY <1>1 DEF TypeOK
    <3>2. Append(served, i) \in Seq(Nat)
      BY <1>6, <3>1, AppendProperties
    <3> QED
      BY <1>6, <1>7, <3>1, <3>2
  <2>2. staging' \in [chats : Rows, projects : Rows, messages : Seq(Nat)]
    BY <1>1, <1>3 DEF TypeOK
  <2> QED
    BY <1>1, <1>2, <2>1, <2>2 DEF TypeOK
<1>9. RangeInv(m)' /\ ChannelInv(m)'
  <2>1. RangeInv(m)'
    BY <1>1, <1>2 DEF RangeInv
  <2>2. ChannelInv(m)'
    BY <1>1, <1>2, <1>5 DEF ChannelInv, Before, Follows
  <2> QED
    BY <2>1, <2>2
<1>10. staging'.projects = staging.projects /\ staging'.chats = staging.chats
  BY <1>1, <1>2 DEF TypeOK
<1>12. \A k : /\ Messages(k)' = Messages(k)
              /\ \A table, c : Newest(table, c, k)' = Newest(table, c, k)
  BY <1>2, SameLog
<1>11. WindowInv(m)'
  BY <1>1, <1>2, <1>4, <1>7, <1>10, <1>12 DEF WindowInv, NoRows
<1>13. CoverInv(m)'
  BY <1>1, <1>2, <1>4, <1>5, <1>7, <1>12 DEF CoverInv
<1>14. PrefixInv'
  BY <1>1, <1>2, <1>12 DEF PrefixInv, SavedIsPrefix, Level
<1>15. NetInv(m)'
  <2>1. /\ Applied(mirror.projects, staging.projects)' = Applied(mirror.projects, staging.projects)
        /\ Applied(mirror.chats, staging.chats)' = Applied(mirror.chats, staging.chats)
    BY <1>2, <1>10 DEF Applied
  <2>2. \A table, c : Settled(table, c, m)' => Settled(table, c, m)
    BY <1>2, <1>5, SettledKept
  <2> QED
    BY <1>1, <1>10, <1>12, <2>1, <2>2 DEF NetInv
<1> QED
  BY <1>8, <1>9, <1>11, <1>13, <1>14, <1>15 DEF IInv

\* The cursor becomes the mirror's.
LEMMA FinishStep ==
  ASSUME NEW m \in Nat, IInv(m), FinishCheckpoint
  PROVE  IInv(m)'
<1>1. TypeOK /\ RangeInv(m) /\ ChannelInv(m) /\ CoverInv(m) /\ WindowInv(m) /\ NetInv(m) /\ PrefixInv
  BY DEF IInv
<1>2. /\ main = "messages" /\ main' = "save" /\ staging.messages = <<>>
      /\ mirror' = [mirror EXCEPT !.buckets = snapshot]
      /\ UNCHANGED <<log, target, due, conn, cursor, sent, frame, crashes, startOvers, again>>
      /\ UNCHANGED <<channel, staging, snapshot, disk, running, served, answered, skipped, lost>>
  BY DEF FinishCheckpoint, MainOnly, server, stream, position, history
<1>3. /\ snapshot = m /\ Received' = Received /\ Received \in Nat
      /\ Messages(snapshot) \subseteq Disposed \cup Queue
  BY <1>1, <1>2, ReceivedInLog DEF WindowInv, Received, Before
<1>4. /\ mirror' \in [chats : Rows, projects : Rows, session : SUBSET Chat, buckets : Nat]
      /\ mirror'.projects = mirror.projects /\ mirror'.chats = mirror.chats
      /\ mirror'.buckets = snapshot
  BY <1>1, <1>2 DEF TypeOK
<1>5. \A k : /\ Messages(k)' = Messages(k)
             /\ \A table, c : Newest(table, c, k)' = Newest(table, c, k)
  BY <1>2, SameLog
<1>6. TypeOK'
  BY <1>1, <1>2, <1>4 DEF TypeOK
<1>7. RangeInv(m)' /\ ChannelInv(m)' /\ WindowInv(m)'
  <2>1. RangeInv(m)' /\ WindowInv(m)'
    BY <1>1, <1>2, <1>4 DEF RangeInv, WindowInv
  <2>2. ChannelInv(m)'
    BY <1>1, <1>2, <1>3 DEF ChannelInv, Before, Follows
  <2> QED
    BY <2>1, <2>2
<1>8. CoverInv(m)'
  <2>1. Queue = {} /\ Queue' = Queue /\ Disposed' = Disposed
    BY <1>2 DEF Queue, Disposed
  <2>2. Messages(mirror.buckets)' = Messages(snapshot)
    BY <1>4, <1>5
  <2> QED
    BY <1>1, <1>2, <1>3, <1>5, <2>1, <2>2 DEF CoverInv
<1>9. NetInv(m)'
  <2>1. /\ Applied(mirror.projects, staging.projects)' = Applied(mirror.projects, staging.projects)
        /\ Applied(mirror.chats, staging.chats)' = Applied(mirror.chats, staging.chats)
    BY <1>2, <1>4 DEF Applied
  <2>2. \A table, c : Settled(table, c, m)' => Settled(table, c, m)
    BY <1>2, <1>3, SettledKept
  <2> QED
    BY <1>1, <1>2, <1>5, <2>1, <2>2 DEF NetInv
<1>10. PrefixInv'
  BY <1>1, <1>2, <1>4, <1>5 DEF PrefixInv, SavedIsPrefix, Level
<1> QED
  BY <1>6, <1>7, <1>8, <1>9, <1>10 DEF IInv

\* The mirror is saved, or it is not.
LEMMA SaveStep ==
  ASSUME NEW m \in Nat, IInv(m), Save
  PROVE  IInv(m)'
<1>1. TypeOK /\ RangeInv(m) /\ ChannelInv(m) /\ CoverInv(m) /\ WindowInv(m) /\ NetInv(m) /\ PrefixInv
  BY DEF IInv
<1>2. /\ main = "save" /\ main' = "select"
      /\ disk' \in {disk, [projects |-> mirror.projects, buckets |-> mirror.buckets]}
      /\ UNCHANGED <<log, target, due, conn, cursor, sent, frame, crashes, startOvers, again>>
      /\ UNCHANGED <<channel, staging, snapshot, mirror, running, served, answered, skipped, lost>>
  BY DEF Save, MainOnly, server, stream, position, history
<1>3. /\ mirror.buckets \in Nat /\ mirror.projects \in Rows
      /\ disk \in [projects : Rows, buckets : Nat]
  BY <1>1 DEF TypeOK
<1>4. \A k : /\ Messages(k)' = Messages(k)
             /\ \A table, c : Newest(table, c, k)' = Newest(table, c, k)
  BY <1>2, SameLog
<1>5. TypeOK'
  BY <1>1, <1>2, <1>3 DEF TypeOK
<1>7. /\ Received' = Received /\ Queue' = Queue /\ Disposed' = Disposed
      /\ Received \in Nat
  BY <1>1, <1>2, ReceivedInLog DEF Received, Before, Queue, Disposed
<1>6. RangeInv(m)' /\ ChannelInv(m)' /\ WindowInv(m)'
  <2>1. RangeInv(m)' /\ WindowInv(m)'
    BY <1>1, <1>2 DEF RangeInv, WindowInv
  <2>2. ChannelInv(m)'
    BY <1>1, <1>2, <1>7 DEF ChannelInv, Before, Follows
  <2> QED
    BY <2>1, <2>2
<1>8. CoverInv(m)' /\ PrefixInv'
  <2>1. CASE disk' = disk
    BY <1>1, <1>2, <1>4, <1>7, <2>1 DEF CoverInv, PrefixInv, SavedIsPrefix, Level
  <2>2. CASE disk' = [projects |-> mirror.projects, buckets |-> mirror.buckets]
    <3>1. /\ disk'.buckets = mirror.buckets /\ disk'.projects = mirror.projects
          /\ Messages(disk.buckets)' = Messages(mirror.buckets)
      BY <1>4, <2>2
    <3> QED
      BY <1>1, <1>2, <1>4, <1>7, <3>1 DEF CoverInv, PrefixInv, SavedIsPrefix, Level
  <2> QED
    BY <1>2, <2>1, <2>2
<1>9. NetInv(m)'
  <2>1. /\ Applied(mirror.projects, staging.projects)' = Applied(mirror.projects, staging.projects)
        /\ Applied(mirror.chats, staging.chats)' = Applied(mirror.chats, staging.chats)
    BY <1>2 DEF Applied
  <2>2. \A table, c : Settled(table, c, m)' => Settled(table, c, m)
    BY <1>2, <1>7, SettledKept
  <2> QED
    BY <1>1, <1>2, <1>4, <2>1, <2>2 DEF NetInv
<1> QED
  BY <1>5, <1>6, <1>8, <1>9 DEF IInv

\* An agent's session id reaches the mirror.
LEMMA HarvestStep ==
  ASSUME NEW m \in Nat, IInv(m), NEW a \in Chat, Harvest(a)
  PROVE  IInv(m)'
<1>1. TypeOK /\ RangeInv(m) /\ ChannelInv(m) /\ CoverInv(m) /\ WindowInv(m) /\ NetInv(m) /\ PrefixInv
  BY DEF IInv
<1>2. /\ mirror' = [mirror EXCEPT !.session = @ \cup {a}]
      /\ UNCHANGED <<log, target, due, conn, cursor, sent, frame, crashes, startOvers, again,
                    channel, main>>
      /\ UNCHANGED <<staging, snapshot, disk, running, served, answered, skipped, lost>>
  BY DEF Harvest, MainOnly, server, stream, position, history
<1>3. /\ mirror' \in [chats : Rows, projects : Rows, session : SUBSET Chat, buckets : Nat]
      /\ mirror'.projects = mirror.projects /\ mirror'.chats = mirror.chats
      /\ mirror'.buckets = mirror.buckets
  BY <1>1, <1>2 DEF TypeOK
<1>4. \A k : /\ Messages(k)' = Messages(k)
             /\ \A table, c : Newest(table, c, k)' = Newest(table, c, k)
  BY <1>2, SameLog
<1>5. TypeOK'
  BY <1>1, <1>2, <1>3 DEF TypeOK
<1>7. /\ Received' = Received /\ Queue' = Queue /\ Disposed' = Disposed
      /\ Received \in Nat
  BY <1>1, <1>2, ReceivedInLog DEF Received, Before, Queue, Disposed
<1>6. RangeInv(m)' /\ ChannelInv(m)' /\ WindowInv(m)'
  <2>1. RangeInv(m)'
    BY <1>1, <1>2, <1>3 DEF RangeInv
  <2>2. ChannelInv(m)'
    BY <1>1, <1>2, <1>7 DEF ChannelInv, Before, Follows
  <2>3. WindowInv(m)'
    BY <1>1, <1>2, <1>4, <1>7 DEF WindowInv, NoRows
  <2> QED
    BY <2>1, <2>2, <2>3
<1>8. CoverInv(m)' /\ PrefixInv'
  <2>1. Messages(mirror.buckets)' = Messages(mirror.buckets)
    BY <1>3, <1>4
  <2> QED
    BY <1>1, <1>2, <1>3, <1>4, <1>7, <2>1 DEF CoverInv, PrefixInv, SavedIsPrefix, Level
<1>9. NetInv(m)'
  <2>1. /\ Applied(mirror.projects, staging.projects)' = Applied(mirror.projects, staging.projects)
        /\ Applied(mirror.chats, staging.chats)' = Applied(mirror.chats, staging.chats)
    BY <1>2, <1>3 DEF Applied
  <2>2. \A table, c : Settled(table, c, m)' => Settled(table, c, m)
    BY <1>2, <1>7, SettledKept
  <2> QED
    BY <1>1, <1>2, <1>3, <1>4, <2>1, <2>2 DEF NetInv
<1> QED
  BY <1>5, <1>6, <1>8, <1>9 DEF IInv

-----------------------------------------------------------------------------
(* The backend's transactions and the restart                              *)

\* The sequences that make a transaction.
LEMMA ShortSequences ==
  ASSUME NEW S, NEW x \in S, NEW y \in S, NEW z \in S
  PROVE  <<x>> \in Seq(S) /\ <<x, y>> \in Seq(S) /\ <<x, y, z>> \in Seq(S)
OBVIOUS

\* Every transaction of the backend is one of Commit.
LEMMA BackendStep ==
  ASSUME NEW m \in Nat, IInv(m), Backend
  PROVE  IInv(m)'
<1>1. TypeOK
  BY DEF IInv
<1>2. \A table \in Tables, op \in {"PUT", "REMOVE"}, c \in Chat, seq \in Nat, b \in BOOLEAN :
        Op(table, op, c, seq, b) \in Ops
  BY DEF Op, Ops
<1>3. PICK c \in Chat : \/ NewChat(c) \/ UserMessage(c) \/ DeleteChat(c)
                        \/ MoveProject(c) \/ MemberRow(c)
                        \/ AgentLine(c) \/ SessionWritten(c)
  BY DEF Backend
<1>4. Exists(c) => Latest(c).seq \in Nat /\ Latest(c).session \in BOOLEAN
  <2> HAVE Exists(c)
  <2>1. Newest("chats", c, Len(log)) \in 1..Len(log)
    BY <1>1, PrepareTypes, NewestRange DEF Exists
  <2>2. log[Newest("chats", c, Len(log))] \in Ops
    BY <1>1, <2>1, PrepareTypes
  <2> QED
    BY <2>2 DEF Latest, Ops
<1>5. \A seq \in Nat, b \in BOOLEAN :
        /\ Message(c, seq) \in Ops /\ PutChat(c, seq, b) \in Ops /\ PutProject(c) \in Ops
        /\ Remove("chats", c) \in Ops /\ Remove("projects", c) \in Ops
        /\ MoveChat(c, seq, b) \in Seq(Ops)
  <2> TAKE seq \in Nat, b \in BOOLEAN
  <2>1. /\ Message(c, seq) \in Ops /\ PutChat(c, seq, b) \in Ops /\ PutProject(c) \in Ops
        /\ Remove("chats", c) \in Ops /\ Remove("projects", c) \in Ops
    BY <1>2 DEF Message, PutChat, PutProject, Remove, Tables
  <2> QED
    BY <2>1 DEF MoveChat
<1>6. \E txn \in Seq(Ops) : Commit(txn)
  <2>1. CASE NewChat(c)
    <3> DEFINE txn == <<Message(c, 1), PutChat(c, 1, FALSE), PutProject(c)>>
    <3>1. txn \in Seq(Ops)
      <4>1. /\ Message(c, 1) \in Ops /\ PutChat(c, 1, FALSE) \in Ops
            /\ PutProject(c) \in Ops
        BY <1>5
      <4> QED
        BY <4>1, ShortSequences
    <3>2. Commit(txn)
      BY <2>1 DEF NewChat
    <3> QED
      BY <3>1, <3>2
  <2>2. CASE UserMessage(c)
    <3> DEFINE seq == Latest(c).seq + 1
               txn == <<Message(c, seq)>> \o MoveChat(c, seq, Latest(c).session)
    <3>1. Commit(txn) /\ Exists(c)
      BY <2>2 DEF UserMessage
    <3>2. seq \in Nat /\ Latest(c).session \in BOOLEAN
      BY <1>4, <3>1
    <3>3. <<Message(c, seq)>> \in Seq(Ops) /\ MoveChat(c, seq, Latest(c).session) \in Seq(Ops)
      BY <1>5, <3>2
    <3>4. txn \in Seq(Ops)
      BY <3>3, ConcatProperties
    <3> QED
      BY <3>1, <3>4
  <2>3. CASE DeleteChat(c) \/ MoveProject(c) \/ MemberRow(c)
    <3>1. /\ <<Remove("chats", c)>> \in Seq(Ops)
          /\ <<Remove("projects", c), PutProject(c)>> \in Seq(Ops)
          /\ <<Op("machine_users", "PUT", c, 0, FALSE)>> \in Seq(Ops)
      <4>1. /\ Remove("chats", c) \in Ops /\ Remove("projects", c) \in Ops
            /\ PutProject(c) \in Ops
        BY <1>5
      <4>2. Op("machine_users", "PUT", c, 0, FALSE) \in Ops
        BY <1>2 DEF Tables
      <4> QED
        BY <4>1, <4>2, ShortSequences
    <3> QED
      BY <2>3, <3>1 DEF DeleteChat, MoveProject, MemberRow
  <2>4. CASE AgentLine(c)
    <3>1. Exists(c) /\ Commit(MoveChat(c, Latest(c).seq + 1, Latest(c).session))
      BY <2>4 DEF AgentLine
    <3>2. MoveChat(c, Latest(c).seq + 1, Latest(c).session) \in Seq(Ops)
      BY <1>4, <1>5, <3>1
    <3> QED
      BY <3>1, <3>2
  <2>5. CASE SessionWritten(c)
    <3>1. Exists(c) /\ Commit(MoveChat(c, Latest(c).seq, TRUE))
      BY <2>5 DEF SessionWritten
    <3>2. MoveChat(c, Latest(c).seq, TRUE) \in Seq(Ops)
      BY <1>4, <1>5, <3>1
    <3> QED
      BY <3>1, <3>2
  <2> QED
    BY <1>3, <2>1, <2>2, <2>3, <2>4, <2>5
<1> QED
  BY <1>6, CommitStep

\* What holds of a spawner that has just read its state file.
LEMMA FreshStart ==
  ASSUME NEW m \in Nat, JustStarted, disk.buckets = m
  PROVE  IInv(m)
<1> USE DEF JustStarted
<1>1. /\ Len(log) \in Nat /\ disk.buckets \in Nat
      /\ NoRows \in Rows
      /\ channel \in Seq(Event) /\ Len(channel) = 0
      /\ served \in Seq(Nat)
      /\ staging.messages = <<>> /\ staging.messages \in Seq(Nat) /\ Len(staging.messages) = 0
  BY LenProperties, EmptySeq DEF NoRows, Rows, EmptyStaging
<1>2. /\ mirror.chats = NoRows /\ mirror.projects = disk.projects
      /\ mirror.buckets = disk.buckets
      /\ mirror \in [chats : Rows, projects : Rows, session : SUBSET Chat, buckets : Nat]
  BY <1>1 DEF Loaded
<1>3. /\ staging.chats = NoRows /\ staging.projects = NoRows
      /\ staging \in [chats : Rows, projects : Rows, messages : Seq(Nat)]
  BY <1>1 DEF EmptyStaging
<1>4. TypeOK
  <2>1. Len(channel) <= Capacity
    BY <1>1, SyncAssumption
  <2> QED
    BY <1>1, <1>2, <1>3, <2>1 DEF TypeOK
<1>5. RangeInv(m)
  BY <1>1, <1>2 DEF RangeInv
<1>7. Received = m /\ Queue = {}
  BY <1>1 DEF Received, Queue
<1>6. ChannelInv(m)
  BY <1>1, <1>7 DEF ChannelInv
<1>8. CoverInv(m) /\ WindowInv(m)
  BY <1>2, <1>7 DEF CoverInv, WindowInv
<1>9. \A c \in Chat :
        mirror.projects[c] = Newest("projects", c, disk.buckets) /\ mirror.chats[c] = 0
  BY <1>2 DEF SavedIsPrefix, NoRows
<1>10. NetInv(m)
  <2> SUFFICES ASSUME NEW c \in Chat
               PROVE  /\ staging.projects[c] <= m /\ staging.chats[c] <= m
                      /\ Applied(mirror.projects, staging.projects)[c]
                            = Newest("projects", c, m)
                      /\ Applied(mirror.chats, staging.chats)[c]
                            \in {0, Newest("chats", c, m)}
    BY DEF NetInv
  <2>1. staging.projects[c] = 0 /\ staging.chats[c] = 0 /\ 0 <= m
    BY <1>3 DEF NoRows
  <2>2. /\ Applied(mirror.projects, staging.projects)[c] = mirror.projects[c]
        /\ Applied(mirror.chats, staging.chats)[c] = mirror.chats[c]
    BY <1>3, AppliedNone
  <2> QED
    BY <1>1, <1>9, <2>1, <2>2
<1>11. PrefixInv
  BY <1>2, <1>9 DEF PrefixInv, Level
<1> QED
  BY <1>4, <1>5, <1>6, <1>8, <1>10, <1>11 DEF IInv

LEMMA StartHolds == JustStarted => Inv
<1> HAVE JustStarted
<1>1. disk.buckets \in Nat
  BY DEF JustStarted
<1> QED
  BY <1>1, FreshStart DEF Inv

\* A crash and the next start, with the file that was saved or without one.
LEMMA RestartIsStart ==
  ASSUME NEW m \in Nat, IInv(m), Restart
  PROVE  JustStarted'
<1>1. TypeOK /\ RangeInv(m) /\ CoverInv(m) /\ PrefixInv
  BY DEF IInv
<1>2. /\ disk' \in {disk, Fresh} /\ crashes' = crashes + 1
      /\ mirror' = Loaded(disk)'
      /\ cursor' = disk'.buckets /\ sent' = disk'.buckets /\ frame' = disk'.buckets
      /\ conn' = FALSE /\ due' = FALSE /\ target' = 0 /\ channel' = <<>>
      /\ main' = "select" /\ staging' = EmptyStaging' /\ snapshot' = 0
      /\ running' = {} /\ served' = <<>> /\ again' = FALSE
      /\ UNCHANGED <<log, startOvers, answered, skipped, lost>>
  BY DEF Restart, Loaded, EmptyStaging, NoRows
<1>3. \A k : /\ Messages(k)' = Messages(k)
             /\ \A table, c : Newest(table, c, k)' = Newest(table, c, k)
  BY <1>2, SameLog
<1>4. /\ disk' \in [projects : Rows, buckets : Nat] /\ disk'.buckets <= Len(log)
      /\ \A c \in Chat : disk'.projects[c] = Newest("projects", c, disk'.buckets)
      /\ Messages(disk'.buckets) \subseteq Disposed
  <2>1. CASE disk' = disk
    BY <1>1, <2>1 DEF TypeOK, RangeInv, CoverInv, PrefixInv, SavedIsPrefix
  <2>2. CASE disk' = Fresh
    <3>1. disk'.buckets = 0 /\ disk'.projects = NoRows /\ NoRows \in Rows
      BY <2>2 DEF Fresh, NoRows, Rows
    <3>2. Messages(0) = {} /\ Len(log) \in Nat
      BY <1>1, PrepareTypes DEF Messages
    <3> QED
      BY <2>2, <3>1, <3>2, NewestOfNone DEF Fresh, NoRows
  <2> QED
    BY <1>2, <2>1, <2>2
<1>5. SavedIsPrefix' /\ Messages(disk.buckets)' \subseteq Disposed'
  BY <1>2, <1>3, <1>4 DEF SavedIsPrefix, Disposed
<1> QED
  BY <1>1, <1>2, <1>4, <1>5 DEF JustStarted, TypeOK

LEMMA RestartStep ==
  ASSUME NEW m \in Nat, IInv(m), Restart
  PROVE  Inv'
<1>1. JustStarted'
  BY RestartIsStart
<1> QED
  BY <1>1, StartHolds, PTL

-----------------------------------------------------------------------------
(* Every behaviour                                                         *)

\* The first start is that of a spawner with no state file.
LEMMA InitIsStart == Init => JustStarted
<1> HAVE Init
<1>1. Fresh.buckets = 0 /\ Fresh.projects = NoRows /\ NoRows \in Rows
      /\ Fresh \in [projects : Rows, buckets : Nat]
  BY DEF Fresh, NoRows, Rows
<1>2. log = <<>> /\ log \in Seq(Ops) /\ Len(log) = 0 /\ Messages(0) = {} /\ disk = Fresh
  BY EmptySeq DEF Init, Messages
<1>3. SavedIsPrefix
  BY <1>1, <1>2, NewestOfNone DEF SavedIsPrefix, NoRows
<1> QED
  BY <1>1, <1>2, <1>3 DEF JustStarted, Init

LEMMA Initially == Init => Inv
BY InitIsStart, StartHolds

\* Every step keeps the invariant.
LEMMA Inductive == Inv /\ [Next]_vars => Inv'
<1> SUFFICES ASSUME NEW m \in Nat, IInv(m), [Next]_vars PROVE Inv'
  BY DEF Inv
<1>0. IInv(m)' => Inv'
  BY DEF Inv
<1>1. CASE Backend
  BY <1>0, <1>1, BackendStep
<1>2. CASE Connect \/ Disconnect \/ CheckpointDiff \/ DataFrame \/ SendRow \/ SendComplete
  BY <1>0, <1>2, StreamStep
<1>3. CASE StageRow
  <2>1. channel # <<>> /\ TypeOK
    BY <1>3 DEF StageRow, Receive, IInv
  <2>2. PICK n \in Nat : n = IF m < channel[1].at THEN channel[1].at ELSE m
    BY <2>1, PrepareTypes DEF Event
  <2>3. IInv(n)'
    BY <1>3, <2>2, StageRowStep
  <2> QED
    BY <2>3 DEF Inv
<1>4. CASE ApplyCheckpoint
  BY <1>0, <1>4, ApplyCheckpointStep
<1>5. CASE LoseMessage \/ SkipMessage \/ ServeMessage
  BY <1>0, <1>5, MessageStep
<1>6. CASE FinishCheckpoint
  BY <1>0, <1>6, FinishStep
<1>7. CASE Save
  BY <1>0, <1>7, SaveStep
<1>8. CASE \E c \in Chat : Harvest(c)
  BY <1>0, <1>8, HarvestStep
<1>9. CASE Restart
  BY <1>9, RestartStep
<1>10. CASE UNCHANGED vars
  <2>1. UNCHANGED <<log, target, due, conn, cursor, sent, frame, channel, main, staging,
                    snapshot, mirror, disk, running, crashes, startOvers, again, served,
                    answered, skipped, lost>>
    BY <1>10 DEF vars, server, stream, position, history
  <2>2. TypeOK' /\ RangeInv(m)' /\ ChannelInv(m)' /\ Received' = Received
    BY <2>1 DEF IInv, TypeOK, RangeInv, ChannelInv, Received, Before, Follows
  <2> QED
    BY <1>0, <2>1, <2>2, UnmovedStep
<1> QED
  BY <1>1, <1>2, <1>3, <1>4, <1>5, <1>6, <1>7, <1>8, <1>9, <1>10 DEF Next, MainLoop

\* The invariant that all of the theorems below follow from.
THEOREM Invariant == Spec => []Inv
BY Initially, Inductive, PTL DEF Spec

\* Every variable has its type, and the channel never holds more than its
\* capacity (TypeOK), for any number of operations and restarts.
THEOREM TypeCorrect == Spec => []TypeOK
<1>1. Inv => TypeOK
  BY DEF Inv, IInv
<1> QED
  BY <1>1, Invariant, PTL

\* What the cursor of the state file is past has been looked at (CursorCovers):
\* the file is written after the messages of the window are handled, and the
\* cursor it holds is the one the checkpoint carried (main.rs, the arm of
\* CheckpointComplete).
THEOREM MessagesCovered == Spec => []CursorCovers
<1>1. Inv => CursorCovers
  BY DEF Inv, IInv, CoverInv, CursorCovers
<1> QED
  BY <1>1, Invariant, PTL

\* Between two events the mirror is what the bucket leaves up to the mirror's
\* cursor (MirrorIsPrefix), though frames, windows, lost connections and
\* checkpoints that overtake each other cut the operations anywhere.
THEOREM MirrorConsistent == Spec => []MirrorIsPrefix
<1>1. Inv => MirrorIsPrefix
  BY DEF Inv, IInv, PrefixInv, Level, MirrorIsPrefix
<1> QED
  BY <1>1, Invariant, PTL

\* The projects of the state file are those its cursor stands for
\* (SavedIsPrefix), also when the mirror is saved in the middle of a window.
THEOREM SavedConsistent == Spec => []SavedIsPrefix
<1>1. Inv => SavedIsPrefix
  BY DEF Inv, IInv, PrefixInv
<1> QED
  BY <1>1, Invariant, PTL

\* A chat loses the session the mirror knows only with its row (SessionKept):
\* a row from before the session was written does not erase it (apply_chat).
THEOREM SessionsKept == Spec => SessionKept
<1> DEFINE Kept == \A c \in mirror.session \ mirror'.session : mirror'.chats[c] = 0
<1>1. Inv /\ [Next]_vars => [Kept]_vars
  <2> SUFFICES ASSUME Inv, Next PROVE Kept
    BY DEF vars, server, stream, position, history
  <2>1. mirror \in [chats : Rows, projects : Rows, session : SUBSET Chat, buckets : Nat]
    BY DEF Inv, IInv, TypeOK
  <2>2. CASE UNCHANGED mirror
    BY <2>2
  <2>3. CASE ApplyCheckpoint
    BY <2>1, <2>3 DEF ApplyCheckpoint
  <2>4. CASE FinishCheckpoint
    BY <2>1, <2>4 DEF FinishCheckpoint
  <2>5. CASE \E c \in Chat : Harvest(c)
    BY <2>1, <2>5 DEF Harvest
  <2>6. CASE Restart
    BY <2>1, <2>6 DEF Restart, Loaded, NoRows
  <2>7. \/ UNCHANGED mirror \/ ApplyCheckpoint \/ FinishCheckpoint
        \/ (\E c \in Chat : Harvest(c)) \/ Restart
    <3>1. CASE Backend
      BY <3>1 DEF Backend, NewChat, UserMessage, DeleteChat, MoveProject, MemberRow,
                  AgentLine, SessionWritten, Commit
    <3>2. CASE Connect \/ Disconnect \/ CheckpointDiff \/ DataFrame \/ SendRow \/ SendComplete
      BY <3>2 DEF Connect, Disconnect, CheckpointDiff, DataFrame, SendRow, SendComplete, SyncOnly
    <3>3. CASE StageRow \/ LoseMessage \/ SkipMessage \/ ServeMessage \/ Save
      BY <3>3 DEF StageRow, LoseMessage, SkipMessage, ServeMessage, NextMessage, Save
    <3> QED
      BY <3>1, <3>2, <3>3 DEF Next, MainLoop
  <2> QED
    BY <2>2, <2>3, <2>4, <2>5, <2>6, <2>7
<1> QED
  BY <1>1, Invariant, PTL DEF Spec, SessionKept

-----------------------------------------------------------------------------
(***************************************************************************)
(* What SyncCheckpoint owes to transactions: the order in which messages   *)
(* are acted on, the chat and the project each of them finds, and that no  *)
(* chat is evicted by the REMOVE of an update.                             *)
(*                                                                         *)
(* Frames and reconnections cut the log anywhere, but a checkpoint is the  *)
(* end of a transaction.  What that gives is called Closed: every message  *)
(* of such a prefix is followed by its chat's row, which is at least as    *)
(* recent as the message, and a chat that is missing then is deleted.      *)
(***************************************************************************)

\* A row of the chat follows operation i within the first k.
Seen(c, i, k) == \E p \in i + 1 .. k : log[p].table = "chats" /\ log[p].chat = c

Closed(k) ==
  /\ \A i \in Messages(k) :
       /\ Seen(log[i].chat, i, k)
       /\ Newest("chats", log[i].chat, k) # 0 =>
            log[i].seq <= log[Newest("chats", log[i].chat, k)].seq
  /\ \A c \in Chat : Touching("chats", c, k) # {} =>
       /\ Newest("projects", c, k) # 0
       /\ Newest("chats", c, k) = 0 => ~Exists(c)

\* The messages of a chat are in the log in the order of their numbers.
SeqInv ==
  \A i, j \in Messages(Len(log)) :
    i < j /\ log[i].chat = log[j].chat => log[i].seq < log[j].seq

\* Whatever is or becomes a checkpoint is the end of a transaction.
ClosedInv ==
  /\ Closed(Len(log)) /\ Closed(target)
  /\ \A j \in 1..Len(channel) : channel[j].kind = "complete" => Closed(channel[j].at)
  /\ main = "messages" => Closed(snapshot)

Up(s) == \A a, b \in 1..Len(s) : a < b => s[a] < s[b]

\* The messages acted on, and then those waiting, are in the order of the log,
\* until the bucket is started over.
LineInv(m) ==
  /\ \A a \in 1..Len(served) : served[a] \in Messages(m)
  /\ \A b \in 1..Len(staging.messages) : staging.messages[b] \in Messages(m)
  /\ ServedInOrder
  /\ ~again =>
      /\ Up(served) /\ Up(staging.messages)
      /\ \A a \in 1..Len(served), b \in 1..Len(staging.messages) : served[a] < staging.messages[b]

\* The chat's newest row is staged or applied: a row of it is staged, or one has
\* followed a message that is still waiting.
Sure(c, m) ==
  \/ staging.chats[c] # 0
  \/ \E i \in Queue : log[i].chat = c /\ Seen(c, i, m)

SureInv(m) ==
  /\ \A c \in Chat : staging.chats[c] # 0 => staging.chats[c] \in Touching("chats", c, m)
  /\ \A c \in Chat : Sure(c, m) /\ Settled("chats", c, m) =>
       Applied(mirror.chats, staging.chats)[c] = Newest("chats", c, m)
  /\ main = "messages" =>
       \A i \in Queue : mirror.chats[log[i].chat] = Newest("chats", log[i].chat, snapshot)

\* A message is lost for a chat that was deleted only, which stays so.
LostInv ==
  \A i \in lost : /\ i \in 1..Len(log) /\ ~Exists(log[i].chat)
                  /\ Touching("chats", log[i].chat, Len(log)) # {}

OInv(m) == SeqInv /\ ClosedInv /\ LineInv(m) /\ SureInv(m) /\ LostInv

\* The order invariant: so much of the log has been seen since the boot.
AInv == \E m \in Nat : IInv(m) /\ OInv(m)

-----------------------------------------------------------------------------
(* What one transaction makes of the log                                   *)

\* Operations that do not touch a row leave it.
LEMMA UntouchedKept ==
  ASSUME NEW table, NEW c, NEW k \in Nat, NEW n \in Nat, k <= n,
         \A i \in 1..k : log'[i] = log[i],
         \A i \in k + 1 .. n : ~(log'[i].table = table /\ log'[i].chat = c)
  PROVE  /\ Touching(table, c, n)' = Touching(table, c, k)
         /\ Newest(table, c, n)' = Newest(table, c, k)
<1>1. Touching(table, c, n)' = Touching(table, c, k)
  <2>1. \A i \in 1..n : i \in 1..k \/ i \in k + 1 .. n
    OBVIOUS
  <2>2. \A i \in 1..k : i \in 1..n
    OBVIOUS
  <2> QED
    BY <2>1, <2>2 DEF Touching
<1>2. \A i \in Touching(table, c, k) : log'[i].op = log[i].op
  BY DEF Touching
<1> QED
  BY <1>1, <1>2 DEF Newest

\* The last operation on a row decides it.
LEMMA LastTouch ==
  ASSUME NEW table, NEW c, NEW n \in Nat, NEW p \in 1..n,
         log'[p].table = table, log'[p].chat = c,
         \A i \in p + 1 .. n : ~(log'[i].table = table /\ log'[i].chat = c)
  PROVE  /\ p \in Touching(table, c, n)'
         /\ Newest(table, c, n)' = IF log'[p].op = "PUT" THEN p ELSE 0
<1> DEFINE T == Touching(table, c, n)'
<1>1. p \in T /\ \A i \in T : i \in Nat /\ i <= p
  <2>1. \A i \in 1..n : i <= p \/ i \in p + 1 .. n
    OBVIOUS
  <2> QED
    BY <2>1 DEF Touching
<1>2. \A i \in T : (\A j \in T : j <= i) <=> i = p
  BY <1>1
<1>3. (CHOOSE i \in T : \A j \in T : j <= i) = p
  BY <1>1, <1>2
<1>4. Newest(table, c, n)' = IF \E i \in T : log'[i].op = "PUT" /\ \A j \in T : j <= i
                             THEN CHOOSE i \in T : \A j \in T : j <= i
                             ELSE 0
  BY DEF Newest
<1> QED
  BY <1>1, <1>2, <1>3, <1>4

\* The operations of a transaction follow the log.
LEMMA CommitShape ==
  ASSUME TypeOK, NEW txn \in Seq(Ops), Commit(txn)
  PROVE  /\ Len(log) \in Nat /\ Len(log') = Len(log) + Len(txn) /\ Len(txn) \in Nat
         /\ \A i \in 1..Len(log) : log'[i] = log[i]
         /\ \A i \in 1..Len(txn) : log'[Len(log) + i] = txn[i]
<1>1. log \in Seq(Ops) /\ log' = log \o txn
  BY DEF TypeOK, Commit
<1>2. Len(log) \in Nat /\ Len(txn) \in Nat /\ Len(log') = Len(log) + Len(txn)
      /\ \A i \in 1..Len(log) + Len(txn) :
           log'[i] = IF i <= Len(log) THEN log[i] ELSE txn[i - Len(log)]
  BY <1>1, ConcatProperties, LenProperties
<1>3. \A i \in 1..Len(txn) : log'[Len(log) + i] = txn[i]
  <2> TAKE i \in 1..Len(txn)
  <2>1. Len(log) + i \in 1..Len(log) + Len(txn) /\ ~(Len(log) + i <= Len(log))
        /\ (Len(log) + i) - Len(log) = i
    BY <1>2
  <2> QED
    BY <1>2, <2>1
<1> QED
  BY <1>2, <1>3

\* Transactions of one, two and three operations.
LEMMA CommitOne ==
  ASSUME TypeOK, NEW x \in Ops, Commit(<<x>>)
  PROVE  /\ Len(log) \in Nat /\ Len(log') = Len(log) + 1
         /\ \A i \in 1..Len(log) : log'[i] = log[i]
         /\ log'[Len(log) + 1] = x
<1> DEFINE t == <<x>>
<1>1. t \in Seq(Ops) /\ Len(t) = 1 /\ t[1] = x
  BY ShortSequences
<1>2. Commit(t)
  OBVIOUS
<1> HIDE DEF t
<1>3. 1 \in 1..Len(t)
  BY <1>1
<1>4. /\ Len(log) \in Nat /\ Len(log') = Len(log) + Len(t)
      /\ \A i \in 1..Len(log) : log'[i] = log[i]
      /\ \A i \in 1..Len(t) : log'[Len(log) + i] = t[i]
  BY <1>1, <1>2, CommitShape
<1> QED
  BY <1>1, <1>3, <1>4

LEMMA CommitTwo ==
  ASSUME TypeOK, NEW x \in Ops, NEW y \in Ops, Commit(<<x, y>>)
  PROVE  /\ Len(log) \in Nat /\ Len(log') = Len(log) + 2
         /\ \A i \in 1..Len(log) : log'[i] = log[i]
         /\ log'[Len(log) + 1] = x
         /\ log'[Len(log) + 2] = y
<1> DEFINE t == <<x, y>>
<1>1. t \in Seq(Ops) /\ Len(t) = 2 /\ t[1] = x /\ t[2] = y
  BY ShortSequences
<1>2. Commit(t)
  OBVIOUS
<1> HIDE DEF t
<1>3. 1 \in 1..Len(t) /\ 2 \in 1..Len(t)
  BY <1>1
<1>4. /\ Len(log) \in Nat /\ Len(log') = Len(log) + Len(t)
      /\ \A i \in 1..Len(log) : log'[i] = log[i]
      /\ \A i \in 1..Len(t) : log'[Len(log) + i] = t[i]
  BY <1>1, <1>2, CommitShape
<1> QED
  BY <1>1, <1>3, <1>4

LEMMA CommitThree ==
  ASSUME TypeOK, NEW x \in Ops, NEW y \in Ops, NEW z \in Ops, Commit(<<x, y, z>>)
  PROVE  /\ Len(log) \in Nat /\ Len(log') = Len(log) + 3
         /\ \A i \in 1..Len(log) : log'[i] = log[i]
         /\ log'[Len(log) + 1] = x
         /\ log'[Len(log) + 2] = y
         /\ log'[Len(log) + 3] = z
<1> DEFINE t == <<x, y, z>>
<1>1. t \in Seq(Ops) /\ Len(t) = 3 /\ t[1] = x /\ t[2] = y /\ t[3] = z
  BY ShortSequences
<1>2. Commit(t)
  OBVIOUS
<1> HIDE DEF t
<1>3. 1 \in 1..Len(t) /\ 2 \in 1..Len(t) /\ 3 \in 1..Len(t)
  BY <1>1
<1>4. /\ Len(log) \in Nat /\ Len(log') = Len(log) + Len(t)
      /\ \A i \in 1..Len(log) : log'[i] = log[i]
      /\ \A i \in 1..Len(t) : log'[Len(log) + i] = t[i]
  BY <1>1, <1>2, CommitShape
<1> QED
  BY <1>1, <1>3, <1>4

\* What every transaction keeps: it is about one chat; a message comes first, is
\* newer than the chat's others and is followed by the chat's row with its number;
\* a chat has a project; a deleted chat does not come back.
Txn(c) ==
  /\ Len(log') \in Nat /\ Len(log) <= Len(log')
  /\ \A i \in 1..Len(log) : log'[i] = log[i]
  /\ \A j \in Len(log) + 1 .. Len(log') : log'[j].chat = c
  /\ \A j \in Len(log) + 1 .. Len(log') : log'[j].table = "messages" =>
       /\ j = Len(log) + 1
       /\ \E p \in j + 1 .. Len(log') : log'[p].table = "chats" /\ log'[p].chat = c
       /\ log'[j].seq = log'[Newest("chats", c, Len(log))'].seq
       /\ \A i \in Messages(Len(log)) : log[i].chat = c => log[i].seq < log'[j].seq
  /\ Exists(c)' => \A i \in Messages(Len(log)) :
       log[i].chat = c => log[i].seq <= log'[Newest("chats", c, Len(log))'].seq
  /\ Touching("chats", c, Len(log))' # {} => Newest("projects", c, Len(log))' # 0
  /\ Touching("chats", c, Len(log)) # {} /\ ~Exists(c) => ~Exists(c)'

\* The chat's row is as recent as its messages, and without a row there are none.
LEMMA LatestIsLatest ==
  ASSUME TypeOK, Closed(Len(log)), NEW c \in Chat
  PROVE  /\ Exists(c) => /\ Latest(c) \in Ops /\ Latest(c).seq \in Nat
                         /\ Touching("chats", c, Len(log)) # {}
                         /\ \A i \in Messages(Len(log)) :
                              log[i].chat = c => log[i].seq <= Latest(c).seq
         /\ Touching("chats", c, Len(log)) = {} =>
              \A i \in Messages(Len(log)) : log[i].chat # c
         /\ \A i \in Messages(Len(log)) : log[i].seq \in Nat
<1>1. Len(log) \in Nat /\ \A i \in 1..Len(log) : log[i] \in Ops
  BY PrepareTypes
<1>2. Exists(c) => Newest("chats", c, Len(log)) \in Touching("chats", c, Len(log))
  BY <1>1, NewestRange DEF Exists
<1>3. Exists(c) => Latest(c) \in Ops /\ Latest(c).seq \in Nat
  BY <1>1, <1>2 DEF Latest, Touching, Ops
<1>4. Exists(c) => \A i \in Messages(Len(log)) : log[i].chat = c => log[i].seq <= Latest(c).seq
  BY DEF Closed, Exists, Latest
<1>5. ASSUME NEW i \in Messages(Len(log)), log[i].chat = c
      PROVE  Touching("chats", c, Len(log)) # {}
  <2>1. PICK p \in i + 1 .. Len(log) : log[p].table = "chats" /\ log[p].chat = c
    BY <1>5 DEF Closed, Seen
  <2>2. i \in 1..Len(log)
    BY DEF Messages
  <2>3. p \in 1..Len(log)
    BY <1>1, <2>1, <2>2
  <2> QED
    BY <2>1, <2>3 DEF Touching
<1>6. \A i \in Messages(Len(log)) : log[i].seq \in Nat
  BY <1>1 DEF Messages, Ops
<1> QED
  BY <1>2, <1>3, <1>4, <1>5, <1>6

\* The fields of the operations.
LEMMA MessageFields ==
  ASSUME NEW c, NEW seq
  PROVE  /\ Message(c, seq).table = "messages" /\ Message(c, seq).chat = c
         /\ Message(c, seq).seq = seq
BY DEF Message, Op

LEMMA PutProjectFields ==
  ASSUME NEW c
  PROVE  /\ PutProject(c).table = "projects" /\ PutProject(c).chat = c
         /\ PutProject(c).op = "PUT"
BY DEF PutProject, Op

\* They are operations of the log.
LEMMA OpTypes ==
  ASSUME NEW c \in Chat, NEW seq \in Nat, NEW b \in BOOLEAN
  PROVE  /\ Message(c, seq) \in Ops /\ PutChat(c, seq, b) \in Ops /\ PutProject(c) \in Ops
         /\ Remove("chats", c) \in Ops /\ Remove("projects", c) \in Ops
         /\ Op("machine_users", "PUT", c, 0, FALSE) \in Ops
BY DEF Message, PutChat, PutProject, Remove, Op, Ops, Tables

\* A chat with its first message.
LEMMA NewChatTxn ==
  ASSUME TypeOK, Closed(Len(log)), NEW c \in Chat, NewChat(c)
  PROVE  Txn(c)
<1> DEFINE N == Len(log)
           m == Message(c, 1)
           r == PutChat(c, 1, FALSE)
           q == PutProject(c)
<1>0. /\ m.table = "messages" /\ m.chat = c /\ m.seq = 1
      /\ r.table = "chats" /\ r.chat = c /\ r.seq = 1 /\ r.op = "PUT"
      /\ q.table = "projects" /\ q.chat = c /\ q.op = "PUT"
  <2>1. m.table = "messages" /\ m.chat = c /\ m.seq = 1
    BY MessageFields
  <2>2. r.table = "chats" /\ r.chat = c /\ r.seq = 1 /\ r.op = "PUT"
    BY DEF PutChat, Op
  <2>3. q.table = "projects" /\ q.chat = c /\ q.op = "PUT"
    BY PutProjectFields
  <2> QED
    BY <2>1, <2>2, <2>3
<1>1. m \in Ops /\ r \in Ops /\ q \in Ops
  BY OpTypes
<1>2. Commit(<<m, r, q>>) /\ Touching("chats", c, N) = {}
  BY DEF NewChat
<1> HIDE DEF m, r, q
<1>3. /\ N \in Nat /\ Len(log') = N + 3 /\ \A i \in 1..N : log'[i] = log[i]
      /\ log'[N + 1] = m /\ log'[N + 2] = r /\ log'[N + 3] = q
  BY <1>1, <1>2, CommitThree
<1> HIDE DEF N
<1>5. Newest("chats", c, Len(log))' = N + 2
  <2>1. N + 2 \in 1..Len(log') /\ \A i \in N + 3 .. Len(log') : i = N + 3
    BY <1>3
  <2> QED
    BY <1>3, <1>0, <2>1, LastTouch
<1>6. Newest("projects", c, Len(log))' = N + 3
  <2>1. N + 3 \in 1..Len(log') /\ \A i \in N + 4 .. Len(log') : FALSE
    BY <1>3
  <2> QED
    BY <1>3, <1>0, <2>1, LastTouch
<1>7. \A j \in N + 1 .. Len(log') : j \in {N + 1, N + 2, N + 3}
  BY <1>3
<1>8. \A i \in Messages(N) : log[i].chat # c
  BY <1>2, LatestIsLatest DEF N
<1>9. \A j \in N + 1 .. Len(log') : log'[j].table = "messages" =>
        /\ j = N + 1 /\ N + 2 \in j + 1 .. Len(log')
        /\ log'[j].seq = log'[Newest("chats", c, Len(log))'].seq
  BY <1>0, <1>3, <1>5, <1>7
<1>10. \A j \in N + 1 .. Len(log') : log'[j].table = "messages" =>
         \E p \in j + 1 .. Len(log') : log'[p].table = "chats" /\ log'[p].chat = c
  BY <1>0, <1>3, <1>9
<1>11. \A j \in N + 1 .. Len(log') : log'[j].chat = c
  BY <1>0, <1>3, <1>7
<1>12. /\ Len(log') \in Nat /\ N <= Len(log') /\ Newest("projects", c, Len(log))' # 0
  BY <1>3, <1>6
<1> QED
  BY <1>2, <1>3, <1>8, <1>9, <1>10, <1>11, <1>12 DEF Txn, N

\* What a chat that exists has: a number, a project, and a row as recent as its
\* messages.
LEMMA ExistingChat ==
  ASSUME TypeOK, Closed(Len(log)), NEW c \in Chat, Exists(c)
  PROVE  /\ Latest(c).seq \in Nat /\ Latest(c).session \in BOOLEAN
         /\ Latest(c) = log[Newest("chats", c, Len(log))]
         /\ Newest("projects", c, Len(log)) # 0
         /\ \A i \in Messages(Len(log)) : log[i].chat = c =>
              log[i].seq \in Nat /\ log[i].seq <= Latest(c).seq
<1>1. /\ Latest(c) \in Ops /\ Latest(c).seq \in Nat
      /\ Touching("chats", c, Len(log)) # {}
      /\ \A i \in Messages(Len(log)) :
           (log[i].chat = c => log[i].seq <= Latest(c).seq) /\ log[i].seq \in Nat
  BY LatestIsLatest
<1>2. Newest("projects", c, Len(log)) # 0
  BY <1>1 DEF Closed
<1> QED
  BY <1>1, <1>2 DEF Latest, Ops

\* The chat's row moves: the agent's line, or the session id.
LEMMA MoveChatTxn ==
  ASSUME TypeOK, Closed(Len(log)), NEW c \in Chat, Exists(c),
         NEW seq \in Nat, NEW b \in BOOLEAN, Latest(c).seq <= seq,
         Commit(MoveChat(c, seq, b))
  PROVE  Txn(c)
<1> DEFINE N == Len(log)
           d == Remove("chats", c)
           r == PutChat(c, seq, b)
<1>1. d.table = "chats" /\ d.chat = c /\ r.table = "chats" /\ r.chat = c
      /\ r.seq = seq /\ r.op = "PUT"
  BY DEF Remove, PutChat, Op
<1>2. d \in Ops /\ r \in Ops
  BY OpTypes
<1>3. Commit(<<d, r>>)
  BY DEF MoveChat
<1> HIDE DEF d, r
<1>4. /\ N \in Nat /\ Len(log') = N + 2 /\ \A i \in 1..N : log'[i] = log[i]
      /\ log'[N + 1] = d /\ log'[N + 2] = r
  BY <1>2, <1>3, CommitTwo
<1>5. /\ Latest(c).seq \in Nat /\ Newest("projects", c, N) # 0
      /\ \A i \in Messages(N) : log[i].chat = c => log[i].seq \in Nat /\ log[i].seq <= Latest(c).seq
  BY ExistingChat
<1> HIDE DEF N
<1>6. \A j \in N + 1 .. Len(log') : j \in {N + 1, N + 2}
  BY <1>4
<1>7. Newest("chats", c, Len(log))' = N + 2
  <2>1. Len(log') \in Nat /\ N + 2 \in 1..Len(log') /\ \A i \in (N + 2) + 1 .. Len(log') : FALSE
    BY <1>4
  <2> QED
    BY <1>1, <1>4, <2>1, LastTouch
<1>8. Newest("projects", c, Len(log))' = Newest("projects", c, N)
  <2>1. \A i \in N + 1 .. Len(log') : ~(log'[i].table = "projects" /\ log'[i].chat = c)
    BY <1>1, <1>4, <1>6
  <2>2. Len(log') \in Nat /\ N <= Len(log')
    BY <1>4
  <2> QED
    BY <1>4, <2>1, <2>2, UntouchedKept
<1>9. \A i \in Messages(N) : log[i].chat = c => log[i].seq <= seq
  BY <1>5
<1> QED
  BY <1>1, <1>4, <1>5, <1>6, <1>7, <1>8, <1>9 DEF Txn, N

\* A further message, with the chat's row that has its number.
LEMMA UserMessageTxn ==
  ASSUME TypeOK, Closed(Len(log)), NEW c \in Chat, UserMessage(c)
  PROVE  Txn(c)
<1> DEFINE N == Len(log)
           seq == Latest(c).seq + 1
           m == Message(c, seq)
           d == Remove("chats", c)
           r == PutChat(c, seq, Latest(c).session)
<1>1. Exists(c) /\ Commit(<<m>> \o <<d, r>>)
  BY DEF UserMessage, MoveChat
<1>2. /\ Latest(c).seq \in Nat /\ seq \in Nat /\ Latest(c).session \in BOOLEAN
      /\ Newest("projects", c, N) # 0
      /\ \A i \in Messages(N) : log[i].chat = c => log[i].seq < seq
  <2>1. /\ Latest(c).seq \in Nat /\ Latest(c).session \in BOOLEAN
        /\ Newest("projects", c, N) # 0
        /\ \A i \in Messages(N) :
             log[i].chat = c => log[i].seq \in Nat /\ log[i].seq <= Latest(c).seq
    BY <1>1, ExistingChat
  <2> QED
    BY <2>1
<1> HIDE DEF seq
<1>3. /\ m.table = "messages" /\ m.chat = c /\ m.seq = seq
      /\ d.table = "chats" /\ d.chat = c
      /\ r.table = "chats" /\ r.chat = c /\ r.seq = seq /\ r.op = "PUT"
  BY DEF Message, Remove, PutChat, Op
<1>4. m \in Ops /\ d \in Ops /\ r \in Ops
  BY <1>2, OpTypes
<1> HIDE DEF m, d, r
<1>5. Commit(<<m, d, r>>)
  <2> DEFINE x == <<m>>
             y == <<d, r>>
             z == <<m, d, r>>
  <2>1. /\ x \in Seq(Ops) /\ Len(x) = 1 /\ x[1] = m
        /\ y \in Seq(Ops) /\ Len(y) = 2 /\ y[1] = d /\ y[2] = r
        /\ z \in Seq(Ops) /\ Len(z) = 3 /\ z[1] = m /\ z[2] = d /\ z[3] = r
    BY <1>4, ShortSequences
  <2>2. Commit(x \o y)
    BY <1>1
  <2> HIDE DEF x, y, z
  <2>3. /\ x \o y \in Seq(Ops) /\ Len(x \o y) = 3
        /\ \A i \in 1..3 : (x \o y)[i] = IF i <= 1 THEN x[i] ELSE y[i - 1]
    <3>1. /\ x \o y \in Seq(Ops) /\ Len(x \o y) = Len(x) + Len(y)
          /\ \A i \in 1 .. Len(x) + Len(y) :
               (x \o y)[i] = IF i <= Len(x) THEN x[i] ELSE y[i - Len(x)]
      BY <2>1, ConcatProperties
    <3> QED
      BY <2>1, <3>1
  <2>4. \A i \in 1..3 : (x \o y)[i] = z[i]
    <3>1. \A i \in 1..3 : i = 1 \/ i = 2 \/ i = 3
      OBVIOUS
    <3> QED
      BY <2>1, <2>3, <3>1
  <2>5. x \o y = z
    BY <2>1, <2>3, <2>4, SeqEqual
  <2>6. Commit(z)
    BY <2>2, <2>5
  <2> QED
    BY <2>6 DEF z
<1>6. /\ N \in Nat /\ Len(log') = N + 3 /\ \A i \in 1..N : log'[i] = log[i]
      /\ log'[N + 1] = m /\ log'[N + 2] = d /\ log'[N + 3] = r
  BY <1>4, <1>5, CommitThree
<1> HIDE DEF N
<1>7. \A j \in N + 1 .. Len(log') : j \in {N + 1, N + 2, N + 3}
  BY <1>6
<1>8. Newest("chats", c, Len(log))' = N + 3
  <2>1. Len(log') \in Nat /\ N + 3 \in 1..Len(log') /\ \A i \in (N + 3) + 1 .. Len(log') : FALSE
    BY <1>6
  <2> QED
    BY <1>3, <1>6, <2>1, LastTouch
<1>9. Newest("projects", c, Len(log))' = Newest("projects", c, N)
  <2>1. \A i \in N + 1 .. Len(log') : ~(log'[i].table = "projects" /\ log'[i].chat = c)
    BY <1>3, <1>6, <1>7
  <2>2. Len(log') \in Nat /\ N <= Len(log')
    BY <1>6
  <2> QED
    BY <1>6, <2>1, <2>2, UntouchedKept
<1>10. \A i \in Messages(N) : log[i].chat = c => log[i].seq <= seq
  <2>1. \A i \in Messages(N) : log[i].seq \in Nat
    BY LatestIsLatest DEF N
  <2> QED
    BY <1>2, <2>1
<1>11. \A j \in N + 1 .. Len(log') : log'[j].chat = c
  BY <1>3, <1>6, <1>7
<1>12. \A j \in N + 1 .. Len(log') : log'[j].table = "messages" =>
         /\ j = N + 1 /\ N + 3 \in j + 1 .. Len(log') /\ log'[j].seq = seq
  BY <1>3, <1>6, <1>7
<1>16. \A j \in N + 1 .. Len(log') : log'[j].table = "messages" =>
         \E p \in j + 1 .. Len(log') : log'[p].table = "chats" /\ log'[p].chat = c
  BY <1>3, <1>6, <1>12
<1>13. /\ Len(log') \in Nat /\ N <= Len(log')
       /\ log'[Newest("chats", c, Len(log))'].seq = seq
  BY <1>3, <1>6, <1>8
<1>14. Newest("projects", c, Len(log))' # 0
  BY <1>2, <1>9
<1>15. Touching("chats", c, N) # {} /\ ~Exists(c) => ~Exists(c)'
  BY <1>1
<1> QED
  BY <1>2, <1>6, <1>10, <1>11, <1>12, <1>13, <1>14, <1>15, <1>16 DEF Txn, N

\* The chat is deleted.
LEMMA DeleteChatTxn ==
  ASSUME TypeOK, Closed(Len(log)), NEW c \in Chat, DeleteChat(c)
  PROVE  Txn(c)
<1> DEFINE N == Len(log)
           d == Remove("chats", c)
<1>1. d.table = "chats" /\ d.chat = c /\ d.op = "REMOVE" /\ d \in Ops
  BY OpTypes DEF Remove, Op
<1>2. Exists(c) /\ Commit(<<d>>)
  BY DEF DeleteChat
<1>3. Newest("projects", c, N) # 0
  BY <1>2, ExistingChat
<1> HIDE DEF d
<1>4. /\ N \in Nat /\ Len(log') = N + 1 /\ \A i \in 1..N : log'[i] = log[i] /\ log'[N + 1] = d
  BY <1>1, <1>2, CommitOne
<1>5. log'[N + 1] = d
  BY <1>1, <1>2, CommitOne
<1> HIDE DEF N
<1>6. \A j \in N + 1 .. Len(log') : j = N + 1
  BY <1>4
<1>7. Newest("chats", c, Len(log))' = 0
  <2>1. Len(log') \in Nat /\ N + 1 \in 1..Len(log') /\ \A i \in (N + 1) + 1 .. Len(log') : FALSE
    BY <1>4
  <2> QED
    BY <1>1, <1>5, <2>1, LastTouch
<1>8. Newest("projects", c, Len(log))' = Newest("projects", c, N)
  <2>1. \A i \in N + 1 .. Len(log') : ~(log'[i].table = "projects" /\ log'[i].chat = c)
    BY <1>1, <1>5, <1>6
  <2>2. Len(log') \in Nat /\ N <= Len(log')
    BY <1>4
  <2> QED
    BY <1>4, <2>1, <2>2, UntouchedKept
<1>9. ~Exists(c)'
  BY <1>7 DEF Exists
<1> QED
  BY <1>1, <1>3, <1>4, <1>5, <1>6, <1>8, <1>9 DEF Txn, N

\* A transaction without a row of the chat.
LEMMA OtherTxn ==
  ASSUME TypeOK, Closed(Len(log)), NEW c \in Chat, MoveProject(c) \/ MemberRow(c)
  PROVE  Txn(c)
<1> DEFINE N == Len(log)
           Other(o) == o.table \notin {"chats", "messages"} /\ o.chat = c
<1>1. /\ Exists(c) /\ N \in Nat /\ Len(log') \in Nat /\ N <= Len(log')
      /\ \A i \in 1..N : log'[i] = log[i]
      /\ \A j \in N + 1 .. Len(log') : Other(log'[j])
      /\ Newest("projects", c, N) # 0 => Newest("projects", c, Len(log))' # 0
  <2>1. CASE MoveProject(c)
    <3> DEFINE d == Remove("projects", c)
               q == PutProject(c)
    <3>1. /\ d.table = "projects" /\ d.chat = c
          /\ q.table = "projects" /\ q.chat = c /\ q.op = "PUT"
      BY DEF Remove, PutProject, Op
    <3>2. d \in Ops /\ q \in Ops
      BY OpTypes
    <3>3. Exists(c) /\ Commit(<<d, q>>)
      BY <2>1 DEF MoveProject
    <3> HIDE DEF d, q
    <3>4. /\ N \in Nat /\ Len(log') = N + 2 /\ \A i \in 1..N : log'[i] = log[i]
          /\ log'[N + 1] = d /\ log'[N + 2] = q
      BY <3>2, <3>3, CommitTwo
    <3> HIDE DEF N
    <3>5. Newest("projects", c, Len(log))' = N + 2
      <4>1. /\ Len(log') \in Nat /\ N + 2 \in 1..Len(log')
            /\ \A i \in (N + 2) + 1 .. Len(log') : FALSE
        BY <3>4
      <4> QED
        BY <3>1, <3>4, <4>1, LastTouch
    <3>6. \A j \in N + 1 .. Len(log') : j \in {N + 1, N + 2}
      BY <3>4
    <3> QED
      BY <3>1, <3>3, <3>4, <3>5, <3>6
  <2>2. CASE MemberRow(c)
    <3> DEFINE o == Op("machine_users", "PUT", c, 0, FALSE)
    <3>1. o.table = "machine_users" /\ o.chat = c
      BY DEF Op
    <3>2. o \in Ops
      BY OpTypes
    <3>3. Exists(c) /\ Commit(<<o>>)
      BY <2>2 DEF MemberRow
    <3> HIDE DEF o
    <3>4. /\ N \in Nat /\ Len(log') = N + 1 /\ \A i \in 1..N : log'[i] = log[i]
          /\ log'[N + 1] = o
      BY <3>2, <3>3, CommitOne
    <3> HIDE DEF N
    <3>5. \A j \in N + 1 .. Len(log') : j = N + 1
      BY <3>4
    <3>6. Newest("projects", c, Len(log))' = Newest("projects", c, N)
      <4>1. \A i \in N + 1 .. Len(log') : ~(log'[i].table = "projects" /\ log'[i].chat = c)
        BY <3>1, <3>4, <3>5
      <4>2. Len(log') \in Nat /\ N <= Len(log')
        BY <3>4
      <4> QED
        BY <3>4, <4>1, <4>2, UntouchedKept
    <3> QED
      BY <3>1, <3>3, <3>4, <3>5, <3>6
  <2> QED
    BY <2>1, <2>2
<1>2. /\ Newest("projects", c, N) # 0 /\ Latest(c) = log[Newest("chats", c, N)]
      /\ \A i \in Messages(N) : log[i].chat = c => log[i].seq <= Latest(c).seq
  BY <1>1, ExistingChat
<1>3. Newest("chats", c, N) \in 1..N
  BY <1>1, NewestRange DEF Exists
<1> HIDE DEF N
<1>4. Newest("chats", c, Len(log))' = Newest("chats", c, N)
  <2>1. \A i \in N + 1 .. Len(log') : ~(log'[i].table = "chats" /\ log'[i].chat = c)
    BY <1>1
  <2> QED
    BY <1>1, <2>1, UntouchedKept
<1>5. log'[Newest("chats", c, Len(log))'] = Latest(c)
  BY <1>1, <1>2, <1>3, <1>4
<1>6. \A i \in Messages(N) : log[i].chat = c =>
        log[i].seq <= log'[Newest("chats", c, Len(log))'].seq
  BY <1>2, <1>5
<1>7. \A j \in N + 1 .. Len(log') : log'[j].table # "messages" /\ log'[j].chat = c
  BY <1>1
<1>8. Newest("projects", c, Len(log))' # 0
  BY <1>1, <1>2
<1> QED
  BY <1>1, <1>6, <1>7, <1>8 DEF Txn, N

\* Every transaction.
LEMMA BackendTxn ==
  ASSUME TypeOK, Closed(Len(log)), Backend
  PROVE  \E c \in Chat : Txn(c)
<1>1. PICK c \in Chat : \/ NewChat(c) \/ UserMessage(c) \/ DeleteChat(c)
                        \/ MoveProject(c) \/ MemberRow(c)
                        \/ AgentLine(c) \/ SessionWritten(c)
  BY DEF Backend
<1>2. CASE AgentLine(c)
  <2>1. Exists(c) /\ Commit(MoveChat(c, Latest(c).seq + 1, Latest(c).session))
    BY <1>2 DEF AgentLine
  <2>2. Latest(c).seq \in Nat /\ Latest(c).session \in BOOLEAN
    BY <2>1, ExistingChat
  <2>3. Latest(c).seq + 1 \in Nat /\ Latest(c).seq <= Latest(c).seq + 1
    BY <2>2
  <2> QED
    BY <2>1, <2>2, <2>3, MoveChatTxn
<1>3. CASE SessionWritten(c)
  <2>1. Exists(c) /\ Commit(MoveChat(c, Latest(c).seq, TRUE))
    BY <1>3 DEF SessionWritten
  <2>2. Latest(c).seq \in Nat /\ Latest(c).seq <= Latest(c).seq /\ TRUE \in BOOLEAN
    BY <2>1, ExistingChat
  <2> DEFINE b == TRUE
  <2>3. b \in BOOLEAN /\ Commit(MoveChat(c, Latest(c).seq, b))
    BY <2>1
  <2> HIDE DEF b
  <2> QED
    BY <2>1, <2>2, <2>3, MoveChatTxn
<1> QED
  BY <1>1, <1>2, <1>3, NewChatTxn, UserMessageTxn, DeleteChatTxn, OtherTxn

-----------------------------------------------------------------------------
(* What a transaction keeps                                                *)

\* A row of another chat is not touched.
LEMMA OtherChatKept ==
  ASSUME TypeOK, NEW c \in Chat, Txn(c), NEW d \in Chat, d # c, NEW table
  PROVE  /\ Touching(table, d, Len(log))' = Touching(table, d, Len(log))
         /\ Newest(table, d, Len(log))' = Newest(table, d, Len(log))
<1>1. /\ Len(log) \in Nat /\ Len(log') \in Nat /\ Len(log) <= Len(log')
      /\ \A i \in 1..Len(log) : log'[i] = log[i]
      /\ \A i \in Len(log) + 1 .. Len(log') : ~(log'[i].table = table /\ log'[i].chat = d)
  BY PrepareTypes DEF Txn
<1> QED
  BY <1>1, UntouchedKept

\* A deleted chat stays deleted.
LEMMA GoneStays ==
  ASSUME TypeOK, NEW c \in Chat, Txn(c), NEW d \in Chat,
         Touching("chats", d, Len(log)) # {}, ~Exists(d)
  PROVE  ~Exists(d)' /\ Touching("chats", d, Len(log))' # {}
<1>1. Touching("chats", d, Len(log))' # {}
  <2>1. /\ Len(log) \in Nat /\ Len(log') \in Nat /\ Len(log) <= Len(log')
        /\ \A i \in 1..Len(log) : log'[i] = log[i]
    BY PrepareTypes DEF Txn
  <2>2. PICK i \in 1..Len(log) : log[i].table = "chats" /\ log[i].chat = d
    BY DEF Touching
  <2>3. i \in 1..Len(log') /\ log'[i].table = "chats" /\ log'[i].chat = d
    BY <2>1, <2>2
  <2> QED
    BY <2>3 DEF Touching
<1>2. CASE d = c
  BY <1>1, <1>2 DEF Txn
<1>3. CASE d # c
  BY <1>1, <1>3, OtherChatKept DEF Exists
<1> QED
  BY <1>2, <1>3

\* A prefix that ends a transaction does so whatever follows.
LEMMA ClosedKept ==
  ASSUME TypeOK, NEW c \in Chat, Txn(c), NEW k \in Nat, k <= Len(log), Closed(k)
  PROVE  Closed(k)'
<1>1. /\ Len(log) \in Nat /\ Len(log') \in Nat /\ Len(log) <= Len(log')
      /\ \A i \in 1..Len(log) : log'[i] = log[i]
  BY PrepareTypes DEF Txn
<1>2. /\ Messages(k)' = Messages(k)
      /\ \A table, d : Newest(table, d, k)' = Newest(table, d, k)
  BY <1>1, PrefixKept
<1>3. \A i \in 1..k : log'[i] = log[i]
  BY <1>1
<1>4. \A table, d : Touching(table, d, k)' = Touching(table, d, k)
  BY <1>3 DEF Touching
<1>5. ASSUME NEW i \in Messages(k)
      PROVE  /\ log'[i] = log[i] /\ Seen(log[i].chat, i, k)'
             /\ Newest("chats", log[i].chat, k) # 0 =>
                  log'[i].seq <= log'[Newest("chats", log[i].chat, k)].seq
  <2>1. /\ i \in 1..k /\ log'[i] = log[i]
    BY <1>3 DEF Messages
  <2>2. PICK p \in i + 1 .. k : log[p].table = "chats" /\ log[p].chat = log[i].chat
    BY DEF Closed, Seen
  <2>3. p \in 1..k /\ log'[p] = log[p]
    BY <1>3, <2>1, <2>2
  <2>4. \E q \in i + 1 .. k : log'[q].table = "chats" /\ log'[q].chat = log'[i].chat
    BY <2>1, <2>2, <2>3
  <2>5. Seen(log[i].chat, i, k)'
    BY <2>4 DEF Seen
  <2>6. ASSUME Newest("chats", log[i].chat, k) # 0
        PROVE  log'[i].seq <= log'[Newest("chats", log[i].chat, k)].seq
    <3>1. Newest("chats", log[i].chat, k) \in 1..k
      BY <2>6, NewestRange
    <3>2. log[i].seq <= log[Newest("chats", log[i].chat, k)].seq
      BY <2>6 DEF Closed
    <3> QED
      BY <1>3, <2>1, <3>1, <3>2
  <2> QED
    BY <2>1, <2>5, <2>6
<1>6. ASSUME NEW d \in Chat, Touching("chats", d, k) # {}
      PROVE  Newest("projects", d, k) # 0 /\ (Newest("chats", d, k) = 0 => ~Exists(d)')
  <2>1. Newest("projects", d, k) # 0 /\ (Newest("chats", d, k) = 0 => ~Exists(d))
    BY <1>6 DEF Closed
  <2>2. Touching("chats", d, Len(log)) # {}
    BY <1>1, <1>6 DEF Touching
  <2> QED
    BY <2>1, <2>2, GoneStays
<1> QED
  BY <1>2, <1>4, <1>5, <1>6 DEF Closed

\* The log with the transaction is the end of one.
LEMMA EndIsClosed ==
  ASSUME TypeOK, TypeOK', NEW c \in Chat, Txn(c), Closed(Len(log))
  PROVE  Closed(Len(log))'
<1>1. /\ TypeOK /\ Len(log) \in Nat /\ Len(log') \in Nat /\ Len(log) <= Len(log')
      /\ \A i \in 1..Len(log) : log'[i] = log[i]
      /\ \A i \in 1..Len(log) : log[i] \in Ops
  BY PrepareTypes DEF Txn
<1>2. \A i \in 1..Len(log') : log'[i] \in Ops
  <2>1. log' \in Seq(Ops)
    BY DEF TypeOK
  <2> QED
    BY <2>1, ElementOfSeq
<1> DEFINE Good(i) ==
      /\ \E p \in i + 1 .. Len(log') : log'[p].table = "chats" /\ log'[p].chat = log'[i].chat
      /\ \A d : d = log'[i].chat /\ Newest("chats", d, Len(log))' # 0 =>
           log'[i].seq <= log'[Newest("chats", d, Len(log))'].seq
<1>3. ASSUME NEW i \in 1..Len(log'), log'[i].table = "messages", i <= Len(log)
      PROVE  Good(i)
  <2>1. i \in Messages(Len(log)) /\ log'[i] = log[i] /\ log[i] \in Ops /\ log[i].chat \in Chat
    BY <1>1, <1>3 DEF Messages, Ops
  <2>2. PICK p \in i + 1 .. Len(log) : log[p].table = "chats" /\ log[p].chat = log[i].chat
    BY <2>1 DEF Closed, Seen
  <2>3. p \in 1..Len(log) /\ p \in i + 1 .. Len(log') /\ log'[p] = log[p]
    BY <1>1, <2>2
  <2>4. ASSUME NEW d, d = log'[i].chat, Newest("chats", d, Len(log))' # 0
        PROVE  log'[i].seq <= log'[Newest("chats", d, Len(log))'].seq
    <3>1. CASE d = c
      BY <2>1, <2>4, <3>1 DEF Txn, Exists
    <3>2. CASE d # c
      <4>1. d \in Chat /\ Newest("chats", d, Len(log))' = Newest("chats", d, Len(log))
        BY <1>1, <2>1, <2>4, <3>2, OtherChatKept
      <4>2. Newest("chats", d, Len(log)) \in 1..Len(log)
        BY <1>1, <2>4, <4>1, NewestRange
      <4>3. log[i].seq <= log[Newest("chats", d, Len(log))].seq
        BY <2>1, <2>4, <4>1 DEF Closed
      <4> QED
        BY <1>1, <2>1, <4>1, <4>2, <4>3
    <3> QED
      BY <3>1, <3>2
  <2> QED
    BY <2>1, <2>2, <2>3, <2>4
<1>4. ASSUME NEW i \in 1..Len(log'), log'[i].table = "messages", ~(i <= Len(log))
      PROVE  Good(i)
  <2>1. i \in Len(log) + 1 .. Len(log')
    BY <1>1, <1>4
  <2>2. /\ log'[i].chat = c
        /\ \E p \in i + 1 .. Len(log') : log'[p].table = "chats" /\ log'[p].chat = c
        /\ log'[i].seq = log'[Newest("chats", c, Len(log))'].seq
    BY <1>4, <2>1 DEF Txn
  <2>3. log'[i].seq \in Nat
    BY <1>2 DEF Ops
  <2> QED
    BY <2>2, <2>3
<1>5. \A i \in Messages(Len(log))' : Good(i)
  BY <1>3, <1>4 DEF Messages
<1>6. ASSUME NEW d \in Chat, Touching("chats", d, Len(log))' # {}
      PROVE  Newest("projects", d, Len(log))' # 0
  <2>1. CASE d = c
    BY <1>6, <2>1 DEF Txn
  <2>2. CASE d # c
    <3>1. /\ Touching("chats", d, Len(log))' = Touching("chats", d, Len(log))
          /\ Newest("projects", d, Len(log))' = Newest("projects", d, Len(log))
      BY <1>1, <2>2, OtherChatKept
    <3> QED
      BY <1>6, <3>1 DEF Closed
  <2> QED
    BY <2>1, <2>2
<1>7. \A i \in Messages(Len(log))' :
        /\ Seen(log[i].chat, i, Len(log))'
        /\ Newest("chats", log[i].chat, Len(log))' # 0 =>
             log'[i].seq <= log'[Newest("chats", log[i].chat, Len(log))'].seq
  BY <1>5 DEF Seen
<1>8. \A d \in Chat : Newest("chats", d, Len(log))' = 0 => ~Exists(d)'
  BY DEF Exists
<1> QED
  BY <1>6, <1>7, <1>8 DEF Closed

\* The numbers of a chat's messages go on rising.
LEMMA SeqKept ==
  ASSUME TypeOK, NEW c \in Chat, Txn(c), SeqInv
  PROVE  SeqInv'
<1>1. /\ Len(log) \in Nat /\ Len(log') \in Nat /\ Len(log) <= Len(log')
      /\ \A i \in 1..Len(log) : log'[i] = log[i]
  BY PrepareTypes DEF Txn
<1> SUFFICES ASSUME NEW i \in 1..Len(log'), NEW j \in 1..Len(log'),
                    log'[i].table = "messages", log'[j].table = "messages",
                    i < j, log'[i].chat = log'[j].chat
             PROVE  log'[i].seq < log'[j].seq
  BY DEF SeqInv, Messages
<1>2. CASE j <= Len(log)
  <2>1. /\ i \in 1..Len(log) /\ j \in 1..Len(log)
        /\ log'[i] = log[i] /\ log'[j] = log[j]
    BY <1>1, <1>2
  <2>2. i \in Messages(Len(log)) /\ j \in Messages(Len(log))
    BY <2>1 DEF Messages
  <2> QED
    BY <2>1, <2>2 DEF SeqInv
<1>3. CASE ~(j <= Len(log))
  <2>1. j \in Len(log) + 1 .. Len(log')
    BY <1>1, <1>3
  <2>2. /\ j = Len(log) + 1 /\ log'[j].chat = c
        /\ \A m \in Messages(Len(log)) : log[m].chat = c => log[m].seq < log'[j].seq
    BY <2>1 DEF Txn
  <2>3. i \in 1..Len(log) /\ log'[i] = log[i]
    BY <1>1, <2>2
  <2>4. i \in Messages(Len(log)) /\ log[i].chat = c
    BY <2>2, <2>3 DEF Messages
  <2> QED
    BY <2>2, <2>3, <2>4
<1> QED
  BY <1>2, <1>3

-----------------------------------------------------------------------------
(* Steps of the backend and of the stream                                  *)

\* The empty prefix ends nothing.
LEMMA NothingIsClosed == Closed(0)
BY DEF Closed, Messages, Touching

\* The same log has the same ends.
LEMMA SameEnds ==
  ASSUME UNCHANGED log
  PROVE  /\ \A k : Closed(k)' = Closed(k)
         /\ \A table, c, k : Touching(table, c, k)' = Touching(table, c, k)
         /\ \A c : Exists(c)' = Exists(c)
         /\ \A c, i, k : Seen(c, i, k)' = Seen(c, i, k)
BY DEF Closed, Messages, Touching, Exists, Seen, Newest

\* A log that grows, or a stream that begins again, and nothing that the main
\* loop does.
LEMMA MainUnmoved ==
  ASSUME NEW m \in Nat, IInv(m), LineInv(m), SureInv(m), Received' \in {Received, 0},
         UNCHANGED <<staging, mirror, served, main, snapshot>>, again => again',
         Len(log) <= Len(log'), \A i \in 1..Len(log) : log'[i] = log[i]
  PROVE  LineInv(m)' /\ SureInv(m)'
<1>1. TypeOK /\ CoverInv(m) /\ WindowInv(m) /\ NetInv(m) /\ Len(log) \in Nat /\ Received \in Nat
      /\ m <= Len(log)
  BY PrepareTypes, ReceivedInLog DEF IInv
<1>2. /\ Messages(m)' = Messages(m)
      /\ \A c : Newest("chats", c, m)' = Newest("chats", c, m)
  BY <1>1, PrefixKept
<1>4. \A i \in 1..m : log'[i] = log[i]
  BY <1>1
<1>3. LineInv(m)'
  <2>1. ServedInOrder'
    <3>1. \A a \in 1..Len(served) : served[a] \in 1..m
      BY DEF LineInv, Messages
    <3>2. Len(served) \in Nat
      BY <1>1, LenProperties DEF TypeOK
    <3>3. \A b \in 1..Len(served) : \A a \in 1..b - 1 : a \in 1..Len(served)
      BY <3>2
    <3>4. \A a \in 1..Len(served) : log'[served[a]] = log[served[a]]
      BY <1>4, <3>1
    <3>5. \A b \in 1..Len(served) : \A a \in 1..b - 1 :
            log[served[a]].chat = log[served[b]].chat =>
              \/ log[served[a]].seq < log[served[b]].seq
              \/ served[a] = served[b] /\ again'
      BY DEF LineInv, ServedInOrder
    <3> QED
      BY <3>3, <3>4, <3>5 DEF ServedInOrder
  <2> QED
    BY <1>2, <2>1 DEF LineInv, Up
<1>5. ASSUME NEW c \in Chat
      PROVE  /\ staging'.chats[c] # 0 => staging'.chats[c] \in Touching("chats", c, m)'
             /\ Sure(c, m)' /\ Settled("chats", c, m)' =>
                  Applied(mirror.chats, staging.chats)'[c] = Newest("chats", c, m)'
  <2>1. Touching("chats", c, m)' = Touching("chats", c, m)
    BY <1>4 DEF Touching
  <2>2. Applied(mirror.chats, staging.chats)'[c] = Applied(mirror.chats, staging.chats)[c]
    <3>1. \A n \in Nat : n <= Len(log) /\ n # 0 => log'[n] = log[n]
      BY <1>1
    <3>2. /\ staging.projects[c] \in Nat /\ staging.projects[c] <= Len(log)
          /\ staging.chats[c] \in Nat /\ staging.chats[c] <= Len(log)
      BY <1>1 DEF NetInv, TypeOK, Rows
    <3> QED
      BY <3>1, <3>2, AppliedKept
  <2>3. Sure(c, m)' => Sure(c, m)
    <3> SUFFICES ASSUME staging.chats[c] = 0, Sure(c, m)'
                 PROVE  \E i \in Queue : log[i].chat = c /\ Seen(c, i, m)
      BY DEF Sure
    <3>1. PICK i \in Queue : log'[i].chat = c /\ Seen(c, i, m)'
      BY DEF Sure, Queue
    <3>2. i \in 1..m
      BY <1>1 DEF CoverInv
    <3>3. PICK p \in i + 1 .. m : log'[p].table = "chats" /\ log'[p].chat = c
      BY <3>1 DEF Seen
    <3>4. p \in 1..m
      BY <1>1, <3>2
    <3> QED
      BY <1>4, <3>1, <3>2, <3>3, <3>4 DEF Seen
  <2>4. Settled("chats", c, m)' => Settled("chats", c, m)
    BY <1>1, <1>4, SettledKept
  <2> QED
    BY <1>2, <2>1, <2>2, <2>3, <2>4 DEF SureInv
<1>6. main' = "messages" => \A i \in Queue' :
        mirror'.chats[log'[i].chat] = Newest("chats", log[i].chat, snapshot)'
  <2> SUFFICES ASSUME main = "messages", NEW i \in Queue
               PROVE  mirror.chats[log'[i].chat] = Newest("chats", log[i].chat, snapshot)'
    BY DEF Queue
  <2>1. snapshot = m /\ i \in 1..m /\ log'[i] = log[i]
    BY <1>1, <1>4 DEF WindowInv, CoverInv
  <2>2. mirror.chats[log[i].chat] = Newest("chats", log[i].chat, m)
    BY <2>1 DEF SureInv
  <2>3. Newest("chats", log[i].chat, snapshot)' = Newest("chats", log[i].chat, m)
    BY <1>2, <2>1
  <2> QED
    BY <2>1, <2>2, <2>3
<1>7. SureInv(m)'
  BY <1>5, <1>6 DEF SureInv
<1> QED
  BY <1>3, <1>7

\* A transaction of the backend.
LEMMA BackendKeeps ==
  ASSUME NEW m \in Nat, IInv(m), OInv(m), Backend
  PROVE  OInv(m)'
<1>1. IInv(m)' /\ TypeOK /\ RangeInv(m) /\ ChannelInv(m)
  BY BackendStep DEF IInv
<1>0. TypeOK'
  BY <1>1 DEF IInv
<1>2. PICK c \in Chat : Txn(c)
  BY <1>1, BackendTxn DEF OInv, ClosedInv
<1>3. UNCHANGED <<target, due, conn, cursor, sent, frame, channel, main, staging, snapshot,
                  mirror, disk, running, crashes, startOvers, again, served, answered,
                  skipped, lost>>
  BY DEF Backend, NewChat, UserMessage, DeleteChat, MoveProject, MemberRow, AgentLine,
         SessionWritten, Commit, stream, position, history
<1>4. /\ Len(log) \in Nat /\ Len(log') \in Nat /\ Len(log) <= Len(log')
      /\ \A i \in 1..Len(log) : log'[i] = log[i]
  BY <1>1, <1>2, PrepareTypes DEF Txn
<1>5. Received' = Received
  BY <1>3 DEF Received, Before
<1>6. LineInv(m)' /\ SureInv(m)'
  BY <1>3, <1>4, <1>5, MainUnmoved DEF OInv
<1>7. SeqInv'
  BY <1>1, <1>2, SeqKept DEF OInv
<1>8. ClosedInv'
  <2>1. \A k \in Nat : k <= Len(log) /\ Closed(k) => Closed(k)'
    BY <1>1, <1>2, ClosedKept
  <2>2. Closed(Len(log))'
    BY <1>0, <1>1, <1>2, EndIsClosed DEF OInv, ClosedInv
  <2>3. /\ target \in Nat /\ target <= Len(log) /\ snapshot \in Nat /\ snapshot <= Len(log)
        /\ \A j \in 1..Len(channel) : channel[j].at \in Nat /\ channel[j].at <= Len(log)
    <3>1. /\ target \in Nat /\ snapshot \in Nat
          /\ \A j \in 1..Len(channel) : channel[j].at \in Nat
      BY <1>1, PrepareTypes DEF TypeOK, Event
    <3> QED
      BY <1>1, <3>1 DEF RangeInv, ChannelInv
  <2>4. Closed(target)' /\ (main' = "messages" => Closed(snapshot)')
    BY <1>3, <2>1, <2>3 DEF OInv, ClosedInv
  <2>5. \A j \in 1..Len(channel) : channel[j].kind = "complete" => Closed(channel[j].at)'
    BY <1>3, <2>1, <2>3 DEF OInv, ClosedInv
  <2> QED
    BY <1>3, <2>2, <2>4, <2>5 DEF ClosedInv
<1>9. LostInv'
  <2> SUFFICES ASSUME NEW i \in lost
               PROVE  /\ i \in 1..Len(log') /\ ~Exists(log[i].chat)'
                      /\ Touching("chats", log[i].chat, Len(log))' # {}
    BY <1>3 DEF LostInv
  <2>1. /\ i \in 1..Len(log) /\ ~Exists(log[i].chat)
        /\ Touching("chats", log[i].chat, Len(log)) # {}
    BY DEF OInv, LostInv
  <2>2. log[i].chat \in Chat /\ log'[i].chat = log[i].chat /\ i \in 1..Len(log')
    BY <1>1, <1>4, <2>1, PrepareTypes DEF Ops
  <2>3. \A d \in Chat : Touching("chats", d, Len(log)) # {} /\ ~Exists(d) =>
          ~Exists(d)' /\ Touching("chats", d, Len(log))' # {}
    BY <1>1, <1>2, GoneStays
  <2> QED
    BY <2>1, <2>2, <2>3
<1> QED
  BY <1>6, <1>7, <1>8, <1>9 DEF OInv

\* What does not touch the log keeps what is said of it.
LEMMA LogKept ==
  ASSUME SeqInv, LostInv, UNCHANGED <<log, lost>>
  PROVE  SeqInv' /\ LostInv' /\ \A k : Closed(k)' = Closed(k)
<1>1. /\ \A k : Messages(k)' = Messages(k) /\ Closed(k)' = Closed(k)
      /\ \A table, c, k : Touching(table, c, k)' = Touching(table, c, k)
      /\ \A c : Exists(c)' = Exists(c)
  BY SameLog, SameEnds
<1>2. SeqInv'
  BY <1>1 DEF SeqInv
<1>3. LostInv'
  BY <1>1 DEF LostInv
<1> QED
  BY <1>1, <1>2, <1>3

\* The sync task: what it targets is the end of the log, it announces what it
\* targets, and it goes on from where it is or from the beginning.
LEMMA StreamKeeps ==
  ASSUME NEW m \in Nat, IInv(m), OInv(m),
         Connect \/ Disconnect \/ CheckpointDiff \/ DataFrame \/ SendRow \/ SendComplete
  PROVE  OInv(m)'
<1>1. UNCHANGED <<log, main, staging, snapshot, mirror, served, lost>>
  BY DEF Connect, Disconnect, CheckpointDiff, DataFrame, SendRow, SendComplete, SyncOnly,
         history
<1>2. SeqInv' /\ LostInv' /\ \A k : Closed(k)' = Closed(k)
  BY <1>1, LogKept DEF OInv
<1>3. TypeOK /\ RangeInv(m) /\ Len(log) \in Nat
  BY PrepareTypes DEF IInv
<1>7. again => again'
  BY DEF Connect, Disconnect, CheckpointDiff, DataFrame, SendRow, SendComplete, Retained,
         StartedOver, stream
<1>4. Received' \in {Received, 0} /\ target' \in {target, Len(log), 0}
      /\ \A j \in 1..Len(channel') :
           \/ j \in 1..Len(channel) /\ channel'[j] = channel[j]
           \/ channel'[j].kind = "row"
           \/ channel'[j].at = target
  <2>1. CASE Connect \/ Disconnect \/ CheckpointDiff \/ DataFrame
    <3>1. /\ UNCHANGED channel /\ target' \in {target, Len(log), 0}
          /\ sent' = sent \/ sent' = 0
      BY <2>1 DEF Connect, Disconnect, CheckpointDiff, DataFrame, Retained, StartedOver,
                  stream, position
    <3>2. Received' \in {Received, 0}
      BY <3>1 DEF Received, Before
    <3> QED
      BY <3>1, <3>2
  <2>2. CASE SendRow
    <3> DEFINE e == [kind |-> "row", at |-> sent + 1]
    <3>1. e \in Event /\ Before(e) = sent /\ e.kind = "row"
      BY <1>3 DEF Event, Before, TypeOK
    <3>2. channel' = Append(channel, e) /\ target' = target /\ sent' = e.at
      BY <2>2 DEF SendRow
    <3> HIDE DEF e
    <3>3. Received' = Received
      BY <1>3, <3>1, <3>2, AppendedReceived DEF TypeOK
    <3>4. /\ channel \in Seq(Event) /\ Len(channel') = Len(channel) + 1 /\ Len(channel) \in Nat
          /\ \A j \in 1..Len(channel) : channel'[j] = channel[j]
          /\ channel'[Len(channel) + 1] = e
      BY <1>3, <3>1, <3>2, AppendProperties, LenProperties DEF TypeOK
    <3>5. \A j \in 1..Len(channel') : j \in 1..Len(channel) \/ j = Len(channel) + 1
      BY <3>4
    <3> QED
      BY <3>1, <3>2, <3>3, <3>4, <3>5
  <2>3. CASE SendComplete
    <3> DEFINE e == [kind |-> "complete", at |-> cursor]
    <3>1. e \in Event /\ Before(e) = sent /\ e.at = target /\ e.kind = "complete"
      BY <1>3, <2>3 DEF Event, Before, TypeOK, RangeInv, SendComplete
    <3>2. channel' = Append(channel, e) /\ target' = target
      BY <2>3 DEF SendComplete, stream
    <3> HIDE DEF e
    <3>3. Received' = Received
      BY <1>3, <3>1, <3>2, AppendedReceived DEF TypeOK
    <3>4. /\ channel \in Seq(Event) /\ Len(channel') = Len(channel) + 1 /\ Len(channel) \in Nat
          /\ \A j \in 1..Len(channel) : channel'[j] = channel[j]
          /\ channel'[Len(channel) + 1] = e
      BY <1>3, <3>1, <3>2, AppendProperties, LenProperties DEF TypeOK
    <3>5. \A j \in 1..Len(channel') : j \in 1..Len(channel) \/ j = Len(channel) + 1
      BY <3>4
    <3> QED
      BY <3>1, <3>2, <3>3, <3>4, <3>5
  <2> QED
    BY <2>1, <2>2, <2>3
<1>5. LineInv(m)' /\ SureInv(m)'
  <2>1. Len(log) <= Len(log') /\ \A i \in 1..Len(log) : log'[i] = log[i]
    BY <1>1, <1>3
  <2> QED
    BY <1>1, <1>4, <1>7, <2>1, MainUnmoved DEF OInv
<1>6. ClosedInv'
  <2>1. /\ Closed(Len(log)) /\ Closed(target) /\ Closed(0)
        /\ \A j \in 1..Len(channel) : channel[j].kind = "complete" => Closed(channel[j].at)
        /\ main = "messages" => Closed(snapshot)
    BY NothingIsClosed DEF OInv, ClosedInv
  <2>2. Closed(target') /\ \A j \in 1..Len(channel') :
          channel'[j].kind = "complete" => Closed(channel'[j].at)
    BY <1>4, <2>1
  <2> QED
    BY <1>1, <1>2, <2>1, <2>2 DEF ClosedInv
<1> QED
  BY <1>2, <1>5, <1>6 DEF OInv

-----------------------------------------------------------------------------
(* Steps of the main loop                                                  *)

\* The events left in the channel are as they were.
LEMMA RestIsClosed ==
  ASSUME TypeOK, ClosedInv, channel # <<>>, channel' = Tail(channel)
  PROVE  \A j \in 1..Len(channel') : channel'[j].kind = "complete" => Closed(channel'[j].at)
<1>1. /\ channel \in Seq(Event) /\ Len(channel) \in Nat
      /\ Len(channel') = Len(channel) - 1
      /\ \A j \in 1..Len(channel') : channel'[j] = channel[j + 1]
  BY PrepareTypes, HeadTailProperties DEF TypeOK
<1>2. \A j \in 1..Len(channel') : j + 1 \in 1..Len(channel)
  BY <1>1
<1> QED
  BY <1>1, <1>2 DEF ClosedInv

\* A row is staged: a message joins the line, a chat's row makes its chat sure.
LEMMA StageRowKeeps ==
  ASSUME NEW m \in Nat, IInv(m), OInv(m), StageRow,
         NEW n \in Nat, n = IF m < channel[1].at THEN channel[1].at ELSE m
  PROVE  OInv(n)'
<1> DEFINE i == channel[1].at
<1>1. TypeOK /\ RangeInv(m) /\ ChannelInv(m) /\ CoverInv(m) /\ NetInv(m)
  BY DEF IInv
<1>2. /\ main = "select" /\ channel # <<>> /\ Head(channel).kind = "row"
      /\ channel' = Tail(channel)
      /\ UNCHANGED <<log, target, conn, sent, again, snapshot, mirror, served, lost>>
  BY DEF StageRow, Receive, MainOnly, server, stream, position, history
<1>3. /\ Received' \in {i, 0} /\ Received = i - 1 /\ Head(channel).at = i
      /\ i \in Nat /\ i >= 1 /\ i <= Len(log) /\ Len(log) \in Nat
  <2>1. /\ Received' \in {i, 0} /\ Received = Before(channel[1])
        /\ channel[1] = Head(channel) /\ channel[1] \in Event
        /\ channel[1].kind = "row" => i >= 1
    BY <1>1, <1>2, TakeStep
  <2>2. i \in Nat /\ Len(log) \in Nat /\ i <= Len(log)
    <3>1. Len(channel) \in Nat /\ Len(channel) >= 1
      BY <1>1, <1>2, PrepareTypes
    <3>2. 1 \in 1..Len(channel)
      BY <3>1
    <3> QED
      BY <1>1, <2>1, <3>2, PrepareTypes DEF Event, ChannelInv
  <2> QED
    BY <1>2, <2>1, <2>2 DEF Before
<1>0. /\ i <= n /\ m <= n /\ (n = m \/ (n = i /\ m = i - 1))
      /\ Received' \in Nat /\ Received' <= i
      /\ ~again => m = i - 1 /\ n = i
  BY <1>1, <1>3 DEF ChannelInv
<1>4. log[i] \in Ops /\ log[i].chat \in Chat /\ log[i].table \in Tables
  BY <1>1, <1>3, PrepareTypes DEF Ops
<1>5. /\ \/ log[i].table = "machine_users" /\ UNCHANGED staging
         \/ log[i].table # "machine_users" /\ Stage(log[i].table, i)
      /\ main' \in {"select", "save"}
  BY <1>2, <1>3 DEF StageRow
<1>6. staging \in [chats : Rows, projects : Rows, messages : Seq(Nat)]
  BY <1>1 DEF TypeOK
<1>7. /\ staging'.messages = IF log[i].table = "messages"
                             THEN Append(staging.messages, i) ELSE staging.messages
      /\ \A c \in Chat : staging'.chats[c] =
           IF log[i].table = "chats" /\ log[i].chat = c THEN i ELSE staging.chats[c]
  <2>1. CASE log[i].table = "machine_users"
    BY <1>5, <2>1
  <2>2. CASE log[i].table = "messages"
    <3>1. staging' = [staging EXCEPT !.messages = Append(@, i)]
      BY <1>5, <2>2 DEF Stage
    <3> QED
      BY <1>6, <2>2, <3>1
  <2>3. CASE log[i].table = "projects"
    <3>1. staging' = [staging EXCEPT !.projects = [@ EXCEPT ![log[i].chat] = i]]
      BY <1>5, <2>3 DEF Stage
    <3> QED
      BY <1>6, <2>3, <3>1
  <2>4. CASE log[i].table = "chats"
    <3>1. staging' = [staging EXCEPT !.chats = [@ EXCEPT ![log[i].chat] = i]]
      BY <1>5, <2>4 DEF Stage
    <3>2. /\ staging'.messages = staging.messages
          /\ staging'.chats = [staging.chats EXCEPT ![log[i].chat] = i]
      BY <1>6, <3>1
    <3> QED
      BY <1>4, <1>6, <2>4, <3>2 DEF Rows
  <2> QED
    BY <1>4, <2>1, <2>2, <2>3, <2>4 DEF Tables
<1> HIDE DEF i
<1>8. SeqInv' /\ LostInv' /\ \A k : Closed(k)' = Closed(k)
  BY <1>2, LogKept DEF OInv
<1>9. /\ \A k : Messages(k)' = Messages(k)
      /\ \A k, table, c : Newest(table, c, k)' = Newest(table, c, k)
      /\ \A k, table, c : Touching(table, c, k)' = Touching(table, c, k)
      /\ \A c, j, k : Seen(c, j, k)' = Seen(c, j, k)
  BY <1>2, SameLog, SameEnds
<1>10. ClosedInv'
  <2>1. \A j \in 1..Len(channel') : channel'[j].kind = "complete" => Closed(channel'[j].at)
    BY <1>1, <1>2, RestIsClosed DEF OInv
  <2> QED
    BY <1>2, <1>5, <1>8, <2>1 DEF OInv, ClosedInv
<1>11. /\ \A x \in Messages(m) : x \in Messages(n)'
       /\ \A x \in Messages(m) : ~again => x < i
       /\ log[i].table = "messages" => i \in Messages(n)'
  <2>1. \A k \in Nat : k <= n => Messages(k) \subseteq Messages(n)
    BY DEF Messages
  <2>2. Messages(m) \subseteq Messages(n)
    BY <1>0, <2>1
  <2>3. \A x \in Messages(m) : ~again => x < i
    BY <1>0, <1>3 DEF Messages
  <2>4. log[i].table = "messages" => i \in Messages(n)
    BY <1>0, <1>3 DEF Messages
  <2> QED
    BY <1>9, <2>2, <2>3, <2>4
<1>12. LineInv(n)'
  <2>1. /\ \A a \in 1..Len(served) : served[a] \in Messages(m)
        /\ \A b \in 1..Len(staging.messages) : staging.messages[b] \in Messages(m)
        /\ ServedInOrder
        /\ ~again =>
            /\ Up(served) /\ Up(staging.messages)
            /\ \A a \in 1..Len(served), b \in 1..Len(staging.messages) :
                 served[a] < staging.messages[b]
    BY DEF OInv, LineInv
  <2>0. ServedInOrder' /\ \A a \in 1..Len(served') : served'[a] \in Messages(n)'
    BY <1>2, <1>11, <2>1 DEF ServedInOrder
  <2>2. CASE log[i].table # "messages"
    <3>1. staging'.messages = staging.messages /\ served' = served
      BY <1>2, <1>7, <2>2
    <3> QED
      BY <1>2, <1>11, <2>0, <2>1, <3>1 DEF LineInv, Up
  <2>3. CASE log[i].table = "messages"
    <3>1. /\ staging.messages \in Seq(Nat) /\ Len(staging.messages) \in Nat
          /\ staging'.messages = Append(staging.messages, i)
      BY <1>6, <1>7, <2>3, LenProperties
    <3>2. /\ Len(staging'.messages) = Len(staging.messages) + 1
          /\ \A j \in 1..Len(staging.messages) : staging'.messages[j] = staging.messages[j]
          /\ staging'.messages[Len(staging.messages) + 1] = i
      BY <1>3, <3>1, AppendProperties
    <3>3. /\ \A j \in 1..Len(staging'.messages) :
               j \in 1..Len(staging.messages) \/ staging'.messages[j] = i
          /\ \A a, b \in 1..Len(staging'.messages) : a < b => a \in 1..Len(staging.messages)
      BY <3>1, <3>2
    <3>4. ~again => \A j \in 1..Len(staging.messages) : staging.messages[j] < i
      BY <1>11, <2>1
    <3>5. ~again => \A a \in 1..Len(served) : served[a] < i
      BY <1>11, <2>1
    <3>7. ~again => Up(staging.messages)'
      BY <2>1, <3>2, <3>3, <3>4 DEF Up
    <3>8. ~again => \A a \in 1..Len(served'), b \in 1..Len(staging'.messages) :
            served'[a] < staging'.messages[b]
      BY <1>2, <2>1, <3>2, <3>3, <3>5
    <3>9. \A b \in 1..Len(staging'.messages) : staging'.messages[b] \in Messages(n)'
      BY <1>11, <2>1, <2>3, <3>2, <3>3
    <3>10. ~again => Up(served)'
      BY <1>2, <2>1 DEF Up
    <3> QED
      BY <1>2, <2>0, <3>7, <3>8, <3>9, <3>10 DEF LineInv
  <2> QED
    BY <2>2, <2>3
<1>13. ASSUME NEW c \in Chat
       PROVE  /\ staging'.chats[c] # 0 => staging'.chats[c] \in Touching("chats", c, n)'
              /\ Sure(c, n)' /\ Settled("chats", c, n)' =>
                   Applied(mirror.chats, staging.chats)'[c] = Newest("chats", c, n)'
  <2>1. Touching("chats", c, n)' = Touching("chats", c, n) /\ Newest("chats", c, n)' = Newest("chats", c, n)
    BY <1>9
  <2>2. Applied(mirror.chats, staging.chats)'[c] =
          IF staging'.chats[c] = 0 THEN mirror.chats[c]
          ELSE IF log[staging'.chats[c]].op = "PUT" THEN staging'.chats[c] ELSE 0
    BY <1>2 DEF Applied
  <2>3. Settled("chats", c, n)' => \A p \in i + 1 .. n : ~(log[p].table = "chats" /\ log[p].chat = c)
    <3> HAVE Settled("chats", c, n)'
    <3>1. \A p \in Received' + 1 .. n : ~(log[p].table = "chats" /\ log[p].chat = c)
      BY <1>2 DEF Settled
    <3>2. \A r \in Nat : r <= i => \A p \in i + 1 .. n : p \in r + 1 .. n
      BY <1>3
    <3>3. \A p \in i + 1 .. n : p \in Received' + 1 .. n
      BY <1>0, <3>2, Zenon
    <3> QED
      BY <3>1, <3>3
  <2>4. CASE log[i].table = "chats" /\ log[i].chat = c
    <3>1. staging'.chats[c] = i /\ i # 0 /\ i \in 1..n
      BY <1>0, <1>3, <1>7, <2>4
    <3>2. i \in Touching("chats", c, n)
      BY <2>4, <3>1 DEF Touching
    <3>3. Settled("chats", c, n)' => Newest("chats", c, n) = IF log[i].op = "PUT" THEN i ELSE 0
      BY <2>3, <2>4, <3>1, NewestLast
    <3> QED
      BY <2>1, <2>2, <3>1, <3>2, <3>3
  <2>5. CASE ~(log[i].table = "chats" /\ log[i].chat = c)
    <3>1. staging'.chats[c] = staging.chats[c]
      BY <1>7, <2>5
    <3>2. Applied(mirror.chats, staging.chats)'[c] = Applied(mirror.chats, staging.chats)[c]
      BY <2>2, <3>1 DEF Applied
    <3>3. staging.chats[c] # 0 => staging.chats[c] \in Touching("chats", c, n)
      <4>1. staging.chats[c] # 0 => staging.chats[c] \in Touching("chats", c, m)
        BY DEF OInv, SureInv
      <4>2. \A q \in 1..m : q \in 1..n
        BY <1>0
      <4> QED
        BY <4>1, <4>2 DEF Touching
    <3>4. Sure(c, n)' /\ Settled("chats", c, n)' => Sure(c, m)
      <4> SUFFICES ASSUME staging.chats[c] = 0, Sure(c, n)', Settled("chats", c, n)'
                   PROVE  \E j \in Queue : log[j].chat = c /\ Seen(c, j, m)
        BY DEF Sure
      <4>1. PICK b \in 1..Len(staging'.messages) :
              log[staging'.messages[b]].chat = c /\ Seen(c, staging'.messages[b], n)
        BY <1>2, <1>9, <3>1 DEF Sure, Queue
      <4> DEFINE j == staging'.messages[b]
      <4>2. j \in Messages(n)
        BY <1>9, <1>12 DEF LineInv
      <4>3. j \in Nat /\ j >= 1 /\ j <= n
        BY <4>2 DEF Messages
      <4>4. PICK p \in j + 1 .. n : log[p].table = "chats" /\ log[p].chat = c
        BY <4>1 DEF Seen
      <4>5. p # i /\ p \in j + 1 .. m
        BY <1>0, <1>3, <2>5, <4>3, <4>4
      <4>6. Seen(c, j, m)
        BY <4>4, <4>5 DEF Seen
      <4>7. j # i
        BY <2>3, <4>4
      <4>8. j \in Queue
        <5>1. CASE log[i].table # "messages"
          BY <1>7, <5>1 DEF Queue
        <5>2. CASE log[i].table = "messages"
          <6>1. /\ staging.messages \in Seq(Nat) /\ Len(staging.messages) \in Nat
                /\ staging'.messages = Append(staging.messages, i)
            BY <1>6, <1>7, <5>2, LenProperties
          <6>2. /\ Len(staging'.messages) = Len(staging.messages) + 1
                /\ \A q \in 1..Len(staging.messages) : staging'.messages[q] = staging.messages[q]
                /\ staging'.messages[Len(staging.messages) + 1] = i
            BY <1>3, <6>1, AppendProperties
          <6>3. b \in 1..Len(staging.messages)
            BY <4>7, <6>1, <6>2
          <6> QED
            BY <6>2, <6>3 DEF Queue
        <5> QED
          BY <5>1, <5>2
      <4> QED
        BY <4>1, <4>6, <4>8
    <3>5. Settled("chats", c, n)' => Settled("chats", c, m)
      <4> HAVE Settled("chats", c, n)'
      <4>1. \A p \in (i - 1) + 1 .. m : p = i \/ p \in i + 1 .. n
        BY <1>0, <1>3
      <4> QED
        BY <1>3, <2>3, <2>5, <4>1 DEF Settled
    <3>6. Newest("chats", c, n) = Newest("chats", c, m)
      <4>1. CASE n = m
        BY <4>1
      <4>2. CASE n = i /\ m = i - 1
        <5>1. n = m + 1
          BY <1>3, <4>2
        <5>2. Newest("chats", c, m + 1) = Newest("chats", c, m)
          BY <2>5, <4>2, <5>1, NewestNext
        <5> QED
          BY <5>1, <5>2
      <4> QED
        BY <1>0, <4>1, <4>2
    <3>7. Sure(c, m) /\ Settled("chats", c, m) =>
            Applied(mirror.chats, staging.chats)[c] = Newest("chats", c, m)
      BY DEF OInv, SureInv
    <3> QED
      BY <2>1, <3>1, <3>2, <3>3, <3>4, <3>5, <3>6, <3>7
  <2> QED
    BY <2>4, <2>5
<1>14. SureInv(n)'
  BY <1>5, <1>13 DEF SureInv
<1> QED
  BY <1>8, <1>10, <1>12, <1>14 DEF OInv

\* The window's chats enter the mirror, which is as sure of them as staging was.
LEMMA ApplyKeeps ==
  ASSUME NEW m \in Nat, IInv(m), OInv(m), ApplyCheckpoint
  PROVE  OInv(m)'
<1>1. TypeOK /\ RangeInv(m) /\ ChannelInv(m)
  BY DEF IInv
<1>2. /\ main' = "messages" /\ channel # <<>> /\ Head(channel).kind = "complete"
      /\ channel' = Tail(channel) /\ snapshot' = Head(channel).at
      /\ staging' = [EmptyStaging EXCEPT !.messages = staging.messages]
      /\ UNCHANGED <<log, target, conn, sent, again, served, lost>>
  BY DEF ApplyCheckpoint, Receive, MainOnly, server, stream, position, history
<1>3. /\ Received = m /\ snapshot' = m /\ channel[1].at = m
      /\ Len(channel) >= 1 /\ Len(channel) \in Nat /\ channel[1].kind = "complete"
  <2>1. PICK n \in Nat : n = IF m < channel[1].at THEN channel[1].at ELSE m
    BY <1>1, <1>2, PrepareTypes DEF Event
  <2>2. /\ Received = Before(channel[1])
        /\ channel[1] = Head(channel)
        /\ channel[1].kind = "complete" => channel[1].at = m
    BY <1>1, <1>2, <2>1, TakeStep
  <2> QED
    BY <1>1, <1>2, <2>2, PrepareTypes DEF Before
<1>4. staging' = [chats |-> NoRows, projects |-> NoRows, messages |-> staging.messages]
  BY <1>2 DEF EmptyStaging
<1>5. mirror'.chats = Applied(mirror.chats, staging.chats)
  <2>1. mirror \in [chats : Rows, projects : Rows, session : SUBSET Chat, buckets : Nat]
    BY <1>1 DEF TypeOK
  <2> QED
    BY <2>1 DEF ApplyCheckpoint
<1>6. SeqInv' /\ LostInv' /\ \A k : Closed(k)' = Closed(k)
  BY <1>2, LogKept DEF OInv
<1>7. /\ \A k : Messages(k)' = Messages(k)
      /\ \A k, table, c : Newest(table, c, k)' = Newest(table, c, k)
      /\ \A c, j, k : Seen(c, j, k)' = Seen(c, j, k)
  BY <1>2, SameLog, SameEnds
<1>0. Closed(m)
  BY <1>3 DEF OInv, ClosedInv
<1>8. ClosedInv'
  <2>1. \A j \in 1..Len(channel') : channel'[j].kind = "complete" => Closed(channel'[j].at)
    BY <1>1, <1>2, RestIsClosed DEF OInv
  <2> QED
    BY <1>0, <1>2, <1>3, <1>6, <2>1 DEF OInv, ClosedInv
<1>9. LineInv(m)'
  <2>1. staging'.messages = staging.messages /\ Messages(m)' = Messages(m)
    BY <1>4, <1>7
  <2> QED
    BY <1>2, <2>1 DEF OInv, LineInv, ServedInOrder, Up
<1>10. ASSUME NEW c \in Chat, Sure(c, m)
       PROVE  mirror'.chats[c] = Newest("chats", c, m)
  <2>1. Settled("chats", c, m)
    BY <1>3 DEF Settled
  <2> QED
    BY <1>5, <1>10, <2>1 DEF OInv, SureInv
<1>11. \A i \in Queue : log[i].chat \in Chat /\ Sure(log[i].chat, m)
  <2> TAKE i \in Queue
  <2>1. i \in Messages(m)
    BY DEF OInv, LineInv, Queue
  <2>2. i \in 1..Len(log) /\ Len(log) \in Nat
    BY <1>1, <2>1, PrepareTypes DEF RangeInv, Messages
  <2>3. log[i].chat \in Chat
    BY <1>1, <2>2, PrepareTypes DEF Ops
  <2>4. Seen(log[i].chat, i, m)
    BY <1>0, <2>1 DEF Closed
  <2> QED
    BY <2>3, <2>4 DEF Sure
<1>12. Queue' = Queue
  BY <1>4 DEF Queue
<1>13. SureInv(m)'
  <2>1. \A c \in Chat : staging'.chats[c] = 0
    BY <1>4 DEF NoRows
  <2>2. ASSUME NEW c \in Chat
        PROVE  Sure(c, m)' => Applied(mirror.chats, staging.chats)'[c] = Newest("chats", c, m)'
    <3>1. Applied(mirror.chats, staging.chats)'[c] = mirror'.chats[c]
      BY <2>1 DEF Applied
    <3>2. Sure(c, m)' => Sure(c, m)
      BY <1>2, <1>7, <1>12, <2>1 DEF Sure
    <3> QED
      BY <1>7, <1>10, <3>1, <3>2
  <2>3. \A i \in Queue' : mirror'.chats[log'[i].chat] = Newest("chats", log[i].chat, snapshot)'
    <3> TAKE i \in Queue'
    <3>1. mirror'.chats[log[i].chat] = Newest("chats", log[i].chat, m)
      BY <1>10, <1>11, <1>12
    <3>2. Newest("chats", log[i].chat, snapshot)' = Newest("chats", log[i].chat, m)
      BY <1>2, <1>3, <1>7
    <3> QED
      BY <1>2, <3>1, <3>2
  <2> QED
    BY <2>1, <2>2, <2>3 DEF SureInv
<1> QED
  BY <1>6, <1>8, <1>9, <1>13 DEF OInv

\* What a deferred message finds: the chat's newest row, as recent as itself and as
\* every message of the chat, or none because the chat was deleted; and the chat's
\* project.
LEMMA MessageFinds ==
  ASSUME NEW m \in Nat, IInv(m), OInv(m), main = "messages", staging.messages # <<>>,
         NEW i, i = Head(staging.messages)
  PROVE  /\ snapshot = m /\ i \in Messages(m) /\ i \in 1..Len(log)
         /\ log[i].chat \in Chat /\ i \in Queue
         /\ mirror.chats[log[i].chat] = Newest("chats", log[i].chat, snapshot)
         /\ mirror.projects[log[i].chat] # 0
         /\ Orphaned(i) => /\ ~Exists(log[i].chat)
                           /\ Touching("chats", log[i].chat, Len(log)) # {}
         /\ ~Orphaned(i) =>
              /\ log[i].seq \in Nat /\ log[mirror.chats[log[i].chat]].seq \in Nat
              /\ \A q \in Messages(m) : log[q].chat = log[i].chat =>
                   log[q].seq <= log[mirror.chats[log[i].chat]].seq
<1>1. /\ TypeOK /\ RangeInv(m) /\ ChannelInv(m) /\ PrefixInv /\ snapshot = m
  BY DEF IInv, WindowInv
<1>2. /\ m <= Len(log) /\ Len(log) \in Nat
      /\ \A j \in 1..Len(log) : log[j] \in Ops
  BY <1>1, PrepareTypes DEF RangeInv
<1>3. 1 \in 1..Len(staging.messages) /\ staging.messages[1] = i
  <2>1. staging.messages \in Seq(Nat)
    BY <1>1 DEF TypeOK
  <2> QED
    BY <2>1, LenProperties, EmptySeq, HeadTailProperties
<1>4. i \in Messages(m) /\ i \in Queue
  BY <1>3 DEF OInv, LineInv, Queue
<1>5. i \in 1..m /\ i \in 1..Len(log) /\ log[i] \in Ops /\ log[i].chat \in Chat
  <2>1. i \in 1..m
    BY <1>4 DEF Messages
  <2>2. i \in 1..Len(log)
    BY <1>2, <2>1
  <2> QED
    BY <1>2, <2>1, <2>2 DEF Ops
<1> DEFINE c == log[i].chat
<1>6. Closed(m)
  BY <1>1 DEF OInv, ClosedInv
<1>7. Touching("chats", c, m) # {}
  <2>1. Seen(c, i, m)
    BY <1>4, <1>6 DEF Closed
  <2>2. PICK p \in i + 1 .. m : log[p].table = "chats" /\ log[p].chat = c
    BY <2>1 DEF Seen
  <2>3. p \in 1..m
    BY <1>5, <2>2
  <2> QED
    BY <2>2, <2>3 DEF Touching
<1>8. Touching("chats", c, Len(log)) # {}
  BY <1>2, <1>7 DEF Touching
<1>9. mirror.chats[c] = Newest("chats", c, m)
  BY <1>1, <1>4 DEF OInv, SureInv
<1>10. mirror.projects[c] # 0
  <2>1. mirror.projects[c] = Newest("projects", c, m)
    BY <1>1, <1>5 DEF PrefixInv, Level
  <2> QED
    BY <1>5, <1>6, <1>7, <2>1 DEF Closed
<1>11. Orphaned(i) => ~Exists(c)
  BY <1>5, <1>6, <1>7, <1>9 DEF Closed, Orphaned
<1>12. ~Orphaned(i) => /\ log[i].seq \in Nat
                       /\ log[mirror.chats[c]].seq \in Nat
                       /\ \A q \in Messages(m) : log[q].chat = c =>
                            log[q].seq <= log[mirror.chats[c]].seq
  <2> HAVE ~Orphaned(i)
  <2>1. Newest("chats", c, m) # 0 /\ Newest("chats", c, m) \in 0..m
    BY <1>2, <1>9, NewestRange DEF Orphaned
  <2>2. mirror.chats[c] \in 1..Len(log)
    BY <1>2, <1>9, <2>1
  <2>3. \A q \in Messages(m) : log[q].chat = c => log[q].seq <= log[Newest("chats", c, m)].seq
    BY <1>6, <2>1 DEF Closed
  <2> QED
    BY <1>2, <1>5, <1>9, <2>2, <2>3 DEF Ops
<1> QED
  BY <1>1, <1>4, <1>5, <1>8, <1>9, <1>10, <1>11, <1>12

\* A deferred message leaves the line at its head.  It is acted on only as the
\* newest of its chat, so that nothing later in the log was acted on before it.
LEMMA MessageKeeps ==
  ASSUME NEW m \in Nat, IInv(m), OInv(m), LoseMessage \/ SkipMessage \/ ServeMessage
  PROVE  OInv(m)'
<1> DEFINE i == Head(staging.messages)
<1>1. TypeOK /\ WindowInv(m)
  BY DEF IInv
<1>2. /\ main = "messages" /\ staging.messages # <<>>
      /\ staging' = [staging EXCEPT !.messages = Tail(@)]
      /\ UNCHANGED <<log, target, sent, again, channel, main, snapshot, mirror>>
  BY DEF LoseMessage, SkipMessage, ServeMessage, NextMessage, MainOnly, server, stream, position
<1>3. /\ staging.messages \in Seq(Nat) /\ staging.messages[1] = i
      /\ Len(staging.messages) \in Nat /\ Len(staging.messages) >= 1
      /\ staging'.messages = Tail(staging.messages)
      /\ staging'.chats = staging.chats
      /\ Len(staging'.messages) = Len(staging.messages) - 1
      /\ \A j \in 1..Len(staging'.messages) : staging'.messages[j] = staging.messages[j + 1]
  <2>1. /\ staging \in [chats : Rows, projects : Rows, messages : Seq(Nat)]
        /\ staging.messages \in Seq(Nat)
    BY <1>1 DEF TypeOK
  <2>2. staging'.messages = Tail(staging.messages) /\ staging'.chats = staging.chats
    BY <1>2, <2>1
  <2>3. Len(staging.messages) \in Nat /\ Len(staging.messages) # 0
    BY <1>2, <2>1, LenProperties, EmptySeq
  <2> QED
    BY <1>2, <2>1, <2>2, <2>3, HeadTailProperties
<1>4. /\ i \in Messages(m) /\ i \in 1..Len(log) /\ mirror.projects[log[i].chat] # 0
      /\ Orphaned(i) => /\ ~Exists(log[i].chat)
                        /\ Touching("chats", log[i].chat, Len(log)) # {}
      /\ ~Orphaned(i) =>
           /\ log[i].seq \in Nat /\ log[mirror.chats[log[i].chat]].seq \in Nat
           /\ \A q \in Messages(m) : log[q].chat = log[i].chat =>
                log[q].seq <= log[mirror.chats[log[i].chat]].seq
  BY <1>2, MessageFinds
<1>5. /\ \/ served' = served
         \/ served' = Append(served, i) /\ ~Orphaned(i) /\ ~Replayed(i)
      /\ lost' = lost \/ (lost' = lost \cup {i} /\ Orphaned(i))
  BY <1>4 DEF LoseMessage, SkipMessage, ServeMessage
<1> HIDE DEF i
<1>6. /\ \A k : Messages(k)' = Messages(k) /\ Closed(k)' = Closed(k)
      /\ \A k, table, c : Newest(table, c, k)' = Newest(table, c, k)
      /\ \A k, table, c : Touching(table, c, k)' = Touching(table, c, k)
      /\ \A c : Exists(c)' = Exists(c)
      /\ \A c, j, k : Seen(c, j, k)' = Seen(c, j, k)
  BY <1>2, SameLog, SameEnds
<1>7. Received' = Received
  BY <1>2 DEF Received, Before
<1>8. SeqInv' /\ ClosedInv'
  BY <1>2, <1>6 DEF OInv, SeqInv, ClosedInv
<1>9. LostInv'
  BY <1>2, <1>4, <1>5, <1>6 DEF OInv, LostInv
<1>10. /\ \A j \in 1..Len(staging'.messages) : j + 1 \in 1..Len(staging.messages) /\ 1 < j + 1
       /\ 1 \in 1..Len(staging.messages)
  BY <1>3
<1>11. LineInv(m)'
  <2>0. /\ \A a \in 1..Len(served) : served[a] \in Messages(m)
        /\ \A b \in 1..Len(staging.messages) : staging.messages[b] \in Messages(m)
        /\ ServedInOrder
    BY DEF OInv, LineInv
  <2>1. ~again =>
          /\ Up(served) /\ Up(staging.messages)
          /\ \A a \in 1..Len(served), b \in 1..Len(staging.messages) :
               served[a] < staging.messages[b]
    BY DEF OInv, LineInv
  <2>2. ~again => /\ Up(staging.messages)'
                  /\ \A j \in 1..Len(staging'.messages) : i < staging'.messages[j]
                  /\ \A a \in 1..Len(served), b \in 1..Len(staging'.messages) :
                       served[a] < staging'.messages[b]
                  /\ \A a \in 1..Len(served) : served[a] < i
    <3> HAVE ~again
    <3>1. \A a, b \in 1..Len(staging'.messages) : a < b => a + 1 < b + 1
      OBVIOUS
    <3> QED
      BY <1>3, <1>10, <2>1, <3>1 DEF Up
  <2>3. \A j \in 1..Len(staging'.messages) : staging'.messages[j] \in Messages(m)'
    BY <1>3, <1>6, <1>10, <2>0
  <2>4. CASE served' = served
    <3>1. ServedInOrder' /\ (Up(served) => Up(served)')
      BY <1>2, <2>0, <2>4 DEF ServedInOrder, Up
    <3> QED
      BY <1>2, <1>6, <2>0, <2>1, <2>2, <2>3, <2>4, <3>1 DEF LineInv
  <2>5. CASE served' = Append(served, i) /\ ~Orphaned(i) /\ ~Replayed(i)
    <3>1. /\ served \in Seq(Nat) /\ i \in Nat /\ Len(served) \in Nat
      BY <1>1, <1>4, LenProperties DEF TypeOK
    <3>2. /\ Len(served') = Len(served) + 1 /\ served'[Len(served) + 1] = i
          /\ \A a \in 1..Len(served) : served'[a] = served[a]
      BY <2>5, <3>1, AppendProperties
    <3>3. /\ \A a \in 1..Len(served') : a \in 1..Len(served) \/ a = Len(served) + 1
          /\ \A b \in 1..Len(served') : \A a \in 1..b - 1 : a \in 1..Len(served)
          /\ \A a, b \in 1..Len(served') : a < b => a \in 1..Len(served)
      BY <3>1, <3>2
    <3>4. ASSUME NEW p \in Messages(m), log[p].chat = log[i].chat, p < i \/ again
          PROVE  log[p].seq < log[i].seq \/ (p = i /\ again)
      <4>1. p \in Messages(Len(log)) /\ i \in Messages(Len(log)) /\ p \in Nat /\ i \in Nat
        BY <1>4, PrepareTypes DEF Messages, IInv, RangeInv
      <4>2. p < i => log[p].seq < log[i].seq
        BY <3>4, <4>1 DEF OInv, SeqInv
      <4>3. i < p => log[i].seq < log[p].seq
        BY <3>4, <4>1 DEF OInv, SeqInv
      <4>4. log[p].seq <= log[i].seq
        <5>1. /\ log[p].seq <= log[mirror.chats[log[i].chat]].seq
              /\ ~(log[i].seq < log[mirror.chats[log[i].chat]].seq)
          BY <1>4, <2>5, <3>4 DEF Replayed
        <5>2. log[p].seq \in Nat
          BY <4>1, PrepareTypes DEF IInv, Messages, Ops
        <5> QED
          BY <1>4, <2>5, <5>1, <5>2
      <4>5. log[p].seq \in Nat /\ log[i].seq \in Nat
        BY <4>1, PrepareTypes DEF IInv, Messages, Ops
      <4>6. ~(i < p)
        BY <4>3, <4>4, <4>5
      <4> QED
        BY <3>4, <4>1, <4>2, <4>6
    <3>5. ServedInOrder'
      <4> SUFFICES ASSUME NEW b \in 1..Len(served'), NEW a \in 1..b - 1,
                          log[served'[a]].chat = log[served'[b]].chat
                   PROVE  \/ log[served'[a]].seq < log[served'[b]].seq
                          \/ served'[a] = served'[b] /\ again
        BY <1>2 DEF ServedInOrder
      <4>1. a \in 1..Len(served) /\ served'[a] = served[a]
        BY <3>2, <3>3
      <4>2. CASE b \in 1..Len(served)
        BY <2>0, <3>2, <4>1, <4>2 DEF ServedInOrder
      <4>3. CASE b = Len(served) + 1
        <5>1. served'[b] = i /\ served[a] \in Messages(m) /\ (~again => served[a] < i)
          BY <2>0, <2>2, <3>2, <4>1, <4>3
        <5> QED
          BY <3>4, <4>1, <5>1
      <4> QED
        BY <3>3, <4>2, <4>3
    <3>6. ~again => Up(served)'
      <4> HAVE ~again
      <4> SUFFICES ASSUME NEW a \in 1..Len(served'), NEW b \in 1..Len(served'), a < b
                   PROVE  served'[a] < served'[b]
        BY DEF Up
      <4>1. a \in 1..Len(served) /\ served'[a] = served[a]
        BY <3>2, <3>3
      <4>2. CASE b \in 1..Len(served)
        BY <2>1, <3>2, <4>1, <4>2 DEF Up
      <4>3. CASE b = Len(served) + 1
        BY <2>2, <3>2, <4>1, <4>3
      <4> QED
        BY <3>3, <4>2, <4>3
    <3>7. ~again => \A a \in 1..Len(served'), b \in 1..Len(staging'.messages) :
            served'[a] < staging'.messages[b]
      BY <2>2, <3>2, <3>3
    <3>8. \A a \in 1..Len(served') : served'[a] \in Messages(m)'
      BY <1>4, <1>6, <2>0, <3>2, <3>3
    <3> QED
      BY <1>2, <2>2, <2>3, <3>5, <3>6, <3>7, <3>8 DEF LineInv
  <2> QED
    BY <1>5, <2>4, <2>5
<1>12. \A x \in Queue' : x \in Queue
  BY <1>3, <1>10 DEF Queue
<1>13. ASSUME NEW c \in Chat
       PROVE  /\ staging'.chats[c] # 0 => staging'.chats[c] \in Touching("chats", c, m)'
              /\ Sure(c, m)' /\ Settled("chats", c, m)' =>
                   Applied(mirror.chats, staging.chats)'[c] = Newest("chats", c, m)'
  <2>1. /\ Touching("chats", c, m)' = Touching("chats", c, m)
        /\ Newest("chats", c, m)' = Newest("chats", c, m)
        /\ Settled("chats", c, m)' = Settled("chats", c, m)
    BY <1>2, <1>6, <1>7 DEF Settled
  <2>2. Applied(mirror.chats, staging.chats)'[c] = Applied(mirror.chats, staging.chats)[c]
    BY <1>2, <1>3 DEF Applied
  <2>4. Sure(c, m)' => Sure(c, m)
    BY <1>2, <1>3, <1>6, <1>12 DEF Sure
  <2> QED
    BY <1>3, <2>1, <2>2, <2>4 DEF OInv, SureInv
<1>14. \A x \in Queue' : mirror'.chats[log'[x].chat] = Newest("chats", log[x].chat, snapshot)'
  <2> TAKE x \in Queue'
  <2>1. mirror.chats[log[x].chat] = Newest("chats", log[x].chat, snapshot)
    BY <1>2, <1>12 DEF OInv, SureInv
  <2>2. Newest("chats", log[x].chat, snapshot)' = Newest("chats", log[x].chat, snapshot)
    BY <1>2 DEF Newest, Touching
  <2> QED
    BY <1>2, <2>1, <2>2
<1>15. SureInv(m)'
  BY <1>13, <1>14 DEF SureInv
<1> QED
  BY <1>8, <1>9, <1>11, <1>15 DEF OInv

\* A step that changes no chat of the mirror, nothing that is staged and no window.
LEMMA ChatsUnmoved ==
  ASSUME NEW m \in Nat, OInv(m),
         UNCHANGED <<log, target, sent, channel, staging, again, served, lost>>,
         mirror'.chats = mirror.chats,
         main' = "messages" => main = "messages" /\ snapshot' = snapshot
  PROVE  OInv(m)'
<1>1. SeqInv' /\ LostInv' /\ \A k : Closed(k)' = Closed(k)
  BY LogKept DEF OInv
<1>2. /\ \A k : Messages(k)' = Messages(k)
      /\ \A k, table, c : Newest(table, c, k)' = Newest(table, c, k)
      /\ \A k, table, c : Touching(table, c, k)' = Touching(table, c, k)
      /\ \A c, j, k : Seen(c, j, k)' = Seen(c, j, k)
  BY SameLog, SameEnds
<1>3. Received' = Received /\ Queue' = Queue
  BY DEF Received, Before, Queue
<1>4. ClosedInv'
  BY <1>1 DEF OInv, ClosedInv
<1>5. LineInv(m)'
  BY <1>2, <1>3 DEF OInv, LineInv, ServedInOrder, Up
<1>6. SureInv(m)'
  <2>1. Applied(mirror.chats, staging.chats)' = Applied(mirror.chats, staging.chats)
    BY DEF Applied
  <2>2. \A c : (Sure(c, m)' => Sure(c, m)) /\ Settled("chats", c, m)' = Settled("chats", c, m)
    BY <1>2, <1>3 DEF Sure, Settled
  <2>3. main' = "messages" =>
          \A i \in Queue' : mirror'.chats[log'[i].chat] = Newest("chats", log[i].chat, snapshot)'
    <3> SUFFICES ASSUME main' = "messages", NEW i \in Queue
                 PROVE  mirror'.chats[log'[i].chat] = Newest("chats", log[i].chat, snapshot)'
      BY <1>3
    <3>1. mirror.chats[log[i].chat] = Newest("chats", log[i].chat, snapshot)
      BY DEF OInv, SureInv
    <3>2. Newest("chats", log[i].chat, snapshot)' = Newest("chats", log[i].chat, snapshot)
      BY DEF Newest, Touching
    <3> QED
      BY <3>1, <3>2
  <2> QED
    BY <1>2, <1>3, <2>1, <2>2, <2>3 DEF OInv, SureInv
<1> QED
  BY <1>1, <1>4, <1>5, <1>6 DEF OInv

\* The window's end, a save, and a session id that an agent harvested.
LEMMA QuietKeeps ==
  ASSUME NEW m \in Nat, IInv(m), OInv(m), FinishCheckpoint \/ Save \/ \E c \in Chat : Harvest(c)
  PROVE  OInv(m)'
<1>1. mirror \in [chats : Rows, projects : Rows, session : SUBSET Chat, buckets : Nat]
  BY DEF IInv, TypeOK
<1>2. /\ UNCHANGED <<log, target, sent, again, channel, staging, served, lost>>
      /\ main' # "messages"
  BY DEF FinishCheckpoint, Save, Harvest, MainOnly, server, stream, position, history
<1>3. mirror'.chats = mirror.chats
  BY <1>1 DEF FinishCheckpoint, Save, Harvest
<1> QED
  BY <1>2, <1>3, ChatsUnmoved

\* A spawner that has just started has staged, received and acted on nothing.
LEMMA StartKeeps == JustStarted /\ SeqInv /\ LostInv /\ Closed(Len(log)) => AInv
<1> SUFFICES ASSUME JustStarted, SeqInv, LostInv, Closed(Len(log)) PROVE AInv
  OBVIOUS
<1>0. PICK m \in Nat : m = disk.buckets
  BY DEF JustStarted
<1>1. /\ channel = <<>> /\ Len(channel) = 0 /\ target = 0 /\ main = "select"
      /\ served = <<>> /\ Len(served) = 0
      /\ staging.messages = <<>> /\ Len(staging.messages) = 0
      /\ staging.chats = NoRows /\ Queue = {}
  BY EmptySeq DEF JustStarted, EmptyStaging, Queue
<1>2. ClosedInv
  BY <1>1, NothingIsClosed DEF ClosedInv
<1>3. LineInv(m)
  BY <1>1 DEF LineInv, ServedInOrder, Up
<1>4. SureInv(m)
  BY <1>1 DEF SureInv, Sure, NoRows
<1>5. IInv(m)
  BY <1>0, FreshStart
<1> QED
  BY <1>2, <1>3, <1>4, <1>5 DEF AInv, OInv

\* A crash and the next start.
LEMMA RestartKeeps ==
  ASSUME NEW m \in Nat, IInv(m), OInv(m), Restart
  PROVE  AInv'
<1>1. UNCHANGED <<log, lost>>
  BY DEF Restart
<1>2. SeqInv' /\ LostInv' /\ \A k : Closed(k)' = Closed(k)
  BY <1>1, LogKept DEF OInv
<1>3. Closed(Len(log))'
  BY <1>1, <1>2 DEF OInv, ClosedInv
<1>4. JustStarted'
  BY RestartIsStart
<1> QED
  BY <1>2, <1>3, <1>4, StartKeeps, PTL

-----------------------------------------------------------------------------
(* Every behaviour                                                         *)

\* The first start, with an empty bucket.
LEMMA OrderInitially == Init => AInv
<1> HAVE Init
<1>1. Len(log) = 0 /\ lost = {}
  BY EmptySeq DEF Init
<1>2. SeqInv /\ LostInv
  BY <1>1 DEF SeqInv, LostInv, Messages
<1> QED
  BY <1>1, <1>2, InitIsStart, NothingIsClosed, StartKeeps

\* Every step keeps the order.
LEMMA OrderInductive == AInv /\ [Next]_vars => AInv'
<1> SUFFICES ASSUME NEW m \in Nat, IInv(m), OInv(m), [Next]_vars PROVE AInv'
  BY DEF AInv
<1>0. IInv(m)' /\ OInv(m)' => AInv'
  BY DEF AInv
<1>1. CASE Backend
  BY <1>0, <1>1, BackendStep, BackendKeeps
<1>2. CASE Connect \/ Disconnect \/ CheckpointDiff \/ DataFrame \/ SendRow \/ SendComplete
  BY <1>0, <1>2, StreamStep, StreamKeeps
<1>3. CASE StageRow
  <2>1. channel # <<>> /\ TypeOK
    BY <1>3 DEF StageRow, Receive, IInv
  <2>2. PICK n \in Nat : n = IF m < channel[1].at THEN channel[1].at ELSE m
    BY <2>1, PrepareTypes DEF Event
  <2>3. IInv(n)'
    BY <1>3, <2>2, StageRowStep
  <2>4. OInv(n)'
    BY <1>3, <2>2, StageRowKeeps
  <2> QED
    BY <2>3, <2>4 DEF AInv
<1>4. CASE ApplyCheckpoint
  BY <1>0, <1>4, ApplyCheckpointStep, ApplyKeeps
<1>5. CASE LoseMessage \/ SkipMessage \/ ServeMessage
  BY <1>0, <1>5, MessageStep, MessageKeeps
<1>6. CASE FinishCheckpoint \/ Save \/ \E c \in Chat : Harvest(c)
  BY <1>0, <1>6, FinishStep, SaveStep, HarvestStep, QuietKeeps
<1>7. CASE Restart
  BY <1>7, RestartKeeps
<1>8. CASE UNCHANGED vars
  <2>1. UNCHANGED <<log, target, due, conn, cursor, sent, frame, channel, main, staging,
                    snapshot, mirror, disk, running, crashes, startOvers, again, served,
                    answered, skipped, lost>>
    BY <1>8 DEF vars, server, stream, position, history
  <2>2. TypeOK' /\ RangeInv(m)' /\ ChannelInv(m)' /\ Received' = Received
    BY <2>1 DEF IInv, TypeOK, RangeInv, ChannelInv, Received, Before, Follows
  <2>3. IInv(m)'
    BY <2>1, <2>2, UnmovedStep
  <2>4. OInv(m)'
    BY <2>1, ChatsUnmoved
  <2> QED
    BY <1>0, <2>3, <2>4
<1> QED
  BY <1>1, <1>2, <1>3, <1>4, <1>5, <1>6, <1>7, <1>8 DEF Next, MainLoop

\* The invariant that the theorems below follow from.
THEOREM OrderInvariant == Spec => []AInv
BY OrderInitially, OrderInductive, PTL DEF Spec

\* Between two boots the messages of a chat are acted on in the order of their
\* numbers, and none twice but the newest, after the bucket was streamed from its
\* beginning again (ServedInOrder): a message is acted on only when its number is
\* the one its chat's row has in the checkpoint, and no message of the chat that the
\* main loop has seen is newer; without such a start the stream never goes back, so
\* that each message is staged once.
THEOREM InOrder == Spec => []ServedInOrder
<1>1. AInv => ServedInOrder
  BY DEF AInv, OInv, LineInv
<1> QED
  BY <1>1, OrderInvariant, PTL

\* A message that finds no chat row, or no project, is one of a chat that was
\* deleted (NoOrphanMessage): chats and projects of a window are applied before
\* its messages, so that handle_message_put turns down no message that counts,
\* also after a restart, when the mirror knows no chats, and after the bucket was
\* started over.
THEOREM NoneOrphaned == Spec => []NoOrphanMessage
<1>1. AInv => NoOrphanMessage
  BY DEF AInv, OInv, LostInv, NoOrphanMessage
<1> QED
  BY <1>1, OrderInvariant, PTL

\* A chat leaves the mirror only when it was deleted, or in a restart
\* (NeverEvicted): the REMOVE of an update and its PUT are in one transaction,
\* and staging keeps the last of them.
THEOREM ChatsStay == Spec => NeverEvicted
<1> DEFINE Stays == \A c \in Chat : mirror.chats[c] # 0 /\ mirror'.chats[c] = 0 =>
                      ~Exists(c) \/ crashes' # crashes
<1>1. AInv /\ [Next]_vars => [Stays]_vars
  <2> SUFFICES ASSUME NEW m \in Nat, IInv(m), OInv(m), Next PROVE Stays
    BY DEF AInv, vars, server, stream, position, history
  <2>1. /\ TypeOK /\ RangeInv(m) /\ ChannelInv(m)
        /\ mirror \in [chats : Rows, projects : Rows, session : SUBSET Chat, buckets : Nat]
    BY DEF IInv, TypeOK
  <2>2. CASE mirror'.chats = mirror.chats
    BY <2>2
  <2>3. CASE ApplyCheckpoint
    <3> SUFFICES ASSUME NEW c \in Chat, mirror.chats[c] # 0, mirror'.chats[c] = 0
                 PROVE  ~Exists(c)
      OBVIOUS
    <3>1. /\ channel # <<>> /\ Head(channel).kind = "complete"
          /\ channel' = Tail(channel)
          /\ UNCHANGED <<sent, log, conn, target, again>>
      BY <2>3 DEF ApplyCheckpoint, Receive, MainOnly, server, stream, position
    <3>2. /\ Received = m /\ channel[1].at = m /\ channel[1].kind = "complete"
          /\ Len(channel) \in Nat /\ Len(channel) >= 1
      <4>1. PICK n \in Nat : n = IF m < channel[1].at THEN channel[1].at ELSE m
        BY <2>1, <3>1, PrepareTypes DEF Event
      <4>2. /\ Received = Before(channel[1]) /\ channel[1] = Head(channel)
            /\ channel[1].kind = "complete" => channel[1].at = m
        BY <2>1, <3>1, <4>1, TakeStep
      <4> QED
        BY <2>1, <3>1, <4>2, PrepareTypes DEF Before
    <3>3. Closed(m)
      BY <3>2 DEF OInv, ClosedInv
    <3>4. mirror'.chats = Applied(mirror.chats, staging.chats)
      BY <2>1, <2>3 DEF ApplyCheckpoint
    <3>5. staging.chats[c] # 0 /\ Applied(mirror.chats, staging.chats)[c] = 0
      BY <3>4 DEF Applied
    <3>6. Settled("chats", c, m)
      BY <3>2 DEF Settled
    <3>7. /\ Touching("chats", c, m) # {}
          /\ Newest("chats", c, m) = 0
      BY <3>5, <3>6 DEF OInv, SureInv, Sure
    <3> QED
      BY <3>3, <3>7 DEF Closed
  <2>4. CASE Restart
    BY <2>1, <2>4 DEF Restart, TypeOK
  <2>5. mirror'.chats = mirror.chats \/ ApplyCheckpoint \/ Restart
    <3>1. CASE Backend
      BY <3>1 DEF Backend, NewChat, UserMessage, DeleteChat, MoveProject, MemberRow,
                  AgentLine, SessionWritten, Commit
    <3>2. CASE Connect \/ Disconnect \/ CheckpointDiff \/ DataFrame \/ SendRow \/ SendComplete
      BY <3>2 DEF Connect, Disconnect, CheckpointDiff, DataFrame, SendRow, SendComplete, SyncOnly
    <3>3. CASE StageRow \/ LoseMessage \/ SkipMessage \/ ServeMessage \/ Save
      BY <3>3 DEF StageRow, LoseMessage, SkipMessage, ServeMessage, NextMessage, Save
    <3>4. CASE FinishCheckpoint \/ \E c \in Chat : Harvest(c)
      BY <2>1, <3>4 DEF FinishCheckpoint, Harvest
    <3> QED
      BY <3>1, <3>2, <3>3, <3>4 DEF Next, MainLoop
  <2> QED
    BY <2>2, <2>3, <2>4, <2>5
<1> QED
  BY <1>1, OrderInvariant, PTL DEF Spec, NeverEvicted

\* A message that was acted on before a restart is acted on again only when it is
\* still the newest of its chat in the checkpoint that brings it
\* (AnsweredNotRepeated): a window holds the chat's row with every message, so
\* that the replay guard compares with the number the chat has by then.
THEOREM NotRepeated == Spec => AnsweredNotRepeated
<1> DEFINE Once == \A i \in answered : served' = Append(served, i) =>
                     log[i].seq = log[Newest("chats", log[i].chat, snapshot)].seq
<1>1. AInv /\ [Next]_vars => [Once]_vars
  <2> SUFFICES ASSUME NEW m \in Nat, IInv(m), OInv(m), Next, NEW i \in answered, served' = Append(served, i)
               PROVE  log[i].seq = log[Newest("chats", log[i].chat, snapshot)].seq
    BY DEF AInv, vars, server, stream, position, history
  <2>1. served \in Seq(Nat) /\ Len(served) \in Nat /\ i \in Nat
    BY LenProperties DEF IInv, TypeOK
  <2>2. /\ Len(served') = Len(served) + 1 /\ served'[Len(served) + 1] = i
        /\ served' # served /\ served' # <<>>
    BY <2>1, AppendProperties, EmptySeq
  <2>3. CASE ServeMessage
    <3> DEFINE h == Head(staging.messages)
    <3>1. /\ main = "messages" /\ staging.messages # <<>>
          /\ ~Orphaned(h) /\ ~Replayed(h) /\ served' = Append(served, h)
      BY <2>3 DEF ServeMessage, NextMessage
    <3>2. /\ h \in 1..Len(log) /\ h \in Messages(m)
          /\ mirror.chats[log[h].chat] = Newest("chats", log[h].chat, snapshot)
          /\ log[h].seq \in Nat /\ log[mirror.chats[log[h].chat]].seq \in Nat
          /\ log[h].seq <= log[mirror.chats[log[h].chat]].seq
      BY <3>1, MessageFinds
    <3> HIDE DEF h
    <3>3. h = i
      <4>1. h \in Nat
        BY <3>2
      <4> QED
        BY <2>1, <2>2, <3>1, <4>1, AppendProperties
    <3> QED
      BY <3>1, <3>2, <3>3 DEF Replayed
  <2>4. CASE UNCHANGED served
    BY <2>2, <2>4
  <2>5. CASE Restart
    BY <2>2, <2>5 DEF Restart
  <2>6. ServeMessage \/ UNCHANGED served \/ Restart
    <3>1. CASE Backend
      BY <3>1 DEF Backend, NewChat, UserMessage, DeleteChat, MoveProject, MemberRow,
                  AgentLine, SessionWritten, Commit, history
    <3>2. CASE Connect \/ Disconnect \/ CheckpointDiff \/ DataFrame \/ SendRow \/ SendComplete
      BY <3>2 DEF Connect, Disconnect, CheckpointDiff, DataFrame, SendRow, SendComplete,
                  SyncOnly, history
    <3>3. CASE StageRow \/ ApplyCheckpoint \/ LoseMessage \/ SkipMessage
      BY <3>3 DEF StageRow, ApplyCheckpoint, LoseMessage, SkipMessage, history
    <3>4. CASE FinishCheckpoint \/ Save \/ \E c \in Chat : Harvest(c)
      BY <3>4 DEF FinishCheckpoint, Save, Harvest, history
    <3> QED
      BY <3>1, <3>2, <3>3, <3>4 DEF Next, MainLoop
  <2> QED
    BY <2>3, <2>4, <2>5, <2>6
<1> QED
  BY <1>1, OrderInvariant, PTL DEF Spec, AnsweredNotRepeated

=============================================================================
