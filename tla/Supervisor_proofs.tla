------------------------- MODULE Supervisor_proofs -------------------------
(***************************************************************************)
(* Safety of Supervisor for every set of chats, processes and tasks and    *)
(* every capacity of the response channel.                                 *)
(*                                                                         *)
(* The inductive invariant adds to the properties what they rest on: the   *)
(* main loop aborts a process only after it took the chat's entry, a Done  *)
(* in the channel is of a process that is gone, a mailbox is registered    *)
(* under its owner's chat, and while the attachments of a message are      *)
(* fetched the chat has no one-shot agent that runs.                       *)
(***************************************************************************)
EXTENDS Supervisor, SequenceTheorems, TLAPS

OwnerInv == \A p \in Proc :
              IF IsFinished(p) THEN proc[p].out = <<>> ELSE proc[p].chat \in Chat

\* An entry that was taken for an abort stays away until the message's spawn.
AbortInv == main.at = "abort" \/ (main.at = "fetch" /\ main.then = "respawn")
              => agents[main.chat] = None

\* A one-shot agent found finished when the message came is still finished.
IdleInv ==
  /\ main.at = "fetch" /\ main.then = "start"
  /\ main.chat \notin resident /\ agents[main.chat] # None
  => IsFinished(agents[main.chat])

Gone == {p \in Proc : ~Alive(p)}

DoneInv == \A i \in 1..Len(responses) :
             responses[i].kind = "Done" => responses[i].from \in Gone

MailboxInv == \A c \in Chat : pending[c] # None =>
                ~IsFinished(pending[c]) /\ proc[pending[c]].chat = c

SessionInv == \A c \in Chat : live_sessions[c] # None =>
                c \in resident /\ agents[c] = live_sessions[c]

ColumnInv ==
  /\ OneShotColumn
  /\ main.at # "select" /\ main.chat \notin resident /\ main.then \in {"respawn", "prune"}
       => agent_running[main.chat] \/ spoiled[main.chat]

IInv == /\ TypeOK /\ OwnerInv /\ AbortInv /\ IdleInv /\ DoneInv /\ MailboxInv /\ SessionInv
        /\ ColumnInv

-----------------------------------------------------------------------------
(* The steps of a process, by what they do to it                           *)

\* p becomes r and stays with its chat, and is not raised from the dead.
Becomes(p, r) ==
  /\ r \in ProcRecord /\ r.chat = proc[p].chat /\ r.st # "finished"
  /\ r.st \in {"live", "killing", "ending"} => Alive(p)
  /\ proc' = [proc EXCEPT ![p] = r]
  /\ ~IsFinished(p)
  /\ ProcessOnly /\ UNCHANGED pending

\* A response of p is appended; a Done only once p is gone.
Reports(p, r) ==
  \E m \in Response :
    /\ responses' = Append(responses, m) /\ Len(responses) < Capacity
    /\ m.from = p /\ (m.kind = "Done" => r.st = "reaped")

\* The records of the model are of their types.
LEMMA RecordTypes ==
  /\ NoProcess \in ProcRecord
  /\ \A c \in Chat : Spawned(c) \in ProcRecord
  /\ \A k \in Kinds \ {"Done"}, f \in BOOLEAN :
       Reply(k, f) \in Replies /\ <<Reply(k, f)>> \in Seq(Replies)
<1>1. <<>> \in Seq(Replies)
  BY EmptySeq
<1> QED
  BY <1>1 DEF NoProcess, ProcRecord, Spawned, Reply, Replies, Kinds, Status

\* Reading a line changes the one process that read it.
LEMMA ResidentStep ==
  ASSUME TypeOK, NEW p \in Proc, NEW turn \in BOOLEAN, NEW tasks \in SUBSET Task,
         NEW working \in BOOLEAN, NEW is_result \in BOOLEAN, NEW reply \in Seq(Replies),
         ReadResident(p, turn, tasks, working, is_result, reply)
  PROVE  \E r \in ProcRecord : Becomes(p, r) /\ UNCHANGED responses
<1> DEFINE run  == turn \/ tasks # {}
           mark == IF run THEN "busy" ELSE "idle"
           edge == mark # proc[p].emitted /\ (run \/ is_result)
           out  == IF edge THEN Append(reply, Reply("RunState", run)) ELSE reply
           emitted == IF edge THEN mark ELSE proc[p].emitted
           r == [proc[p] EXCEPT !.turn = turn, !.tasks = tasks, !.working = working,
                                !.emitted = emitted, !.out = out]
<1>1. proc[p] \in ProcRecord
  BY DEF TypeOK
<1>2. Reply("RunState", run) \in Replies
  BY DEF Reply, Replies, Kinds
<1>3. out \in Seq(Replies)
  BY <1>2, AppendProperties
<1>4. emitted \in {"none", "busy", "idle"}
  BY <1>1 DEF ProcRecord
<1>5. proc' = [proc EXCEPT ![p] = r] /\ proc[p].st = "live"
  BY DEF ReadResident, TypeOK
<1> HIDE DEF out, emitted
<1>6. r \in ProcRecord /\ r.chat = proc[p].chat /\ r.st = proc[p].st
  BY <1>1, <1>3, <1>4 DEF ProcRecord
<1> QED
  BY <1>5, <1>6 DEF ReadResident, Becomes, Alive, IsFinished

\* So does each kind of line a resident can read.
LEMMA ReadStep ==
  ASSUME TypeOK, NEW p \in Proc,
         Frame(p) \/ Result(p) \/ TaskStarted(p) \/ TaskFinished(p)
  PROVE  \E r \in ProcRecord : Becomes(p, r) /\ UNCHANGED responses
<1>1. /\ proc[p].turn \in BOOLEAN /\ proc[p].tasks \in SUBSET Task
  BY DEF TypeOK, ProcRecord
<1>2. <<>> \in Seq(Replies)
  BY EmptySeq
<1>3. CASE Frame(p)
  <2>1. PICK k \in {"Line", "ToolResult"} :
          ReadResident(p, proc[p].turn, proc[p].tasks, TRUE, FALSE, <<Reply(k, FALSE)>>)
    BY <1>3 DEF Frame
  <2>2. <<Reply(k, FALSE)>> \in Seq(Replies)
    BY RecordTypes DEF Kinds
  <2> QED
    BY <1>1, <2>1, <2>2, ResidentStep
<1>4. CASE Result(p)
  <2>1. PICK origin \in BOOLEAN :
          LET turn == proc[p].turn /\ origin
          IN  ReadResident(p, turn, proc[p].tasks, turn, TRUE, <<>>)
    BY <1>4 DEF Result
  <2>2. (proc[p].turn /\ origin) \in BOOLEAN
    OBVIOUS
  <2> QED
    BY <1>1, <1>2, <2>1, <2>2, ResidentStep
<1>5. CASE TaskStarted(p)
  BY <1>1, <1>2, <1>5, ResidentStep DEF TaskStarted
<1>6. CASE TaskFinished(p)
  BY <1>1, <1>2, <1>6, ResidentStep DEF TaskFinished
<1> QED
  BY <1>3, <1>4, <1>5, <1>6

\* Every step of a task but its return: p becomes some r, and may report.
LEMMA TaskSteps ==
  ASSUME TypeOK, OwnerInv, NEW p \in Proc, TaskStep(p)
  PROVE  \/ \E r \in ProcRecord : Becomes(p, r) /\ (UNCHANGED responses \/ Reports(p, r))
         \/ Finish(p)
         \/ PruneContext(p)
<1> USE DEF Alive, IsFinished
<1>1. proc[p] \in ProcRecord /\ proc \in [Proc -> ProcRecord]
  BY DEF TypeOK
<1>2. \A k \in {"Line", "ToolResult"} : <<Reply(k, FALSE)>> \in Seq(Replies)
  BY RecordTypes DEF Kinds
<1>3. <<>> \in Seq(Replies)
  BY EmptySeq
<1>4. CASE ReadOneShot(p)
  <2>1. PICK k \in {"Line", "ToolResult"} :
          proc' = [proc EXCEPT ![p].out = <<Reply(k, FALSE)>>]
    BY <1>4 DEF ReadOneShot
  <2> DEFINE r == [proc[p] EXCEPT !.out = <<Reply(k, FALSE)>>]
  <2>2. r \in ProcRecord /\ r.chat = proc[p].chat /\ r.st = proc[p].st
    BY <1>1, <1>2 DEF ProcRecord
  <2>3. proc' = [proc EXCEPT ![p] = r]
    BY <1>1, <2>1
  <2> QED
    BY <1>4, <2>2, <2>3 DEF ReadOneShot, Becomes
<1>5. CASE Exit(p)
  <2>1. PICK error \in BOOLEAN :
          proc' = [proc EXCEPT ![p].st = "ending",
                     ![p].out = IF error THEN <<Reply("Line", FALSE)>> ELSE <<>>]
    BY <1>5 DEF Exit
  <2> DEFINE out == IF error THEN <<Reply("Line", FALSE)>> ELSE <<>>
             r == [proc[p] EXCEPT !.st = "ending", !.out = out]
  <2>2. out \in Seq(Replies)
    BY <1>2, <1>3
  <2>3. proc' = [proc EXCEPT ![p] = r]
    BY <1>1, <2>1
  <2> HIDE DEF out
  <2>4. r \in ProcRecord /\ r.chat = proc[p].chat /\ r.st = "ending"
    BY <1>1, <2>2 DEF ProcRecord, Status
  <2> QED
    BY <1>5, <2>3, <2>4 DEF Exit, Becomes
<1>6. CASE ObserveCancel(p)
  <2>1. PICK noise \in BOOLEAN :
          proc' = [proc EXCEPT ![p] =
                     Killed(p, IF noise THEN <<Reply("Line", FALSE)>> ELSE <<>>)]
    BY <1>6 DEF ObserveCancel
  <2> DEFINE out == IF noise THEN <<Reply("Line", FALSE)>> ELSE <<>>
  <2>2. out \in Seq(Replies)
    BY <1>2, <1>3
  <2> HIDE DEF out
  <2>3. Killed(p, out) \in ProcRecord
    BY <1>1, <2>2 DEF Killed, ProcRecord, Status
  <2>4. Killed(p, out).chat = proc[p].chat /\ Killed(p, out).st = "killing"
    BY DEF Killed
  <2> QED
    BY <1>6, <2>1, <2>3, <2>4 DEF ObserveCancel, Becomes, out
<1>7. CASE Send(p)
  <2> DEFINE m == [kind |-> Head(proc[p].out).kind, flag |-> Head(proc[p].out).flag,
                   topic |-> proc[p].chat, from |-> p]
             r == [proc[p] EXCEPT !.out = Tail(@)]
  <2>1. proc[p].out \in Seq(Replies) /\ proc[p].out # <<>>
    BY <1>1, <1>7 DEF ProcRecord, Send
  <2>2. Head(proc[p].out) \in Replies /\ Tail(proc[p].out) \in Seq(Replies)
    BY <2>1, HeadTailProperties
  <2>3. proc[p].st # "finished" /\ proc[p].chat \in Chat
    BY <2>1 DEF OwnerInv, NoProcess
  <2>4. m \in Response /\ m.from = p /\ m.kind # "Done"
    BY <2>2, <2>3 DEF Response, Replies, Kinds
  <2>5. proc' = [proc EXCEPT ![p] = r] /\ responses' = Append(responses, m)
        /\ Len(responses) < Capacity
    BY <1>1, <1>7 DEF Send
  <2>6. r \in ProcRecord /\ r.chat = proc[p].chat /\ r.st = proc[p].st
    BY <1>1, <2>2 DEF ProcRecord
  <2>7. Becomes(p, r)
    BY <1>7, <2>3, <2>5, <2>6 DEF Send, Becomes
  <2>8. Reports(p, r)
    BY <2>4, <2>5 DEF Reports
  <2> QED
    BY <2>6, <2>7, <2>8
<1>8. CASE SendDone(p)
  <2> DEFINE m == [kind |-> "Done", flag |-> FALSE, topic |-> proc[p].chat, from |-> p]
             r == [proc[p] EXCEPT !.st = "reaped"]
  <2>1. proc[p].st = "ending" /\ proc[p].chat \in Chat
    BY <1>8 DEF SendDone, OwnerInv
  <2>2. m \in Response /\ m.from = p
    BY <2>1 DEF Response, Kinds
  <2>3. proc' = [proc EXCEPT ![p] = r] /\ responses' = Append(responses, m)
        /\ Len(responses) < Capacity
    BY <1>1, <1>8 DEF SendDone
  <2>4. r \in ProcRecord /\ r.chat = proc[p].chat /\ r.st = "reaped"
    BY <1>1 DEF ProcRecord, Status
  <2>5. Becomes(p, r)
    BY <1>8, <2>1, <2>3, <2>4 DEF SendDone, Becomes
  <2>6. Reports(p, r)
    BY <2>2, <2>3, <2>4 DEF Reports
  <2> QED
    BY <2>4, <2>5, <2>6
<1> QED
  BY <1>4, <1>5, <1>6, <1>7, <1>8, ReadStep DEF TaskStep

-----------------------------------------------------------------------------
(* The states of the main loop                                             *)

Waits == {Aborting(c, p, t) : c \in Chat, p \in Proc, t \in Thens}
           \cup {Fetching(c, t) : c \in Chat, t \in Starts}

\* The fields of the states of the main loop.
LEMMA MainTypes ==
  /\ Selecting.at = "select" /\ Selecting.proc = None
  /\ \A c \in Chat, p \in Proc, t \in Thens :
       LET m == Aborting(c, p, t)
       IN  m.at = "abort" /\ m.chat = c /\ m.proc = p /\ m.then = t
  /\ \A c \in Chat, t \in Starts :
       LET m == Fetching(c, t)
       IN  m.at = "fetch" /\ m.chat = c /\ m.proc = None /\ m.then = t
BY DEF Selecting, Aborting, Fetching

\* The main loop selects, waits for the abort of some process, or for what a
\* message has attached.
LEMMA MainStates ==
  ASSUME TypeOK
  PROVE  /\ main.at \in {"select", "abort", "fetch"}
         /\ main.at = "select" => main = Selecting
         /\ main.at = "abort" => main.chat \in Chat /\ main.proc \in Proc /\ main.then \in Thens
         /\ main.at = "fetch" => main.chat \in Chat /\ main.proc = None /\ main.then \in Starts
BY MainTypes DEF TypeOK

-----------------------------------------------------------------------------
(* What each kind of step keeps                                            *)

\* A step of one task that leaves the maps alone keeps the invariant.
LEMMA BecomesKeeps ==
  ASSUME IInv, NEW p \in Proc, NEW r \in ProcRecord, Becomes(p, r),
         UNCHANGED responses \/ Reports(p, r)
  PROVE  IInv'
<1> USE DEF Becomes, ProcessOnly
<1>1. /\ proc \in [Proc -> ProcRecord] /\ proc' \in [Proc -> ProcRecord]
      /\ proc'[p] = r /\ \A q \in Proc \ {p} : proc'[q] = proc[q]
  BY DEF IInv, TypeOK
<1>2. \A q \in Proc : /\ IsFinished(q)' <=> IsFinished(q)
                      /\ Alive(q)' => Alive(q)
                      /\ proc'[q].chat = proc[q].chat
  BY <1>1 DEF IsFinished, Alive
<1>3. responses \in Seq(Response) /\ Len(responses) <= Capacity /\ Capacity \in Nat
  BY CapacityAssumption DEF IInv, TypeOK
<1>4. /\ responses' \in Seq(Response) /\ Len(responses') <= Capacity
      /\ DoneInv'
  <2>1. Gone \subseteq Gone'
    BY <1>2 DEF Gone
  <2>2. CASE UNCHANGED responses
    BY <1>3, <2>1, <2>2 DEF IInv, DoneInv
  <2>3. CASE Reports(p, r)
    <3>1. PICK m \in Response :
            /\ responses' = Append(responses, m) /\ Len(responses) < Capacity
            /\ m.from = p /\ (m.kind = "Done" => r.st = "reaped")
      BY <2>3 DEF Reports
    <3>2. /\ responses' \in Seq(Response) /\ Len(responses') = Len(responses) + 1
          /\ \A i \in 1..Len(responses) : responses'[i] = responses[i]
          /\ responses'[Len(responses) + 1] = m
      BY <1>3, <3>1, AppendProperties
    <3>3. m.kind = "Done" => p \in Gone'
      BY <1>1, <3>1 DEF Alive, Gone
    <3>4. Len(responses) \in Nat
      BY <1>3, LenProperties
    <3>5. DoneInv'
      <4> SUFFICES ASSUME NEW i \in 1..Len(responses'), responses'[i].kind = "Done"
                   PROVE  responses'[i].from \in Gone'
        BY DEF DoneInv
      <4>1. CASE i \in 1..Len(responses)
        BY <2>1, <3>2, <4>1 DEF IInv, DoneInv
      <4>2. CASE i = Len(responses) + 1
        BY <3>1, <3>2, <3>3, <4>2
      <4> QED
        BY <3>2, <3>4, <4>1, <4>2
    <3> QED
      BY <1>3, <3>1, <3>2, <3>4, <3>5
  <2> QED
    BY <2>2, <2>3
<1>5. TypeOK'
  BY <1>1, <1>4 DEF IInv, TypeOK
<1>6. OwnerInv'
  BY <1>1, <1>2 DEF IInv, OwnerInv, IsFinished
<1>7. AbortInv' /\ SessionInv'
  BY DEF IInv, AbortInv, SessionInv
<1>8. MailboxInv'
  BY <1>2 DEF IInv, MailboxInv, TypeOK
<1>9. ColumnInv'
  BY <1>2 DEF IInv, ColumnInv, OneShotColumn, TypeOK
<1>10. main.chat \in Chat \/ main.at = "select"
  BY MainStates DEF IInv
<1>11. IdleInv'
  BY <1>2, <1>10 DEF IInv, IdleInv, TypeOK
<1> QED
  BY <1>4, <1>5, <1>6, <1>7, <1>8, <1>9, <1>11 DEF IInv

\* A task that returns gives up its mailbox and session and nothing else.
LEMMA FinishKeeps ==
  ASSUME IInv, NEW p \in Proc, Finish(p)
  PROVE  IInv'
<1> USE DEF Finish, ProcessOnly
<1>1. /\ proc \in [Proc -> ProcRecord] /\ proc' \in [Proc -> ProcRecord]
      /\ proc'[p] = NoProcess /\ \A q \in Proc \ {p} : proc'[q] = proc[q]
  BY RecordTypes DEF IInv, TypeOK
<1>2. proc[p].chat \in Chat /\ IsFinished(p)' /\ ~Alive(p)'
  BY <1>1 DEF IInv, OwnerInv, IsFinished, Alive, NoProcess
<1>3. TypeOK'
  BY <1>1, <1>2 DEF IInv, TypeOK
<1>4. OwnerInv'
  BY <1>1 DEF IInv, OwnerInv, IsFinished, NoProcess
<1>5. AbortInv' /\ SessionInv'
  BY DEF IInv, AbortInv, SessionInv
<1>6. DoneInv'
  <2>1. Gone \subseteq Gone'
    BY <1>1, <1>2 DEF Gone, Alive
  <2> QED
    BY <2>1 DEF IInv, DoneInv
<1>7. MailboxInv'
  BY <1>1, <1>2 DEF IInv, MailboxInv, TypeOK, IsFinished
<1>8. ColumnInv'
  BY <1>1, <1>2 DEF IInv, ColumnInv, OneShotColumn, TypeOK, IsFinished
<1>9. main.chat \in Chat \/ main.at = "select"
  BY MainStates DEF IInv
<1>10. IdleInv'
  BY <1>1, <1>2, <1>9 DEF IInv, IdleInv, TypeOK, IsFinished
<1> QED
  BY <1>3, <1>4, <1>5, <1>6, <1>7, <1>8, <1>10 DEF IInv

\* Parking a prune keeps the invariant.
LEMMA PruneContextKeeps ==
  ASSUME IInv, NEW p \in Proc, PruneContext(p)
  PROVE  IInv'
<1>1. TypeOK'
  BY DEF IInv, TypeOK, OwnerInv, PruneContext
<1>2. Gone' = Gone
  BY DEF Gone, Alive, PruneContext
<1> QED
  BY <1>1, <1>2 DEF IInv, OwnerInv, AbortInv, IdleInv, DoneInv, MailboxInv, SessionInv,
     ColumnInv, OneShotColumn, IsFinished, PruneContext

-----------------------------------------------------------------------------
(* The main loop: what its helpers do to the processes and the maps        *)

CoreInv ==
  /\ proc \in [Proc -> ProcRecord]
  /\ agents \in [Chat -> Proc \cup {None}]
  /\ pending \in [Chat -> Proc \cup {None}]
  /\ live_sessions \in [Chat -> Proc \cup {None}]
  /\ OwnerInv /\ MailboxInv /\ SessionInv

\* The processes of the responses in the channel stay gone.
StayGone ==
  \A i \in 1..Len(responses) : responses[i].from \in Gone => responses[i].from \in Gone'

\* A handler that spawns nothing changes no process.
LEMMA NoSpawnKeeps ==
  ASSUME IInv, UNCHANGED resident, NoSpawn
  PROVE  CoreInv' /\ StayGone
BY DEF IInv, TypeOK, CoreInv, OwnerInv, MailboxInv, SessionInv, StayGone, NoSpawn,
   IsFinished, Gone, Alive

\* An entry that is removed leaves no session behind.
LEMMA RemoveKeeps ==
  ASSUME IInv, NEW c \in Chat, UNCHANGED <<resident, proc, pending>>, RemoveEntry(c)
  PROVE  CoreInv' /\ StayGone
BY DEF IInv, TypeOK, CoreInv, OwnerInv, MailboxInv, SessionInv, StayGone, RemoveEntry,
   IsFinished, Gone, Alive

\* A chat that is being aborted has no entry until the abort ends.
LEMMA AbortKeeps ==
  ASSUME IInv, NEW c \in Chat, NEW t \in Thens, UNCHANGED resident, BeginAbort(c, t)
  PROVE  /\ CoreInv' /\ StayGone
         /\ agents'[c] = None /\ \A d \in Chat \ {c} : agents'[d] = agents[d]
         /\ main' = Aborting(c, agents[c], t) /\ agents[c] \in Proc
         /\ \A q \in Proc : proc'[q].st = proc[q].st /\ proc'[q].chat = proc[q].chat
<1> USE DEF BeginAbort, RemoveEntry
<1> DEFINE p == agents[c]
           r == [proc[p] EXCEPT !.cancel = TRUE]
<1>1. p \in Proc /\ p # None
  BY DEF IInv, TypeOK
<1>2. proc \in [Proc -> ProcRecord]
  BY DEF IInv, TypeOK
<1>3. r \in ProcRecord /\ r.st = proc[p].st /\ r.chat = proc[p].chat
  BY <1>1, <1>2 DEF ProcRecord
<1>4. proc' = [proc EXCEPT ![p] = r]
  BY <1>1, <1>2
<1>5. /\ proc' \in [Proc -> ProcRecord] /\ proc'[p] = r
      /\ \A q \in Proc \ {p} : proc'[q] = proc[q]
  BY <1>1, <1>2, <1>3, <1>4
<1>6. \A q \in Proc : proc'[q].st = proc[q].st /\ proc'[q].chat = proc[q].chat
  BY <1>3, <1>5
<1>7. OwnerInv'
  <2>1. \A q \in Proc : proc'[q].out = proc[q].out
    BY <1>3, <1>5 DEF ProcRecord
  <2> QED
    BY <1>6, <2>1 DEF IInv, OwnerInv, IsFinished
<1>8. MailboxInv'
  BY <1>6 DEF IInv, TypeOK, MailboxInv, IsFinished
<1>9. SessionInv'
  BY DEF IInv, TypeOK, SessionInv
<1>10. StayGone
  BY <1>6 DEF StayGone, Gone, Alive
<1>11. agents' \in [Chat -> Proc \cup {None}] /\ live_sessions' \in [Chat -> Proc \cup {None}]
  BY DEF IInv, TypeOK
<1> QED
  BY <1>1, <1>5, <1>6, <1>7, <1>8, <1>9, <1>10, <1>11 DEF CoreInv, IInv, TypeOK

\* The process that is spawned is fresh and becomes the one of its chat.
LEMMA SpawnKeeps ==
  ASSUME IInv, NEW c \in Chat, NEW p \in Proc, UNCHANGED resident, Spawn(c, p)
  PROVE  /\ CoreInv' /\ StayGone
         /\ agents'[c] = p /\ \A d \in Chat \ {c} : agents'[d] = agents[d] /\ agents[d] # p
         /\ proc'[p].chat = c /\ \A q \in Proc \ {p} : proc'[q] = proc[q]
         /\ main.proc # p
<1> USE DEF Spawn, Unused
<1>1. proc \in [Proc -> ProcRecord] /\ Spawned(c) \in ProcRecord
  BY RecordTypes DEF IInv, TypeOK
<1>2. /\ proc' \in [Proc -> ProcRecord] /\ proc'[p] = Spawned(c)
      /\ \A q \in Proc \ {p} : proc'[q] = proc[q]
  BY <1>1
<1>3. Spawned(c).st = "live" /\ Spawned(c).chat = c
  BY DEF Spawned
<1>4. OwnerInv'
  BY <1>2, <1>3 DEF IInv, OwnerInv, IsFinished
<1>5. /\ agents' \in [Chat -> Proc \cup {None}] /\ pending' \in [Chat -> Proc \cup {None}]
      /\ live_sessions' \in [Chat -> Proc \cup {None}]
  BY DEF IInv, TypeOK
<1>6. MailboxInv'
  BY <1>2, <1>3 DEF IInv, TypeOK, MailboxInv, IsFinished
<1>7. SessionInv'
  BY DEF IInv, TypeOK, SessionInv
<1>8. StayGone
  BY <1>2 DEF StayGone, Gone, Alive
<1>9. agents'[c] = p /\ \A d \in Chat \ {c} : agents'[d] = agents[d] /\ agents[d] # p
  BY DEF IInv, TypeOK
<1> QED
  BY <1>2, <1>3, <1>4, <1>5, <1>6, <1>7, <1>8, <1>9 DEF CoreInv

\* Taking the oldest response leaves the others as they are.
LEMMA ChannelKeeps ==
  ASSUME IInv, StayGone,
         UNCHANGED responses \/ (responses # <<>> /\ responses' = Tail(responses))
  PROVE  responses' \in Seq(Response) /\ Len(responses') <= Capacity /\ DoneInv'
<1>1. responses \in Seq(Response) /\ Len(responses) \in Nat /\ Len(responses) <= Capacity
      /\ Capacity \in Nat
  BY LenProperties, CapacityAssumption DEF IInv, TypeOK
<1>2. CASE UNCHANGED responses
  BY <1>1, <1>2 DEF IInv, DoneInv, StayGone
<1>3. CASE responses # <<>> /\ responses' = Tail(responses)
  <2>1. /\ responses' \in Seq(Response) /\ Len(responses') = Len(responses) - 1
        /\ \A i \in 1..Len(responses') : responses'[i] = responses[i + 1]
    BY <1>1, <1>3, HeadTailProperties
  <2>2. DoneInv'
    <3> SUFFICES ASSUME NEW i \in 1..Len(responses'), responses'[i].kind = "Done"
                 PROVE  responses'[i].from \in Gone'
      BY DEF DoneInv
    <3>1. i + 1 \in 1..Len(responses) /\ responses'[i] = responses[i + 1]
      BY <1>1, <2>1
    <3> QED
      BY <3>1 DEF IInv, DoneInv, StayGone
  <2> QED
    BY <1>1, <2>1, <2>2
<1> QED
  BY <1>2, <1>3

\* The column changes for one chat only, and stays a boolean with its history.
Column(c) ==
  /\ agent_running' \in [Chat -> BOOLEAN] /\ spoiled' \in [Chat -> BOOLEAN]
  /\ \A d \in Chat \ {c} : agent_running'[d] = agent_running[d] /\ spoiled'[d] = spoiled[d]

\* Writing agent_running touches one chat.
LEMMA WriteColumn ==
  ASSUME IInv, NEW c \in Chat, NEW value \in BOOLEAN, NEW late \in BOOLEAN,
         Write(c, value, late)
  PROVE  Column(c) /\ agent_running'[c] = value /\ spoiled'[c] = late
BY DEF IInv, TypeOK, Write, Column

\* Leaving agent_running alone may still mark it as spoiled.
LEMMA KeepsColumn ==
  ASSUME IInv, NEW c \in Chat, NEW late \in BOOLEAN, KeepColumn(c, late)
  PROVE  /\ Column(c) /\ agent_running'[c] = agent_running[c]
         /\ spoiled'[c] = (spoiled[c] \/ late)
BY DEF IInv, TypeOK, KeepColumn, Column

\* A spawn whose column was, or is, true keeps OneShotColumn.
LEMMA SpawnColumn ==
  ASSUME IInv, NEW c \in Chat, NEW p \in Proc, UNCHANGED resident, Spawn(c, p), Column(c),
         c \notin resident => agent_running'[c] \/ spoiled'[c]
  PROVE  /\ CoreInv' /\ StayGone /\ OneShotColumn'
         /\ agents'[c] = p /\ \A d \in Chat \ {c} : agents'[d] = agents[d]
         /\ proc'[p].chat = c /\ \A q \in Proc \ {p} : proc'[q] = proc[q]
<1>1. /\ CoreInv' /\ StayGone
      /\ agents'[c] = p /\ \A d \in Chat \ {c} : agents'[d] = agents[d] /\ agents[d] # p
      /\ proc'[p].chat = c /\ \A q \in Proc \ {p} : proc'[q] = proc[q]
  BY SpawnKeeps
<1>2. OneShotColumn'
  <2> SUFFICES ASSUME NEW d \in Chat, d \notin resident, agents'[d] # None,
                      ~(proc'[agents'[d]].st = "finished"), d # c
               PROVE  agent_running'[d] \/ spoiled'[d]
    BY DEF OneShotColumn, IsFinished
  <2>1. agents'[d] = agents[d] /\ agents[d] \in Proc \ {p}
    BY <1>1 DEF IInv, TypeOK
  <2>2. agent_running[d] \/ spoiled[d]
    BY <1>1, <2>1 DEF IInv, ColumnInv, OneShotColumn, IsFinished
  <2> QED
    BY <2>2 DEF Column
<1> QED
  BY <1>1, <1>2

\* A handler that spawns nothing and does not clear a column of an agent that runs.
LEMMA NoSpawnColumn ==
  ASSUME IInv, NEW c \in Chat, UNCHANGED resident, NoSpawn, Column(c),
         c \in resident \/ agents[c] = None \/ IsFinished(agents[c])
           \/ agent_running'[c] \/ spoiled'[c]
  PROVE  CoreInv' /\ StayGone /\ OneShotColumn'
BY NoSpawnKeeps DEF IInv, ColumnInv, OneShotColumn, NoSpawn, Column, IsFinished

\* What follows the abort of a prune, or replaces it when there is no agent.
LEMMA RespawnPrunedKeeps ==
  ASSUME IInv, NEW c \in Chat, NEW late \in BOOLEAN, agents[c] = None,
         UNCHANGED resident, RespawnPruned(c, late),
         c \notin resident => agent_running[c] \/ spoiled[c] \/ late
  PROVE  /\ CoreInv' /\ StayGone /\ main' = Selecting /\ Column(c) /\ OneShotColumn'
         /\ \A d \in Chat : agents[d] # None => agents'[d] = agents[d]
         /\ \A q \in Proc : \/ proc'[q] = proc[q]
                            \/ agents'[c] = q /\ proc'[q].chat = c
<1>1. main' = Selecting
  BY DEF RespawnPruned
<1>2. CASE NoSpawn /\ KeepColumn(c, TRUE)
  <2>1. Column(c)
    BY <1>2, KeepsColumn
  <2> QED
    BY <1>1, <1>2, <2>1, NoSpawnColumn DEF NoSpawn
<1>3. CASE (\E p \in Proc : Spawn(c, p)) /\ KeepColumn(c, late)
  <2>1. PICK p \in Proc : Spawn(c, p)
    BY <1>3
  <2>2. /\ Column(c) /\ agent_running'[c] = agent_running[c]
        /\ spoiled'[c] = (spoiled[c] \/ late)
    BY <1>3, KeepsColumn
  <2>3. /\ CoreInv' /\ StayGone /\ OneShotColumn'
        /\ agents'[c] = p /\ \A d \in Chat \ {c} : agents'[d] = agents[d]
        /\ proc'[p].chat = c /\ \A q \in Proc \ {p} : proc'[q] = proc[q]
    BY <2>1, <2>2, SpawnColumn
  <2> QED
    BY <1>1, <2>2, <2>3
<1> QED
  BY <1>2, <1>3 DEF RespawnPruned

\* The part of a handler up to the abort it waits for.
LEMMA BeginKeeps ==
  ASSUME IInv, NEW c \in Chat, NEW t \in Thens, BeginAbort(c, t),
         UNCHANGED resident, Column(c),
         t \in {"respawn", "prune"} /\ c \notin resident => agent_running'[c] \/ spoiled'[c]
  PROVE  CoreInv' /\ StayGone /\ AbortInv' /\ IdleInv' /\ ColumnInv' /\ main' \in Waits
<1>1. /\ CoreInv' /\ StayGone
      /\ agents'[c] = None /\ \A d \in Chat \ {c} : agents'[d] = agents[d]
      /\ main' = Aborting(c, agents[c], t) /\ agents[c] \in Proc
      /\ \A q \in Proc : proc'[q].st = proc[q].st
  BY AbortKeeps
<1>2. main'.at = "abort" /\ main'.chat = c /\ main'.then = t
  BY <1>1, MainTypes
<1>3. OneShotColumn'
  <2> SUFFICES ASSUME NEW d \in Chat, d \notin resident, agents'[d] # None,
                      ~(proc'[agents'[d]].st = "finished")
               PROVE  agent_running'[d] \/ spoiled'[d]
    BY DEF OneShotColumn, IsFinished
  <2>1. d # c /\ agents'[d] = agents[d] /\ agents[d] \in Proc
    BY <1>1 DEF IInv, TypeOK
  <2>2. agent_running[d] \/ spoiled[d]
    BY <1>1, <2>1 DEF IInv, ColumnInv, OneShotColumn, IsFinished
  <2> QED
    BY <2>1, <2>2 DEF Column
<1> QED
  BY <1>1, <1>2, <1>3 DEF AbortInv, IdleInv, ColumnInv, IsFinished, Waits

-----------------------------------------------------------------------------
(* The steps of the main loop                                              *)

\* What is left of the invariant once the helpers' effects are known.
LEMMA Assemble ==
  ASSUME IInv, CoreInv', StayGone, UNCHANGED resident,
         UNCHANGED responses \/ (responses # <<>> /\ responses' = Tail(responses)),
         pending_prunes' \in SUBSET Chat,
         agent_running' \in [Chat -> BOOLEAN], spoiled' \in [Chat -> BOOLEAN],
         \/ main' = Selecting /\ OneShotColumn'
         \/ main' \in Waits /\ AbortInv' /\ IdleInv' /\ ColumnInv'
  PROVE  IInv'
<1>1. responses' \in Seq(Response) /\ Len(responses') <= Capacity /\ DoneInv'
  BY ChannelKeeps
<1>2. AbortInv' /\ IdleInv' /\ ColumnInv'
  <2>1. CASE main' = Selecting /\ OneShotColumn'
    <3>1. main'.at = "select"
      BY <2>1, MainTypes
    <3> QED
      BY <2>1, <3>1 DEF AbortInv, IdleInv, ColumnInv, IsFinished
  <2> QED
    BY <2>1
<1>3. main' \in {Selecting} \cup Waits
  OBVIOUS
<1>4. TypeOK'
  BY <1>1, <1>3 DEF CoreInv, IInv, TypeOK, Waits
<1> QED
  BY <1>1, <1>2, <1>4 DEF CoreInv, IInv

\* What the end of an abort does to the maps and the processes.
LEMMA EndAbortEffect ==
  ASSUME IInv, EndAbort
  PROVE  /\ CoreInv' /\ StayGone /\ Column(main.chat) /\ main.chat \in Chat
         /\ main'.at # "abort"
         /\ \/ main' = Selecting /\ OneShotColumn'
            \/ main' \in Waits /\ AbortInv' /\ IdleInv' /\ ColumnInv'
         /\ \A d \in Chat : agents[d] # None => agents'[d] = agents[d]
         /\ \A q \in Proc : \/ proc'[q] = proc[q]
                            \/ agents'[main.chat] = q /\ proc'[q].chat = main.chat
<1> DEFINE c == main.chat
<1>1. c \in Chat /\ main.then \in Thens /\ UNCHANGED resident
  BY MainStates DEF EndAbort, IInv
<1>2. agents[c] = None
  BY DEF IInv, AbortInv, EndAbort
<1>3. main.then \in {"respawn", "prune"} /\ c \notin resident
        => agent_running[c] \/ spoiled[c]
  BY DEF IInv, ColumnInv, EndAbort
<1>4. CASE main.then = "prune" /\ RespawnPruned(c, FALSE)
  BY <1>1, <1>2, <1>3, <1>4, RespawnPrunedKeeps, MainTypes
<1>5. CASE /\ main.then = "respawn" /\ NoSpawn /\ main' = Fetching(c, "respawn")
           /\ IF ClearsOnRespawn(c) THEN Write(c, FALSE, FALSE) ELSE KeepColumn(c, FALSE)
  <2>1. /\ Column(c)
        /\ c \notin resident => /\ agent_running'[c] = agent_running[c]
                                /\ spoiled'[c] = (spoiled[c] \/ FALSE)
    BY <1>1, <1>5, WriteColumn, KeepsColumn DEF ClearsOnRespawn
  <2>2. CoreInv' /\ StayGone /\ OneShotColumn'
    BY <1>1, <1>2, <1>5, <2>1, NoSpawnColumn
  <2>3. main'.at = "fetch" /\ main'.chat = c /\ main'.then = "respawn" /\ main' \in Waits
    BY <1>1, <1>5, MainTypes DEF Starts, Waits
  <2>4. AbortInv' /\ IdleInv' /\ ColumnInv'
    BY <1>1, <1>2, <1>3, <1>5, <2>1, <2>2, <2>3
    DEF AbortInv, IdleInv, ColumnInv, IsFinished, NoSpawn
  <2> QED
    BY <1>1, <1>5, <2>1, <2>2, <2>3, <2>4 DEF NoSpawn
<1>6. CASE NoSpawn /\ main' = Selecting /\ (Write(c, FALSE, FALSE) \/ KeepColumn(c, FALSE))
  <2>1. Column(c)
    BY <1>1, <1>6, WriteColumn, KeepsColumn
  <2> QED
    BY <1>1, <1>2, <1>6, <2>1, NoSpawnColumn, MainTypes DEF NoSpawn
<1> QED
  BY <1>4, <1>5, <1>6 DEF EndAbort, AfterAbort

\* The end of an abort keeps the invariant.
LEMMA EndAbortKeeps ==
  ASSUME IInv, EndAbort
  PROVE  IInv'
BY EndAbortEffect, Assemble DEF EndAbort, Column, IInv, TypeOK

\* What the end of a fetch does to the maps and the processes.
LEMMA EndFetchEffect ==
  ASSUME IInv, EndFetch
  PROVE  /\ CoreInv' /\ StayGone /\ main' = Selecting /\ Column(main.chat) /\ OneShotColumn'
         /\ main.chat \in Chat
         /\ \A d \in Chat \ {main.chat} : agents'[d] = agents[d]
         /\ \/ UNCHANGED <<proc, agents>>
            \/ \E p \in Proc : /\ agents'[main.chat] = p /\ proc'[p].chat = main.chat
                               /\ \A q \in Proc \ {p} : proc'[q] = proc[q]
<1> DEFINE c == main.chat
<1>1. c \in Chat /\ main.then \in Starts /\ UNCHANGED resident /\ main' = Selecting
  BY MainStates DEF EndFetch, IInv
<1>2. main.then = "respawn" => agents[c] = None
  BY DEF IInv, AbortInv, EndFetch
<1>3. main.then = "respawn" /\ c \notin resident => agent_running[c] \/ spoiled[c]
  BY DEF IInv, ColumnInv, EndFetch
<1>4. main.then = "start" /\ c \notin resident => agents[c] = None \/ IsFinished(agents[c])
  BY DEF IInv, IdleInv, EndFetch
<1>5. CASE NoSpawn /\ KeepColumn(c, c \notin resident /\ main.then = "respawn")
  <2>1. Column(c)
    BY <1>1, <1>5, KeepsColumn
  <2> QED
    BY <1>1, <1>2, <1>4, <1>5, <2>1, NoSpawnColumn DEF NoSpawn, Starts
<1>6. CASE /\ \E p \in Proc : Spawn(c, p)
           /\ IF c \in resident \/ main.then = "respawn" THEN KeepColumn(c, FALSE)
                                                         ELSE Write(c, TRUE, FALSE)
  <2>1. PICK p \in Proc : Spawn(c, p)
    BY <1>6
  <2>2. Column(c) /\ (c \notin resident => agent_running'[c] \/ spoiled'[c])
    <3>1. CASE c \in resident \/ main.then = "respawn"
      BY <1>1, <1>3, <1>6, <3>1, KeepsColumn
    <3>2. CASE ~(c \in resident \/ main.then = "respawn")
      BY <1>1, <1>6, <3>2, WriteColumn
    <3> QED
      BY <3>1, <3>2
  <2> QED
    BY <1>1, <2>1, <2>2, SpawnColumn
<1> QED
  BY <1>5, <1>6 DEF EndFetch

\* The end of a fetch keeps the invariant.
LEMMA EndFetchKeeps ==
  ASSUME IInv, EndFetch
  PROVE  IInv'
<1>1. UNCHANGED <<resident, responses>> /\ pending_prunes' \in SUBSET Chat
  BY DEF EndFetch, IInv, TypeOK
<1> QED
  BY <1>1, EndFetchEffect, Assemble DEF Column

\* A /stop keeps the invariant.
LEMMA HandleStopKeeps ==
  ASSUME IInv, NEW c \in Chat, HandleStop(c)
  PROVE  IInv'
<1>1. main = Selecting /\ pending_prunes' \in SUBSET Chat
  BY MainStates DEF HandleStop, IInv, TypeOK
<1>2. CASE BeginAbort(c, "stop") /\ KeepColumn(c, FALSE)
  <2>1. Column(c)
    BY <1>2, KeepsColumn
  <2> QED
    BY <1>1, <1>2, <2>1, BeginKeeps, Assemble DEF HandleStop, Thens, Column
<1>3. CASE ~IsRunning(c) /\ c \notin resident /\ Write(c, FALSE, FALSE) /\ NoSpawn
           /\ UNCHANGED main
  <2>1. Column(c)
    BY <1>3, WriteColumn
  <2>2. OneShotColumn'
    BY <1>3, <2>1 DEF IInv, ColumnInv, OneShotColumn, NoSpawn, IsRunning, IsFinished,
       Column, HandleStop
  <2> QED
    BY <1>1, <1>3, <2>1, <2>2, NoSpawnKeeps, Assemble DEF HandleStop, Column
<1> QED
  BY <1>2, <1>3 DEF HandleStop

\* A user message keeps the invariant.
LEMMA HandleMessageKeeps ==
  ASSUME IInv, NEW c \in Chat, HandleMessage(c)
  PROVE  IInv'
<1>1. main = Selecting /\ pending_prunes' \in SUBSET Chat /\ UNCHANGED resident
  BY MainStates DEF HandleMessage, IInv, TypeOK
<1>2. CASE IsRunning(c) /\ BeginAbort(c, "respawn") /\ KeepColumn(c, FALSE)
  <2>1. /\ Column(c) /\ agent_running'[c] = agent_running[c]
        /\ spoiled'[c] = (spoiled[c] \/ FALSE)
    BY <1>2, KeepsColumn
  <2>2. c \notin resident => agent_running[c] \/ spoiled[c]
    BY <1>2 DEF IInv, ColumnInv, OneShotColumn, IsRunning
  <2>3. c \notin resident => agent_running'[c] \/ spoiled'[c]
    BY <2>1, <2>2
  <2> QED
    BY <1>1, <1>2, <2>1, <2>3, BeginKeeps, Assemble DEF HandleMessage, Thens, Column
<1>3. CASE /\ ~IsRunning(c) /\ main' = Fetching(c, "start")
           /\ NoSpawn /\ UNCHANGED <<agent_running, spoiled>>
  <2>1. Column(c) /\ OneShotColumn'
    BY <1>1, <1>3 DEF IInv, TypeOK, ColumnInv, OneShotColumn, NoSpawn, Column, IsFinished
  <2>2. main'.at = "fetch" /\ main'.chat = c /\ main'.then = "start" /\ main' \in Waits
    BY <1>3, MainTypes DEF Starts, Waits
  <2>3. AbortInv' /\ IdleInv' /\ ColumnInv'
    BY <1>1, <1>3, <2>1, <2>2, NoneAssumption
    DEF AbortInv, IdleInv, ColumnInv, NoSpawn, IsRunning, IsFinished, HandleMessage
  <2> QED
    BY <1>1, <1>3, <2>1, <2>2, <2>3, NoSpawnKeeps, Assemble DEF HandleMessage, Column
<1> QED
  BY <1>2, <1>3 DEF HandleMessage

\* The oldest response names a chat and a process.
LEMMA Oldest ==
  ASSUME IInv, responses # <<>>
  PROVE  Head(responses).topic \in Chat /\ Head(responses).from \in Proc
<1>1. Head(responses) \in Response
  BY HeadTailProperties DEF IInv, TypeOK
<1> QED
  BY <1>1 DEF Response

\* Applying a parked prune keeps the invariant.
LEMMA ApplyPruneKeeps ==
  ASSUME IInv, NEW c \in Chat, NEW p \in Proc, ApplyPrune(c, p), main.at = "select",
         UNCHANGED resident, responses # <<>>, responses' = Tail(responses)
  PROVE  IInv'
<1> DEFINE late == agents[c] # p \/ IsFinished(p)
<1>1. pending_prunes' \in SUBSET Chat
  BY DEF ApplyPrune, IInv, TypeOK
<1>2. CASE agents[c] = None /\ RespawnPruned(c, late)
  <2>1. late
    BY <1>2, NoneAssumption
  <2>2. /\ CoreInv' /\ StayGone /\ main' = Selecting /\ Column(c) /\ OneShotColumn'
    BY <1>2, <2>1, RespawnPrunedKeeps
  <2> QED
    BY <1>1, <2>2, Assemble DEF Column
<1>3. CASE BeginAbort(c, "prune") /\ KeepColumn(c, late)
  <2>1. /\ Column(c) /\ agent_running'[c] = agent_running[c]
        /\ spoiled'[c] = (spoiled[c] \/ late)
    BY <1>3, KeepsColumn
  <2>2. c \notin resident => agent_running'[c] \/ spoiled'[c]
    BY <1>3, <2>1 DEF IInv, ColumnInv, OneShotColumn, BeginAbort
  <2> QED
    BY <1>1, <1>3, <2>1, <2>2, BeginKeeps, Assemble DEF Thens, Column
<1> QED
  BY <1>2, <1>3 DEF ApplyPrune

\* Handling any response keeps the invariant.
LEMMA RespondKeeps ==
  ASSUME IInv, Respond
  PROVE  IInv'
<1> DEFINE c == Head(responses).topic
<1> USE DEF Receive
<1>1. /\ main = Selecting /\ main.at = "select" /\ responses # <<>>
      /\ responses' = Tail(responses) /\ UNCHANGED resident
  BY MainStates DEF Respond, HandleLine, HandleToolResult, HandleBusy, HandleIdle, HandleDone,
     IInv
<1>2. c \in Chat /\ Head(responses).from \in Proc
  BY <1>1, Oldest
<1>3. CASE /\ NoSpawn /\ UNCHANGED <<pending_prunes, agent_running, main, spoiled>>
  <2>1. OneShotColumn'
    BY <1>1, <1>3 DEF IInv, ColumnInv, OneShotColumn, NoSpawn, IsFinished
  <2> QED
    BY <1>1, <1>3, <2>1, NoSpawnKeeps, Assemble DEF IInv, TypeOK
<1>4. CASE ApplyPrune(c, Head(responses).from)
  BY <1>1, <1>2, <1>4, ApplyPruneKeeps
<1>5. CASE HandleBusy
  <2> DEFINE late == Head(responses).from # agents[c]
  <2>1. Column(c) /\ agent_running'[c] = TRUE
    BY <1>2, <1>5, WriteColumn DEF HandleBusy
  <2>2. OneShotColumn'
    BY <1>1, <1>5, <2>1 DEF IInv, ColumnInv, OneShotColumn, NoSpawn, IsFinished, HandleBusy,
       Column
  <2> QED
    BY <1>1, <1>5, <2>1, <2>2, NoSpawnKeeps, Assemble DEF HandleBusy, Column, IInv, TypeOK
<1>6. CASE /\ UNCHANGED pending_prunes /\ Write(c, FALSE, FALSE)
           /\ IF agents[c] = None THEN NoSpawn /\ UNCHANGED main ELSE BeginAbort(c, "idle")
  <2>1. Column(c)
    BY <1>2, <1>6, WriteColumn
  <2>2. pending_prunes' \in SUBSET Chat
    BY <1>6 DEF IInv, TypeOK
  <2>3. CASE agents[c] = None
    <3>1. OneShotColumn'
      BY <1>1, <1>6, <2>1, <2>3 DEF IInv, ColumnInv, OneShotColumn, NoSpawn, IsFinished,
         Column
    <3> QED
      BY <1>1, <1>6, <2>1, <2>2, <2>3, <3>1, NoSpawnKeeps, Assemble DEF Column
  <2>4. CASE agents[c] # None
    BY <1>1, <1>2, <1>6, <2>1, <2>2, <2>4, BeginKeeps, Assemble DEF Thens, Column
  <2> QED
    BY <2>3, <2>4
<1>7. CASE HandleDone
  <2>1. Column(c)
    BY <1>2, <1>7, WriteColumn DEF HandleDone
  <2>2. pending_prunes' \in SUBSET Chat
    BY <1>7 DEF HandleDone, IInv, TypeOK
  <2>3. OneShotColumn'
    BY <1>1, <1>2, <1>7, <2>1 DEF HandleDone, RemoveEntry, IInv, TypeOK, ColumnInv,
       OneShotColumn, IsFinished, Column
  <2> QED
    BY <1>1, <1>2, <1>7, <2>1, <2>2, <2>3, RemoveKeeps, Assemble DEF HandleDone, Column
<1> QED
  BY <1>3, <1>4, <1>5, <1>6, <1>7
  DEF Respond, HandleLine, HandleToolResult, HandleIdle

\* Every step keeps the invariant.
LEMMA StepKeeps == IInv /\ [Next]_vars => IInv'
<1> SUFFICES ASSUME IInv, [Next]_vars PROVE IInv'
  OBVIOUS
<1>1. ASSUME NEW p \in Proc, TaskStep(p) PROVE IInv'
  BY <1>1, TaskSteps, BecomesKeeps, FinishKeeps, PruneContextKeeps DEF IInv
<1>2. ASSUME NEW c \in Chat, HandleStop(c) \/ HandleMessage(c) PROVE IInv'
  BY <1>2, HandleStopKeeps, HandleMessageKeeps
<1>3. CASE UNCHANGED vars
  BY <1>3 DEF vars, IInv, TypeOK, OwnerInv, AbortInv, DoneInv, Gone, MailboxInv, SessionInv,
     IdleInv, ColumnInv, OneShotColumn, IsFinished, Alive
<1> QED
  BY <1>1, <1>2, <1>3, RespondKeeps, EndAbortKeeps, EndFetchKeeps DEF Next

\* It holds when the spawner starts.
LEMMA InitHolds == Init => IInv
<1> SUFFICES ASSUME Init PROVE IInv
  OBVIOUS
<1>1. responses \in Seq(Response) /\ Len(responses) = 0
  BY EmptySeq DEF Init
<1>2. TypeOK
  BY <1>1, RecordTypes, CapacityAssumption DEF Init, TypeOK
<1>3. OwnerInv
  BY DEF Init, OwnerInv, IsFinished, NoProcess
<1> QED
  BY <1>1, <1>2, <1>3, MainTypes
  DEF Init, IInv, AbortInv, IdleInv, DoneInv, MailboxInv, SessionInv, ColumnInv,
      OneShotColumn

\* Only the steps named in ExclusiveSession orphan a process.
LEMMA OrphanStep ==
  ASSUME IInv, IInv', [Next]_vars, NEW p \in Proc, Orphan(p)', ~Orphan(p)
  PROVE  LosesTrack(p)
<1> USE DEF Orphan
<1>1. /\ proc \in [Proc -> ProcRecord] /\ agents \in [Chat -> Proc \cup {None}]
      /\ Alive(p)' /\ agents'[proc'[p].chat] # p /\ main'.proc # p
  BY DEF IInv, TypeOK
<1>2. p # None
  BY NoneAssumption
<1>3. Alive(p) => proc[p].chat \in Chat /\ ~IsFinished(p)
  BY DEF IInv, OwnerInv, IsFinished, Alive
<1>4. main.at = "select" => main.proc = None
  BY MainStates, MainTypes DEF IInv
\* Where nothing happened to p, its chat lost it.
<1>5. ASSUME UNCHANGED proc \/ proc'[p] = proc[p], main.proc # p
      PROVE  /\ proc[p].chat \in Chat /\ agents[proc[p].chat] = p
             /\ agents'[proc[p].chat] # p /\ Alive(p) /\ proc'[p].chat = proc[p].chat
  BY <1>1, <1>3, <1>5 DEF Alive
<1>6. ASSUME NEW c \in Chat, NEW t \in Thens, BeginAbort(c, t), main.at = "select",
             UNCHANGED resident
      PROVE  FALSE
  <2>1. /\ \A d \in Chat \ {c} : agents'[d] = agents[d]
        /\ main' = Aborting(c, agents[c], t) /\ agents[c] \in Proc
        /\ \A q \in Proc : proc'[q].st = proc[q].st /\ proc'[q].chat = proc[q].chat
    BY <1>6, AbortKeeps
  <2>2. Alive(p) /\ proc[p].chat \in Chat /\ agents[proc[p].chat] = p
        /\ agents'[proc[p].chat] # p
    BY <1>1, <1>2, <1>3, <1>4, <1>6, <2>1 DEF Alive
  <2>3. proc[p].chat = c
    BY <2>1, <2>2
  <2>4. main'.proc = p
    BY <2>1, <2>2, <2>3, MainTypes
  <2> QED
    BY <1>1, <2>4
<1>7. ASSUME NEW c \in Chat, RespawnPruned(c, TRUE), agents[c] = None,
             main.at = "select", UNCHANGED resident
      PROVE  FALSE
  <2>1. /\ \A d \in Chat : agents[d] # None => agents'[d] = agents[d]
        /\ \A q \in Proc : \/ proc'[q] = proc[q]
                           \/ agents'[c] = q /\ proc'[q].chat = c
    BY <1>7, RespawnPrunedKeeps
  <2>2. proc'[p] = proc[p]
    BY <1>1, <2>1
  <2> QED
    BY <1>2, <1>4, <1>5, <1>7, <2>1, <2>2
<1>8. ASSUME NEW q \in Proc, TaskStep(q) PROVE FALSE
  <2>1. CASE \E r \in ProcRecord : Becomes(q, r)
    BY <1>1, <1>3, <2>1 DEF Becomes, ProcessOnly, Alive
  <2>2. CASE Finish(q)
    BY <1>1, <1>3, <2>2 DEF Finish, ProcessOnly, Alive, NoProcess
  <2>3. CASE PruneContext(q)
    BY <1>1, <2>3 DEF PruneContext, Alive
  <2> QED
    BY <1>8, <2>1, <2>2, <2>3, TaskSteps DEF IInv
<1>9. ASSUME NEW c \in Chat, HandleStop(c) PROVE FALSE
  BY <1>1, <1>6, <1>9 DEF HandleStop, NoSpawn, Alive, Thens
<1>10. ASSUME NEW c \in Chat, HandleMessage(c) PROVE FALSE
  <2>1. CASE BeginAbort(c, "respawn")
    BY <1>6, <1>10, <2>1 DEF HandleMessage, Thens
  <2>2. CASE NoSpawn
    BY <1>1, <1>2, <1>4, <1>10, <2>2 DEF HandleMessage, NoSpawn, Alive
  <2> QED
    BY <1>10, <2>1, <2>2 DEF HandleMessage
<1>14. CASE EndFetch
  <2> DEFINE c == main.chat
  <2>1. /\ c \in Chat /\ \A d \in Chat \ {c} : agents'[d] = agents[d]
        /\ \/ UNCHANGED <<proc, agents>>
           \/ \E q \in Proc : /\ agents'[c] = q /\ proc'[q].chat = c
                              /\ \A s \in Proc \ {q} : proc'[s] = proc[s]
    BY <1>14, EndFetchEffect
  <2>2. main.at = "fetch" /\ main.proc = None /\ main.then \in Starts
    BY <1>14, MainStates DEF EndFetch, IInv
  <2>3. PICK q \in Proc : /\ agents'[c] = q /\ proc'[q].chat = c
                          /\ \A s \in Proc \ {q} : proc'[s] = proc[s]
    BY <1>1, <1>2, <1>3, <2>1, <2>2 DEF Alive
  <2>4. q # p /\ proc'[p] = proc[p]
    BY <1>1, <2>3
  <2>5. proc[p].chat = c /\ agents[c] = p /\ Alive(p)
    BY <1>2, <1>5, <2>1, <2>2, <2>4
  <2>6. main.then = "start"
    BY <1>2, <2>2, <2>5 DEF IInv, AbortInv, Starts
  <2>7. c \in resident
    BY <1>2, <1>3, <2>2, <2>5, <2>6 DEF IInv, IdleInv
  <2> QED
    BY <2>2, <2>3, <2>4, <2>5, <2>6, <2>7, NoneAssumption DEF LosesTrack
<1>11. CASE EndAbort
  <2>1. CASE main.proc = p
    BY <1>11, <2>1, EndAbortEffect DEF EndAbort, LosesTrack
  <2>2. CASE main.proc # p
    BY <1>1, <1>2, <1>5, <1>11, <2>2, EndAbortEffect
  <2> QED
    BY <2>1, <2>2
<1>12. CASE Respond
  <2> DEFINE c == Head(responses).topic
             from == Head(responses).from
  <2>1. /\ main.at = "select" /\ responses # <<>> /\ UNCHANGED resident
        /\ responses' = Tail(responses)
    BY <1>12 DEF Receive, Respond, HandleLine, HandleToolResult, HandleBusy, HandleIdle,
       HandleDone
  <2>2. c \in Chat /\ from \in Proc
    BY <2>1, Oldest
  <2>3. CASE NoSpawn /\ UNCHANGED main
    BY <1>1, <2>3 DEF NoSpawn, Alive
  <2>4. ASSUME ApplyPrune(c, from) PROVE FALSE
    BY <1>6, <1>7, <2>1, <2>2, <2>4, NoneAssumption DEF ApplyPrune, Thens
  <2>5. CASE BeginAbort(c, "idle")
    BY <1>6, <2>1, <2>2, <2>5 DEF Thens
  <2>6. CASE HandleDone
    <3>1. UNCHANGED <<proc, main>> /\ \A d \in Chat \ {c} : agents'[d] = agents[d]
      BY <2>2, <2>6 DEF HandleDone, RemoveEntry, IInv, TypeOK
    <3>2. proc[p].chat = c /\ Alive(p)
      BY <1>2, <1>4, <1>5, <2>1, <2>2, <3>1
    <3>3. Head(responses).kind = "Done"
      BY <2>6 DEF HandleDone, Receive
    <3>4. from # p
      <4>1. responses \in Seq(Response) /\ 1 \in 1..Len(responses)
            /\ Head(responses) = responses[1]
        BY <2>1, EmptySeq DEF IInv, TypeOK
      <4>2. from \in Gone
        BY <3>3, <4>1 DEF IInv, DoneInv
      <4> QED
        BY <3>2, <4>2 DEF Gone
    <3> QED
      BY <2>1, <3>2, <3>3, <3>4 DEF LosesTrack
  <2> QED
    BY <1>12, <2>3, <2>4, <2>5, <2>6
    DEF Respond, HandleLine, HandleToolResult, HandleBusy, HandleIdle
<1>13. CASE UNCHANGED vars
  BY <1>1, <1>13 DEF vars, Alive
<1> QED
  BY <1>8, <1>9, <1>10, <1>11, <1>12, <1>13, <1>14 DEF Next

-----------------------------------------------------------------------------
(* The idle edge                                                           *)

\* The process is not working and nothing of it is armed.
Still(p) == ~proc[p].working /\ ~proc[p].turn /\ proc[p].tasks = {}

IsIdleEdge(r) == r.kind = "RunState" /\ ~r.flag

\* An idle edge, queued or still to be sent, is of a process that is still.
EdgeInv ==
  /\ \A i \in 1..Len(responses), p \in Proc :
       IsIdleEdge(responses[i]) /\ responses[i].from = p => Still(p)
  /\ \A p \in Proc : \A j \in 1..Len(proc[p].out) : IsIdleEdge(proc[p].out[j]) => Still(p)

\* A process whose own edges are as EdgeInv wants them.
Truthful(p) == \A j \in 1..Len(proc[p].out) : IsIdleEdge(proc[p].out[j]) => Still(p)

\* A line of a resident: only a process that is not still reads one, and the
\* edge it may add is idle only when nothing is left.
LEMMA ReadEdge ==
  ASSUME TypeOK, NEW p \in Proc,
         Frame(p) \/ Result(p) \/ TaskStarted(p) \/ TaskFinished(p)
  PROVE  ~Still(p) /\ Truthful(p)' /\ UNCHANGED responses
<1>1. proc \in [Proc -> ProcRecord] /\ proc[p] \in ProcRecord
  BY DEF TypeOK
<1>2. ~Still(p)
  BY DEF Still, Frame, Result, TaskStarted, TaskFinished
\* What one line makes of the replies and of the session.
<1>3. ASSUME NEW turn \in BOOLEAN, NEW tasks, NEW working \in BOOLEAN,
             NEW is_result \in BOOLEAN, NEW reply \in Seq(Replies),
             ReadResident(p, turn, tasks, working, is_result, reply),
             \A j \in 1..Len(reply) : ~IsIdleEdge(reply[j]),
             is_result => working = turn
      PROVE  Truthful(p)' /\ UNCHANGED responses
  <2> DEFINE run  == turn \/ tasks # {}
             mark == IF run THEN "busy" ELSE "idle"
             edge == mark # proc[p].emitted /\ (run \/ is_result)
  <2>1. /\ proc'[p].turn = turn /\ proc'[p].tasks = tasks /\ proc'[p].working = working
        /\ proc'[p].out = IF edge THEN Append(reply, Reply("RunState", run)) ELSE reply
    BY <1>1, <1>3 DEF ReadResident, ProcRecord
  <2>2. UNCHANGED responses
    BY <1>3 DEF ReadResident
  <2>3. CASE ~edge
    BY <1>3, <2>1, <2>2, <2>3 DEF Truthful
  <2>4. CASE edge
    <3>1. proc'[p].out = Append(reply, Reply("RunState", run)) /\ Len(reply) \in Nat
      BY <1>3, <2>1, <2>4, LenProperties
    <3>2. Reply("RunState", run) \in Replies
      BY DEF Reply, Replies, Kinds
    <3>3. /\ Len(proc'[p].out) = Len(reply) + 1
          /\ \A j \in 1..Len(reply) : proc'[p].out[j] = reply[j]
          /\ proc'[p].out[Len(reply) + 1] = Reply("RunState", run)
      BY <1>3, <3>1, <3>2, AppendProperties
    <3>4. IsIdleEdge(Reply("RunState", run)) => Still(p)'
      BY <1>3, <2>1, <2>4 DEF IsIdleEdge, Reply, Still
    <3> QED
      BY <1>3, <2>2, <3>1, <3>3, <3>4 DEF Truthful
  <2> QED
    BY <2>3, <2>4
<1>4. <<>> \in Seq(Replies) /\ \A j \in 1..Len(<<>>) : ~IsIdleEdge(<<>>[j])
  <2>1. <<>> \in Seq(Replies) /\ Len(<<>>) = 0
    BY EmptySeq
  <2> QED
    BY <2>1
<1>5. proc[p].turn \in BOOLEAN
  BY <1>1 DEF ProcRecord
<1>6. CASE Frame(p)
  <2>1. PICK k \in {"Line", "ToolResult"} :
          ReadResident(p, proc[p].turn, proc[p].tasks, TRUE, FALSE, <<Reply(k, FALSE)>>)
    BY <1>6 DEF Frame
  <2>2. <<Reply(k, FALSE)>> \in Seq(Replies)
    BY RecordTypes DEF Kinds
  <2>3. \A j \in 1..Len(<<Reply(k, FALSE)>>) : ~IsIdleEdge(<<Reply(k, FALSE)>>[j])
    BY DEF IsIdleEdge, Reply
  <2> QED
    BY <1>2, <1>3, <1>5, <2>1, <2>2, <2>3
<1>7. CASE Result(p)
  <2>1. PICK origin \in BOOLEAN :
          LET turn == proc[p].turn /\ origin
          IN  ReadResident(p, turn, proc[p].tasks, turn, TRUE, <<>>)
    BY <1>7 DEF Result
  <2>2. (proc[p].turn /\ origin) \in BOOLEAN
    OBVIOUS
  <2> QED
    BY <1>2, <1>3, <1>4, <2>1, <2>2
<1>8. CASE TaskStarted(p)
  BY <1>2, <1>3, <1>4, <1>5, <1>8 DEF TaskStarted
<1>9. CASE TaskFinished(p)
  BY <1>2, <1>3, <1>4, <1>5, <1>9 DEF TaskFinished
<1> QED
  BY <1>6, <1>7, <1>8, <1>9

\* Every step of a task: a process that is still stays so, and its edges, with
\* the one it may send, are true.
LEMMA TaskEdge ==
  ASSUME IInv, EdgeInv, NEW p \in Proc, TaskStep(p)
  PROVE  /\ \A q \in Proc \ {p} : proc'[q] = proc[q]
         /\ (Still(p) => Still(p)') /\ Truthful(p)'
         /\ \/ UNCHANGED responses
            \/ \E m \in Response : /\ responses' = Append(responses, m) /\ m.from = p
                                   /\ IsIdleEdge(m) => Still(p)'
<1>1. /\ proc \in [Proc -> ProcRecord] /\ proc[p] \in ProcRecord
      /\ proc[p].out \in Seq(Replies) /\ Len(proc[p].out) \in Nat /\ Truthful(p)
  BY LenProperties DEF IInv, TypeOK, ProcRecord, EdgeInv, Truthful
<1>2. \A k \in {"Line", "ToolResult"} :
        \A j \in 1..Len(<<Reply(k, FALSE)>>) : ~IsIdleEdge(<<Reply(k, FALSE)>>[j])
  BY DEF IsIdleEdge, Reply
<1>3. Len(<<>>) = 0
  BY EmptySeq
<1>4. CASE Frame(p) \/ Result(p) \/ TaskStarted(p) \/ TaskFinished(p)
  <2>1. \A q \in Proc \ {p} : proc'[q] = proc[q]
    BY <1>1, <1>4 DEF Frame, Result, TaskStarted, TaskFinished, ReadResident
  <2> QED
    BY <1>4, <2>1, ReadEdge DEF IInv
<1>5. CASE ReadOneShot(p)
  <2>1. PICK k \in {"Line", "ToolResult"} :
          proc' = [proc EXCEPT ![p].out = <<Reply(k, FALSE)>>]
    BY <1>5 DEF ReadOneShot
  <2>2. /\ proc'[p].out = <<Reply(k, FALSE)>> /\ proc'[p].working = proc[p].working
        /\ proc'[p].turn = proc[p].turn /\ proc'[p].tasks = proc[p].tasks
        /\ \A q \in Proc \ {p} : proc'[q] = proc[q]
    BY <1>1, <2>1 DEF ProcRecord
  <2> QED
    BY <1>2, <1>5, <2>2 DEF ReadOneShot, Still, Truthful
<1>6. CASE Exit(p)
  <2>1. PICK error \in BOOLEAN :
          proc' = [proc EXCEPT ![p].st = "ending",
                     ![p].out = IF error THEN <<Reply("Line", FALSE)>> ELSE <<>>]
    BY <1>6 DEF Exit
  <2>2. /\ proc'[p].out = (IF error THEN <<Reply("Line", FALSE)>> ELSE <<>>)
        /\ proc'[p].working = proc[p].working
        /\ proc'[p].turn = proc[p].turn /\ proc'[p].tasks = proc[p].tasks
        /\ \A q \in Proc \ {p} : proc'[q] = proc[q]
    BY <1>1, <2>1 DEF ProcRecord
  <2>3. \A j \in 1..Len(proc'[p].out) : ~IsIdleEdge(proc'[p].out[j])
    <3>1. CASE error
      BY <1>2, <2>2, <3>1
    <3>2. CASE ~error
      BY <1>3, <2>2, <3>2
    <3> QED
      BY <3>1, <3>2
  <2> QED
    BY <1>6, <2>2, <2>3 DEF Exit, Still, Truthful
<1>7. CASE ObserveCancel(p)
  <2>1. PICK noise \in BOOLEAN :
          proc' = [proc EXCEPT ![p] =
                     Killed(p, IF noise THEN <<Reply("Line", FALSE)>> ELSE <<>>)]
    BY <1>7 DEF ObserveCancel
  <2>2. /\ Still(p)' /\ \A q \in Proc \ {p} : proc'[q] = proc[q]
    BY <1>1, <2>1 DEF Killed, Still
  <2> QED
    BY <1>7, <2>2 DEF ObserveCancel, Truthful
<1>8. CASE Send(p)
  <2> DEFINE out == proc[p].out
             m == [kind |-> Head(out).kind, flag |-> Head(out).flag,
                   topic |-> proc[p].chat, from |-> p]
  <2>1. out # <<>> /\ proc[p].chat \in Chat
    BY <1>8 DEF Send, IInv, OwnerInv
  <2>2. /\ Head(out) \in Replies /\ Head(out) = out[1] /\ 1 \in 1..Len(out)
        /\ Len(Tail(out)) = Len(out) - 1
        /\ \A j \in 1..Len(Tail(out)) : Tail(out)[j] = out[j + 1]
    BY <1>1, <2>1, HeadTailProperties, EmptySeq
  <2>3. /\ proc'[p].out = Tail(out) /\ proc'[p].working = proc[p].working
        /\ proc'[p].turn = proc[p].turn /\ proc'[p].tasks = proc[p].tasks
        /\ \A q \in Proc \ {p} : proc'[q] = proc[q]
        /\ responses' = Append(responses, m)
    BY <1>1, <1>8 DEF Send, ProcRecord
  <2>4. Still(p)' <=> Still(p)
    BY <2>3 DEF Still
  <2>5. Truthful(p)'
    BY <1>1, <2>2, <2>3, <2>4 DEF Truthful
  <2>6. m \in Response /\ m.from = p
    BY <2>1, <2>2 DEF Response, Replies, Kinds
  <2>7. IsIdleEdge(m) => Still(p)'
    BY <1>1, <2>2, <2>4 DEF Truthful, IsIdleEdge
  <2> QED
    BY <2>3, <2>4, <2>5, <2>6, <2>7
<1>9. CASE SendDone(p)
  <2> DEFINE m == [kind |-> "Done", flag |-> FALSE, topic |-> proc[p].chat, from |-> p]
  <2>1. /\ proc'[p].out = proc[p].out /\ proc'[p].working = proc[p].working
        /\ proc'[p].turn = proc[p].turn /\ proc'[p].tasks = proc[p].tasks
        /\ \A q \in Proc \ {p} : proc'[q] = proc[q]
        /\ responses' = Append(responses, m)
    BY <1>1, <1>9 DEF SendDone, ProcRecord
  <2>2. m \in Response /\ m.from = p /\ ~IsIdleEdge(m)
    BY <1>9 DEF SendDone, IInv, OwnerInv, IsFinished, Response, Kinds, IsIdleEdge
  <2> QED
    BY <1>1, <2>1, <2>2 DEF Still, Truthful
<1>10. CASE Finish(p)
  <2>1. /\ proc'[p] = NoProcess /\ \A q \in Proc \ {p} : proc'[q] = proc[q]
    BY <1>1, <1>10 DEF Finish
  <2> QED
    BY <1>3, <1>10, <2>1 DEF Finish, NoProcess, Still, Truthful
<1>11. CASE PruneContext(p)
  BY <1>1, <1>11 DEF PruneContext, Still, Truthful
<1> QED
  BY <1>4, <1>5, <1>6, <1>7, <1>8, <1>9, <1>10, <1>11 DEF TaskStep

\* A step of the main loop.
MainStep ==
  \/ \E c \in Chat : HandleStop(c) \/ HandleMessage(c)
  \/ Respond
  \/ EndAbort \/ EndFetch

\* Who is touched by a step of the main loop: nobody, or the process of an abort
\* that begins, or a process that is spawned.  A Done that is handled leaves its
\* chat without an entry.
LEMMA MainEffect ==
  ASSUME IInv, MainStep
  PROVE  /\ UNCHANGED resident
         /\ \/ UNCHANGED responses
            \/ /\ responses # <<>> /\ responses' = Tail(responses)
               /\ Head(responses).kind = "Done" => agents'[Head(responses).topic] = None
         /\ \/ UNCHANGED proc /\ \A d \in Chat : agents'[d] \in {agents[d], None}
            \/ \E c \in Chat, t \in Thens : BeginAbort(c, t)
            \/ \E c \in Chat, p \in Proc : Spawn(c, p)
<1>1. ASSUME NEW c \in Chat, HandleStop(c) \/ HandleMessage(c)
      PROVE  /\ UNCHANGED <<resident, responses>>
             /\ \/ UNCHANGED <<proc, agents>>
                \/ \E t \in Thens : BeginAbort(c, t)
                \/ \E p \in Proc : Spawn(c, p)
  BY <1>1 DEF HandleStop, HandleMessage, NoSpawn, Thens
<1>2. ASSUME NEW c, NEW late, RespawnPruned(c, late)
      PROVE  UNCHANGED <<proc, agents>> \/ \E p \in Proc : Spawn(c, p)
  BY <1>2 DEF RespawnPruned, NoSpawn
<1>3. CASE EndAbort \/ EndFetch
  <2>1. main.chat \in Chat /\ UNCHANGED <<resident, responses>>
    BY <1>3, MainStates DEF EndAbort, EndFetch, IInv
  <2>2. UNCHANGED <<proc, agents>> \/ \E p \in Proc : Spawn(main.chat, p)
    BY <1>2, <1>3 DEF EndAbort, AfterAbort, EndFetch, NoSpawn
  <2> QED
    BY <2>1, <2>2
<1>4. CASE Respond
  <2> DEFINE c == Head(responses).topic
             from == Head(responses).from
  <2>1. responses # <<>> /\ responses' = Tail(responses) /\ UNCHANGED resident
    BY <1>4 DEF Receive, Respond, HandleLine, HandleToolResult, HandleBusy, HandleIdle,
       HandleDone
  <2>2. c \in Chat /\ from \in Proc
    BY <2>1, Oldest
  <2>3. CASE HandleDone
    BY <2>1, <2>2, <2>3 DEF HandleDone, RemoveEntry, IInv, TypeOK
  <2>4. CASE Head(responses).kind # "Done" /\ NoSpawn
    BY <2>1, <2>4 DEF NoSpawn
  <2>5. CASE Head(responses).kind # "Done" /\ ApplyPrune(c, from)
    BY <1>2, <2>1, <2>2, <2>5 DEF ApplyPrune, Thens
  <2>6. CASE Head(responses).kind # "Done" /\ BeginAbort(c, "idle")
    BY <2>1, <2>2, <2>6 DEF Thens
  <2> QED
    BY <1>4, <2>3, <2>4, <2>5, <2>6
    DEF Respond, Receive, HandleLine, HandleToolResult, HandleBusy, HandleIdle
<1> QED
  BY <1>1, <1>3, <1>4 DEF MainStep

\* Every step keeps the idle edges true.
LEMMA EdgeKeeps ==
  ASSUME IInv, EdgeInv, [Next]_vars
  PROVE  EdgeInv'
<1>1. proc \in [Proc -> ProcRecord] /\ responses \in Seq(Response)
      /\ Len(responses) \in Nat
  BY LenProperties DEF IInv, TypeOK
<1>2. \A p \in Proc : Truthful(p)
  BY DEF EdgeInv, Truthful
<1>4. ASSUME NEW p \in Proc, TaskStep(p) PROVE EdgeInv'
  <2>1. /\ \A q \in Proc \ {p} : proc'[q] = proc[q]
        /\ (Still(p) => Still(p)') /\ Truthful(p)'
    BY <1>4, TaskEdge
  <2>2. \A q \in Proc : (Still(q) => Still(q)') /\ Truthful(q)'
    <3> SUFFICES ASSUME NEW q \in Proc, q # p PROVE (Still(q) => Still(q)') /\ Truthful(q)'
      BY <2>1
    <3> QED
      BY <1>2, <2>1 DEF Still, Truthful
  <2>3. \A i \in 1..Len(responses), q \in Proc :
          IsIdleEdge(responses[i]) /\ responses[i].from = q => Still(q)'
    BY <2>2 DEF EdgeInv
  <2>4. CASE UNCHANGED responses
    BY <2>2, <2>3, <2>4 DEF EdgeInv, Truthful
  <2>5. CASE ~UNCHANGED responses
    <3>1. PICK m \in Response : /\ responses' = Append(responses, m) /\ m.from = p
                                /\ IsIdleEdge(m) => Still(p)'
      BY <1>4, <2>5, TaskEdge
    <3>2. /\ Len(responses') = Len(responses) + 1
          /\ \A i \in 1..Len(responses) : responses'[i] = responses[i]
          /\ responses'[Len(responses) + 1] = m
      BY <1>1, <3>1, AppendProperties
    <3>3. ASSUME NEW i \in 1..Len(responses'), NEW q \in Proc,
                 IsIdleEdge(responses'[i]), responses'[i].from = q
          PROVE  Still(q)'
      <4>1. CASE i \in 1..Len(responses)
        BY <2>3, <3>2, <3>3, <4>1
      <4>2. CASE i = Len(responses) + 1
        BY <3>1, <3>2, <3>3, <4>2
      <4> QED
        BY <1>1, <3>2, <4>1, <4>2
    <3> QED
      BY <2>2, <3>3 DEF EdgeInv, Truthful
  <2> QED
    BY <2>4, <2>5
<1>5. ASSUME MainStep PROVE EdgeInv'
  <2>1. \/ UNCHANGED responses
        \/ responses # <<>> /\ responses' = Tail(responses)
    BY <1>5, MainEffect
  <2>2. ASSUME NEW q \in Proc
        PROVE  /\ Truthful(q)'
               /\ \/ Still(q) => Still(q)'
                  \/ \A i \in 1..Len(responses) : responses[i].from # q
    <3>1. CASE UNCHANGED proc
      BY <1>2, <3>1 DEF Truthful, Still
    <3>2. CASE \E c \in Chat, t \in Thens : BeginAbort(c, t)
      <4>1. PICK c \in Chat, t \in Thens : BeginAbort(c, t)
        BY <3>2
      <4>2. /\ proc'[q].out = proc[q].out /\ proc'[q].working = proc[q].working
            /\ proc'[q].turn = proc[q].turn /\ proc'[q].tasks = proc[q].tasks
        BY <1>1, <4>1 DEF BeginAbort, ProcRecord
      <4> QED
        BY <1>2, <4>2 DEF Truthful, Still
    <3>3. CASE \E c \in Chat, p \in Proc : Spawn(c, p)
      <4>1. PICK c \in Chat, p \in Proc : Spawn(c, p)
        BY <3>3
      <4>2. CASE q = p
        <5>1. proc'[q].out = <<>> /\ Len(<<>>) = 0
          BY <1>1, <4>1, <4>2, EmptySeq DEF Spawn, Spawned
        <5> QED
          BY <4>1, <4>2, <5>1 DEF Spawn, Unused, Truthful
      <4>3. CASE q # p
        <5>1. proc'[q] = proc[q]
          BY <1>1, <4>1, <4>3 DEF Spawn
        <5> QED
          BY <1>2, <5>1 DEF Truthful, Still
      <4> QED
        BY <4>2, <4>3
    <3> QED
      BY <1>5, <3>1, <3>2, <3>3, MainEffect
  <2>3. \A i \in 1..Len(responses), q \in Proc :
          IsIdleEdge(responses[i]) /\ responses[i].from = q => Still(q)'
    BY <2>2 DEF EdgeInv
  <2>4. CASE UNCHANGED responses
    BY <2>2, <2>3, <2>4 DEF EdgeInv, Truthful
  <2>5. CASE responses # <<>> /\ responses' = Tail(responses)
    <3>1. /\ Len(responses') = Len(responses) - 1
          /\ \A i \in 1..Len(responses') : responses'[i] = responses[i + 1]
      BY <1>1, <2>5, HeadTailProperties
    <3>2. ASSUME NEW i \in 1..Len(responses'), NEW q \in Proc,
                 IsIdleEdge(responses'[i]), responses'[i].from = q
          PROVE  Still(q)'
      <4>1. i + 1 \in 1..Len(responses) /\ responses'[i] = responses[i + 1]
        BY <1>1, <3>1
      <4> QED
        BY <2>3, <3>2, <4>1
    <3> QED
      BY <2>2, <3>2 DEF EdgeInv, Truthful
  <2> QED
    BY <2>1, <2>4, <2>5
<1>6. CASE UNCHANGED vars
  BY <1>6 DEF vars, EdgeInv, Still
<1> QED
  BY <1>4, <1>5, <1>6 DEF Next, MainStep

-----------------------------------------------------------------------------
(* The column of a chat that has gone quiet                                *)

\* A Done of the chat is still to be handled.
DoneQueued(c) ==
  \E i \in 1..Len(responses) : responses[i].kind = "Done" /\ responses[i].topic = c

\* A process nobody has aborted, which is yet to report Done.
Healthy(p) == proc[p].st \in {"live", "ending"} /\ ~proc[p].cancel

\* The tracked process of a chat is the chat's own, unless its identity is no
\* longer in use, and it reports Done or has reported it.
TrackInv ==
  \A c \in Chat : agents[c] # None =>
    /\ IsFinished(agents[c]) \/ proc[agents[c]].chat = c
    /\ Healthy(agents[c]) \/ DoneQueued(c)

\* A chat that is shown as running has a process, or an abort in progress that
\* goes on to clear the column, to spawn, or to be noted as one that did not.
ShownInv ==
  \A c \in Chat : agent_running[c] /\ ~spoiled[c] =>
    \/ agents[c] # None
    \/ main.at = "abort" /\ main.chat = c /\ main.then # "idle"
    \/ main.at = "fetch" /\ main.chat = c /\ main.then = "respawn" /\ c \notin resident

\* No step of its task makes a healthy process otherwise but its Done.
LEMMA TaskHealth ==
  ASSUME IInv, NEW p \in Proc, TaskStep(p), Healthy(p)
  PROVE  \/ Healthy(p)'
         \/ \E m \in Response : /\ responses' = Append(responses, m)
                                /\ m.kind = "Done" /\ m.topic = proc[p].chat
<1>1. proc \in [Proc -> ProcRecord] /\ proc[p] \in ProcRecord
  BY DEF IInv, TypeOK
<1>2. CASE Frame(p) \/ Result(p) \/ TaskStarted(p) \/ TaskFinished(p)
  <2>1. ASSUME NEW turn, NEW tasks, NEW working, NEW is_result, NEW reply,
               ReadResident(p, turn, tasks, working, is_result, reply)
        PROVE  Healthy(p)'
    <3>1. proc'[p].st = proc[p].st /\ proc'[p].cancel = proc[p].cancel
      BY <1>1, <2>1 DEF ReadResident, ProcRecord
    <3> QED
      BY <3>1 DEF Healthy
  <2> QED
    BY <1>2, <2>1 DEF Frame, Result, TaskStarted, TaskFinished
<1>3. CASE ReadOneShot(p) \/ Send(p)
  <2>1. CASE ReadOneShot(p)
    <3>1. proc'[p].st = proc[p].st /\ proc'[p].cancel = proc[p].cancel
      BY <1>1, <2>1 DEF ReadOneShot, ProcRecord
    <3> QED
      BY <3>1 DEF Healthy
  <2>2. CASE Send(p)
    <3>1. proc'[p].st = proc[p].st /\ proc'[p].cancel = proc[p].cancel
      BY <1>1, <2>2 DEF Send, ProcRecord
    <3> QED
      BY <3>1 DEF Healthy
  <2> QED
    BY <1>3, <2>1, <2>2
<1>4. CASE Exit(p)
  <2>1. proc'[p].st = "ending" /\ proc'[p].cancel = proc[p].cancel
    BY <1>1, <1>4 DEF Exit, ProcRecord
  <2> QED
    BY <2>1 DEF Healthy
<1>5. CASE ObserveCancel(p)
  BY <1>5 DEF ObserveCancel, Healthy
<1>6. CASE SendDone(p)
  <2> DEFINE m == [kind |-> "Done", flag |-> FALSE, topic |-> proc[p].chat, from |-> p]
  <2>1. proc[p].chat \in Chat
    BY DEF Healthy, IInv, OwnerInv, IsFinished
  <2>2. m \in Response
    BY <2>1 DEF Response, Kinds
  <2> QED
    BY <1>6, <2>2 DEF SendDone
<1>7. CASE Finish(p)
  BY <1>7 DEF Finish, Healthy
<1>8. CASE PruneContext(p)
  BY <1>8 DEF PruneContext, Healthy
<1> QED
  BY <1>2, <1>3, <1>4, <1>5, <1>6, <1>7, <1>8 DEF TaskStep

\* A report appended to the channel, or taken from it, leaves the other Dones.
LEMMA QueueKeeps ==
  ASSUME IInv, NEW c \in Chat
  PROVE  /\ DoneQueued(c) /\ (\E m \in Response : responses' = Append(responses, m))
              => DoneQueued(c)'
         /\ (\E m \in Response : /\ responses' = Append(responses, m)
                                 /\ m.kind = "Done" /\ m.topic = c)
              => DoneQueued(c)'
         /\ (DoneQueued(c) /\ responses # <<>> /\ responses' = Tail(responses)
             /\ ~(Head(responses).kind = "Done" /\ Head(responses).topic = c))
              => DoneQueued(c)'
<1>1. responses \in Seq(Response) /\ Len(responses) \in Nat
  BY LenProperties DEF IInv, TypeOK
<1>2. ASSUME NEW m \in Response, responses' = Append(responses, m)
      PROVE  /\ Len(responses') = Len(responses) + 1
             /\ \A i \in 1..Len(responses) : responses'[i] = responses[i]
             /\ responses'[Len(responses) + 1] = m
  BY <1>1, <1>2, AppendProperties
<1>3. ASSUME DoneQueued(c), NEW m \in Response, responses' = Append(responses, m)
      PROVE  DoneQueued(c)'
  <2>1. PICK i \in 1..Len(responses) : responses[i].kind = "Done" /\ responses[i].topic = c
    BY <1>3 DEF DoneQueued
  <2>2. i \in 1..Len(responses') /\ responses'[i] = responses[i]
    BY <1>1, <1>2, <1>3
  <2> QED
    BY <2>1, <2>2 DEF DoneQueued
<1>4. ASSUME NEW m \in Response, responses' = Append(responses, m),
             m.kind = "Done", m.topic = c
      PROVE  DoneQueued(c)'
  <2>1. Len(responses) + 1 \in 1..Len(responses') /\ responses'[Len(responses) + 1] = m
    BY <1>1, <1>2, <1>4
  <2> QED
    BY <1>4, <2>1 DEF DoneQueued
<1>5. ASSUME DoneQueued(c), responses # <<>>, responses' = Tail(responses),
             ~(Head(responses).kind = "Done" /\ Head(responses).topic = c)
      PROVE  DoneQueued(c)'
  <2>1. PICK i \in 1..Len(responses) : responses[i].kind = "Done" /\ responses[i].topic = c
    BY <1>5 DEF DoneQueued
  <2>2. /\ Len(responses') = Len(responses) - 1 /\ Head(responses) = responses[1]
        /\ \A j \in 1..Len(responses') : responses'[j] = responses[j + 1]
    BY <1>1, <1>5, HeadTailProperties
  <2>3. i # 1
    BY <1>5, <2>1, <2>2
  <2>4. i - 1 \in 1..Len(responses') /\ (i - 1) + 1 = i
    BY <1>1, <2>2, <2>3
  <2>5. responses'[i - 1] = responses[i]
    BY <2>2, <2>4
  <2> QED
    BY <2>1, <2>4, <2>5 DEF DoneQueued
<1>6. DoneQueued(c) /\ (\E m \in Response : responses' = Append(responses, m)) => DoneQueued(c)'
  BY <1>3
<1>7. (\E m \in Response : /\ responses' = Append(responses, m)
                          /\ m.kind = "Done" /\ m.topic = c) => DoneQueued(c)'
  BY <1>4
<1> QED
  BY <1>5, <1>6, <1>7

\* Every step keeps what is known of the tracked processes.
LEMMA TrackKeeps ==
  ASSUME IInv, IInv', TrackInv, [Next]_vars
  PROVE  TrackInv'
<1>1. /\ proc \in [Proc -> ProcRecord] /\ agents \in [Chat -> Proc \cup {None}]
      /\ agents' \in [Chat -> Proc \cup {None}]
  BY DEF IInv, TypeOK
<1>2. ASSUME NEW p \in Proc, TaskStep(p) PROVE TrackInv'
  <2>1. UNCHANGED agents /\ \A q \in Proc \ {p} : proc'[q] = proc[q]
    BY <1>1, <1>2, TaskSteps DEF Becomes, ProcessOnly, Finish, PruneContext, IInv
  <2>2. ~IsFinished(p) /\ (IsFinished(p)' \/ proc'[p].chat = proc[p].chat)
    BY <1>1, <1>2, TaskSteps DEF Becomes, Finish, PruneContext, IInv, IsFinished, NoProcess
  <2>3. UNCHANGED responses \/ \E m \in Response : responses' = Append(responses, m)
    BY <1>2, TaskSteps DEF Reports, Finish, PruneContext, IInv
  <2> SUFFICES ASSUME NEW c \in Chat, agents[c] # None
               PROVE  /\ (proc'[agents[c]].st = "finished") \/ proc'[agents[c]].chat = c
                      /\ \/ proc'[agents[c]].st \in {"live", "ending"}
                            /\ ~proc'[agents[c]].cancel
                         \/ DoneQueued(c)'
    BY <2>1 DEF TrackInv, IsFinished, Healthy
  <2>4. agents[c] \in Proc
    BY <1>1
  <2>5. (proc'[agents[c]].st = "finished") \/ proc'[agents[c]].chat = c
    BY <2>1, <2>2, <2>4 DEF TrackInv, IsFinished
  <2>6. CASE DoneQueued(c)
    BY <2>3, <2>5, <2>6, QueueKeeps DEF DoneQueued
  <2>7. CASE ~DoneQueued(c) /\ agents[c] # p
    BY <2>1, <2>4, <2>5, <2>7 DEF TrackInv, Healthy
  <2>8. CASE ~DoneQueued(c) /\ agents[c] = p
    <3>1. Healthy(p) /\ proc[p].chat = c
      BY <2>2, <2>8 DEF TrackInv
    <3> QED
      BY <1>2, <2>5, <2>8, <3>1, TaskHealth, QueueKeeps DEF Healthy
  <2> QED
    BY <2>6, <2>7, <2>8
<1>3. ASSUME MainStep PROVE TrackInv'
  <2>1. \A c \in Chat : DoneQueued(c) /\ agents'[c] # None => DoneQueued(c)'
    <3> SUFFICES ASSUME NEW c \in Chat, DoneQueued(c), agents'[c] # None
                 PROVE  DoneQueued(c)'
      OBVIOUS
    <3>1. CASE UNCHANGED responses
      BY <3>1 DEF DoneQueued
    <3>2. CASE responses # <<>> /\ responses' = Tail(responses)
               /\ (Head(responses).kind = "Done" => agents'[Head(responses).topic] = None)
      BY <3>2, QueueKeeps
    <3> QED
      BY <1>3, <3>1, <3>2, MainEffect
  <2>2. CASE UNCHANGED proc /\ \A d \in Chat : agents'[d] \in {agents[d], None}
    BY <2>1, <2>2 DEF TrackInv, IsFinished, Healthy
  <2>3. CASE \E c \in Chat, t \in Thens : BeginAbort(c, t)
    <3>1. PICK c \in Chat, t \in Thens : BeginAbort(c, t)
      BY <2>3
    <3> DEFINE q == agents[c]
    <3>2. /\ agents'[c] = None /\ \A d \in Chat \ {c} : agents'[d] = agents[d]
          /\ q \in Proc /\ q # None
          /\ \A s \in Proc : proc'[s].st = proc[s].st /\ proc'[s].chat = proc[s].chat
          /\ \A s \in Proc \ {q} : proc'[s].cancel = proc[s].cancel
      BY <1>1, <3>1 DEF BeginAbort, RemoveEntry, ProcRecord
    <3> HIDE DEF q
    <3>3. ASSUME NEW d \in Chat, d # c, agents[d] # None
          PROVE  /\ (proc'[agents[d]].st = "finished") \/ proc'[agents[d]].chat = d
                 /\ \/ proc'[agents[d]].st \in {"live", "ending"}
                       /\ ~proc'[agents[d]].cancel
                    \/ DoneQueued(d)'
      <4>1. agents[d] \in Proc /\ agents'[d] = agents[d]
        BY <1>1, <3>2, <3>3
      <4>2. (proc'[agents[d]].st = "finished") \/ proc'[agents[d]].chat = d
        BY <3>2, <3>3, <4>1 DEF TrackInv, IsFinished
      <4>3. CASE agents[d] = q
        <5>1. IsFinished(q)
          BY <3>2, <3>3, <4>3 DEF TrackInv, q
        <5>2. DoneQueued(d)
          BY <3>3, <4>3, <5>1 DEF TrackInv, IsFinished, Healthy
        <5> QED
          BY <2>1, <3>3, <4>1, <4>2, <5>2
      <4>4. CASE agents[d] # q
        BY <2>1, <3>2, <3>3, <4>1, <4>2, <4>4 DEF TrackInv, Healthy
      <4> QED
        BY <4>3, <4>4
    <3> QED
      BY <3>2, <3>3 DEF TrackInv, IsFinished, Healthy
  <2>4. CASE \E c \in Chat, p \in Proc : Spawn(c, p)
    <3>1. PICK c \in Chat, p \in Proc : Spawn(c, p)
      BY <2>4
    <3>2. /\ agents'[c] = p /\ \A d \in Chat \ {c} : agents'[d] = agents[d] /\ agents[d] # p
          /\ \A s \in Proc \ {p} : proc'[s] = proc[s]
          /\ proc'[p].st = "live" /\ proc'[p].chat = c /\ ~proc'[p].cancel
      BY <1>1, <3>1 DEF Spawn, Unused, Spawned
    <3>3. ASSUME NEW d \in Chat, d # c, agents[d] # None
          PROVE  /\ (proc'[agents[d]].st = "finished") \/ proc'[agents[d]].chat = d
                 /\ \/ proc'[agents[d]].st \in {"live", "ending"}
                       /\ ~proc'[agents[d]].cancel
                    \/ DoneQueued(d)'
      <4>1. agents[d] \in Proc \ {p} /\ agents'[d] = agents[d]
        BY <1>1, <3>2, <3>3
      <4> QED
        BY <2>1, <3>2, <3>3, <4>1 DEF TrackInv, IsFinished, Healthy
    <3> QED
      BY <3>2, <3>3 DEF TrackInv, IsFinished, Healthy
  <2> QED
    BY <1>3, <2>2, <2>3, <2>4, MainEffect
<1>4. CASE UNCHANGED vars
  BY <1>4 DEF vars, TrackInv, IsFinished, Healthy, DoneQueued
<1> QED
  BY <1>2, <1>3, <1>4 DEF Next, MainStep

\* A spawn is a reason to show its chat.
LEMMA SpawnShown ==
  ASSUME IInv, NEW c \in Chat, NEW p \in Proc, Spawn(c, p), Column(c),
         \A d \in Chat \ {c} : agent_running[d] /\ ~spoiled[d] => agents[d] # None
  PROVE  ShownInv'
<1>1. /\ agents'[c] = p /\ p # None
      /\ \A d \in Chat \ {c} : agents'[d] = agents[d]
  BY NoneAssumption DEF Spawn, IInv, TypeOK
<1> QED
  BY <1>1 DEF Column, ShownInv

\* A chat whose column is cleared, or noted as left alone, needs no reason.
LEMMA ClearedShown ==
  ASSUME IInv, NEW c \in Chat, NoSpawn, Column(c), ~(agent_running'[c] /\ ~spoiled'[c]),
         \A d \in Chat \ {c} : agent_running[d] /\ ~spoiled[d] => agents[d] # None
  PROVE  ShownInv'
BY DEF NoSpawn, Column, ShownInv

\* What follows the abort of a prune leaves no chat shown without reason.
LEMMA PrunedShown ==
  ASSUME IInv, NEW c \in Chat, NEW late \in BOOLEAN, RespawnPruned(c, late),
         \A d \in Chat \ {c} : agent_running[d] /\ ~spoiled[d] => agents[d] # None
  PROVE  ShownInv'
<1>1. CASE NoSpawn /\ KeepColumn(c, TRUE)
  BY <1>1, KeepsColumn, ClearedShown
<1>2. CASE (\E p \in Proc : Spawn(c, p)) /\ KeepColumn(c, late)
  BY <1>2, KeepsColumn, SpawnShown
<1> QED
  BY <1>1, <1>2 DEF RespawnPruned

\* An abort that begins is the reason its chat may be shown, unless the chat was
\* just cleared.
LEMMA BeginShown ==
  ASSUME IInv, ShownInv, main.at = "select", NEW c \in Chat, NEW t \in Thens,
         BeginAbort(c, t), Column(c), UNCHANGED resident,
         agent_running'[c] => t # "idle"
  PROVE  ShownInv'
<1>1. /\ agents'[c] = None /\ \A d \in Chat \ {c} : agents'[d] = agents[d]
      /\ main' = Aborting(c, agents[c], t) /\ agents[c] \in Proc
  BY AbortKeeps
<1>2. main'.at = "abort" /\ main'.chat = c /\ main'.then = t
  BY <1>1, MainTypes
<1> QED
  BY <1>1, <1>2 DEF Column, ShownInv

\* Every step keeps the reasons for which a chat is shown as running.
LEMMA ShownKeeps ==
  ASSUME IInv, IInv', ShownInv, [Next]_vars
  PROVE  ShownInv'
<1>1. ASSUME NEW p \in Proc, TaskStep(p) PROVE ShownInv'
  <2>1. UNCHANGED <<agents, agent_running, main, spoiled>>
    BY <1>1, TaskSteps DEF Becomes, ProcessOnly, Finish, PruneContext, IInv
  <2>2. UNCHANGED resident
    BY <1>1, TaskSteps DEF Becomes, ProcessOnly, Finish, PruneContext, IInv
  <2> QED
    BY <2>1, <2>2 DEF ShownInv
<1>2. ASSUME NEW c \in Chat, HandleStop(c) PROVE ShownInv'
  <2>1. CASE BeginAbort(c, "stop") /\ KeepColumn(c, FALSE)
    BY <1>2, <2>1, KeepsColumn, BeginShown DEF HandleStop, Thens
  <2>2. CASE Write(c, FALSE, FALSE) /\ NoSpawn /\ UNCHANGED main
    BY <1>2, <2>2, WriteColumn DEF HandleStop, NoSpawn, Column, ShownInv
  <2> QED
    BY <1>2, <2>1, <2>2 DEF HandleStop
<1>3. ASSUME NEW c \in Chat, HandleMessage(c) PROVE ShownInv'
  <2>1. CASE BeginAbort(c, "respawn") /\ KeepColumn(c, FALSE)
    BY <1>3, <2>1, KeepsColumn, BeginShown DEF HandleMessage, Thens
  <2>2. CASE /\ main' = Fetching(c, "start") /\ NoSpawn
             /\ UNCHANGED <<agent_running, spoiled>>
    BY <1>3, <2>2 DEF HandleMessage, NoSpawn, ShownInv
  <2> QED
    BY <1>3, <2>1, <2>2 DEF HandleMessage
<1>4. CASE EndAbort \/ EndFetch
  <2> DEFINE c == main.chat
  <2>1. /\ c \in Chat /\ main.at \in {"abort", "fetch"} /\ UNCHANGED resident
        /\ \A d \in Chat \ {c} : agent_running[d] /\ ~spoiled[d] => agents[d] # None
    BY <1>4, MainStates DEF EndAbort, EndFetch, IInv, ShownInv
  <2>2. CASE RespawnPruned(c, FALSE)
    BY <2>1, <2>2, PrunedShown
  <2>3. CASE main.at = "abort" /\ main.then = "respawn" /\ AfterAbort(c, "respawn")
    <3>1. /\ NoSpawn /\ main' = Fetching(c, "respawn")
          /\ IF ClearsOnRespawn(c) THEN Write(c, FALSE, FALSE) ELSE KeepColumn(c, FALSE)
      BY <2>3 DEF AfterAbort
    <3>2. main'.at = "fetch" /\ main'.chat = c /\ main'.then = "respawn"
      BY <2>1, <3>1, MainTypes DEF Starts
    <3>3. CASE c \in resident
      BY <2>1, <3>1, <3>3, WriteColumn, ClearedShown DEF ClearsOnRespawn
    <3>4. CASE c \notin resident
      <4>1. Column(c)
        BY <2>1, <3>1, <3>4, KeepsColumn DEF ClearsOnRespawn
      <4> QED
        BY <2>1, <3>1, <3>2, <3>4, <4>1 DEF NoSpawn, Column, ShownInv
    <3> QED
      BY <3>3, <3>4
  <2>4. CASE NoSpawn /\ Write(c, FALSE, FALSE)
    BY <2>1, <2>4, WriteColumn, ClearedShown
  <2>5. CASE main.at = "abort" /\ main.then = "idle" /\ NoSpawn /\ KeepColumn(c, FALSE)
    <3>1. /\ Column(c) /\ agent_running'[c] = agent_running[c]
          /\ spoiled'[c] = (spoiled[c] \/ FALSE)
      BY <2>1, <2>5, KeepsColumn
    <3>2. agents[c] = None
      BY <2>5 DEF IInv, AbortInv
    <3>3. ~(agent_running[c] /\ ~spoiled[c])
      BY <2>1, <2>5, <3>2 DEF ShownInv
    <3> QED
      BY <2>1, <2>5, <3>1, <3>3, ClearedShown
  <2>6. CASE EndFetch /\ NoSpawn /\ KeepColumn(c, c \notin resident /\ main.then = "respawn")
    <3>1. /\ Column(c) /\ agent_running'[c] = agent_running[c]
          /\ spoiled'[c] = (spoiled[c] \/ (c \notin resident /\ main.then = "respawn"))
      BY <2>1, <2>6, KeepsColumn
    <3> QED
      BY <2>1, <2>6, <3>1 DEF EndFetch, NoSpawn, Column, ShownInv
  <2>7. CASE EndFetch /\ \E p \in Proc : Spawn(c, p)
    <3>1. PICK b \in BOOLEAN : KeepColumn(c, b) \/ Write(c, TRUE, FALSE)
      BY <2>7 DEF EndFetch
    <3>2. Column(c)
      BY <2>1, <3>1, WriteColumn, KeepsColumn
    <3> QED
      BY <2>1, <2>7, <3>2, SpawnShown
  <2>8. CASE EndAbort
    BY <2>2, <2>3, <2>4, <2>5, <2>8 DEF EndAbort, AfterAbort
  <2> QED
    BY <1>4, <2>6, <2>7, <2>8 DEF EndFetch
<1>5. CASE Respond
  <2> DEFINE c == Head(responses).topic
             from == Head(responses).from
             late == agents[c] # from \/ IsFinished(from)
  <2>1. main.at = "select" /\ responses # <<>> /\ UNCHANGED resident
    BY <1>5 DEF Receive, Respond, HandleLine, HandleToolResult, HandleBusy, HandleIdle,
       HandleDone
  <2>2. c \in Chat /\ from \in Proc
    BY <2>1, Oldest
  <2>3. CASE NoSpawn /\ UNCHANGED <<agent_running, main, spoiled>>
    BY <2>1, <2>3 DEF NoSpawn, ShownInv
  <2>4. CASE ApplyPrune(c, from)
    <3>1. late \in BOOLEAN
      OBVIOUS
    <3>2. CASE agents[c] = None /\ RespawnPruned(c, late)
      BY <2>1, <2>2, <3>1, <3>2, PrunedShown DEF ShownInv
    <3>3. CASE BeginAbort(c, "prune") /\ KeepColumn(c, late)
      BY <2>1, <2>2, <3>1, <3>3, KeepsColumn, BeginShown DEF Thens
    <3> QED
      BY <2>4, <3>2, <3>3 DEF ApplyPrune
  <2>5. CASE HandleBusy
    <3>1. Column(c) /\ spoiled'[c] = (from # agents[c])
      BY <2>2, <2>5, WriteColumn DEF HandleBusy
    <3> QED
      BY <2>1, <2>2, <2>5, <3>1, NoneAssumption DEF HandleBusy, NoSpawn, Column, ShownInv
  <2>6. CASE Write(c, FALSE, FALSE) /\ ((NoSpawn /\ UNCHANGED main) \/ BeginAbort(c, "idle"))
    <3>1. Column(c) /\ ~agent_running'[c]
      BY <2>2, <2>6, WriteColumn
    <3>2. CASE NoSpawn /\ UNCHANGED main
      BY <2>1, <3>1, <3>2 DEF NoSpawn, Column, ShownInv
    <3>3. CASE BeginAbort(c, "idle")
      BY <2>1, <2>2, <3>1, <3>3, BeginShown DEF Thens
    <3> QED
      BY <2>6, <3>2, <3>3
  <2>7. CASE HandleDone
    <3>1. Column(c) /\ ~agent_running'[c]
      BY <2>2, <2>7, WriteColumn DEF HandleDone
    <3>2. UNCHANGED main /\ \A d \in Chat \ {c} : agents'[d] = agents[d]
      BY <2>2, <2>7 DEF HandleDone, RemoveEntry, IInv, TypeOK
    <3> QED
      BY <2>1, <3>1, <3>2 DEF Column, ShownInv
  <2> QED
    BY <1>5, <2>3, <2>4, <2>5, <2>6, <2>7
    DEF Respond, HandleLine, HandleToolResult, HandleIdle
<1>6. CASE UNCHANGED vars
  BY <1>6 DEF vars, ShownInv
<1> QED
  BY <1>1, <1>2, <1>3, <1>4, <1>5, <1>6 DEF Next

-----------------------------------------------------------------------------
(* The theorems                                                            *)

\* Every variable stays in its type: in particular the channel never holds more
\* than its capacity, and a Done is never among the replies of a line.
THEOREM TypeCorrect == Spec => []TypeOK
<1>1. IInv => TypeOK
  BY DEF IInv
<1> QED
  BY <1>1, InitHolds, StepKeeps, PTL DEF Spec

\* A one-shot agent that is tracked and not finished is shown as running, so
\* handle_message_put may leave the column alone when it aborts and respawns.
THEOREM OneShotShown == Spec => []OneShotColumn
<1>1. IInv => OneShotColumn
  BY DEF IInv, ColumnInv
<1> QED
  BY <1>1, InitHolds, StepKeeps, PTL DEF Spec

\* The directory of live sessions names the tracked process of a chat only.
THEOREM SessionsTracked == Spec => []LiveSessionsTracked
<1>1. IInv => LiveSessionsTracked
  BY DEF IInv, SessionInv, LiveSessionsTracked
<1> QED
  BY <1>1, InitHolds, StepKeeps, PTL DEF Spec

\* A registered mailbox is of a task that has not returned.
THEOREM MailboxesOwned == Spec => []MailboxOwnerRuns
<1>1. IInv => MailboxOwnerRuns
  BY DEF IInv, MailboxInv, MailboxOwnerRuns
<1> QED
  BY <1>1, InitHolds, StepKeeps, PTL DEF Spec

\* A session has one process, whatever the interleaving: a process that may
\* still be working is lost by an abort that times out, by the spawn for a message that
\* found the chat's resident idle when it came, by a Done of another process, and
\* in no other way.
THEOREM SessionsExclusive == Spec => ExclusiveSession
<1>1. IInv /\ IInv' /\ [Next]_vars
        => [\A p \in Proc : Orphan(p)' /\ ~Orphan(p) => LosesTrack(p)]_vars
  BY OrphanStep
<1> QED
  BY <1>1, InitHolds, StepKeeps, PTL DEF Spec, ExclusiveSession

\* A process that has reported idle does nothing until the report is handled, so
\* the teardown the report leads to takes no work away from that process.
THEOREM IdleEdgeTrue == Spec => []IdleEdgeMeansIdle
<1>1. Init => IInv /\ EdgeInv
  <2>1. ASSUME Init PROVE EdgeInv
    <3>1. Len(<<>>) = 0
      BY EmptySeq
    <3> QED
      BY <2>1, <3>1 DEF Init, EdgeInv, NoProcess
  <2> QED
    BY <2>1, InitHolds
<1>2. IInv /\ EdgeInv /\ [Next]_vars => (IInv /\ EdgeInv)'
  BY StepKeeps, EdgeKeeps
<1>3. IInv /\ EdgeInv => IdleEdgeMeansIdle
  <2> SUFFICES ASSUME IInv, EdgeInv, NEW i \in 1..Len(responses), IsIdleEdge(responses[i])
               PROVE  ~proc[responses[i].from].working /\ ~SessionRunning(responses[i].from)
    BY DEF IdleEdgeMeansIdle, IsIdleEdge
  <2>1. responses \in Seq(Response)
    BY DEF IInv, TypeOK
  <2>2. responses[i].from \in Proc
    <3>1. responses[i] \in Response
      BY <2>1
    <3> QED
      BY <3>1 DEF Response
  <2>3. Still(responses[i].from)
    BY <2>2 DEF EdgeInv
  <2> QED
    BY <2>3 DEF Still, SessionRunning
<1> QED
  BY <1>1, <1>2, <1>3, PTL DEF Spec

\* No perpetual spinner, for any number of chats that share the main loop: a chat
\* with no process, no response and no abort under way is not shown as running,
\* but for the two cases the code does not allow for.
THEOREM QuietIsIdle == Spec => []IdleWhenQuiet
<1>1. Init => IInv /\ TrackInv /\ ShownInv
  BY InitHolds DEF Init, TrackInv, ShownInv
<1>2. IInv /\ TrackInv /\ ShownInv /\ [Next]_vars => (IInv /\ TrackInv /\ ShownInv)'
  BY StepKeeps, TrackKeeps, ShownKeeps
<1>3. IInv /\ TrackInv /\ ShownInv => IdleWhenQuiet
  <2> SUFFICES ASSUME IInv, TrackInv, ShownInv, NEW c \in Chat, Quiet(c), agent_running[c],
                      ~spoiled[c]
               PROVE  FALSE
    BY DEF IdleWhenQuiet, IInv, TypeOK
  <2>1. agents[c] \in Proc /\ agents[c] # None
    BY DEF ShownInv, Quiet, IInv, TypeOK
  <2>2. ~DoneQueued(c)
    BY DEF DoneQueued, Quiet
  <2> QED
    BY <2>1, <2>2 DEF TrackInv, Healthy, IsFinished, Quiet
<1> QED
  BY <1>1, <1>2, <1>3, PTL DEF Spec

=============================================================================
