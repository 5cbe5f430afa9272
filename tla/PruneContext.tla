---------------------------- MODULE PruneContext ----------------------------
(***************************************************************************)
(* Selective forgetting, from the agent's command to its restart.          *)
(*                                                                         *)
(* The agent of one chat runs "prune-context" as a tool.  The control task *)
(* checks that no background task is alive, scans the transcript item by   *)
(* item and parks a request for every item that matches (control.rs); when *)
(* the command's own result reaches the agent's output the adapter sends a *)
(* cue, and the main loop takes what is parked, stops the agent, rewrites  *)
(* the transcript and starts the agent again (main.rs).  The three run     *)
(* concurrently, and the table of parked requests is keyed by the chat.    *)
(*                                                                         *)
(* The main loop waits ten seconds for an agent to exit and then goes on   *)
(* without it: a resident whose reader is blocked on a full response       *)
(* channel never sees that it is aborted.  It may write on beside the      *)
(* rewrite and beside the agent that follows it.                           *)
(***************************************************************************)
EXTENDS Transcript

CONSTANTS
  MaxPast,     \* bound: calls answered in earlier turns
  MaxCalls,    \* bound: tool calls since then, prune calls included
  MaxSession,  \* bound: processes started for the chat
  MaxItems,    \* bound: items of one prune-context command
  MaxQueue     \* bound: responses waiting for the main loop

ASSUME BoundsAssumption ==
  {MaxPast, MaxCalls, MaxSession, MaxItems, MaxQueue} \subseteq Nat \ {0}

VARIABLES
  dialect,   \* the chat's agent kind
  past,      \* the calls of earlier turns
  log,       \* the transcript on disk
  session,   \* the chat's latest process
  agent,     \* "off", in its "turn", or "idle" after it
  ghost,     \* an earlier process that was given up on still runs
  task,      \* has it a live background task (SessionState::live_tasks)
  made,      \* the calls made since the earlier turns
  rpc,       \* the prune-context request the control task is at
  owed,      \* prune calls of the running process whose result is to come
  parked,    \* PendingPrunes: the chat's parked requests
  queue,     \* the chat's responses the main loop has not taken
  main,      \* the batch the main loop is applying
  seen       \* the transcript as the rewrite read it

vars == <<dialect, past, log, session, agent, ghost, task, made, rpc, owed, parked, queue,
          main, seen>>

NoRpc == [at |-> "none", items |-> <<>>, by |-> 0]
Idle == [at |-> "select", reqs |-> <<>>]

\* Bound: only where it makes a difference, and in earlier turns, is an output
\* tiny.
Sizes(d) == IF d = "gemini" THEN {"full", "tiny"} ELSE {"full"}

\* The transcript of earlier turns: like calls, one after the other.
Init ==
  /\ dialect \in Dialect /\ past \in 0..MaxPast
  /\ \E sizes \in [1..past -> Sizes(dialect)] :
       log = FlattenSeq([i \in 1..past |->
               <<CallLine(i, "a")>> \o AnswerLines(dialect, i, "a", sizes[i])])
  /\ session = 1 /\ agent = "turn" /\ ghost = FALSE /\ task = FALSE /\ made = 0
  /\ rpc = NoRpc /\ owed = 0 /\ parked = <<>> /\ queue = <<>> /\ main = Idle /\ seen = <<>>

Ids == {n.id : n \in {m \in NodesOf(log) : m.kind = "call"}}
ArgOf(i) == (CHOOSE n \in NodesOf(log) : n.kind = "call" /\ n.id = i).arg
OutsIn(l, i) == {n.text : n \in {m \in NodesOf(l) : m.id = i /\ m.kind # "call"}}
Issued == Cardinality(Ids)

Quit == agent' = "off" /\ task' = FALSE /\ owed' = 0

\* await_agent_exit may give up on a resident, and a new one may take the place
\* of an idle one; a one-shot's sends end when it is cancelled.
Outlives == IF dialect = "claude" /\ agent # "off" THEN {ghost, TRUE} ELSE {ghost}
Abort == Quit /\ ghost' \in Outlives

-----------------------------------------------------------------------------
(* The agent (external)                                                    *)

Chat == <<dialect, past>>
Requests == <<rpc, parked>>
Loop == <<queue, main, seen>>

\* A prune call of the running process has not returned.
Pruning == (rpc.at # "none" /\ rpc.by = session) \/ owed > 0

\* A model's next calls come when those it made together have all returned.
Call ==
  /\ (agent = "turn" /\ ~Pruning) \/ ghost
  /\ made < MaxCalls /\ made' = made + 1
  /\ \E a \in {"a", "none"} : log' = Append(log, CallLine(Issued + 1, a))
  /\ UNCHANGED <<Chat, session, agent, ghost, task, owed, Requests, Loop>>

Answer ==
  /\ agent = "turn" \/ ghost
  /\ \E i \in Ids :
       /\ OutsIn(log, i) = {} /\ ArgOf(i) # "own"
       /\ \/ log' = log \o AnswerLines(dialect, i, ArgOf(i), "full")
          \/ dialect = "claude" /\ log' = log \o SkillLines(i, "full")
  /\ UNCHANGED <<Chat, session, agent, ghost, task, made, owed, Requests, Loop>>

\* gemini writes all messages again now and then.
Snapshot ==
  /\ agent = "turn" /\ dialect = "gemini" /\ log # <<>>
  /\ ~\E k \in 1..Len(log) : Len(log[k]) > 2     \* one snapshot
  /\ Len(SnapshotLine(log)[1]) > 2
  /\ log' = log \o SnapshotLine(log)
  /\ UNCHANGED <<Chat, session, agent, ghost, task, made, owed, Requests, Loop>>

\* claude alone runs tasks in the background.
ArmTask ==
  /\ agent = "turn" /\ dialect = "claude" /\ ~task
  /\ task' = TRUE
  /\ UNCHANGED <<Chat, log, session, agent, ghost, made, owed, Requests, Loop>>

TaskOver ==
  /\ agent = "turn" /\ task /\ task' = FALSE
  /\ UNCHANGED <<Chat, log, session, agent, ghost, made, owed, Requests, Loop>>

\* The result of a prune call is in the transcript and the adapter says so.
OwnResult ==
  /\ agent = "turn" /\ owed > 0 /\ Len(queue) < MaxQueue
  /\ owed' = owed - 1
  /\ queue' = Append(queue, "ToolResult")
  /\ UNCHANGED <<Chat, log, session, agent, ghost, task, made, Requests, main, seen>>

\* A resident's turn is over and no task is left, or a one-shot process and
\* its turn end: the first is reported as idle, the second as Done.
EndTurn ==
  /\ agent = "turn" /\ ~task /\ ~Pruning /\ Len(queue) < MaxQueue
  /\ IF dialect = "claude" THEN queue' = Append(queue, "Idle") /\ agent' = "idle"
     ELSE queue' = Append(queue, "Done") /\ agent' = "off"
  /\ UNCHANGED <<Chat, log, session, ghost, task, made, owed, Requests, main, seen>>

\* The process ends by itself in the middle of anything.
Exit ==
  /\ agent # "off" /\ Len(queue) < MaxQueue
  /\ Quit
  /\ queue' = Append(queue, "Done")
  /\ UNCHANGED <<Chat, log, session, ghost, made, Requests, main, seen>>

\* The reader of a process that was given up on waits for room on the channel,
\* which only the main loop makes: then it delivers what it held, sees its
\* token and ends the process.
GhostEnds ==
  /\ ghost /\ main = Idle /\ ghost' = FALSE
  /\ \/ UNCHANGED queue
     \/ Len(queue) < MaxQueue /\ \E kind \in {"ToolResult", "Idle"} : queue' = Append(queue, kind)
  /\ UNCHANGED <<Chat, log, session, agent, task, made, owed, Requests, main, seen>>

-----------------------------------------------------------------------------
(* The control task: prune_context                                         *)

\* Who runs the command: the process of a session, or one given up on (0).
Callers == (IF agent = "turn" THEN {session} ELSE {}) \cup (IF ghost THEN {0} ELSE {})

\* A command arrives; unless forced it is refused while a task is alive.
PruneRpc ==
  /\ rpc = NoRpc /\ made < MaxCalls /\ made' = made + 1
  /\ \E items \in BoundedSeq(Glob, MaxItems), force \in BOOLEAN, by \in Callers :
       /\ items # <<>>
       /\ IF task /\ ~force
          THEN rpc' = NoRpc /\ owed' = IF by = session THEN owed + 1 ELSE owed
          ELSE rpc' = [at |-> "scan", items |-> items, by |-> by] /\ UNCHANGED owed
  /\ log' = Append(log, CallLine(Issued + 1, "own"))
  /\ UNCHANGED <<Chat, session, agent, ghost, task, parked, Loop>>

\* One item: a request is parked when the transcript has a match for it.
ScanItem ==
  /\ rpc.at = "scan" /\ rpc.items # <<>>
  /\ parked' = IF Eligible(dialect, log, Head(rpc.items)) = {} THEN parked
               ELSE Append(parked, Head(rpc.items))
  /\ rpc' = [rpc EXCEPT !.items = Tail(rpc.items)]
  /\ UNCHANGED <<Chat, log, session, agent, ghost, task, made, owed, Loop>>

\* The answer to the command; a scan that fails gives it early, and what was
\* parked before stays.  The caller may be gone.
Reply ==
  /\ rpc.at = "scan"
  /\ rpc' = NoRpc
  /\ owed' = IF agent # "off" /\ rpc.by = session THEN owed + 1 ELSE owed
  /\ UNCHANGED <<Chat, log, session, agent, ghost, task, made, parked, Loop>>

-----------------------------------------------------------------------------
(* The main loop                                                           *)

\* What becomes of the transcript that was read.
Result == PruneBatch(dialect, seen, main.reqs)

Receive(kind) ==
  /\ main = Idle /\ queue # <<>> /\ Head(queue) = kind
  /\ queue' = Tail(queue)

\* apply_prune_group up to the abort: what is parked is taken.  The count of
\* the tasks that will be lost, which the restarted agent is told, is left out.
Apply ==
  /\ parked' = <<>>
  /\ main' = [at |-> "abort", reqs |-> parked]

HandleCue ==
  /\ Receive("ToolResult")
  /\ IF parked # <<>> THEN Apply ELSE UNCHANGED <<parked, main>>
  /\ UNCHANGED <<Chat, log, session, agent, ghost, task, made, rpc, owed, seen>>

\* A prune still parked when the session is idle is applied now; otherwise an
\* idle session is stopped.
HandleIdle ==
  /\ Receive("Idle")
  /\ IF parked # <<>> THEN Apply /\ UNCHANGED <<agent, ghost, task, owed>>
     ELSE /\ Abort
          /\ UNCHANGED <<parked, main>>
  /\ UNCHANGED <<Chat, log, session, made, rpc, seen>>

\* A prune still parked when the process ended is dropped.
HandleDone ==
  /\ Receive("Done")
  /\ parked' = <<>>
  /\ UNCHANGED <<Chat, log, session, agent, ghost, task, made, rpc, owed, main, seen>>

\* The agent has exited, or is given up on, and the transcript is read.  What a
\* living process still writes before the reading, it writes before this step.
Aborted ==
  /\ main.at = "abort"
  /\ main' = [main EXCEPT !.at = "rewrite"]
  /\ seen' = log
  /\ Abort
  /\ UNCHANGED <<Chat, log, session, made, Requests, queue>>

\* Mutant: the transcript is rewritten while the agent still runs.
RewriteEarly ==
  /\ main.at = "abort"
  /\ log' = PruneBatch(dialect, log, main.reqs).log
  /\ main' = [main EXCEPT !.at = "respawn"]
  /\ UNCHANGED <<Chat, session, agent, ghost, task, made, owed, Requests, queue, seen>>

\* The rewrite: what was read, with the outputs blanked, takes the place of the
\* file.  One that fails leaves the transcript alone.
Rewrite ==
  /\ main.at = "rewrite"
  /\ \/ log' = Result.log
     \/ UNCHANGED log
  /\ main' = [main EXCEPT !.at = "respawn"]
  /\ seen' = <<>>
  /\ UNCHANGED <<Chat, session, agent, ghost, task, made, owed, Requests, queue>>

\* The restart; a chat whose row is gone is left without an agent.
Respawn ==
  /\ main.at = "respawn"
  /\ main' = Idle
  /\ \/ /\ session < MaxSession
        /\ session' = session + 1 /\ agent' = "turn"
     \/ UNCHANGED <<session, agent>>
  /\ UNCHANGED <<Chat, log, ghost, task, made, owed, Requests, queue, seen>>

\* The user stops an agent in its turn.
Stop ==
  /\ main = Idle /\ agent = "turn"
  /\ Abort
  /\ UNCHANGED <<Chat, log, session, made, Requests, Loop>>

\* The user writes; an agent in its turn is stopped first.
Message ==
  /\ main = Idle /\ session < MaxSession
  /\ session' = session + 1 /\ agent' = "turn" /\ task' = FALSE /\ owed' = 0
  /\ ghost' \in Outlives
  /\ UNCHANGED <<Chat, log, made, Requests, Loop>>

-----------------------------------------------------------------------------
Next ==
  \/ Call \/ Answer \/ Snapshot \/ ArmTask \/ TaskOver \/ OwnResult \/ EndTurn \/ Exit
  \/ GhostEnds \/ PruneRpc \/ ScanItem \/ Reply
  \/ HandleCue \/ HandleIdle \/ HandleDone \/ Aborted \/ Rewrite \/ Respawn
  \/ Stop \/ Message

Spec == Init /\ [][Next]_vars

-----------------------------------------------------------------------------
(* Properties                                                              *)

TypeOK ==
  /\ dialect \in Dialect
  /\ \A k \in 1..Len(log) : \A j \in 1..Len(log[k]) : log[k][j] \in Node
  /\ session \in 1..MaxSession /\ agent \in {"off", "turn", "idle"} /\ task \in BOOLEAN
  /\ rpc \in [at : {"none", "scan"}, items : BoundedSeq(Glob, MaxItems), by : 0..MaxSession]
  /\ owed \in 0..MaxCalls /\ past \in 0..MaxPast /\ made \in 0..MaxCalls
  /\ ghost \in BOOLEAN /\ (ghost => dialect = "claude")
  /\ parked \in Seq(Glob)
  /\ queue \in BoundedSeq({"ToolResult", "Idle", "Done"}, MaxQueue)
  /\ main \in [at : {"select", "abort", "rewrite", "respawn"},
               reqs : Seq(Glob)]

\* Once one copy of an output is gone, no copy of it can be read in full: the
\* duplicates gemini keeps, a skill's expansion, every leaf of a pi result.
NoCopyLeaks ==
  LET pruned == Pruned(dialect, log)
  IN  \A n \in NodesOf(log) : n.id \in pruned => n.text # "full"

\* Of every call in l that a request can take, the output is worth pruning.
Settled(l) ==
  LET pruned == Pruned(dialect, l)
  IN  \A n \in NodesOf(l) : n.kind = "call" =>
        n.arg = "own" \/ "full" \in OutsIn(l, n.id) \/ n.id \in pruned

\* prune.rs: one batch does what its targets do one after the other, as long
\* as every call has an answer worth pruning.
BatchIsSequential ==
  main.at = "rewrite" /\ Settled(seen) => Result.log = PruneEach(dialect, seen, main.reqs)

\* What a batch reports as blanked is gone from the file it writes, except what
\* gemini keeps because it is too small to matter; and gemini's own scan for
\* leaks finds nothing.
ReportIsTrue ==
  main.at = "rewrite" =>
    /\ LET pruned == Pruned(dialect, Result.log)
       IN  \A i \in Result.blanked :
             \/ i \in pruned
             \/ dialect = "gemini" /\ "full" \notin OutsIn(seen, i)
    /\ dialect = "gemini" => LeakedGemini(seen, ChooseBatch(dialect, seen, main.reqs)) = {}

\* The transcript of a running agent only grows, and a rewrite loses nothing
\* that was written after the reading: whatever is rewritten is rewritten
\* between two processes.  A process that main.rs gave up on (await_agent_exit)
\* is no exception to the first; it alone is one to the second.
RewrittenOnlyAlone ==
  [][\/ IsPrefix(log, log')
     \/ agent = "off" /\ agent' = "off" /\ (seen = log \/ ghost)]_vars

\* The transcript as PruneLog sees it.
CallsOf(d, l) ==
  LET nodes  == NodesOf(l)
      pruned == Pruned(d, l)
      count  == Cardinality({n.id : n \in {m \in nodes : m.kind = "call"}})
      arg(i) == (CHOOSE n \in nodes : n.kind = "call" /\ n.id = i).arg
      out(i) == LET texts == {n.text : n \in {m \in nodes : m.id = i /\ m.kind # "call"}}
                IN  IF i \in pruned THEN "pruned" ELSE IF texts = {} THEN "none"
                    ELSE IF "full" \in texts THEN "full" ELSE "tiny"
  IN  [i \in 1..count |-> [arg |-> arg(i), out |-> out(i)]]

Calls == CallsOf(dialect, log)

Promise == INSTANCE PruneLog WITH
  MaxBatch <- MaxItems * MaxCalls,
  calls <- Calls

\* What a process that was given up on wrote after the reading is lost; of what
\* was read, a rewrite takes no more than it may.
RewrittenAsRead ==
  /\ main.at = "rewrite" /\ ghost /\ seen # log
  /\ Promise!Forgets(CallsOf(dialect, seen), Calls')

\* The transcripts of all five dialects, with whatever interleaving of agent,
\* control task and main loop, lose an output only to a request for it, one
\* each, the latest first (the contract prune.rs states).  A rewrite beside a
\* process that was given up on keeps the contract for what it read.
ImplementsPruneLog == Promise!Init /\ [][Promise!Next \/ RewrittenAsRead]_Calls
=============================================================================
