----------------------------- MODULE Supervisor -----------------------------
(***************************************************************************)
(* The agent supervisor of zucchini-spawner and the part of the main loop  *)
(* that drives it (agent.rs, and the response and message handlers of      *)
(* main.rs).                                                               *)
(*                                                                         *)
(* A chat is served by at most one tracked agent process at a time.  A     *)
(* resident agent (claude) lives until its turn and its background tasks   *)
(* are over; a one-shot agent (codex, gemini, cursor, hermes, pi) lives    *)
(* for one turn.  Each process is driven by a task of its own that reads   *)
(* its output and reports to the main loop over one bounded channel of     *)
(* responses, addressed by CHAT and not by process.  The main loop is one  *)
(* task: it waits for an aborted process to exit, and for the attachments  *)
(* of a message, before it takes another event, while process tasks go on  *)
(* by themselves.                                                          *)
(*                                                                         *)
(* Two things are history, read by no guard of the code: a response's      *)
(* "from" names the process, where the code has only the chat; "spoiled"   *)
(* notes that agent_running was last set, or left alone, by one of the     *)
(* steps the code does not allow for.                                      *)
(***************************************************************************)
EXTENDS Naturals, Sequences

CONSTANTS
  Chat,      \* chat ids (the "topics" of the supervisor)
  Proc,      \* identities of agent processes, reused once nothing refers to them
  Task,      \* ids of background tasks a resident agent may arm
  None,      \* no process
  Capacity   \* slots of the response channel (256 in the code)

ASSUME NoneAssumption == None \notin Proc /\ None \notin Chat
ASSUME CapacityAssumption == Capacity \in Nat \ {0}

VARIABLES
  resident,        \* chats whose agent_kind has a resident adapter
  proc,            \* every process with the task that drives it
  agents,          \* Supervisor::agents: the tracked process of a chat
  pending,         \* PendingAttachments: whose mailbox is registered for a chat
  live_sessions,   \* LiveSessions: whose SessionState is published for a chat
  pending_prunes,  \* PendingPrunes: the chats with a parked prune request
  responses,       \* the AgentResponse channel
  agent_running,   \* last value written to chats.agent_running
  main,            \* where the main loop is: selecting, or in an abort or a fetch
  spoiled          \* history: see above

vars == <<resident, proc, agents, pending, live_sessions, pending_prunes,
          responses, agent_running, main, spoiled>>

-----------------------------------------------------------------------------
(* Processes                                                               *)

\* live: in the read loop.  killing: cancel observed, process group being
\* terminated.  ending: read loop left on EOF, error or startup timeout.
\* reaped: child waited for and Done sent, the task not yet finished.
Status == {"live", "killing", "ending", "reaped", "finished"}

\* A response to be sent; flag is "running" of RunState.
Reply(k, f) == [kind |-> k, flag |-> f]
Kinds == {"Line", "ToolResult", "RunState", "Done"}
Replies == [kind : Kinds \ {"Done"}, flag : BOOLEAN]
Response == [kind : Kinds, flag : BOOLEAN, topic : Chat, from : Proc]

ProcRecord ==
  [st : Status, chat : Chat \cup {None},
   turn : BOOLEAN,        \* SessionState.turn_in_flight
   tasks : SUBSET Task,   \* SessionState.live_tasks
   working : BOOLEAN,     \* the agent itself is in a turn (external)
   emitted : {"none", "busy", "idle"},  \* last_emitted
   out : Seq(Replies),    \* replies of the current line not sent yet
   cancel : BOOLEAN]      \* its CancellationToken

NoProcess ==
  [st |-> "finished", chat |-> None, turn |-> FALSE, tasks |-> {},
   working |-> FALSE, emitted |-> "none", out |-> <<>>, cancel |-> FALSE]

\* A spawned process: the spawn functions register it, and spawn_resident
\* sets turn_in_flight before the entry is stored.
Spawned(c) ==
  [st |-> "live", chat |-> c, turn |-> (c \in resident), tasks |-> {},
   working |-> TRUE, emitted |-> "none", out |-> <<>>, cancel |-> FALSE]

\* A cancelled task on its way out: nobody reads the session it published again.
Killed(p, out) ==
  [st |-> "killing", chat |-> proc[p].chat, turn |-> FALSE, tasks |-> {},
   working |-> FALSE, emitted |-> "none", out |-> out, cancel |-> TRUE]

SessionRunning(p) == proc[p].turn \/ proc[p].tasks # {}
IsFinished(p) == proc[p].st = "finished"

\* The operating system process may still be doing work.
Alive(p) == proc[p].st \in {"live", "killing", "ending"}

IsRunning(c) ==
  /\ agents[c] # None
  /\ ~IsFinished(agents[c])
  /\ c \in resident => SessionRunning(agents[c])

\* No reference to p is left, so its identity may stand for a new process.
Unused(p) ==
  /\ IsFinished(p) /\ main.proc # p
  /\ \A c \in Chat : /\ agents[c] # p /\ pending[c] # p /\ live_sessions[c] # p
  /\ \A i \in 1..Len(responses) : responses[i].from # p

\* Waiting for the attachments of a message, "then" keeps was_running as it was
\* read when the message came: "respawn" if it was, "start" if it was not.
Selecting == [at |-> "select", chat |-> None, proc |-> None, then |-> "none"]
Aborting(c, p, t) == [at |-> "abort", chat |-> c, proc |-> p, then |-> t]
Fetching(c, t) == [at |-> "fetch", chat |-> c, proc |-> None, then |-> t]
Thens == {"stop", "respawn", "prune", "idle"}
Starts == {"respawn", "start"}

-----------------------------------------------------------------------------
(* Steps of a process and of the task that drives it                       *)

ProcessOnly == UNCHANGED <<resident, agents, live_sessions, pending_prunes,
                           agent_running, main, spoiled>>

\* Mutant: the idle edge is sent as soon as the last background task ends.
ReadResidentEagerIdle(p, turn, tasks, working, is_result, reply) ==
  LET run  == turn \/ tasks # {}
      mark == IF run THEN "busy" ELSE "idle"
      edge == mark # proc[p].emitted
  IN  /\ proc[p].st = "live" /\ proc[p].out = <<>> /\ proc[p].chat \in resident
      /\ proc' = [proc EXCEPT
           ![p].turn = turn, ![p].tasks = tasks, ![p].working = working,
           ![p].emitted = IF edge THEN mark ELSE @,
           ![p].out = IF edge THEN Append(reply, Reply("RunState", run)) ELSE reply]
      /\ ProcessOnly /\ UNCHANGED <<pending, responses>>

\* One adapter event of a resident agent: reduce() updates the session, the
\* event's own reply goes out first and a change of "running" after it.  The
\* idle edge is sent for a result only.
ReadResident(p, turn, tasks, working, is_result, reply) ==
  LET run  == turn \/ tasks # {}
      mark == IF run THEN "busy" ELSE "idle"
      edge == mark # proc[p].emitted /\ (run \/ is_result)
  IN  /\ proc[p].st = "live" /\ proc[p].out = <<>> /\ proc[p].chat \in resident
      /\ proc' = [proc EXCEPT
           ![p].turn = turn, ![p].tasks = tasks, ![p].working = working,
           ![p].emitted = IF edge THEN mark ELSE @,
           ![p].out = IF edge THEN Append(reply, Reply("RunState", run)) ELSE reply]
      /\ ProcessOnly /\ UNCHANGED <<pending, responses>>

\* An idle claude says nothing until one of its background tasks ends.
Frame(p) ==
  /\ proc[p].working
  /\ \E k \in {"Line", "ToolResult"} :
       ReadResident(p, proc[p].turn, proc[p].tasks, TRUE, FALSE, <<Reply(k, FALSE)>>)

Result(p) ==
  /\ proc[p].working
  /\ \E origin_is_task \in BOOLEAN :
       LET turn == proc[p].turn /\ origin_is_task
       IN  ReadResident(p, turn, proc[p].tasks, turn, TRUE, <<>>)

TaskStarted(p) ==
  /\ proc[p].working
  /\ \E t \in Task \ proc[p].tasks :
       ReadResident(p, proc[p].turn, proc[p].tasks \cup {t}, TRUE, FALSE, <<>>)

\* The end of a background task wakes claude for a turn of its own.
TaskFinished(p) ==
  \E t \in proc[p].tasks :
    ReadResident(p, proc[p].turn, proc[p].tasks \ {t}, TRUE, FALSE, <<>>)

\* One event of a one-shot agent.
ReadOneShot(p) ==
  /\ proc[p].st = "live" /\ proc[p].out = <<>> /\ proc[p].chat \notin resident
  /\ \E k \in {"Line", "ToolResult"} :
       proc' = [proc EXCEPT ![p].out = <<Reply(k, FALSE)>>]
  /\ ProcessOnly /\ UNCHANGED <<pending, responses>>

\* Mutant: an unbounded channel.
SendUnbounded(p) ==
  /\ proc[p].out # <<>>
  /\ responses' = Append(responses,
       [kind |-> Head(proc[p].out).kind, flag |-> Head(proc[p].out).flag,
        topic |-> proc[p].chat, from |-> p])
  /\ proc' = [proc EXCEPT ![p].out = Tail(@)]
  /\ ProcessOnly /\ UNCHANGED pending

\* tx.send: waits for a slot of the channel.
Send(p) ==
  /\ proc[p].out # <<>> /\ Len(responses) < Capacity
  /\ responses' = Append(responses,
       [kind |-> Head(proc[p].out).kind, flag |-> Head(proc[p].out).flag,
        topic |-> proc[p].chat, from |-> p])
  /\ proc' = [proc EXCEPT ![p].out = Tail(@)]
  /\ ProcessOnly /\ UNCHANGED pending

\* The cancel arm of the read loop.  A one-shot task also sees the token in
\* the middle of a send; a resident one does not.  A resident that is killed
\* before its first line still reports what its shell wrote to stderr.
ObserveCancel(p) ==
  /\ proc[p].st = "live" /\ proc[p].cancel
  /\ proc[p].chat \in resident => proc[p].out = <<>>
  /\ \E noise \in BOOLEAN :
       /\ noise => proc[p].chat \in resident /\ proc[p].emitted = "none"
       /\ proc' = [proc EXCEPT ![p] =
            Killed(p, IF noise THEN <<Reply("Line", FALSE)>> ELSE <<>>)]
  /\ ProcessOnly /\ UNCHANGED <<pending, responses>>

\* The read loop ends by itself: end of output, read error, no output within
\* AGENT_STARTUP_TIMEOUT, or the process could not be started at all.  An
\* unclean exit may first report an error line.
Exit(p) ==
  /\ proc[p].st = "live" /\ proc[p].out = <<>>
  /\ \E error \in BOOLEAN :
       /\ error /\ proc[p].chat \in resident => SessionRunning(p)
       /\ proc' = [proc EXCEPT
            ![p].st = "ending",
            ![p].out = IF error THEN <<Reply("Line", FALSE)>> ELSE <<>>]
  /\ ProcessOnly /\ UNCHANGED <<pending, responses>>

\* The child is reaped and Done is sent; no cancellation is observed here.
SendDone(p) ==
  /\ proc[p].st = "ending" /\ proc[p].out = <<>> /\ Len(responses) < Capacity
  /\ responses' = Append(responses, [kind |-> "Done", flag |-> FALSE,
                                     topic |-> proc[p].chat, from |-> p])
  /\ proc' = [proc EXCEPT ![p].st = "reaped"]
  /\ ProcessOnly /\ UNCHANGED pending

\* Mutant: no PendingGuard.
FinishWithoutGuard(p) ==
  /\ proc[p].st \in {"killing", "reaped"} /\ proc[p].out = <<>>
  /\ proc' = [proc EXCEPT ![p] = NoProcess]
  /\ ProcessOnly /\ UNCHANGED <<pending, responses>>

\* The task returns.  PendingGuard's drop removes whatever mailbox is
\* registered under the chat id.
Finish(p) ==
  /\ proc[p].st \in {"killing", "reaped"} /\ proc[p].out = <<>>
  /\ proc' = [proc EXCEPT ![p] = NoProcess]
  /\ pending' = [pending EXCEPT ![proc[p].chat] = None]
  /\ ProcessOnly /\ UNCHANGED responses

-----------------------------------------------------------------------------
(* The control task: the prune-context call of an agent                    *)

\* The published session's live tasks are checked, unless the call is forced,
\* the transcript is scanned, and what matches is parked: an effect that may
\* land after the agent that called is already being killed.  A call that is
\* refused, or matches nothing, changes nothing.
PruneContext(p) ==
  /\ ~IsFinished(p)
  /\ pending_prunes' = pending_prunes \cup {proc[p].chat}
  /\ UNCHANGED <<resident, proc, agents, pending, live_sessions, responses,
                 agent_running, main, spoiled>>

-----------------------------------------------------------------------------
(* The main loop                                                           *)

\* Supervisor::spawn_agent, which overwrites the chat's entry.
Spawn(c, p) ==
  /\ Unused(p)
  /\ proc' = [proc EXCEPT ![p] = Spawned(c)]
  /\ agents' = [agents EXCEPT ![c] = p]
  /\ pending' = [pending EXCEPT ![c] = p]
  /\ live_sessions' = IF c \in resident THEN [live_sessions EXCEPT ![c] = p]
                                        ELSE live_sessions

NoSpawn == UNCHANGED <<proc, agents, pending, live_sessions>>

\* Mutant: no sync_live_sessions.
RemoveEntryOnly(c) ==
  /\ agents' = [agents EXCEPT ![c] = None]
  /\ UNCHANGED live_sessions

\* Supervisor::remove and the first half of abort_agent: the entry goes, and
\* sync_live_sessions drops the published session with it.
RemoveEntry(c) ==
  /\ agents' = [agents EXCEPT ![c] = None]
  /\ live_sessions' = [live_sessions EXCEPT ![c] = None]

\* abort_agent up to await_agent_exit.
BeginAbort(c, then) ==
  /\ agents[c] # None
  /\ RemoveEntry(c)
  /\ proc' = [proc EXCEPT ![agents[c]].cancel = TRUE]
  /\ main' = Aborting(c, agents[c], then)
  /\ UNCHANGED pending

\* A write of chats.agent_running; "late" marks one nothing will undo.
Write(c, value, late) ==
  /\ agent_running' = [agent_running EXCEPT ![c] = value]
  /\ spoiled' = [spoiled EXCEPT ![c] = late]

KeepColumn(c, late) ==
  /\ spoiled' = [spoiled EXCEPT ![c] = @ \/ late]
  /\ UNCHANGED agent_running

\* Mutant: every respawn clears the column after the abort.
ClearsOnRespawnAlways(c) == TRUE

\* An aborted resident sends no Done: its run state is cleared explicitly.
ClearsOnRespawn(c) == c \in resident

\* What follows the abort of a prune: the transcript is rewritten and the agent
\* respawned, unless its spawn parameters do not resolve.
RespawnPruned(c, late) ==
  /\ main' = Selecting
  /\ \/ (\E p \in Proc : Spawn(c, p)) /\ KeepColumn(c, late)
     \/ NoSpawn /\ KeepColumn(c, TRUE)

\* What follows abort_agent for each caller.
AfterAbort(c, then) ==
  \/ then = "prune" /\ RespawnPruned(c, FALSE)
  \/ then = "respawn" /\ NoSpawn /\ main' = Fetching(c, "respawn")
     /\ IF ClearsOnRespawn(c) THEN Write(c, FALSE, FALSE) ELSE KeepColumn(c, FALSE)
  \/ then = "stop" /\ NoSpawn /\ main' = Selecting /\ Write(c, FALSE, FALSE)
  \/ then = "idle" /\ NoSpawn /\ main' = Selecting /\ KeepColumn(c, FALSE)

\* Mutant: await_agent_exit without AGENT_EXIT_TIMEOUT.
EndAbortNoTimeout ==
  /\ main.at = "abort" /\ IsFinished(main.proc)
  /\ AfterAbort(main.chat, main.then)
  /\ UNCHANGED <<resident, pending_prunes, responses>>

\* await_agent_exit returns: the task has finished, or AGENT_EXIT_TIMEOUT.
EndAbort ==
  /\ main.at = "abort"
  /\ AfterAbort(main.chat, main.then)
  /\ UNCHANGED <<resident, pending_prunes, responses>>

\* handle_message_put for a /stop that passed the gates.
HandleStop(c) ==
  /\ main.at = "select"
  /\ \/ /\ IsRunning(c) /\ BeginAbort(c, "stop")
        /\ KeepColumn(c, FALSE)
     \/ /\ ~IsRunning(c) /\ c \notin resident
        /\ Write(c, FALSE, FALSE) /\ NoSpawn /\ UNCHANGED main
  /\ UNCHANGED <<resident, pending_prunes, responses>>

\* Mutant: a new message spawns without aborting the turn in flight.
HandleMessageNoAbort(c) ==
  /\ main.at = "select"
  /\ main' = Fetching(c, IF IsRunning(c) THEN "respawn" ELSE "start")
  /\ NoSpawn
  /\ UNCHANGED <<resident, pending_prunes, responses, agent_running, spoiled>>

\* handle_message_put for any other message that passed the gates, up to the
\* first thing it waits for: the agent's exit, or the message's attachments.
HandleMessage(c) ==
  /\ main.at = "select"
  /\ \/ IsRunning(c) /\ BeginAbort(c, "respawn") /\ KeepColumn(c, FALSE)
     \/ /\ ~IsRunning(c) /\ main' = Fetching(c, "start")
        /\ NoSpawn /\ UNCHANGED <<agent_running, spoiled>>
  /\ UNCHANGED <<resident, pending_prunes, responses>>

\* The rest of handle_message_put.  The attachments are there and the agent is
\* spawned, whatever the chat's agent has done since was_running was read; or
\* the message is given up: project not synced, attachment not downloaded.
EndFetch ==
  LET c == main.chat
      respawns == main.then = "respawn"
  IN  /\ main.at = "fetch" /\ main' = Selecting
      /\ \/ /\ \E p \in Proc : Spawn(c, p)
            /\ IF c \in resident \/ respawns THEN KeepColumn(c, FALSE)
                                            ELSE Write(c, TRUE, FALSE)
         \/ NoSpawn /\ KeepColumn(c, c \notin resident /\ respawns)
      /\ UNCHANGED <<resident, pending_prunes, responses>>

\* The response arm of the main loop takes the oldest response.
Receive(k) ==
  /\ main.at = "select" /\ responses # <<>> /\ Head(responses).kind = k
  /\ responses' = Tail(responses)
  /\ UNCHANGED resident

HandleLine ==
  /\ Receive("Line")
  /\ NoSpawn /\ UNCHANGED <<pending_prunes, agent_running, main, spoiled>>

\* apply_prune_group on a response of process p: abort, rewrite the transcript,
\* respawn.  It is late when the process that was to be pruned is gone.
ApplyPrune(c, p) ==
  LET late == agents[c] # p \/ IsFinished(p)
  IN  /\ pending_prunes' = pending_prunes \ {c}
      /\ \/ agents[c] = None /\ RespawnPruned(c, late)
         \/ BeginAbort(c, "prune") /\ KeepColumn(c, late)

HandleToolResult ==
  /\ Receive("ToolResult")
  /\ LET c == Head(responses).topic
     IN  IF c \in pending_prunes THEN ApplyPrune(c, Head(responses).from)
         ELSE NoSpawn /\ UNCHANGED <<pending_prunes, agent_running, main, spoiled>>

HandleBusy ==
  /\ Receive("RunState") /\ Head(responses).flag
  /\ LET c == Head(responses).topic
     IN  Write(c, TRUE, Head(responses).from # agents[c])
  /\ NoSpawn /\ UNCHANGED <<pending_prunes, main>>

\* The idle edge: a prune still parked is applied; otherwise the column is
\* cleared and the chat's agent, which should have nothing left to do, is torn
\* down.
HandleIdle ==
  /\ Receive("RunState") /\ ~Head(responses).flag
  /\ LET c == Head(responses).topic
     IN  \/ c \in pending_prunes /\ ApplyPrune(c, Head(responses).from)
         \/ /\ c \notin pending_prunes /\ UNCHANGED pending_prunes
            /\ Write(c, FALSE, FALSE)
            /\ IF agents[c] = None THEN NoSpawn /\ UNCHANGED main
                                   ELSE BeginAbort(c, "idle")

\* Mutant: Done removes the entry and leaves the column alone.
HandleDoneKeepColumn ==
  /\ Receive("Done")
  /\ pending_prunes' = pending_prunes \ {Head(responses).topic}
  /\ KeepColumn(Head(responses).topic, FALSE)
  /\ RemoveEntry(Head(responses).topic)
  /\ UNCHANGED <<proc, pending, main>>

\* Done clears the column and removes the chat's entry, whoever owns it.
HandleDone ==
  /\ Receive("Done")
  /\ LET c == Head(responses).topic
     IN  /\ pending_prunes' = pending_prunes \ {c}
         /\ Write(c, FALSE, FALSE)
         /\ RemoveEntry(c)
  /\ UNCHANGED <<proc, pending, main>>

-----------------------------------------------------------------------------
Init ==
  /\ resident \in SUBSET Chat
  /\ proc = [p \in Proc |-> NoProcess]
  /\ agents = [c \in Chat |-> None]
  /\ pending = [c \in Chat |-> None]
  /\ live_sessions = [c \in Chat |-> None]
  /\ pending_prunes = {}
  /\ responses = <<>>
  /\ agent_running = [c \in Chat |-> FALSE]
  /\ main = Selecting
  /\ spoiled = [c \in Chat |-> FALSE]

TaskStep(p) ==
  \/ Frame(p) \/ Result(p) \/ TaskStarted(p) \/ TaskFinished(p)
  \/ ReadOneShot(p) \/ Exit(p)
  \/ Send(p) \/ ObserveCancel(p) \/ SendDone(p) \/ Finish(p)
  \/ PruneContext(p)

Respond == HandleLine \/ HandleToolResult \/ HandleBusy \/ HandleIdle \/ HandleDone

Next ==
  \/ \E p \in Proc : TaskStep(p)
  \/ \E c \in Chat : HandleStop(c) \/ HandleMessage(c)
  \/ Respond
  \/ EndAbort \/ EndFetch

Spec == Init /\ [][Next]_vars

\* Tokio polls every ready task, and select! picks among ready arms at random:
\* an arm that is ready again and again is taken eventually.  An abort and a
\* fetch end by their timeouts if by nothing else.
Fairness ==
  /\ WF_vars(EndAbort) /\ WF_vars(EndFetch) /\ SF_vars(Respond)
  /\ \A p \in Proc : /\ SF_vars(ObserveCancel(p))
                     /\ SF_vars(Send(p) \/ SendDone(p) \/ Finish(p))

-----------------------------------------------------------------------------
(* Properties                                                              *)

TypeOK ==
  /\ resident \in SUBSET Chat
  /\ proc \in [Proc -> ProcRecord]
  /\ agents \in [Chat -> Proc \cup {None}]
  /\ pending \in [Chat -> Proc \cup {None}]
  /\ live_sessions \in [Chat -> Proc \cup {None}]
  /\ pending_prunes \in SUBSET Chat
  /\ responses \in Seq(Response) /\ Len(responses) <= Capacity
  /\ agent_running \in [Chat -> BOOLEAN]
  /\ main \in {Selecting} \cup {Aborting(c, p, t) : c \in Chat, p \in Proc, t \in Thens}
                         \cup {Fetching(c, t) : c \in Chat, t \in Starts}
  /\ spoiled \in [Chat -> BOOLEAN]

\* A process that may still be working and that neither the map nor the main
\* loop knows: two processes may then write one session, and no /stop reaches it.
Orphan(p) == Alive(p) /\ agents[proc[p].chat] # p /\ main.proc # p

\* The three steps that lose a process that may still be working: an abort that
\* times out; the spawn for a message that found the chat's resident idle when it
\* came, whatever the resident does by now; and a Done of another process of the
\* chat.
LosesTrack(p) ==
  \/ main.at = "abort" /\ main.proc = p /\ main'.at # "abort"
  \/ /\ main.at = "fetch" /\ main.then = "start" /\ main.chat = proc[p].chat
     /\ proc[p].chat \in resident /\ agents'[proc[p].chat] \notin {p, None}
  \/ /\ responses # <<>> /\ responses' = Tail(responses)
     /\ Head(responses).kind = "Done" /\ Head(responses).topic = proc[p].chat
     /\ Head(responses).from # p

\* A session has one process: nothing but those steps orphans one.
ExclusiveSession ==
  [][\A p \in Proc : Orphan(p)' /\ ~Orphan(p) => LosesTrack(p)]_vars

\* "The abort-then-respawn path already had agent_running=true": whenever a
\* one-shot agent is tracked and its task has not finished, the column says so,
\* which is what lets handle_message_put leave it alone on a respawn.  The
\* escape is a prune applied for a process that is no longer the tracked one.
OneShotColumn ==
  \A c \in Chat \ resident :
    agents[c] # None /\ ~IsFinished(agents[c]) => agent_running[c] \/ spoiled[c]

Quiet(c) ==
  /\ main.chat # c
  /\ \A p \in Proc : proc[p].chat # c
  /\ \A i \in 1..Len(responses) : responses[i].topic # c

\* No perpetual spinner: once every process of a chat is gone and its responses
\* are handled, agent_running is false.  The escapes: a busy edge handled after
\* its process was aborted, and a respawn given up after the abort.
IdleWhenQuiet ==
  \A c \in Chat : Quiet(c) /\ agent_running[c] => spoiled[c]

\* The control task's directory shows the FSM of the tracked process and of no
\* other: a prune request is never judged by the tasks of a dead session.
LiveSessionsTracked ==
  \A c \in Chat : live_sessions[c] # None => agents[c] = live_sessions[c]

\* attach-file fails loudly once the agent is gone: a registered mailbox always
\* belongs to a task that has not returned.
MailboxOwnerRuns ==
  \A c \in Chat : pending[c] # None => ~IsFinished(pending[c])

\* The idle edge is a real turn boundary: when a process has reported idle it
\* is not working and no background task of it is armed, until the main loop
\* has handled the report, so tearing it down loses nothing.
IdleEdgeMeansIdle ==
  \A i \in 1..Len(responses) :
    responses[i].kind = "RunState" /\ ~responses[i].flag =>
      ~proc[responses[i].from].working /\ ~SessionRunning(responses[i].from)

\* An agent that was aborted, or whose output ended, is gone in the end, though
\* its task cannot see the token while it waits for a slot of the channel and
\* the only reader of the channel is the main loop, which waits for the task.
EndingFinishes ==
  \A p \in Proc :
    Alive(p) /\ (proc[p].cancel \/ proc[p].st = "ending") ~> IsFinished(p)

=============================================================================
