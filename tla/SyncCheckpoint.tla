--------------------------- MODULE SyncCheckpoint ---------------------------
(***************************************************************************)
(* How rows of the backend become state of the spawner and turns of its    *)
(* agents: the PowerSync stream (powersync.rs), the staging of one         *)
(* checkpoint window and its application by the main loop (main.rs), the   *)
(* mirror and its file (state.rs, atomic.rs), over disconnections, crashes *)
(* and restarts.                                                           *)
(*                                                                         *)
(* The bucket's operation log is external: the server appends whole        *)
(* transactions to it and announces checkpoints at its end.  A row of the  *)
(* program is named by the position of the operation that carried it, so   *)
(* 0 is no row.  A chat's project has the chat's name.  An agent's own     *)
(* messages are not in the log, because the stage arm ignores them; what   *)
(* they do to chats.last_seq is.  A bucket that the server announces under  *)
(* a new name, as after a change of the sync rules, has the same log.      *)
(*                                                                         *)
(* served, answered, skipped and lost are history: which messages passed   *)
(* the replay guard since the boot and ever, and which were turned down by *)
(* the guard, or for want of their chat or project.                        *)
(***************************************************************************)
EXTENDS Naturals, Sequences

CONSTANTS
  Chat,        \* chat ids
  Capacity,    \* slots of the channel of sync events (256)
  MaxOps,      \* bound: operations in the log
  MaxCrashes,  \* bound: crashes and restarts
  MaxStartOvers \* bound: times the bucket is streamed from its beginning again

ASSUME SyncAssumption ==
  /\ Capacity \in Nat \ {0} /\ MaxOps \in Nat
  /\ MaxCrashes \in Nat /\ MaxStartOvers \in Nat

VARIABLES
  log,      \* the bucket
  target,   \* end of the checkpoint the server streams now, 0 if disconnected
  due,      \* whether its CheckpointComplete is still to come
  conn,     \* whether the stream is connected
  cursor,   \* the sync task's bucket cursor, in memory
  sent,     \* last operation of the current data frame handed to the channel
  frame,    \* end of the current data frame
  channel,  \* the SyncEvent channel
  main,     \* the main loop: selecting, handling a window's messages, saving
  staging,  \* SyncStaging
  snapshot, \* the cursor carried by the checkpoint being applied
  mirror,   \* Mirror: chats, projects, buckets; session: the chats with a session id
  disk,     \* state.json: projects and buckets, chats are not saved
  running,  \* chats an agent of this boot works for
  crashes,  \* crashes so far
  startOvers, \* times the bucket was started over so far
  again,    \* whether it was since the boot
  served, answered, skipped, lost

server == <<log, target, due, conn>>
position == <<cursor, sent, frame>>
stream == <<position, startOvers, again>>
history == <<served, answered, skipped, lost>>
vars == <<server, stream, channel, main, staging, snapshot, mirror, disk,
          running, crashes, history>>

NoRows == [c \in Chat |-> 0]
EmptyStaging == [chats |-> NoRows, projects |-> NoRows, messages |-> <<>>]

-----------------------------------------------------------------------------
(* The bucket                                                              *)

Tables == {"chats", "projects", "messages", "machine_users"}

Op(table, op, c, seq, session) ==
  [table |-> table, op |-> op, chat |-> c, seq |-> seq, session |-> session]
Ops == [table : Tables, op : {"PUT", "REMOVE"}, chat : Chat, seq : Nat, session : BOOLEAN]

Touching(table, c, k) == {i \in 1..k : log[i].table = table /\ log[i].chat = c}

\* The position of the row the first k operations leave, 0 if none.
Newest(table, c, k) ==
  IF \E i \in Touching(table, c, k) :
       log[i].op = "PUT" /\ \A j \in Touching(table, c, k) : j <= i
  THEN CHOOSE i \in Touching(table, c, k) : \A j \in Touching(table, c, k) : j <= i
  ELSE 0

Exists(c) == Newest("chats", c, Len(log)) # 0
Latest(c) == log[Newest("chats", c, Len(log))]

Message(c, seq) == Op("messages", "PUT", c, seq, FALSE)
PutChat(c, seq, session) == Op("chats", "PUT", c, seq, session)
PutProject(c) == Op("projects", "PUT", c, 0, FALSE)
Remove(table, c) == Op(table, "REMOVE", c, 0, FALSE)

\* Every update of a row moves its slot: a REMOVE, then a PUT.
MoveChat(c, seq, session) == <<Remove("chats", c), PutChat(c, seq, session)>>

Commit(txn) ==
  /\ Len(log) + Len(txn) <= MaxOps
  /\ log' = log \o txn
  /\ UNCHANGED <<target, due, conn, stream, channel, main, staging, snapshot,
                 mirror, disk, running, crashes, history>>

NewChat(c) ==
  /\ Touching("chats", c, Len(log)) = {}
  /\ Commit(<<Message(c, 1), PutChat(c, 1, FALSE), PutProject(c)>>)

UserMessage(c) ==
  /\ Exists(c)
  /\ LET seq == Latest(c).seq + 1
     IN  Commit(<<Message(c, seq)>> \o MoveChat(c, seq, Latest(c).session))

DeleteChat(c) == Exists(c) /\ Commit(<<Remove("chats", c)>>)

MoveProject(c) == Exists(c) /\ Commit(<<Remove("projects", c), PutProject(c)>>)

MemberRow(c) == Exists(c) /\ Commit(<<Op("machine_users", "PUT", c, 0, FALSE)>>)

\* A line of an agent reaches the backend: send_agent_line drops it when the
\* mirror has no such chat.
AgentLine(c) ==
  /\ c \in running /\ mirror.chats[c] # 0 /\ Exists(c)
  /\ Commit(MoveChat(c, Latest(c).seq + 1, Latest(c).session))

\* The session id the main loop harvested reaches the backend.
SessionWritten(c) ==
  /\ c \in mirror.session /\ Exists(c) /\ ~Latest(c).session
  /\ Commit(MoveChat(c, Latest(c).seq, TRUE))

-----------------------------------------------------------------------------
(* The sync task                                                           *)

SyncOnly == UNCHANGED <<log, main, staging, snapshot, mirror, disk, running,
                        crashes, history>>

\* Mutant: the request names the cursor that was saved last.
ConnectSavedCursor ==
  /\ ~conn /\ conn' = TRUE
  /\ target' = Len(log) /\ due' = TRUE
  /\ cursor' = disk.buckets /\ sent' = disk.buckets /\ frame' = disk.buckets
  /\ UNCHANGED <<channel, startOvers, again>> /\ SyncOnly

\* Mutant: a new stream begins with an empty window.
ConnectNewWindow ==
  /\ ~conn /\ conn' = TRUE
  /\ target' = Len(log) /\ due' = TRUE
  /\ staging' = EmptyStaging
  /\ UNCHANGED <<stream, channel, log, main, snapshot, mirror, disk, running,
                 crashes, history>>

\* The bucket of a checkpoint has the name the sync task knows, so its cursor is
\* retained; or it has a new one, which the task, or the state file it began
\* with, does not know, and is streamed from its beginning.
Retained == UNCHANGED stream

StartedOver ==
  /\ cursor > 0 /\ startOvers < MaxStartOvers
  /\ startOvers' = startOvers + 1 /\ again' = TRUE
  /\ cursor' = 0 /\ sent' = 0 /\ frame' = 0

\* connect_and_stream: the request names the in-memory cursor, the server
\* answers with a checkpoint.
Connect ==
  /\ ~conn /\ conn' = TRUE
  /\ target' = Len(log) /\ due' = TRUE
  /\ Retained \/ StartedOver
  /\ UNCHANGED channel /\ SyncOnly

\* End of stream, error, wake, idle timeout or token refresh, all of them seen
\* between two frames only.
Disconnect ==
  /\ conn /\ sent = frame
  /\ conn' = FALSE /\ due' = FALSE /\ target' = 0
  /\ UNCHANGED <<stream, channel>> /\ SyncOnly

\* checkpoint_diff: the server has more, or the bucket under another name, whether
\* or not the last checkpoint is complete.
CheckpointDiff ==
  /\ conn /\ sent = frame
  /\ target' = Len(log) /\ due' = TRUE
  /\ (target < Len(log) /\ Retained) \/ StartedOver
  /\ UNCHANGED <<conn, channel>> /\ SyncOnly

\* A data frame arrives; it ends anywhere.
DataFrame ==
  /\ conn /\ sent = frame /\ frame < target
  /\ frame' \in frame + 1 .. target
  /\ UNCHANGED <<target, due, conn, cursor, sent, channel, startOvers, again>> /\ SyncOnly

\* Mutant: a channel without a bound.
SendRowUnbounded ==
  /\ sent < frame
  /\ channel' = Append(channel, [kind |-> "row", at |-> sent + 1])
  /\ sent' = sent + 1
  /\ cursor' = IF sent + 1 = frame THEN frame ELSE cursor
  /\ UNCHANGED <<target, due, conn, frame, startOvers, again>> /\ SyncOnly

\* The next row of the frame gets a slot of the channel; the cursor moves when
\* the whole frame is through.
SendRow ==
  /\ sent < frame /\ Len(channel) < Capacity
  /\ channel' = Append(channel, [kind |-> "row", at |-> sent + 1])
  /\ sent' = sent + 1
  /\ cursor' = IF sent + 1 = frame THEN frame ELSE cursor
  /\ UNCHANGED <<target, due, conn, frame, startOvers, again>> /\ SyncOnly

\* CheckpointComplete, with a snapshot of the cursor.
SendComplete ==
  /\ conn /\ due /\ sent = frame /\ frame = target /\ Len(channel) < Capacity
  /\ channel' = Append(channel, [kind |-> "complete", at |-> cursor])
  /\ due' = FALSE
  /\ UNCHANGED <<target, conn, stream>> /\ SyncOnly

-----------------------------------------------------------------------------
(* The main loop                                                           *)

MainOnly == UNCHANGED <<server, stream, crashes>>

Receive(kind) ==
  /\ main = "select" /\ channel # <<>> /\ Head(channel).kind = kind
  /\ channel' = Tail(channel)

\* Mutant: the first operation of a window is kept.
StageFirst(table, i) ==
  staging' = IF table = "messages"
             THEN [staging EXCEPT !.messages = Append(@, i)]
             ELSE [staging EXCEPT ![table][log[i].chat] = IF @ = 0 THEN i ELSE @]

\* The last operation of each chat and project is kept, and every message.
Stage(table, i) ==
  staging' = IF table = "messages"
             THEN [staging EXCEPT !.messages = Append(@, i)]
             ELSE [staging EXCEPT ![table][log[i].chat] = i]

\* Mutant: a REMOVE evicts the chat as it arrives.
StageRowEvicting ==
  /\ Receive("row")
  /\ LET i == Head(channel).at
     IN  IF log[i].op = "REMOVE" /\ log[i].table = "chats"
         THEN /\ mirror' = [mirror EXCEPT !.chats[log[i].chat] = 0]
              /\ UNCHANGED <<main, staging>>
         ELSE IF log[i].table = "machine_users"
         THEN main' \in {"select", "save"} /\ UNCHANGED <<staging, mirror>>
         ELSE Stage(log[i].table, i) /\ UNCHANGED <<main, mirror>>
  /\ UNCHANGED <<snapshot, disk, running, history>> /\ MainOnly

\* Mutant: a project is stored as it arrives.
StageRowDirect ==
  /\ Receive("row")
  /\ LET i == Head(channel).at
     IN  IF log[i].table = "projects"
         THEN /\ mirror' = [mirror EXCEPT
                   !.projects[log[i].chat] = IF log[i].op = "PUT" THEN i ELSE 0]
              /\ UNCHANGED <<main, staging>>
         ELSE IF log[i].table = "machine_users"
         THEN main' \in {"select", "save"} /\ UNCHANGED <<staging, mirror>>
         ELSE Stage(log[i].table, i) /\ UNCHANGED <<main, mirror>>
  /\ UNCHANGED <<snapshot, disk, running, history>> /\ MainOnly

\* A row is staged.  One of machine_users is applied at once, and when it changes
\* a member the mirror is saved with the cursor it has.
StageRow ==
  /\ Receive("row")
  /\ LET i == Head(channel).at
     IN  IF log[i].table = "machine_users"
         THEN main' \in {"select", "save"} /\ UNCHANGED staging
         ELSE Stage(log[i].table, i) /\ UNCHANGED main
  /\ UNCHANGED <<snapshot, mirror, disk, running, history>> /\ MainOnly

\* What a table of the mirror is after its staged rows are applied.
Applied(rows, staged) ==
  [c \in Chat |-> IF staged[c] = 0 THEN rows[c]
                  ELSE IF log[staged[c]].op = "PUT" THEN staged[c] ELSE 0]

\* Mutant: a chat's session id is that of its row.
ApplyCheckpointVerbatim ==
  /\ Receive("complete")
  /\ LET chats == Applied(mirror.chats, staging.chats)
     IN  mirror' = [mirror EXCEPT
           !.projects = Applied(@, staging.projects), !.chats = chats,
           !.session = {c \in Chat :
             chats[c] # 0 /\ IF staging.chats[c] = 0 THEN c \in @ ELSE log[chats[c]].session}]
  /\ snapshot' = Head(channel).at
  /\ staging' = [EmptyStaging EXCEPT !.messages = staging.messages]
  /\ main' = "messages"
  /\ UNCHANGED <<disk, running, history>> /\ MainOnly

\* Mutant: the cursor is saved before the window's messages are handled.
ApplyCheckpointSaving ==
  /\ Receive("complete")
  /\ LET chats == Applied(mirror.chats, staging.chats)
     IN  mirror' = [mirror EXCEPT
           !.projects = Applied(@, staging.projects), !.chats = chats,
           !.session = {c \in Chat : chats[c] # 0 /\ (c \in @ \/ log[chats[c]].session)}]
  /\ disk' = [projects |-> mirror'.projects, buckets |-> Head(channel).at]
  /\ snapshot' = Head(channel).at
  /\ staging' = [EmptyStaging EXCEPT !.messages = staging.messages]
  /\ main' = "messages"
  /\ UNCHANGED <<running, history>> /\ MainOnly

\* CheckpointComplete: projects, then chats, are applied; a chat that has a
\* session id keeps it over a row without one.
ApplyCheckpoint ==
  /\ Receive("complete")
  /\ LET chats == Applied(mirror.chats, staging.chats)
     IN  mirror' = [mirror EXCEPT
           !.projects = Applied(@, staging.projects), !.chats = chats,
           !.session = {c \in Chat : chats[c] # 0 /\ (c \in @ \/ log[chats[c]].session)}]
  /\ snapshot' = Head(channel).at
  /\ staging' = [EmptyStaging EXCEPT !.messages = staging.messages]
  /\ main' = "messages"
  /\ UNCHANGED <<disk, running, history>> /\ MainOnly

\* The next deferred message.
NextMessage ==
  /\ main = "messages" /\ staging.messages # <<>>
  /\ staging' = [staging EXCEPT !.messages = Tail(@)]
  /\ UNCHANGED <<channel, main, snapshot, mirror, disk>> /\ MainOnly

Orphaned(i) == mirror.chats[log[i].chat] = 0

\* Mutant: no replay guard.
ReplayedNever(i) == FALSE

\* seq < chats.last_seq.
Replayed(i) == ~Orphaned(i) /\ log[i].seq < log[mirror.chats[log[i].chat]].seq

\* handle_message_put: no chat row, or no project.
LoseMessage ==
  /\ NextMessage
  /\ LET i == Head(staging.messages)
     IN  /\ Orphaned(i) \/ (~Replayed(i) /\ mirror.projects[log[i].chat] = 0)
         /\ lost' = lost \cup {i}
  /\ UNCHANGED <<running, served, answered, skipped>>

\* The replay guard.
SkipMessage ==
  /\ NextMessage
  /\ LET i == Head(staging.messages)
     IN  Replayed(i) /\ skipped' = skipped \cup {i}
  /\ UNCHANGED <<running, served, answered, lost>>

\* The message is acted on, unless the gates for key, envelope, membership and
\* attachments refuse it.
ServeMessage ==
  /\ NextMessage
  /\ LET i == Head(staging.messages)
     IN  /\ ~Orphaned(i) /\ ~Replayed(i) /\ mirror.projects[log[i].chat] # 0
         /\ served' = Append(served, i) /\ answered' = answered \cup {i}
         /\ running' \in {running, running \cup {log[i].chat}}
  /\ UNCHANGED <<skipped, lost>>

\* The window is applied; its cursor becomes the mirror's.
FinishCheckpoint ==
  /\ main = "messages" /\ staging.messages = <<>>
  /\ mirror' = [mirror EXCEPT !.buckets = snapshot]
  /\ main' = "save"
  /\ UNCHANGED <<channel, staging, snapshot, disk, running, history>> /\ MainOnly

\* save_mirror: the file is replaced, or the save fails with a warning.
Save ==
  /\ main = "save" /\ main' = "select"
  /\ disk' \in {disk, [projects |-> mirror.projects, buckets |-> mirror.buckets]}
  /\ UNCHANGED <<channel, staging, snapshot, mirror, running, history>> /\ MainOnly

\* SessionIdHarvested, from an agent of the chat.
Harvest(c) ==
  /\ main = "select" /\ c \in running /\ mirror.chats[c] # 0
  /\ mirror' = [mirror EXCEPT !.session = @ \cup {c}]
  /\ UNCHANGED <<channel, main, staging, snapshot, disk, running, history>> /\ MainOnly

-----------------------------------------------------------------------------
(* Start and restart                                                       *)

Fresh == [projects |-> NoRows, buckets |-> 0]
\* Mutant: projects are not saved either.
LoadedCursor(file) ==
  [chats |-> NoRows, projects |-> NoRows, session |-> {}, buckets |-> file.buckets]

\* Mirror::load: chats and their sessions are not in the file.
Loaded(file) ==
  [chats |-> NoRows, projects |-> file.projects, session |-> {}, buckets |-> file.buckets]

\* A crash or a shutdown, and the next start.  A state file that cannot be read
\* starts afresh.
Restart ==
  /\ crashes < MaxCrashes /\ crashes' = crashes + 1
  /\ disk' \in {disk, Fresh}
  /\ mirror' = Loaded(disk')
  /\ cursor' = disk'.buckets /\ sent' = disk'.buckets /\ frame' = disk'.buckets
  /\ conn' = FALSE /\ due' = FALSE /\ target' = 0 /\ channel' = <<>>
  /\ main' = "select" /\ staging' = EmptyStaging /\ snapshot' = 0
  /\ running' = {} /\ served' = <<>> /\ again' = FALSE
  /\ UNCHANGED <<log, startOvers, answered, skipped, lost>>

Init ==
  /\ log = <<>> /\ target = 0 /\ due = FALSE /\ conn = FALSE
  /\ cursor = 0 /\ sent = 0 /\ frame = 0 /\ channel = <<>>
  /\ main = "select" /\ staging = EmptyStaging /\ snapshot = 0
  /\ disk = Fresh /\ mirror = Loaded(Fresh)
  /\ running = {} /\ crashes = 0 /\ startOvers = 0 /\ again = FALSE
  /\ served = <<>> /\ answered = {} /\ skipped = {} /\ lost = {}

Backend ==
  \E c \in Chat : \/ NewChat(c) \/ UserMessage(c) \/ DeleteChat(c)
                  \/ MoveProject(c) \/ MemberRow(c)
                  \/ AgentLine(c) \/ SessionWritten(c)

MainLoop ==
  \/ StageRow \/ ApplyCheckpoint
  \/ LoseMessage \/ SkipMessage \/ ServeMessage
  \/ FinishCheckpoint \/ Save

Next ==
  \/ Backend
  \/ Connect \/ Disconnect \/ CheckpointDiff \/ DataFrame \/ SendRow \/ SendComplete
  \/ MainLoop \/ \E c \in Chat : Harvest(c)
  \/ Restart

Spec == Init /\ [][Next]_vars

\* The main loop and the sync task run when they can, a lost connection is
\* opened again, and not every connection is lost before its next frame.
FairSpec ==
  /\ Spec
  /\ WF_vars(MainLoop) /\ WF_vars(Connect \/ SendRow)
  /\ SF_vars(CheckpointDiff \/ DataFrame \/ SendComplete)

-----------------------------------------------------------------------------
(* Properties                                                              *)

Event == [kind : {"row", "complete"}, at : Nat]
Rows == [Chat -> Nat]

TypeOK ==
  /\ log \in Seq(Ops) /\ target \in Nat /\ due \in BOOLEAN /\ conn \in BOOLEAN
  /\ cursor \in Nat /\ sent \in Nat /\ frame \in Nat
  /\ channel \in Seq(Event) /\ Len(channel) <= Capacity
  /\ main \in {"select", "messages", "save"}
  /\ staging \in [chats : Rows, projects : Rows, messages : Seq(Nat)]
  /\ snapshot \in Nat
  /\ mirror \in [chats : Rows, projects : Rows, session : SUBSET Chat, buckets : Nat]
  /\ disk \in [projects : Rows, buckets : Nat]
  /\ running \in SUBSET Chat /\ crashes \in Nat
  /\ startOvers \in Nat /\ again \in BOOLEAN
  /\ served \in Seq(Nat) /\ answered \in SUBSET Nat
  /\ skipped \in SUBSET Nat /\ lost \in SUBSET Nat

Disposed == answered \cup skipped \cup lost
Messages(k) == {i \in 1..k : log[i].table = "messages"}

\* No message is lost in a crash: whatever the saved cursor is past has been
\* looked at, so nothing that is not streamed again needed to be.
CursorCovers == Messages(disk.buckets) \subseteq Disposed

\* Between two boots the messages of a chat are acted on in order, and none of
\* them twice, however often the stream is reopened; but once the bucket was
\* started over, the message acted on last, if nothing newer is in its chat, is
\* acted on again.
ServedInOrder ==
  \A j \in 1..Len(served) : \A i \in 1..j - 1 :
    log[served[i]].chat = log[served[j]].chat =>
      \/ log[served[i]].seq < log[served[j]].seq
      \/ served[i] = served[j] /\ again

\* A message acted on before a restart is acted on again only if nothing newer,
\* such as a line of the answer, was in the chat when the checkpoint was taken.
AnsweredNotRepeated ==
  [][\A i \in answered : served' = Append(served, i) =>
       log[i].seq = log[Newest("chats", log[i].chat, snapshot)].seq]_vars

\* Between two events the mirror is what the prefix of the bucket up to its
\* cursor leaves; a chat may be missing after a restart.
MirrorIsPrefix ==
  main = "select" => \A c \in Chat :
    /\ mirror.projects[c] = Newest("projects", c, mirror.buckets)
    /\ mirror.chats[c] \in {0, Newest("chats", c, mirror.buckets)}

\* What is saved agrees with the cursor saved with it, also when a membership
\* row has the mirror saved in the middle of a window.
SavedIsPrefix ==
  \A c \in Chat : disk.projects[c] = Newest("projects", c, disk.buckets)

\* A message whose chat still exists finds its chat and its project, also after
\* a restart, when chats are known only as far as they are streamed again.
NoOrphanMessage ==
  \A i \in lost : ~Exists(log[i].chat)

\* A chat leaves the mirror only because it was deleted, or in a restart: a
\* transient REMOVE never evicts it in the middle of a turn.
NeverEvicted ==
  [][\A c \in Chat : mirror.chats[c] # 0 /\ mirror'.chats[c] = 0 =>
       ~Exists(c) \/ crashes' # crashes]_vars

\* A chat the mirror knows with a session keeps it, though the backend may send
\* its row again from before the session was written.
SessionKept ==
  [][\A c \in mirror.session \ mirror'.session : mirror'.chats[c] = 0]_vars

\* Every user message is looked at in the end, over lost connections, restarts
\* and saves that fail: there is always a later moment with none left over.
EveryMessageHandled == []<>(Messages(Len(log)) \subseteq Disposed)

=============================================================================
