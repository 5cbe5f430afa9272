--------------------------- MODULE HistoryImport ---------------------------
(***************************************************************************)
(* The import of a machine's history, from the user's tap to the last row: *)
(* the column the app and the spawner share (claude_history_import_status),*)
(* the main loop that starts and aborts the task (main.rs), the task that  *)
(* walks the histories kind after kind (run_history_import), the writer's  *)
(* bounded channel between it and the backend.                             *)
(*                                                                         *)
(* The app and the backend are external: the column moves along its state  *)
(* machine only, a message needs its chat and a chat its project, and a    *)
(* second message of one id is ignored (writer.rs, PutMessage).            *)
(***************************************************************************)
EXTENDS Histories

CONSTANTS
  Kinds,         \* the kinds with a history in this instance
  Mixed,         \* those whose entries may both say and call something
  MaxShapes,     \* bound: entries of a session, more or less
  MaxRequests,   \* bound: requests of the user
  Cap            \* capacity of the writer's channel

ASSUME ImportAssumption ==
  /\ Kinds \cup Mixed \subseteq ToSet(ALL)
  /\ {MaxShapes, MaxRequests, Cap} \subseteq Nat \ {0}

VARIABLES
  history,    \* per kind: is its history there, can it be read, the sessions
  csv,        \* claude_history_import_kinds
  column,     \* claude_history_import_status
  requests,   \* requests so far
  stream,     \* values of the column on their way to the spawner
  seen,       \* the last one in the mirror
  runs,       \* the import tasks spawned
  handle,     \* import_task: the run it holds, or 0
  channel,    \* the writer's channel
  db          \* the rows of the backend

app == <<column, requests, stream>>
vars == <<history, csv, app, seen, runs, handle, channel, db>>

-----------------------------------------------------------------------------
(* Histories (external)                                                    *)

Shapes == {"ask", "answer", "call", "both", "noise"}

\* What a shape of number n lets the user see.
SaidBy(shape, n) ==
  CASE shape = "ask"    -> <<<<"user", n>>>>
    [] shape = "answer" -> <<<<"text", n>>>>
    [] shape = "call"   -> <<<<"tool", n>>>>
    [] shape = "both"   -> <<<<"text", n>>, <<"tool", n>>>>
    [] OTHER            -> <<>>

Entry(ty, n, say) == [ty |-> ty, id |-> n, at |-> n, dated |-> TRUE, side |-> FALSE, say |-> say]

\* claude: besides, what a subagent said, thoughts, and lines in the user's name.
ClaudeEntries(shape, n, say) ==
  CASE shape = "ask"   -> <<Entry("user", n, say)>>
    [] shape = "noise" -> <<[Entry("assistant", n, <<<<"text", n>>>>) EXCEPT !.side = TRUE],
                            Entry("assistant", n, <<<<"thinking", n>>>>),
                            Entry("user", n, <<<<"synthetic", n>>>>), Entry("meta", n, <<<<"user", n>>>>)>>
    [] OTHER           -> <<Entry("assistant", n, say), Entry("user", n, <<<<"result", n>>>>)>>

\* codex: everything said is an item, and an event too unless "quiet".
CodexEntries(shape, n, say, quiet) ==
  LET Said(ty) == <<Entry("message", n, say)>> \o IF quiet THEN <<>> ELSE <<Entry(ty, n, say)>>
  IN  CASE shape = "ask"    -> <<Entry("message", n, <<<<"synthetic", n>>>>)>> \o Said("user_message")
        [] shape = "answer" -> Said("agent_message")
        [] shape = "call"   -> <<Entry("function_call", n, say), Entry("function_call_output", n, <<<<"result", n>>>>)>>
        [] OTHER            -> <<Entry("reasoning", n, <<<<"thinking", n>>>>)>>

\* gemini: a record with calls was first written without them.
GeminiEntries(shape, n, say) ==
  CASE shape = "ask"   -> <<Entry("user", n, say)>>
    [] shape = "noise" -> <<Entry("user", n, <<<<"result", n>>>>), Entry("user", n, <<<<"synthetic", n>>>>),
                            Entry("$set", n, <<<<"text", n>>>>), Entry("gemini", n, <<<<"meta", n>>>>)>>
    [] OTHER           -> <<Entry("gemini", n, Blocks(say, {"text"})), Entry("gemini", n, say),
                            Entry("user", n, <<<<"result", n>>>>)>>

PiEntries(shape, n, say) ==
  CASE shape = "ask"   -> <<Entry("user", n, say)>>
    [] shape = "noise" -> <<Entry("assistant", n, <<<<"thinking", n>>>>), Entry("other", n, <<<<"text", n>>>>),
                            Entry("user", n, <<<<"synthetic", n>>>>)>>
    [] OTHER           -> <<Entry("assistant", n, <<<<"thinking", n>>>> \o say),
                            Entry("toolResult", n, <<<<"result", n>>>>)>>

CursorEntries(shape, n, say) ==
  CASE shape = "ask"   -> <<Entry("user", n, say)>>
    [] shape = "noise" -> <<Entry("assistant", n, <<<<"thinking", n>>>>), Entry("missing", n, <<<<"text", n>>>>)>>
    [] OTHER           -> <<Entry("assistant", n, say)>>

EntriesOf(k, shape, n, quiet) ==
  LET say == SaidBy(shape, n)
  IN  CASE k = "claude" -> ClaudeEntries(shape, n, say)
        [] k = "codex"  -> CodexEntries(shape, n, say, quiet)
        [] k = "gemini" -> GeminiEntries(shape, n, say)
        [] k = "pi"     -> PiEntries(shape, n, say)
        [] k = "cursor" -> CursorEntries(shape, n, say)

Session(k, chat, path, fit, shapes, quiet) ==
  LET n == 10 * chat
  IN  [chat |-> chat, path |-> path, fit |-> fit,
       entries |-> FlattenSeq([i \in 1..Len(shapes) |-> EntriesOf(k, shapes[i], n + i, quiet)]),
       said |-> FlattenSeq([i \in 1..Len(shapes) |-> SaidBy(shapes[i], n + i)])]

\* A session that claude resumed, under an id of its own: the entries of the
\* other one again, and more.  Its transcript shows all of it.
Resumed(s, own) == [own EXCEPT !.entries = s.entries \o @, !.said = s.said \o @]

\* A file in which gemini goes on under the other one's id: a snapshot, perhaps
\* the records again, and more.
Forked(s, own, again) ==
  LET copied == IF again THEN s ELSE [entries |-> <<>>, said |-> <<>>]
  IN  [own EXCEPT !.chat = s.chat, !.said = copied.said \o @,
                  !.entries = <<Entry("$set", s.chat, s.said)>> \o copied.entries \o @]

\* claude's files are sorted by their random names, gemini's by time.
\* Bound: a session that goes on has one entry or shape of entries.
Continued(k, s) ==
  LET own == Session(k, 2, s.path, "ok", <<"ask">>, FALSE)
  IN  CASE k = "claude" -> {<<s, Resumed(s, own)>>, <<Resumed(s, own), s>>}
        [] k = "gemini" -> {<<s, Forked(s, own, again)>> : again \in BOOLEAN}
        [] OTHER        -> {}

\* Bound: a second session is short, and has at most one thing the matter.
Seconds(k, s) ==
  {<<s, Session(k, 2, p, "ok", <<"ask">>, FALSE)>> : p \in {NoPath, 1, 2, Worktree}}
  \cup {<<s, Session(k, 2, 1, fit, <<"ask">>, FALSE)>> : fit \in {"broken", "hidden"}}

ShapesOf(k) == IF k \in Mixed THEN Shapes ELSE Shapes \ {"both"}

Absent == [at |-> "absent", sessions |-> <<>>]

\* Bound: one kind has a history worth the name; another has none, or one that
\* cannot be read.  Either the first session's entries vary, or all around them.
Init ==
  /\ \E k \in Kinds, shapes \in BoundedSeq(Shapes, MaxShapes), quiet, plain \in BOOLEAN, p \in {1, 2} :
       LET s == Session(k, 1, p, "ok", shapes, quiet) IN
       /\ ToSet(shapes) \subseteq ShapesOf(k) /\ (quiet => k = "codex")
       /\ IF plain THEN shapes = <<"ask">> /\ ~quiet ELSE p = 1
       /\ \E found \in {<<s>>} \cup (IF plain THEN Seconds(k, s) ELSE {})
                      \cup (IF Len(shapes) = 1 /\ p = 1 THEN Continued(k, s) ELSE {}),
             other \in {"absent", "fails"} :
            /\ other = "absent" \/ (plain /\ found \notin Continued(k, s))
            /\ history = [j \in ToSet(ALL) |->
                 CASE j = k -> [at |-> "there", sessions |-> found]
                   [] j \in {"cursor", "pi"} -> [Absent EXCEPT !.at = other] [] OTHER -> Absent]
            /\ csv \in IF other = "absent" THEN {<<k>>}
                       ELSE {<<"pi", "unknown", k, k>>, <<"cursor">>, <<"unknown">>}
  /\ column = [at |-> "not_started", n |-> 0] /\ requests = 0 /\ stream = <<>>
  /\ seen = "not_started" /\ runs = <<>> /\ handle = 0
  /\ channel = <<>> /\ db = [projects |-> {}, chats |-> {}, rows |-> <<>>]

-----------------------------------------------------------------------------
(* The app (external)                                                      *)

Becomes(at, n) ==
  /\ column' = [at |-> at, n |-> n]
  /\ stream' = IF at = column.at THEN stream ELSE Append(stream, at)

\* The user asks for an import; one that was aborted can be asked for again.
AskImport ==
  /\ column.at \in {"not_started", "aborted"} /\ requests < MaxRequests
  /\ requests' = requests + 1
  /\ column' = [at |-> "requested", n |-> 0]
  /\ stream' = stream \o (IF column.at = "aborted" THEN <<"not_started">> ELSE <<>>) \o <<"requested">>
  /\ UNCHANGED <<history, csv, seen, runs, handle, channel, db>>

AskAbort ==
  /\ column.at = "running"
  /\ Becomes("aborted", 0)
  /\ UNCHANGED <<history, csv, requests, seen, runs, handle, channel, db>>

-----------------------------------------------------------------------------
(* The main loop                                                           *)

\* parsed_import_kinds: the known kinds, once each; all, if there is none.
ParsedKinds(list) ==
  LET known == FoldLeft(LAMBDA acc, k : IF k \in ToSet(ALL) \ ToSet(acc) THEN Append(acc, k) ELSE acc,
                        <<>>, list)
  IN  IF known = <<>> THEN ALL ELSE known

Selected == ParsedKinds(csv)

NewRun == [at |-> "start", kinds |-> Selected, next |-> 1, todo |-> <<>>, bar |-> 0, ok |-> 0,
           aborted |-> FALSE]

Aborting(r, rs) == IF r = 0 THEN rs ELSE [rs EXCEPT ![r].aborted = TRUE]

\* The machines row: only a status unlike the last is acted on.
HandleStatus ==
  /\ stream # <<>>
  /\ stream' = Tail(stream)
  /\ seen' = Head(stream)
  /\ CASE seen' # seen /\ seen' = "requested" ->
            runs' = Append(Aborting(handle, runs), NewRun) /\ handle' = Len(runs) + 1
       [] seen' # seen /\ seen' = "aborted" -> runs' = Aborting(handle, runs) /\ handle' = 0
       [] OTHER -> UNCHANGED <<runs, handle>>
  /\ UNCHANGED <<history, csv, column, requests, channel, db>>

-----------------------------------------------------------------------------
(* run_history_import                                                      *)

Status(at, n) == [ev |-> "status", at |-> at, n |-> n]

\* Mutant: try_send.
SendsOrDrops(r, event, run) ==
  /\ channel' = IF Len(channel) < Cap THEN Append(channel, event) ELSE channel
  /\ runs' = [runs EXCEPT ![r] = run]

\* Every send waits for room in the channel.
Sends(r, event, run) ==
  /\ Len(channel) < Cap
  /\ channel' = Append(channel, event)
  /\ runs' = [runs EXCEPT ![r] = run]

Begin(r) ==
  /\ runs[r].at = "start"
  /\ Sends(r, Status("running", 0), [runs[r] EXCEPT !.at = "kinds"])

\* The next kind: its history is read, or that fails and is passed over.
NextKind(r) ==
  /\ runs[r].at = "kinds" /\ runs[r].todo = <<>> /\ runs[r].next <= Len(runs[r].kinds)
  /\ LET k == runs[r].kinds[runs[r].next]
         works == history[k].at # "fails" IN
       runs' = [runs EXCEPT ![r].next = @ + 1, ![r].ok = IF works THEN @ + 1 ELSE @,
                            ![r].todo = IF works THEN Import(k, history[k].sessions) ELSE <<>>]
  /\ UNCHANGED channel

\* The progress of a kind, as its slice of one bar that stops at 99.
Scaled(run, pct) ==
  LET n == Len(run.kinds)
      scaled == ((run.next - 2) * 100 + pct) \div n
  IN  IF scaled > 99 THEN 99 ELSE scaled

\* What the importer sends next; a bar that stays is not sent again.
Step(r) ==
  /\ runs[r].todo # <<>>
  /\ LET event == Head(runs[r].todo)
         rest == [runs[r] EXCEPT !.todo = Tail(@)]
         scaled == Scaled(runs[r], event.pct) IN
     \/ event.ev \in {"project", "chat", "message"} /\ Sends(r, event, rest)
     \/ /\ event.ev = "progress" /\ scaled # runs[r].bar
        /\ Sends(r, Status("running", scaled), [rest EXCEPT !.bar = scaled])
     \/ /\ event.ev = "progress" /\ scaled = runs[r].bar
        /\ runs' = [runs EXCEPT ![r] = rest] /\ UNCHANGED channel

\* "finished" if any kind could be read.
Finish(r) ==
  /\ runs[r].at = "kinds" /\ runs[r].todo = <<>> /\ runs[r].next > Len(runs[r].kinds)
  /\ IF runs[r].ok = 0 THEN runs' = [runs EXCEPT ![r].at = "over"] /\ UNCHANGED channel
     ELSE Sends(r, Status("finished", 0), [runs[r] EXCEPT !.at = "over"])

\* An abort takes effect where the task waits, or a little later.
Stops(r) ==
  /\ runs[r].aborted /\ runs[r].at # "over"
  /\ runs' = [runs EXCEPT ![r].at = "over", ![r].todo = <<>>]
  /\ UNCHANGED channel

RunImport ==
  /\ \E r \in 1..Len(runs) : Begin(r) \/ NextKind(r) \/ Step(r) \/ Finish(r) \/ Stops(r)
  /\ UNCHANGED <<history, csv, app, seen, handle, db>>

-----------------------------------------------------------------------------
(* The writer and the backend                                              *)

\* The column's state machine: an import that is over stays over.
Advances(at) == column.at = "running" \/ (column.at = "requested" /\ at = "running")

Insert(rows, e) ==
  IF e.id # 0 /\ \E i \in 1..Len(rows) : rows[i].id = e.id THEN rows
  ELSE Append(rows, [chat |-> e.chat, id |-> e.id, say |-> e.say])

Drain ==
  /\ channel # <<>>
  /\ channel' = Tail(channel)
  /\ LET e == Head(channel) IN
     \/ /\ e.ev = "project"
        /\ db' = [db EXCEPT !.projects = @ \cup {e.path}] /\ UNCHANGED <<column, stream>>
     \/ /\ e.ev = "chat"
        /\ db' = IF e.path \in db.projects THEN [db EXCEPT !.chats = @ \cup {<<e.chat, e.path>>}] ELSE db
        /\ UNCHANGED <<column, stream>>
     \/ /\ e.ev = "message"
        /\ db' = IF \E c \in db.chats : c[1] = e.chat THEN [db EXCEPT !.rows = Insert(@, e)] ELSE db
        /\ UNCHANGED <<column, stream>>
     \/ /\ e.ev = "status"
        /\ IF Advances(e.at) THEN Becomes(e.at, e.n) ELSE UNCHANGED <<column, stream>>
        /\ UNCHANGED db
  /\ UNCHANGED <<history, csv, requests, seen, runs, handle>>

Next == AskImport \/ AskAbort \/ HandleStatus \/ RunImport \/ Drain

Spec == Init /\ [][Next]_vars

-----------------------------------------------------------------------------
(* Properties                                                              *)

TypeOK ==
  /\ column.at \in {"not_started", "requested", "running", "aborted", "finished"} /\ column.n \in 0..99
  /\ requests \in 0..MaxRequests /\ Len(runs) <= requests /\ handle \in 0..Len(runs)
  /\ Len(channel) <= Cap

\* What a chat shows of its imported rows.
Shown(chat) ==
  LET rows == SelectSeq(db.rows, LAMBDA r : r.chat = chat)
  IN  FlattenSeq([i \in 1..Len(rows) |-> Blocks(rows[i].say, {"user", "text", "tool"})])

Wanted(k, s) ==
  /\ s.fit = "ok" /\ s.path # NoPath /\ s.said # <<>>
  /\ k \in {"claude", "gemini"} => s.path # Worktree

Readable == {k \in ToSet(Selected) : history[k].at = "there"}

\* What a chat is to show: what its files say, file after file, except what a
\* session imported before already took (its rows have the ids of the entries).
Expected(k, chat) ==
  LET files == ByProject(SelectSeq(history[k].sessions, LAMBDA s : Wanted(k, s)))
      New(i) == SelectSeq(files[i].said, LAMBDA x :
                  ~(k = "claude" /\ \E j \in 1..(i - 1) : x \in ToSet(files[j].said)))
  IN  FlattenSeq([i \in 1..Len(files) |-> IF files[i].chat = chat THEN New(i) ELSE <<>>])

\* When the app says that the import is finished, every session it should find
\* is a chat of its project and no other is; a chat shows what its files say, in
\* order, and everything said once: of the sessions of claude that hold the same
\* entry, the first by name has it; also after an abort, for the kinds whose
\* messages have ids (the importers, emit_chat and the order in which the channel
\* keeps it all).
FinishedIsFaithful ==
  column.at = "finished" =>
    \A k \in Readable : \A s \in ToSet(history[k].sessions) :
      /\ (<<s.chat, s.path>> \in db.chats) <=>
           \E f \in ToSet(history[k].sessions) : Wanted(k, f) /\ f.chat = s.chat /\ f.path = s.path
      /\ Len(runs) = 1 \/ k \in {"claude", "cursor"} => Shown(s.chat) = Expected(k, s.chat)

\* The import sheet is not left open: when nothing moves any more an import has
\* finished, was aborted, or could read none of the kinds (run_history_import
\* waits for room rather than lose a "finished").
NoHungSheet ==
  /\ channel = <<>> /\ stream = <<>> /\ \A r \in 1..Len(runs) : runs[r].at = "over"
  /\ column.at \in {"requested", "running"}
  => \A k \in ToSet(Selected) : history[k].at = "fails"

\* "text frame first, tool_use frame second (each is its own messages row)"
\* (cursor.rs), "re-runs reconverge" (codex.rs): the same, whatever the bubbles
\* of cursor hold and whatever was imported before.
EveryFrameIsARow ==
  column.at = "finished" =>
    \A k \in Readable : \A i \in 1..Len(history[k].sessions) :
      LET s == history[k].sessions[i] IN Wanted(k, s) => Shown(s.chat) = s.said
=============================================================================
