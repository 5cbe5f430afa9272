----------------------------- MODULE Histories -----------------------------
(***************************************************************************)
(* What the history importers make of the transcripts an agent left on     *)
(* disk (import and import_session of adapters/*.rs, import_shared.rs).    *)
(*                                                                         *)
(* An entry is a line of a transcript, or a bubble of cursor's database:   *)
(* its type, its id (0 for none), the time it was written, whether it      *)
(* names that time (dated), whether a subagent wrote it (side), and its    *)
(* content, a sequence of blocks <<kind, n>>: "user", "text" and "tool"    *)
(* are what a chat shows; "synthetic" is what a CLI wrote in the user's    *)
(* name, "result", "thinking" and "meta" (gemini's housekeeping tools) are  *)
(* not for the chat.  A session is the chat id it resumes under, a project *)
(* path, what is wrong with it (fit) and its entries.  Titles, clock       *)
(* readings and the renaming of tools are left out.                        *)
(***************************************************************************)
EXTENDS Integers, Sequences, FiniteSets, SequencesExt

\* AgentKind::ALL.
ALL == <<"claude", "cursor", "codex", "hermes", "gemini", "pi">>

\* Paths are numbered in their order; these two are no project's.
NoPath == 0
Worktree == 9

\* ImportedMessage: an id, or 0 for the writer to make one.
Row(id, at, say) == [id |-> id, at |-> at, say |-> say]
RowOf(id, at, say) == IF say = <<>> THEN <<>> ELSE <<Row(id, at, say)>>
RowEach(id, at, say) == [i \in 1..Len(say) |-> Row(id, at, <<say[i]>>)]

Blocks(say, kinds) == SelectSeq(say, LAMBDA x : x[1] \in kinds)

\* The text of a user's entry, unless the CLI wrote it (is_synthetic_wrapper).
UserText(say) ==
  LET texts == Blocks(say, {"user", "synthetic"})
  IN  IF texts # <<>> /\ texts[1][1] = "synthetic" THEN <<>> ELSE texts

\* claude: a message is one row (classify_user, classify_assistant).
ClaudePrompt(e) == IF e.ty = "user" THEN RowOf(e.id, e.at, UserText(e.say)) ELSE <<>>

ClaudeAnswer(e) ==
  IF e.ty = "assistant" /\ Blocks(e.say, {"text", "tool"}) # <<>> THEN <<Row(e.id, e.at, e.say)>>
  ELSE <<>>

ClaudeRows(entries) ==
  LET kept == SelectSeq(entries, LAMBDA e : e.dated /\ ~e.side)
  IN  FlattenSeq([i \in 1..Len(kept) |-> ClaudePrompt(kept[i]) \o ClaudeAnswer(kept[i])])

\* codex: what is said is written twice, as an event and as an item, and an
\* item may hold what the CLI said in the user's name; a call is an item.
CodexEvent(e) == e.ty \in {"user_message", "agent_message"} /\ e.say # <<>>
CodexItem(e) == e.ty = "message" /\ UserText(e.say) \o Blocks(e.say, {"text"}) # <<>>
CodexCall(e) == e.ty = "function_call"

CodexRow(e) == Row(0, e.at, e.say)

\* Mutant: the items are used even if events say the same.
CodexRowsTwice(entries) ==
  LET es == SelectSeq(entries, LAMBDA e : CodexEvent(e) \/ CodexCall(e) \/ CodexItem(e))
  IN  [i \in 1..Len(es) |-> CodexRow(es[i])]

\* parse_session: items are used when no event says anything, and are then
\* put where their time is.
CodexRows(entries) ==
  LET RowsOf(T(_)) ==
        LET es == SelectSeq(entries, T) IN [i \in 1..Len(es) |-> CodexRow(es[i])]
      main == RowsOf(LAMBDA e : CodexEvent(e) \/ CodexCall(e))
      both == main \o RowsOf(CodexItem)
      times == {both[i].at : i \in 1..Len(both)}
      last == CHOOSE t \in times \cup {0} : \A u \in times : u <= t
  IN  IF SelectSeq(entries, CodexEvent) # <<>> THEN main
      ELSE FlattenSeq([t \in 1..last |-> SelectSeq(both, LAMBDA r : r.at = t)])

\* gemini: a record grows as it is written again: it stands where it came
\* first, with what it said last.  The text of a record first, then its calls.
GeminiRows(entries) ==
  LET Record(i) == entries[i].ty = "gemini"
      Same(i) == {j \in 1..Len(entries) : Record(j) /\ entries[j].id = entries[i].id}
      Starts(i) == \A j \in Same(i) : i <= j
      Latest(i) == entries[CHOOSE j \in Same(i) : \A k \in Same(i) : k <= j]
      RowsOf(i) ==
        CASE entries[i].ty = "user" /\ Blocks(entries[i].say, {"result"}) = <<>> ->
               RowOf(0, entries[i].at, UserText(entries[i].say))
          [] Record(i) /\ Starts(i) ->
               RowEach(0, Latest(i).at, Blocks(Latest(i).say, {"text"}) \o Blocks(Latest(i).say, {"tool"}))
          [] OTHER -> <<>>
  IN  FlattenSeq([i \in 1..Len(entries) |-> RowsOf(i)])

\* pi: one row for every block of text and every call.
PiRows(entries) ==
  LET RowsOf(e) ==
        CASE e.ty = "user"      -> RowOf(0, e.at, UserText(e.say))
          [] e.ty = "assistant" -> RowEach(0, e.at, Blocks(e.say, {"text", "tool"}))
          [] OTHER              -> <<>>
  IN  FlattenSeq([i \in 1..Len(entries) |-> RowsOf(entries[i])])

\* cursor: text and call of one bubble are two rows that have its id.
CursorBubble(b) ==
  CASE b.ty = "user"      -> RowOf(b.id, b.at, UserText(b.say))
    [] b.ty = "assistant" -> RowEach(b.id, b.at, Blocks(b.say, {"text"}) \o Blocks(b.say, {"tool"}))
    [] OTHER              -> <<>>

CursorRows(bubbles) == FlattenSeq([i \in 1..Len(bubbles) |-> CursorBubble(bubbles[i])])

\* The messages of a session, none for one that cannot be read or has no header
\* or no id that is a UUID, or whose bubbles' composer is missing.
Rows(k, s) ==
  IF s.fit # "ok" \/ s.path = NoPath THEN <<>>
  ELSE CASE k = "claude" -> ClaudeRows(s.entries) [] k = "codex" -> CodexRows(s.entries)
         [] k = "gemini" -> GeminiRows(s.entries) [] k = "pi" -> PiRows(s.entries)
         [] k = "cursor" -> CursorRows(s.entries)

-----------------------------------------------------------------------------
(* Walking a history                                                       *)

PutProject(path) == [ev |-> "project", path |-> path]
PutChat(chat, path) == [ev |-> "chat", chat |-> chat, path |-> path]
PutMessage(chat, row) == [ev |-> "message", chat |-> chat, id |-> row.id, say |-> row.say]
Progress(pct) == [ev |-> "progress", pct |-> pct]

\* emit_chat, for a session with something to show.
EmitChat(k, s) ==
  LET rows == Rows(k, s)
  IN  IF rows = <<>> THEN <<>>
      ELSE <<PutChat(s.chat, s.path)>> \o [i \in 1..Len(rows) |-> PutMessage(s.chat, rows[i])]

\* Which sessions an importer counts.  claude and gemini find the project first
\* (decode_project_dir, load_projects_map) and pass over worktrees; cursor
\* passes over drafts and subagents ("hidden").
Located(s) == s.path \notin {NoPath, Worktree}
Accepted(s) == s.path # NoPath /\ s.fit # "hidden"

Visited(k, s) ==
  (k \in {"claude", "gemini"} => Located(s)) /\ (k = "cursor" => Accepted(s))

\* BTreeMap: by path, and as found within one.
ByProject(sessions) ==
  FlattenSeq([p \in 1..Worktree |-> SelectSeq(sessions, LAMBDA s : s.path = p)])

\* The project of session i, before the first session that has it.
Introduce(sessions, i) ==
  IF \E j \in 1..(i - 1) : sessions[j].path = sessions[i].path THEN <<>>
  ELSE <<PutProject(sessions[i].path)>>

\* ProgressThrottle.  Bound: fewer than a hundred sessions.
Bar(i, n) == <<Progress((100 * i) \div n)>>

Telling(k, sessions) == SelectSeq(sessions, LAMBDA s : Rows(k, s) # <<>>)

\* claude, gemini and cursor: a project, then its sessions.
ImportEach(k, sessions) ==
  LET sorted == ByProject(sessions)
  IN  FlattenSeq([i \in 1..Len(sorted) |->
        Introduce(sorted, i) \o EmitChat(k, sorted[i]) \o Bar(i, Len(sorted))])

\* codex reads everything before it sends a row, and sends no empty project.
ImportCodex(sessions) ==
  LET told == ByProject(Telling("codex", sessions))
  IN  FlattenSeq([i \in 1..Len(sessions) |-> Bar(i, Len(sessions))])
      \o FlattenSeq([i \in 1..Len(told) |-> Introduce(told, i) \o EmitChat("codex", told[i])])

\* pi goes by files; a project comes with its first session that has rows.
ImportPi(sessions) ==
  LET Before(i) == Telling("pi", SubSeq(sessions, 1, i))
      Project(i) == IF Rows("pi", sessions[i]) = <<>> THEN <<>>
                    ELSE Introduce(Before(i), Len(Before(i)))
  IN  FlattenSeq([i \in 1..Len(sessions) |->
        Project(i) \o EmitChat("pi", sessions[i]) \o Bar(i, Len(sessions))])

\* Where there is nothing, the bar is full; only cursor leaves it as it is.
Import(k, found) ==
  LET sessions == SelectSeq(found, LAMBDA s : Visited(k, s))
  IN  CASE k = "hermes" \/ (sessions = <<>> /\ k # "cursor") -> <<Progress(100)>>
        [] k = "codex" -> ImportCodex(sessions)
        [] k = "pi"    -> ImportPi(sessions)
        [] OTHER       -> ImportEach(k, sessions)
=============================================================================
