------------------------------ MODULE Dialects ------------------------------
(***************************************************************************)
(* The six stream adapters: what an agent's line of output becomes         *)
(* (AgentAdapter::handle_line, adapters/*.rs and adapter.rs).              *)
(*                                                                         *)
(* A line is a record: its type, the tool call or task it is about (id),   *)
(* whether it is longer than MAX_STREAM_FRAME_BYTES (big), whether that    *)
(* call is the agent's own prune-context (own), whether a subagent wrote   *)
(* it (sub), the usage it reports (tok), the model call it names (call, 0  *)
(* for none), a session id, whether a result is good (ok) or a task's      *)
(* (task), and its content (say), a sequence of blocks <<kind, ...>>.  Of   *)
(* these "thinking", "meta" (a tool of gemini's own housekeeping) and       *)
(* "bare" (a call with nothing yet to show for it) are not for the chat.    *)
(*                                                                         *)
(* claude and cursor look for a type field anywhere in the raw line, with  *)
(* line.contains.  In a string its quotes are escaped, so none is found;   *)
(* but the arguments of a tool call are JSON of their own, and "holds" has *)
(* the types of the fields they hold.                                      *)
(*                                                                         *)
(* An adapter's state is one record, of which each dialect uses its own    *)
(* fields: text (gemini's unflushed text), cues (prune calls whose result  *)
(* is awaited), shown (codex's rendered items), calls and unnamed          *)
(* (cursor's model calls), last (the last reading sent) and resumed.       *)
(***************************************************************************)
EXTENDS Integers, Sequences, FiniteSets, SequencesExt

Dialect == {"claude", "codex", "cursor", "gemini", "pi", "hermes"}

NoSid == 0

Line(ty) ==
  [ty |-> ty, id |-> 0, big |-> FALSE, own |-> FALSE, sub |-> FALSE, tok |-> 0,
   call |-> 0, sid |-> NoSid, ok |-> TRUE, task |-> FALSE, say |-> <<>>, holds |-> {}]

\* The line contains a type field of one of these.
HasType(line, types) == line.ty \in types \/ line.holds \cap types # {}

\* AgentEvent.
Frame(say) == [k |-> "frame", say |-> say]
Tokens(n) == [k |-> "tokens", n |-> n]
Harvested(s) == [k |-> "sid", n |-> s]
Compacted(n) == [k |-> "compact", n |-> n]
Ended(task) == [k |-> "result", task |-> task]
TaskStarted(i) == [k |-> "started", n |-> i]
TaskFinished(i) == [k |-> "finished", n |-> i]
Cue == [k |-> "cue"]

Unless(c, evs) == IF c THEN <<>> ELSE evs

\* An envelope, if there is anything to put in it; or one for every block.
Envelope(say) == Unless(say = <<>>, <<Frame(say)>>)
Envelopes(say) == [i \in 1..Len(say) |-> Frame(<<say[i]>>)]

Renderable(x) == x[1] \notin {"thinking", "meta", "bare"}
Rendered(say) ==
  FoldLeft(LAMBDA kept, x : IF Renderable(x) THEN Append(kept, x) ELSE kept, <<>>, say)

\* make_adapter: one fresh adapter per turn, or per resident process.
NewAdapter(resumed) ==
  [text |-> <<>>, cues |-> {}, shown |-> {}, calls |-> {}, unnamed |-> FALSE,
   last |-> 0, resumed |-> resumed]

\* What handling a line leaves: the adapter and the events, in order.
Does(a, evs) == [a |-> a, ev |-> evs]

\* Two handlers of one line, one after the other.
Then(first, H(_)) == LET next == H(first.a) IN Does(next.a, first.ev \o next.ev)

\* LastTokensDedup: a reading like the last one is not sent.
Observe(a, n) ==
  IF n = 0 \/ n = a.last THEN Does(a, <<>>)
  ELSE Does([a EXCEPT !.last = n], <<Tokens(n)>>)

\* A prune call is awaited from its announcement to its own result.
Awaiting(a, line) == IF line.own THEN [a EXCEPT !.cues = @ \cup {line.id}] ELSE a

\* Mutant: any result is taken for the awaited one.
AwaitedAny(a, line) ==
  IF a.cues # {} THEN Does([a EXCEPT !.cues = {}], <<Cue>>) ELSE Does(a, <<>>)

Awaited(a, line) ==
  IF line.id \in a.cues THEN Does([a EXCEPT !.cues = @ \ {line.id}], <<Cue>>)
  ELSE Does(a, <<>>)

-----------------------------------------------------------------------------
(* claude: its lines are what the app shows; most are forwarded as they are *)

ClaudeUsage(a, line) ==
  IF line.ty = "assistant" /\ ~line.big /\ ~line.sub THEN Observe(a, line.tok)
  ELSE Does(a, <<>>)

ClaudePruneIds(a, line) ==
  Does(IF line.ty = "assistant" THEN Awaiting(a, line) ELSE a, <<>>)

ClaudeInit(line) == Unless(line.ty # "init", <<Harvested(line.sid)>>)

\* A task ends with its notification, or with an update that says so.  These
\* fields are parsed, and not those of a call's arguments.
ClaudeTask(line) ==
  CASE line.ty = "task_started" -> <<TaskStarted(line.id)>>
    [] line.ty = "task_notification" \/ (line.ty = "task_updated" /\ line.ok)
         -> <<TaskFinished(line.id)>>
    [] line.ty = "compact_boundary" -> <<Compacted(line.tok)>>
    [] OTHER -> <<>>

ClaudeCue(a, line) == IF line.ty = "user" THEN Awaited(a, line) ELSE Does(a, <<>>)

\* What is looked for before a result: the system lines, echoes and partial
\* output, and thinking.
ClaudeHidden(line) ==
  \/ HasType(line, {"init", "system", "compact_boundary", "task_started", "task_updated",
                     "task_notification", "user", "stream_event"})
  \/ line.ty = "assistant" /\ Rendered(line.say) = <<>>

ClaudeIsResult(line) == ~ClaudeHidden(line) /\ HasType(line, {"result"})

ClaudeResult(line) == Unless(~ClaudeIsResult(line), <<Ended(line.task)>>)

\* Not for the chat: those, and the abort result of a turn the spawner has
\* stopped (ok is FALSE).
ClaudeSkip(line) == ClaudeHidden(line) \/ (ClaudeIsResult(line) /\ ~line.ok)

HandleClaude(a, line) ==
  Then(Then(Then(ClaudeUsage(a, line), LAMBDA b : ClaudePruneIds(b, line)),
            LAMBDA b : LET cue == ClaudeCue(b, line)
                       IN Does(cue.a, ClaudeInit(line) \o ClaudeTask(line) \o cue.ev)),
       LAMBDA b : Does(b, ClaudeResult(line) \o Unless(ClaudeSkip(line), Envelope(line.say))))

-----------------------------------------------------------------------------
(* codex: an item is announced by item.started, or only by item.completed   *)

\* normalize_item_started, normalize_item_completed: a change of several files
\* is several envelopes, reasoning and plans are none, nor is a command, a
\* search or a call of which the name is missing.
CodexRender(line) == Envelopes(Rendered(line.say))

\* Mutant: an empty rendering is remembered too.
CodexDedupEarly(a, line) ==
  IF line.id \in a.shown THEN Does(a, <<>>)
  ELSE Does([a EXCEPT !.shown = @ \cup {line.id}], CodexRender(line))

CodexDedup(a, line) ==
  IF CodexRender(line) = <<>> \/ line.id \in a.shown THEN Does(a, <<>>)
  ELSE Does([a EXCEPT !.shown = @ \cup {line.id}], CodexRender(line))

CodexStarted(a, line) == CodexDedup(a, line)

CodexCompleted(a, line) ==
  Then(CodexDedup(a, line), LAMBDA b : Does(b, Unless(~line.own, <<Cue>>)))

CodexCompletedTurn(line) == Envelope(line.say) \o <<Ended(FALSE)>>
CodexFailedTurn(line) == Envelope(line.say) \o <<Ended(FALSE)>>

\* Oversize: only the lines that matter are parsed at all.
CodexDrops(line) ==
  line.big /\ line.ty \notin {"turn.completed", "turn.failed", "item.started", "item.completed"}

HandleCodex(a, line) ==
  CASE CodexDrops(line) -> Does(a, <<>>)
    [] line.ty = "thread.started" /\ ~line.big -> Does(a, <<Harvested(line.sid)>>)
    [] line.ty = "item.started" -> CodexStarted(a, line)
    [] line.ty = "item.completed" -> CodexCompleted(a, line)
    [] line.ty = "turn.completed" -> Does(a, CodexCompletedTurn(line))
    [] line.ty = "turn.failed" -> Does(a, CodexFailedTurn(line))
    [] OTHER -> Does(a, <<>>)

\* The reading comes from the rollout file, once the process has exited.
CodexPostTurn(rollout) == Unless(rollout = 0, <<Tokens(rollout)>>)

-----------------------------------------------------------------------------
(* cursor: a tool call is shown once it has completed                       *)

CursorModelCall(a, line) ==
  IF line.call = 0 THEN a ELSE [a EXCEPT !.calls = @ \cup {line.call}]

\* All blocks, if one of them can be rendered.
CursorAssistantFrame(line) == Unless(Rendered(line.say) = <<>>, Envelope(line.say))

CursorAssistant(a, line) ==
  Does(IF line.call = 0 THEN [a EXCEPT !.unnamed = TRUE] ELSE CursorModelCall(a, line),
       CursorAssistantFrame(line))

\* A call without an id or a verb is not shown.
CursorToolFrame(line) == Envelope(Rendered(line.say))

CursorCompleted(a, line) ==
  Does(CursorModelCall(a, line), CursorToolFrame(line) \o Unless(~line.own, <<Cue>>))

\* synthesize_oversize_tool_call_completed: no more than which tool it was.
CursorOversize(a, line) == Does(a, Envelope(Rendered(line.say)))

\* Mutant: the last, unnamed call is not counted.
CursorCallsNamed(a) == IF a.calls = {} THEN 1 ELSE Cardinality(a.calls)

CursorCalls(a) ==
  LET n == Cardinality(a.calls) + (IF a.unnamed THEN 1 ELSE 0) IN IF n = 0 THEN 1 ELSE n

\* The usage is summed over the calls of the turn, and the reading is their
\* mean; an error has none.
CursorResult(a, line) ==
  Does([a EXCEPT !.calls = {}, !.unnamed = FALSE],
       Unless(line.tok = 0, <<Tokens(line.tok \div CursorCalls(a))>>)
         \o Envelope(line.say) \o <<Ended(FALSE)>>)

\* The prefilter.
CursorDrops(line) == HasType(line, {"thinking", "user", "tool_call.started"})

HandleCursor(a, line) ==
  IF CursorDrops(line) THEN Does(a, <<>>)
  ELSE CASE line.ty = "tool_call.completed" /\ line.big -> CursorOversize(a, line)
         [] line.ty = "tool_call.completed" /\ ~line.big -> CursorCompleted(a, line)
         [] line.ty = "assistant" -> CursorAssistant(a, line)
         [] line.ty = "result" -> CursorResult(a, line)
         [] line.ty = "init" /\ ~line.big -> Does(a, <<Harvested(line.sid)>>)
         [] OTHER -> Does(a, <<>>)

-----------------------------------------------------------------------------
(* gemini: text comes in pieces, gathered until something else is shown     *)

FlushText(a) == Does([a EXCEPT !.text = <<>>], Envelope(a.text))

\* Mutant: the id a resumed session announces is taken for its own.
GeminiInitAlways(a, line) ==
  Then(FlushText(a), LAMBDA b : Does(b, <<Harvested(line.sid)>>))

GeminiInit(a, line) ==
  Then(FlushText(a), LAMBDA b : Does(b, Unless(b.resumed, <<Harvested(line.sid)>>)))

GeminiMessage(a, line) == Does([a EXCEPT !.text = @ \o line.say], <<>>)

\* normalize_tool_use: the tools of gemini's own housekeeping are filtered.
GeminiRender(line) == Envelope(Rendered(line.say))

\* One of those leaves the text where it is.
GeminiToolUse(a, line) ==
  LET b == Awaiting(a, line) IN
  IF GeminiRender(line) = <<>> THEN Does(b, <<>>)
  ELSE Then(FlushText(b), LAMBDA c : Does(c, GeminiRender(line)))

\* The summed input over the calls: one per tool call, and the last.
GeminiReading(line) == line.tok \div (line.call + 1)

GeminiGood(a, line) ==
  Then(Observe(a, GeminiReading(line)),
       LAMBDA b : Does(b, Envelope(line.say) \o <<Ended(FALSE)>>))

\* An error is said as text too, for the app shows no message in a result.
GeminiBad(a, line) == Does(a, <<Frame(<<line.say[1]>>), Frame(<<line.say[2]>>), Ended(FALSE)>>)

GeminiResult(a, line) ==
  Then(FlushText(a),
       LAMBDA b : IF line.ok THEN GeminiGood(b, line) ELSE GeminiBad(b, line))

GeminiDrops(line) == line.big /\ line.ty \notin {"result", "message", "tool_use"}

HandleGemini(a, line) ==
  CASE GeminiDrops(line) -> Does(a, <<>>)
    [] line.ty = "init" /\ ~line.big -> GeminiInit(a, line)
    [] line.ty = "message" -> GeminiMessage(a, line)
    [] line.ty = "tool_use" -> GeminiToolUse(a, line)
    [] line.ty = "tool_result" /\ ~line.big -> Awaited(a, line)
    [] line.ty = "result" -> GeminiResult(a, line)
    [] OTHER -> Does(a, <<>>)

-----------------------------------------------------------------------------
(* pi: a message is shown when it ends, block by block                      *)

PiSession(a, line) == Does(a, Unless(a.resumed, <<Harvested(line.sid)>>))

\* Empty text, thinking and a call without an id are passed over.
PiBlocks(line) == Envelopes(Rendered(line.say))

\* The usage of the message, when it has one.
PiReading(line) == line.tok

PiMessageEnd(a, line) ==
  LET seen == Observe(a, PiReading(line)) IN Does(seen.a, PiBlocks(line) \o seen.ev)

PiAgentEnd(line) == Envelope(line.say) \o <<Ended(FALSE)>>

PiDrops(line) == line.big /\ line.ty \notin {"agent_end", "message_end"}

HandlePi(a, line) ==
  CASE PiDrops(line) -> Does(a, <<>>)
    [] line.ty = "session" /\ ~line.big -> PiSession(a, line)
    [] line.ty = "message_end" -> PiMessageEnd(a, line)
    [] line.ty = "agent_end" -> Does(a, PiAgentEnd(line))
    [] OTHER -> Does(a, <<>>)

-----------------------------------------------------------------------------
(* hermes: the plugin writes what the app shows                             *)

\* Oversize, everything but an error goes to the chat as it is, and no more.
HermesForwards(line) == line.big /\ line.ty # "error"

HermesError(line) == Envelope(line.say) \o <<Ended(FALSE)>>

HandleHermes(a, line) ==
  CASE HermesForwards(line) -> Does(a, Envelope(line.say))
    [] line.ty = "init" /\ ~line.big -> Does(a, <<Harvested(line.sid)>>)
    [] line.ty = "context_tokens" /\ ~line.big -> Observe(a, line.tok)
    [] line.ty = "result" /\ ~line.big -> Does(a, Envelope(line.say) \o <<Ended(FALSE)>>)
    [] line.ty = "error" -> Does(a, HermesError(line))
    [] OTHER -> Does(a, Envelope(line.say))

-----------------------------------------------------------------------------
Handle(d, a, line) ==
  CASE d = "claude" -> HandleClaude(a, line)
    [] d = "codex" -> HandleCodex(a, line)
    [] d = "cursor" -> HandleCursor(a, line)
    [] d = "gemini" -> HandleGemini(a, line)
    [] d = "pi" -> HandlePi(a, line)
    [] d = "hermes" -> HandleHermes(a, line)

-----------------------------------------------------------------------------
(* prepare_command: where the agent runs, and which session it takes up.    *)
(* A chat is its project (if any), its worktree flag and the id harvested.  *)
(* How the prompt, the model and the permissions are passed is left out.    *)

\* The shell makes the chat's worktree on its first turn, and goes there.
WorktreePrefix(c) ==
  [adds |-> c.project /\ c.worktree /\ c.known = NoSid,
   cd |-> IF ~c.project THEN "home" ELSE IF c.worktree THEN "tree" ELSE "project"]

\* The CLI has a worktree flag, and makes or finds the tree itself (hermes:
\* no worktrees at all).
ProjectPrefix(c) == [adds |-> FALSE, cd |-> IF c.project THEN "project" ELSE "home"]

Command(prefix, resumes) == [adds |-> prefix.adds, cd |-> prefix.cd, resumes |-> resumes]

ClaudeCommand(c) == Command(ProjectPrefix(c), c.known)
CodexCommand(c) == Command(WorktreePrefix(c), c.known)
CursorCommand(c) == Command(ProjectPrefix(c), c.known)
GeminiCommand(c) == Command(WorktreePrefix(c), c.known)
PiCommand(c) == Command(WorktreePrefix(c), c.known)
HermesCommand(c) == Command(ProjectPrefix(c), c.known)

PrepareCommand(d, c) ==
  CASE d = "claude" -> ClaudeCommand(c)
    [] d = "codex" -> CodexCommand(c)
    [] d = "cursor" -> CursorCommand(c)
    [] d = "gemini" -> GeminiCommand(c)
    [] d = "pi" -> PiCommand(c)
    [] d = "hermes" -> HermesCommand(c)
=============================================================================
